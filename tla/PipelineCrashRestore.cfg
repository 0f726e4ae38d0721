\* Two runs of sync_once: a lost answer, a stray, a crash or a restore, expiry.
SPECIFICATION Spec
CONSTANTS
  MaxRow = 2
  MaxDay = 2
  BucketOf <- MCBucketOf
  ValueOf <- MCValueOf
  GoodRow = {1}
  NoValue = NoValue
  Caller = {"loop", "manual"}
  Loop = "loop"
  Device = {}
  PoisonRow = {}
  BatchLimit = 2
  SentRetention = 0
  KeptBackups = 1
  MaxMishaps = 1
  MaxRaises = 0
  Bucket = {"m1"}
  RemoteDeviceId = {}
  RetentionDays = 1
  MaxRetryLag = 1
  RollupRetention = 1
INVARIANTS TypeOK AtMostOnce SentWasAccepted IInv
PROPERTY ImplementsLedger
CHECK_DEADLOCK FALSE
