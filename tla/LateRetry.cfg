\* A row is delivered again after its marker expired.
SPECIFICATION Spec
CONSTANTS
  MaxRow = 1
  MaxDay = 2
  BucketOf <- MCBucketOf
  ValueOf <- MCValueOf
  GoodRow = {1}
  NoValue = NoValue
  Caller = {"loop"}
  Loop = "loop"
  Device = {}
  PoisonRow = {}
  BatchLimit = 2
  SentRetention = 0
  KeptBackups = 1
  MaxMishaps = 1
  MaxRaises = 0
  Bucket = {"m1"}
  RemoteDeviceId = {}
  RetentionDays = 1
  MaxRetryLag = 2
  RollupRetention = 5
INVARIANT AtMostOnce
CHECK_DEADLOCK FALSE
