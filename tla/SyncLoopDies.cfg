\* One exception that leaves sync_once ends sync_loop for good.
SPECIFICATION OutboxSpec
CONSTANTS
  MaxRow = 2
  MaxDay = 0
  BucketOf <- MCBucketOf
  ValueOf <- MCValueOf
  GoodRow = {1, 2}
  NoValue = NoValue
  Caller = {"loop"}
  Loop = "loop"
  Device = {}
  PoisonRow = {1}
  BatchLimit = 2
  SentRetention = 0
  KeptBackups = 1
  MaxMishaps = 0
  MaxRaises = 1
PROPERTY OutboxDrains
CHECK_DEADLOCK FALSE
