\* Two runs of sync_once, a refused row, batches of one row, a mishap and an exception.
SPECIFICATION OutboxSpec
CONSTANTS
  MaxRow = 3
  MaxDay = 1
  BucketOf <- MCBucketOf
  ValueOf <- MCValueOf
  GoodRow = {1, 2}
  NoValue = NoValue
  Caller = {"loop", "manual"}
  Loop = "loop"
  Device = {"d1"}
  PoisonRow = {1}
  BatchLimit = 1
  SentRetention = 0
  KeptBackups = 1
  MaxMishaps = 1
  MaxRaises = 1
INVARIANT OutboxTypeOK
PROPERTIES PendingIsKept OutboxDrainsWhileLoopRuns
CHECK_DEADLOCK FALSE
