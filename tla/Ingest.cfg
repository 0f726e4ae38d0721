\* Any batches, repeated and regrouped, while markers, samples and rollups expire; a silent Edge.
SPECIFICATION IngestSpec
CONSTANTS
  MaxRow = 3
  MaxDay = 2
  BucketOf <- MCBucketOf
  ValueOf <- MCValueOf
  GoodRow = {1, 3}
  NoValue = NoValue
  Bucket = {"m1", "m2"}
  RemoteDeviceId = {"d1"}
  RetentionDays = 1
  MaxRetryLag = 1
  RollupRetention = 1
INVARIANTS RollupIsExact RawAndRollupAgree DedupInv RawSampleUnique
PROPERTY SilentEdgeGoesOffline
CHECK_DEADLOCK FALSE
