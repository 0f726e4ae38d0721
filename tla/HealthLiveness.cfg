\* One device whose faults come and go, with acknowledgements.
SPECIFICATION FairSpec
CONSTANTS
  Device = {"meter"}
  Rule = {}
  Key = {"power"}
  AnyDevice = AnyDevice
  RuleDef <- MCRuleDef
  Value = {0, 2}
  Slot = {"e1", "e2"}
  MaxAcks = 1
  AlarmAfter = 3
  Channel = {"bus"}
  DeviceGroups <- MCDeviceGroups
  KeyGroup <- MCKeyGroup
  Period <- MCPeriod
  CycleLength = 1
  Condition <- MCCondition
  Groups = {"fast"}
  NormalEvery = 1
  SlowEvery = 1
  Faults = {"link", "fast"}
  Operation = {"activate", "deactivate"}
  MaxRequests = 1
  MaxRestarts = 0
  MayRaise = FALSE
INVARIANT OneOpenEvent
PROPERTIES PersistentFailureIsReported RecoveryIsReported EveryActiveDeviceIsPolled
