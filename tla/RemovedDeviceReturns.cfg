\* A device removed while it is polled.
SPECIFICATION Spec
CONSTANTS
  Device = {"meter"}
  Rule = {}
  Key = {"power"}
  AnyDevice = AnyDevice
  RuleDef <- MCRuleDef
  Value = {0, 2}
  Slot = {"e1"}
  MaxAcks = 0
  AlarmAfter = 3
  Channel = {"bus"}
  DeviceGroups <- MCDeviceGroups
  KeyGroup <- MCKeyGroup
  Period <- MCPeriod
  CycleLength = 1
  Condition <- MCCondition
  Groups = {"fast"}
  NormalEvery = 1
  SlowEvery = 1
  Faults = {}
  Operation = {"remove"}
  MaxRequests = 1
  MaxRestarts = 0
  MayRaise = FALSE
PROPERTY RemovedStaysRemoved
