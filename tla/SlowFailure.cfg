\* A group that is read every sixth cycle and always fails; the periods of the code.
SPECIFICATION FairSpec
CONSTANTS
  Device = {"meter"}
  Rule = {}
  Key = {"power"}
  AnyDevice = AnyDevice
  RuleDef <- MCRuleDef
  Value = {0, 2}
  Slot = {"e1"}
  MaxAcks = 0
  AlarmAfter = 3
  Channel = {"bus"}
  DeviceGroups <- MCDeviceGroups
  KeyGroup <- MCKeyGroup
  Period <- MCPeriod
  CycleLength = 60
  Condition <- MCCondition
  Groups = {"fast", "normal"}
  NormalEvery = 6
  SlowEvery = 60
  Faults = {"normal"}
  Operation = {}
  MaxRequests = 0
  MaxRestarts = 0
  MayRaise = FALSE
PROPERTY RepeatedFailureIsReported
