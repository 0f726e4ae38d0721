\* One device, every handler, faults, restarts; no acknowledgements.
SPECIFICATION Spec
CONSTANTS
  Device = {"meter"}
  Rule = {"above"}
  Key = {"power"}
  AnyDevice = AnyDevice
  RuleDef <- MCRuleDef
  Value = {0, 2}
  Slot = {"e1"}
  MaxAcks = 0
  AlarmAfter = 2
  Channel = {"bus", "direct"}
  DeviceGroups <- MCDeviceGroups
  KeyGroup <- MCKeyGroup
  Period <- MCPeriod
  CycleLength = 2
  Condition <- MCCondition
  Groups = {"fast", "normal"}
  NormalEvery = 2
  SlowEvery = 2
  Faults = {"link", "normal"}
  Operation = {"update", "remove", "activate", "deactivate"}
  MaxRequests = 1
  MaxRestarts = 1
  MayRaise = TRUE
INVARIANTS MonitoringTypeOK HealthInv
PROPERTY RemovalSettles
