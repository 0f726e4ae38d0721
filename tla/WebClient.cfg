\* Every view, with one request of the user in flight where several are allowed.
SPECIFICATION ClientSpec
CONSTANTS
  Users = {"technician", "viewer"}
  RoleOf <- MCRoleOf
  Pages = {"dashboard", "live", "sync", "tailscale"}
  GenericPages = {"sync", "tailscale"}
  NoOne = NoOne
  NoTree = NoTree
  MaxVersion = 1
  PlantDevice = {"d1", "d2"}
  Channel = {"c1", "c2"}
  Profile = {"p1", "p2"}
  Supports <- MCSupports
  Nil = Nil
  MaxCalls = 1
  MaxForeign = 1
  Driver = {"both", "rtuonly"}
  Speaks <- MCSpeaks
  Measurable = {"both", "rtuonly"}
  Bus = {"lan", "rs485"}
  BusKind <- MCBusKind
  Automatic = Automatic
  Nothing = Nothing
  Unit = {"u1", "u2"}
  Candidate = {"both", "rtuonly"}
  Protocols <- MCSpeaks
  None = None
  Asset = {"a1", "a2"}
  Client = {"e1"}
  Root = Root
  Gone = Gone
  MaxRequests = 1
  MaxHandlers = 2
  MaxLate = 1
  Link = {"l1"}
  Vacant = Vacant
  MaxCommCalls = 1
  Period = {"day", "month"}
  Unloaded = Unloaded
  MaxStudioCalls = 2
  Meters = 3
  Node = {"n1", "n2", "n3"}
  Above0 = Above0
  Mains = {"n1"}
  LastPoll = 2
  MaxFaults = 1
INVARIANTS ClientTypeOK IdentityIsCurrent PageIsAllowed ReloadKeepsSession SavesAreConsistent InstallsAreComplete LastPageIsReal OffersOnlyNew ChannelsAreKept UntouchedIsKept ReportedWasConsumed UnattributedIsReal
CHECK_DEADLOCK FALSE
PROPERTIES WaitingEnds TreeCatchesUp TreeLostToRacesOnly
