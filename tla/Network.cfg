SPECIFICATION FairNetSpec
CONSTANTS
  SwitchNodes = {20, 21, 22, 23, 24}
  Topologies <- SmallNetworks
  Traces <- SmallTraces
  HashTypes = {"FullLookupTable", "MultiBankHash"}
  Limits = {0, 2}
  NumPorts = 3
  RxLatency = 2
  SchedLatency = 2
  CycleTime = 4
  HostDelay = 1
  SwitchDelay = 10
  AddrMod = 16
  IdMod = 32768
  MaxQuiet = 1
INVARIANTS
  NetTypeOK
  NothingInThePast
  PendingSwitchesRun
  LocalPacketsArrive
  RightPacketRightHost
  RoutesAreShortest
PROPERTIES
  RunEnds
