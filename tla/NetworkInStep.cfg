SPECIFICATION NetSpec
CONSTANTS
  SwitchNodes = {20}
  Topologies <- OneNetwork
  Traces <- TracesOfOne
  HashTypes = {"FullLookupTable"}
  Limits = {0}
  NumPorts = 3
  RxLatency = 2
  SchedLatency = 2
  CycleTime = 4
  HostDelay = 1
  SwitchDelay = 10
  AddrMod = 16
  IdMod = 32768
  MaxQuiet = 1
INVARIANTS
  SwitchesInStep
