SPECIFICATION CoreSpec
CONSTANTS
  NumPorts = 2
  BufferTypes = {"OneBufferPerPort"}
  VoqSize <- MCVoqSize
  MaxWords = 4
  MaxOffers = 2
  Addrs = {0, 1}
  HashType = "FullLookupTable"
  HashSize = 2
  Routes <- NoRoutes
  SchedulerType = "RoundRobin"
  CyclesPerWord = 1
  RxLatency = 2
  HashLatency = 2
  HashII = 1
  SchedLatency = 2
  SchedII = 1
  Traffic <- OneWord
  MaxPackets = 2
  Bursts = {}
CHECK_DEADLOCK FALSE
INVARIANT
  PacketsIntact
