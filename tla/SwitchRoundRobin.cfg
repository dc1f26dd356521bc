SPECIFICATION CoreSpec
CONSTANTS
  NumPorts = 2
  BufferTypes = {"OneBufferPerPort"}
  VoqSize <- MCVoqSize
  MaxWords = 4
  MaxOffers = 3
  Addrs = {0, 4}
  HashType = "MultiBankHash"
  HashSize = 2
  Routes <- NoRoutes
  SchedulerType = "RoundRobin"
  CyclesPerWord = 1
  RxLatency = 2
  HashLatency = 4
  HashII = 3
  SchedLatency = 2
  SchedII = 1
  Traffic <- Settled
  MaxPackets = 3
  Bursts = {}
CHECK_DEADLOCK FALSE
INVARIANTS
  CoreTypeOK
  PacketsIntact
  CopiesConserved
  QuiescentIsDone
  GoesWhereLastSeen
