SPECIFICATION FairBurstSpec
CONSTANTS
  NumPorts = 2
  BufferTypes = {"OneBufferPerPort", "NBuffersPerPort"}
  VoqSize <- LargeVoqSize
  MaxWords = 4
  MaxOffers = 6
  Addrs = {0, 1}
  HashType = "FullLookupTable"
  HashSize = 2
  Routes <- NoRoutes
  SchedulerType = "iSLIP"
  CyclesPerWord = 1
  RxLatency = 2
  HashLatency = 2
  HashII = 1
  SchedLatency = 6
  SchedII = 4
  Traffic <- FittingTraffic
  MaxPackets = 6
  Bursts <- FittingBursts
CHECK_DEADLOCK FALSE
INVARIANTS
  ArrivalOrder
  SentOnce
PROPERTIES
  ImplementsMulticastToWire
  SwitchDrains
