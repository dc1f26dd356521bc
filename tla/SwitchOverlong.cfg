SPECIFICATION BurstSpec
CONSTANTS
  NumPorts = 2
  BufferTypes = {"OneBufferPerPort"}
  VoqSize <- LargeVoqSize
  MaxWords = 4
  MaxOffers = 6
  Addrs = {0, 1}
  HashType = "FullLookupTable"
  HashSize = 2
  Routes <- NoRoutes
  SchedulerType = "iSLIP"
  CyclesPerWord = 1
  RxLatency = 2
  HashLatency = 2
  HashII = 1
  SchedLatency = 6
  SchedII = 4
  Traffic <- OverlongTraffic
  MaxPackets = 6
  Bursts <- OverlongBursts
CHECK_DEADLOCK FALSE
INVARIANT
  SentOnce
