\* Both organisations of the memory.
SPECIFICATION Spec
CONSTANTS
  NumPorts = 3
  BufferTypes = {"OneBufferPerPort", "NBuffersPerPort"}
  VoqSize <- MCVoqSize
  MaxWords = 2
  MaxOffers = 3
INVARIANTS
  TypeOK
  WithinLimits
  UsedIsWhatIsQueued
  OccupancyIsCopiesQueued
PROPERTIES
  ImplementsOrderedMulticast
