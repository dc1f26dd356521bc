\* Two ports, queues of up to two packets, any of the three algorithms.
SPECIFICATION FairSpec
CONSTANTS
  NumPorts = 2
  Cap = 2
INVARIANTS
  TypeOK
  OnePacketPerPort
  BoundedWait
PROPERTIES
  ExhaustiveService
  NobodyStarves
  Drains
