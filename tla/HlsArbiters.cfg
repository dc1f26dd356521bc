\* Both arbiters, packets of two words.
SPECIFICATION FairSpec
CONSTANTS
  NumPorts = 2
  Arbiters = {"RoundRobin", "iSLIP"}
  PacketWords = 2
  Cap = 2
INVARIANTS
  TypeOK
  PacketsLocked
  NobodyOverrules
  CallsMatch
  NoInterleaving
PROPERTIES
  HlsDrains
