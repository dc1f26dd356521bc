\* The three schedulers, each with traffic of its own.
SPECIFICATION FairSpec
CONSTANTS
  NumPorts = 3
  Arbiters = {"RoundRobin", "iSLIP"}
  Depth = 4
  Cases <- AllSchedulers
INVARIANTS
  TypeOK
  BufferPartitioned
  WordsAccountedFor
  PacketsWhole
PROPERTIES
  DeliveredIfItFits
