\* Two broadcasts, each half as long as the buffer.
SPECIFICATION FairSpec
CONSTANTS
  NumPorts = 4
  Arbiters = {"RoundRobin"}
  Depth = 8
  Cases <- ShortBroadcasts
PROPERTIES
  AllDelivered
