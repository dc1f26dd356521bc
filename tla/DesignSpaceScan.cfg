\* Amounts around the powers of two, one of them beyond the large queue.
SPECIFICATION ScanSpec
CONSTANTS
  Architectures <- SmallArchitectures
  NumPorts = 2
  LargeVoqSize = 8
  MinVoqSize = 2
  TopN = 2
  MaxIterations = 5
  Amounts = {0, 4, 5, 9}
  Latencies = {1, 2}
  Throughputs = {1}
INVARIANTS
  SelectedAreBest
  OptimizedSuffices
CHECK_DEADLOCK FALSE
