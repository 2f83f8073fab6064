CONSTANTS
  TopK = 3
  kPoints = 2
  kMqK = 2
  panels_per_block = 8
  Calls <- MCCalls
SPECIFICATION Spec
INVARIANT NearestLeaders
