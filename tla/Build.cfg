CONSTANTS
  MAX_CLUSTER_SIZE = 2
  MIN_CLUSTER_SIZE = 2
  TOP_LEVEL_NUM_LEADERS = 4
  MAX_NUM_LEADERS = 4
  FractionInverse = 2
  MAX_DEPTH = 1
  CONCERNING_DEPTH = 0
  ShrinkNum = 4
  ShrinkDen = 5
  Schemes <- MCSchemes
  Point <- MCPoint
  Dist <- MCDist
  Ham <- MCHam
  k = 2
  Passes = 2
  FilterC = 2
  Settings <- MCSettings
  HashSlots = 8
  Tables <- MCTables
SPECIFICATION FairBuildSpec
INVARIANTS EveryPointCovered LeavesWellFormed NothingLeftToMerge RecursionBounded NoSelfLoops PassIsDeterminate
PROPERTIES TreesEnd RowsOnlyImprove DescentEnds
