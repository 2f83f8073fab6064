CONSTANTS
  Point <- MCPoint
  Dist <- MCDist
  Ham <- MCHam
  k = 2
  Passes = 2
  FilterC = 2
  Settings <- MCSettings
  HashSlots = 4
  Tables <- MCTables
SPECIFICATION FairSpec
PROPERTIES PassesEnd
CHECK_DEADLOCK FALSE
