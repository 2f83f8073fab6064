CONSTANTS
  Point <- MCPoint
  Distance <- MCDistance
  Thread = {t1, t2}
  kMaxDegree = 2
  Calls <- MCCalls
  Dist <- MCDist
  kEmptyCell = kEmptyCell
  NoThread = NoThread
SPECIFICATION SpecA
INVARIANTS TypeOK DistinctIds KeepsNearest
PROPERTIES RowsOnlyImprove AllRowsSorted ImplementsNearestTable
