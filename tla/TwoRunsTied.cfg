CONSTANTS
  Point <- MCPoint
  Distance <- MCDistance
  Thread = {t1, t2}
  kMaxDegree = 2
  Calls <- MCTied
  kEmptyCell = kEmptyCell
  NoThread = NoThread
SPECIFICATION Spec
INVARIANT SameGraph
