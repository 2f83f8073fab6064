CONSTANTS
  Thread = {t1, t2}
  TopK = 3
  leader_kPoints = 2
  kMqK = 2
  panels_per_block = 8
  N = 32
  fused_K = 3
  leaf_k = 2
  k = 2
  kMqFull = 3
  kPoints = 2
  Point <- FivePoints
  Dist <- Gaps
  Ham <- NearTwo
  Leaves <- Overlapping
  HammingLeaf = {FALSE, TRUE}
  NF = 16
  CHUNK_POINTS = 3
  Huge = 1000
  kBlockSize = 2
  kFew = 2
  kMany = 3
  kSurface = 3
  ALIGNMENT = 128
  FLT_MAX = 1000
  max_ddist = 1
SPECIFICATION KernelsSpec
INVARIANTS NearestLeaders KernelDots LeafListsNearest TableHasLeafEdges RotationKeepsDots CodesStandForPoints LeadersAssigned VerdictIsRight
