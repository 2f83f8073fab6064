CONSTANTS
  Worker = {w1, w2}
  Thread = {n1, n2, n3}
  nullptr = nullptr
  q_size = 3
  MaxJobs = 3
  Address = {n1, n2, n3}
  Value = {v1, v2}
  threshold = 1
  max_blocks = 6
  list_length = 2
  table_m = 9
  Leaves = 13
  est_total_leaves = 12
  block_size_ = 2
  SEQ_THRESHOLD = 3
  kPerBucket = 1
  kPerBlock = 2
  radix = 1
  base_bits = 1
  PARLAY_INTEGER_SORT_BASE_CASE_SIZE = 3
  kParallelism = 20
  SparseLimit = 4
  bucket_bits = 2
  copy_cutoff = 2
  Element = {1, 2}
  short_capacity = 1
  header = 1
  pool_sizes = {2, 4}
  MaxBlocks = 6
  MaxCells = 8
  MaxLength = 3
  MaxCalls = 4
SYMMETRY Symmetry
CHECK_DEADLOCK FALSE
SPECIFICATION Spec
INVARIANTS NoUseAfterDelete Traded BlocksInOnePlace HoldsTheKeys EachMilestoneOnce BlocksAgree SortsAndCleansUp OnceEach SequencesKeepElements
PROPERTIES ImplementsJobDeque
