CONSTANTS
  num_threads = 3
  end = 4
  BlocksPerThread = 128
SPECIFICATION FairSpec
PROPERTIES WakesASleeper
