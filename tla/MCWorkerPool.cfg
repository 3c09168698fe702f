SPECIFICATION FairSpec
CONSTANTS
  w1 = w1  w2 = w2
  Worker <- MCWorker
  TaskCounts = {0, 4}
  ChunkSizes = {1, 2, 3}
  MaxCalls = 2
  MaxFailures = 2
INVARIANTS EachTaskOnce NoStaleAnswer NoSpuriousFailure CollectAlone
PROPERTIES CallEnds
CHECK_DEADLOCK FALSE
