SPECIFICATION FairSpec
CONSTANTS
  f = f  g = g  h = h  og = og  oh = oh
  w1 = w1  w2 = w2
  NoModel = NoModel
  Unread = Unread
  NoTarget = NoTarget
  Target <- MCTarget
  OverrideTarget <- MCOverrideTarget
  CallablesToAnalyze <- MCCallablesToAnalyze
  SkipTarget = {}
  InitialGraph <- MCInitialGraph
  Label <- MCLabel
  OwnTaint <- MCOwnTaint
  Kills <- MCKills
  Sites <- MCSites
  Model <- MCModel
  InitialModels <- MCInitialModels
  Query <- MCQuery
  Worker <- MCWorker
  MaxIterations = 8
  ErrorOnMaxIterations = TRUE
  LongLivedWorkers = FALSE
  ChunkSize = 2
  Callee <- MCCallee
  DirectMethod <- MCDirectMethod
  Queries <- TaintQueries
  Analyze <- TaintAnalyze
  AdditionalDependencies <- TaintAdditionalDependencies
  LessOrEqual <- TaintLessOrEqual
  Widen <- TaintWiden
  ForNewDependency <- TaintForNewDependency
INVARIANTS
  FixpointSound
  ModelAvailable
  CacheCoherent
  ResultsComplete
PROPERTIES
  ModelsGrow
  Termination
