SPECIFICATION Spec
SYMMETRY MCSymmetry
CONSTANTS
  main = main  k = k  g = g  g1 = g1  base = base  basep = basep  x = x  y = y
  w1 = w1  w2 = w2
  NoModel = NoModel
  Unread = Unread
  NoTarget = NoTarget
  Target <- MCTarget
  OverrideTarget <- MCOverrideTarget2
  CallablesToAnalyze <- MCCallablesToAnalyze2
  SkipTarget = {}
  InitialGraph <- MCInitialGraph
  Model <- CallGraphModel
  InitialModels <- MCInitialModels
  Query <- MCQuery
  Worker <- MCWorker
  MaxIterations = 4
  ErrorOnMaxIterations = FALSE
  LongLivedWorkers = FALSE
  ChunkSize = 1
  Callee <- MCCallee
  DirectMethod <- MCDirectMethod
  Queries <- CallGraphQueries
  Analyze <- CallGraphAnalyze
  AdditionalDependencies <- CallGraphAdditionalDependencies
  LessOrEqual <- CallGraphLessOrEqual
  Widen <- CallGraphWiden
  ForNewDependency <- CallGraphForNewDependency
  StripParameters <- MCStripParameters
  Parameterized <- MCParameterized2
  ArgumentOf <- MCArgumentOf2
  StubLike <- MCStubLike2
  Body <- MCBody2
INVARIANTS
  TypeOK
  NoFailure
  FixpointSound
