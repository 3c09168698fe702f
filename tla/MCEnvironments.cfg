SPECIFICATION SavedSpec
CONSTANTS
  NULL = NULL
  None = None
  Modules = {"m", "n", "o"}
  Project = {"m", "o"}
  Contents <- MCContents
  Layers = 4
  Lazy = {2}
  Listed = 3
  Checked = 4
  Manual = {1, 3}
  Reads <- EnvironmentReads
  Produce <- EnvironmentValue
  Hash <- MCHash
  Workers = {w1, w2}
  Master = master
  MaxChanges = 3
  MaxSessions = 2
INVARIANTS
  Fresh
  OwnValueIsShared
SYMMETRY Symmetry
CHECK_DEADLOCK FALSE
