SPECIFICATION Spec
CONSTANTS
  NULL = NULL
  Sources = {"init", "m", "TARGETS", "config"}
  TARGETS = "TARGETS"
  CriticalFiles = {"config"}
  Targets <- MCTargets
  ArtifactOrder <- Order
  Qualifier <- MCQualifier
  Parent <- MCParent
  Priority <- MCPriority
  Internal <- MCInternal
  Versions = {1, 2}
  MaxChanges = 4
  MaxFailures = 2
INVARIANTS
  TrackerExact
  ModulesFresh
  IllegalOnlyIfMixed
CHECK_DEADLOCK FALSE
