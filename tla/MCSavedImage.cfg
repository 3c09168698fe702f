SPECIFICATION SavedSpec
CONSTANTS
  Slots = 3
  MaxValues = 3
  MaxSize = 3
  NULL = NULL
  LZ4_MAX_INPUT_SIZE = 4
  Revision <- Revisions
  MaxLoads = 1
INVARIANTS
  ValuesKept
  NoGarbageLeft
PROPERTIES
  LoopsEnd
