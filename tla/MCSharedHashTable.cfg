SPECIFICATION Spec
SYMMETRY MCSymmetry
CONSTANTS
  a = a  b = b  c = c  w1 = w1  w2 = w2  d1 = d1  d2 = d2
  Worker <- MCWorker
  Key <- MCKey
  Data = {d1, d2}
  NoKey = NoKey
  NULL = NULL
  WRITE_IN_PROGRESS = WRITE_IN_PROGRESS
  Garbage = Garbage
  Size = 2
  HeapSize = 2
  Home <- MCHome
  MaxDeaths = 1
  SavedState = FALSE
CHECK_DEADLOCK FALSE
INVARIANTS
  TypeOK
  UniqueSlot
  NoGap
  AddedIsPresent
  ReadComplete
  HeapExact
  CountExact
PROPERTY
  ImplementsStore
