SPECIFICATION Spec
SYMMETRY MCSymmetry
CONSTANTS
  a = a  b = b  w1 = w1  w2 = w2  d1 = d1  d2 = d2
  Key <- MCKey
  Data = {d1, d2}
  None = None
  Worker <- MCWorker
  Master = Master
  Capacity = 1
  F <- MCF
  Join <- MCJoin
  MaxQueue = 3
INVARIANTS
  CachesCoherent
  HandleComplete
  MapApplied
  CacheAccounting
