SPECIFICATION MSpec
CONSTANTS
  l1 = l1
  l2 = l2
  other = other
  o1 = o1
  o2 = o2
  o3 = o3
  o4 = o4
  o5 = o5
  o6 = o6
  Objects <- MCObjects
  Cached <- MCCached
  Others <- MCOthers
  CacheMax = 2
  Size = 2
  MaxBatch = 4
SYMMETRY Sym
INVARIANTS EachObjectOnce CacheWithinArray
PROPERTIES GetAllOrNothing FailsOnlyWhenShort
