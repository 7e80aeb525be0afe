CONSTANTS
  t1 = t1
  t2 = t2
  x = x
  y = y
  Threads <- MCThreads
  Objects <- MCObjects
  Size = 4
  Capacity = 3
  Mod = 8
  Start = 6
  MaxBatch = 2
  MaxPos = 8
SPECIFICATION Spec
INVARIANTS TypeOK PositionsOrdered SlotsExclusive
PROPERTIES ImplementsFifo FailureJustified ClaimsPublished
