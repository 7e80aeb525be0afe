SPECIFICATION Spec
CONSTANTS
  k1 = k1
  k2 = k2
  k3 = k3
  k4 = k4
  NoKey = NoKey
  writer = writer
  Writers = {writer}
  MaxThreads = 2
  CntMax = 4
  Lookers = {0}
  Keys <- MCKeys
  Buckets = {0, 1}
  Entries = 1
  NumKeySlots = 3
  Prim <- MCPrim
  Sig <- MCSig
  Alt <- MCAlt
  Sought = {k1}
  MaxReclaim = 1
  Trigger = 0
INVARIANTS HTypeOK TableHolds LookupRight PositionStable SlotsConserved
PROPERTIES GracePeriodOver CallsReturn
