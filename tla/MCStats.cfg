SPECIFICATION Spec
CONSTANTS
  f1 = f1
  f2 = f2
  f3 = f3
  f4 = f4
  f5 = f5
  NoKey = NoKey
  MaxTopK = 2
  MaxTenants = 3
  Flows <- MCFlows
  TenantOf <- MCTenantOf
  Lens <- MCLens
  MaxPackets = 2
INVARIANTS TablesWellFormed TopKExact
CHECK_DEADLOCK FALSE
