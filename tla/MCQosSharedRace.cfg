SPECIFICATION SSpec
CONSTANTS
  l1 = l1
  l2 = l2
  Lcores = {l1, l2}
  Serves <- SharedBucket
  Hz = 4
  U64 = 64
  TenantCount = 2
  MaxPolicies = 1
  DefaultRate = 16
  MaxRate = 32
  Actions <- MCActions
  Lens <- TwoLens
  MaxTsc = 3
  MaxPackets = 2
INVARIANT SharedAdmissionBound
CHECK_DEADLOCK FALSE
