SPECIFICATION SSpec
CONSTANTS
  l1 = l1
  l2 = l2
  Lcores = {l1, l2}
  Serves <- TakeTurns
  Hz = 4
  U64 = 64
  TenantCount = 2
  MaxPolicies = 1
  DefaultRate = 24
  MaxRate = 32
  Actions <- MCActions
  Lens <- OneLen
  MaxTsc = 3
  MaxPackets = 2
PROPERTY ImplementsQos
CHECK_DEADLOCK FALSE
