SPECIFICATION Spec
CONSTANTS
  Hz = 4
  U64 = 1024
  TenantCount = 2
  MaxPolicies = 2
  DefaultRate = 16
  MaxRate = 24
  Actions <- MCActions
  Lens <- MCLens
  MaxTsc = 5
  MaxPackets = 3
INVARIANTS TypeOK AdmissionBound LossPerPacket
CHECK_DEADLOCK FALSE
