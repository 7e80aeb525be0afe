SPECIFICATION Spec
CONSTANTS
  a = a
  b = b
  Garbage = Garbage
  NoSlot = NoSlot
  NoAction = NoAction
  Skipped = Skipped
  Lines <- MCLines
  Packets <- MCPackets
  MaxRules = 2
  MaxPolicies = 2
  PortWords = 4
  MaxLines = 4
INVARIANTS TypeOK SlotsDisjoint PacketGetsItsRule ParseInBounds PoliciesFromRules
CHECK_DEADLOCK FALSE
