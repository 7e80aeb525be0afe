SPECIFICATION Spec
CONSTANTS
  rx = rx
  rx2 = rx2
  N = 1
  Pollers = {rx}
  Serves <- OneEach
  Vids = {0, 1}
  StoreBuffer = TRUE
  Overlap = TRUE
INVARIANTS AllowedRight OpenOnDevice BurstUndisturbed
PROPERTY CallsReturn
