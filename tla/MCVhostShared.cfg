SPECIFICATION Spec
CONSTANTS
  rx = rx
  rx2 = rx2
  N = 1
  Pollers = {rx, rx2}
  Serves <- TwoReceive
  Vids = {0, 1}
  StoreBuffer = FALSE
  Overlap = FALSE
INVARIANT BurstOnDevice
