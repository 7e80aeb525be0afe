----------------------------- MODULE MCVhostPmd -----------------------------
(* A receive queue and its poller, or the two lcores that poll queue 0.     *)
EXTENDS VhostPmd, TLC
CONSTANTS rx, rx2

OneEach == (rx :> 1)
TwoReceive == (rx :> 1) @@ (rx2 :> 1)
=============================================================================
