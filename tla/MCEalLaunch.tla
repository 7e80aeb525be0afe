---------------------------- MODULE MCEalLaunch ----------------------------
(* Two workers, two jobs each: the second launch meets what the first left. *)
EXTENDS EalLaunch
CONSTANTS w1, w2
BothWorkers == {w1, w2}
=============================================================================
