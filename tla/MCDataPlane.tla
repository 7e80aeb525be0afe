---------------------------- MODULE MCDataPlane ----------------------------
(* The two lcores of scripts/run.sh (-l 0-1). *)
EXTENDS DataPlane, TLC
CONSTANTS main_lcore, worker
BothLcores == {main_lcore, worker}
=============================================================================
