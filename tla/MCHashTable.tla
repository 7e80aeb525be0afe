---------------------------- MODULE MCHashTable ----------------------------
(* Two buckets of one entry.  k2 and k4 have only bucket 1 (the signature's *)
(* low bits are 0): one is refused while the other is there, and k1, which  *)
(* also has bucket 0, makes room for them.  k3 moves k1 back.               *)
EXTENDS HashTable, TLC
CONSTANTS k1, k2, k3, k4

MCKeys == {k1, k2, k3, k4}
MCPrim == (k1 :> 1) @@ (k2 :> 1) @@ (k3 :> 0) @@ (k4 :> 1)
MCSig == (k1 :> 1) @@ (k2 :> 2) @@ (k3 :> 1) @@ (k4 :> 2)
MCAlt == [p \in (0 .. 1) \X (0 .. 2) |-> (p[1] + p[2]) % 2]
=============================================================================
