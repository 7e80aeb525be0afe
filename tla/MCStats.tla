------------------------------ MODULE MCStats ------------------------------
(* Two slots for five flows of four tenants, one of them beyond the table.   *)
EXTENDS Stats, TLC
CONSTANTS f1, f2, f3, f4, f5

MCFlows == {f1, f2, f3, f4, f5}
MCTenantOf == (f1 :> 0) @@ (f2 :> 1) @@ (f3 :> 1) @@ (f4 :> 2) @@ (f5 :> 3)
MCLens == {1, 2}
=============================================================================
