---------------------------- MODULE MCQosShared ----------------------------
(* Two lcores.  l1 serves both tenants and l2 also serves tenant 0, so the  *)
(* lcores take turns on the bucket of tenant 0 or collide there while l1    *)
(* may also be at tenant 1; or both serve tenant 0 alone.  With one length  *)
(* of 2 bytes a bucket of 3 bytes admits a packet, and the next one when    *)
(* the refill since then gives another byte.                                *)
EXTENDS QosShared, TLC
CONSTANTS l1, l2

MCActions ==
  {[tenant_id |-> 1, policy_id |-> 0, rate_limit_bps |-> 32],
   [tenant_id |-> 0, policy_id |-> 0, rate_limit_bps |-> 0]}
OneLen == {2}
TwoLens == {1, 2}
TakeTurns == (l1 :> {0, 1}) @@ (l2 :> {0})
SharedBucket == (l1 :> {0}) @@ (l2 :> {0})
=============================================================================
