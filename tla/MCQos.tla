------------------------------- MODULE MCQos -------------------------------
(* Small instances of Qos.  Flow (1, 0) has a rate of its own, (1, 1) takes  *)
(* its policy's, (0, 2) falls back to the bucket's, tenant 2 is not served. *)
EXTENDS Qos

MCActions ==
  {[tenant_id |-> 1, policy_id |-> 0, rate_limit_bps |-> 24],
   [tenant_id |-> 1, policy_id |-> 0, rate_limit_bps |-> 0],
   [tenant_id |-> 0, policy_id |-> 1, rate_limit_bps |-> 0],
   [tenant_id |-> 2, policy_id |-> 2, rate_limit_bps |-> 16]}
MCLens == {1, 2}
=============================================================================
