--------------------------------- MODULE Qos ---------------------------------
(***************************************************************************)
(* The per-tenant token buckets of projects/tenant-qos (dataplane/qos.c)   *)
(* when each bucket is used by one lcore at a time: dp_qos_apply is then   *)
(* one step.  QosShared splits the same function into its loads and stores.*)
(*                                                                         *)
(* The time-stamp counter stays below U64: 2^64 ticks are centuries.       *)
(***************************************************************************)
EXTENDS QosArith

CONSTANTS
  TenantCount,   \* qos->tenant_count, from --tenants
  MaxPolicies,   \* DP_MAX_POLICIES
  DefaultRate,   \* 1000000000, the rate dp_qos_init gives every bucket
  MaxRate,       \* a bound on every configured rate, in bps
  Actions,       \* the dp_flow_action records packets are classified to
  Lens,          \* the lengths of packets (mbuf->pkt_len)
  MaxTsc,        \* bound on the time explored
  MaxPackets     \* bound on the packets explored, per tenant

Tenants == 0 .. TenantCount - 1

ASSUME QosAssumption ==
  /\ TenantCount \in Nat \ {0} /\ MaxPolicies \in Nat \ {0}
  /\ DefaultRate \in Nat \ {0} /\ MaxRate \in Nat /\ DefaultRate <= MaxRate
  /\ DefaultRate \div 8 < U64
  /\ Actions \subseteq [tenant_id : Nat, policy_id : Nat,
                        rate_limit_bps : 0 .. MaxRate]
  /\ Lens \subseteq Nat
  /\ MaxTsc \in Nat \ {0} /\ MaxTsc < U64 /\ MaxPackets \in Nat

VARIABLES
  tenants,       \* qos->tenants[]
  policies,      \* qos->policies[].rate_limit_bps
  policy_count,  \* qos->policy_count
  running,       \* FALSE while the rules are loaded
  tsc,           \* the time-stamp counter
  admitted,      \* history: the bytes let through, per tenant
  since,         \* history: the stamp of the tenant's first packet
  handled        \* history: the packets that reached the bucket, per tenant

state == <<tenants, policies, policy_count, running, tsc>>
history == <<admitted, since, handled>>
vars == <<tenants, policies, policy_count, running, tsc, admitted, since, handled>>

\* dp_qos_init.  The counter is not 0 any more when EAL is up.
Init ==
  /\ tenants = [t \in Tenants |-> [tokens_bytes   |-> DefaultRate \div 8,
                                   last_tsc       |-> 0,
                                   rate_limit_bps |-> DefaultRate]]
  /\ policies = [i \in 0 .. MaxPolicies - 1 |-> 0]
  /\ policy_count = 0
  /\ running = FALSE
  /\ tsc = 1
  /\ admitted = [t \in Tenants |-> 0]
  /\ since = [t \in Tenants |-> 0]
  /\ handled = [t \in Tenants |-> 0]

\* Mutant of UpdatePolicy: the id is not checked.
UpdatePolicyNoBound(id, rate) ==
  /\ ~running
  /\ policies' = [policies EXCEPT ![id] = rate]
  /\ policy_count' = IF id >= policy_count THEN id + 1 ELSE policy_count
  /\ UNCHANGED <<tenants, running, tsc, history>>

\* dp_qos_update_policy: called for every accepted rule, before any packet.
UpdatePolicy(id, rate) ==
  /\ ~running
  /\ id < MaxPolicies
  /\ policies' = [policies EXCEPT ![id] = rate]
  /\ policy_count' = IF id >= policy_count THEN id + 1 ELSE policy_count
  /\ UNCHANGED <<tenants, running, tsc, history>>

\* The rules are loaded and the lcores launched.
Start ==
  /\ ~running
  /\ running' = TRUE
  /\ UNCHANGED <<tenants, policies, policy_count, tsc, history>>

PolicyRate(id) == IF id < policy_count THEN policies[id] ELSE 0

\* Mutant of Bucket: a dropped packet empties the bucket.
BucketChargesDropped(a, len, now) ==
  LET b == tenants[a.tenant_id]
      tokens == Refilled(b, now)
  IN [b EXCEPT !.tokens_bytes = IF tokens < len THEN 0 ELSE tokens - len,
               !.last_tsc = now]
\* dp_qos_apply for a packet of an accepted tenant: the bucket it leaves ...
Bucket(a, len, now) ==
  LET b == tenants[a.tenant_id]
      tokens == Refilled(b, now)
  IN [tokens_bytes   |-> IF tokens < len THEN tokens ELSE tokens - len,
      last_tsc       |-> now,
      rate_limit_bps |-> EffectiveRate(a.rate_limit_bps, PolicyRate(a.policy_id),
                                       b.rate_limit_bps)]

\* ... and whether it returns 0, which sends the packet.
Admits(a, len, now) == Refilled(tenants[a.tenant_id], now) >= len

\* The stamp is read at some moment since the bucket's last packet.
Apply(a, len, now) ==
  LET t == a.tenant_id
  IN /\ running
     /\ t < TenantCount
     /\ handled[t] < MaxPackets
     /\ tenants[t].last_tsc <= now /\ 0 < now /\ now <= tsc
     /\ tenants' = [tenants EXCEPT ![t] = Bucket(a, len, now)]
     /\ admitted' = [admitted EXCEPT ![t] = IF Admits(a, len, now) THEN @ + len ELSE @]
     /\ since' = [since EXCEPT ![t] = IF tenants[t].last_tsc = 0 THEN now ELSE @]
     /\ handled' = [handled EXCEPT ![t] = @ + 1]
     /\ UNCHANGED <<policies, policy_count, running, tsc>>

Tick ==
  /\ running
  /\ tsc < MaxTsc
  /\ tsc' = tsc + 1
  /\ UNCHANGED <<tenants, policies, policy_count, running, history>>

Next ==
  \/ \E a \in Actions : UpdatePolicy(a.policy_id, a.rate_limit_bps)
  \/ Start
  \/ \E a \in Actions, len \in Lens, now \in 1 .. tsc : Apply(a, len, now)
  \/ Tick

Spec == Init /\ [][Next]_vars
-----------------------------------------------------------------------------
\* Every bucket holds words and a configured rate; stamps do not run ahead.
TypeOK ==
  /\ tenants \in [Tenants -> [tokens_bytes : 0 .. U64 - 1, last_tsc : Nat,
                              rate_limit_bps : 0 .. MaxRate]]
  /\ policies \in [0 .. MaxPolicies - 1 -> 0 .. MaxRate]
  /\ policy_count \in 0 .. MaxPolicies
  /\ running \in BOOLEAN
  /\ tsc \in Nat \ {0} /\ tsc < U64
  /\ admitted \in [Tenants -> Nat]
  /\ since \in [Tenants -> Nat]
  /\ handled \in [Tenants -> Nat]
  /\ \A t \in Tenants : since[t] <= tenants[t].last_tsc /\ tenants[t].last_tsc <= tsc

\* No tenant is ever let more bytes through than its initial burst and the
\* highest configured rate, counted from its first packet, allow - whatever
\* rates its flows switch to and however the 64-bit products wrap
\* (dp_qos_rate_to_tokens, dp_qos_apply).
AdmissionBound ==
  \A t \in Tenants :
    Hz * (tenants[t].tokens_bytes + admitted[t]) <=
      Hz * (DefaultRate \div 8) + (MaxRate \div 8) * (tenants[t].last_tsc - since[t])

\* The least rate a bucket can be refilled at.
Rates == ({DefaultRate} \cup {a.rate_limit_bps : a \in Actions}) \ {0}
MinRate == CHOOSE r \in Rates : \A s \in Rates : r <= s

Earned(t) == Hz * (DefaultRate \div 8) + (MinRate \div 8) * (tenants[t].last_tsc - since[t])

\* As long as the product does not wrap, a packet loses less than one token of
\* what the time since the previous packet earned (the integer division of
\* dp_qos_rate_to_tokens, the switch of rates in dp_qos_apply).
LossPerPacket ==
  \A t \in Tenants :
    Hz * (tenants[t].tokens_bytes + admitted[t]) + handled[t] * (Hz - 1) >= Earned(t)
=============================================================================
