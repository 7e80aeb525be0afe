------------------------------- MODULE Stats -------------------------------
(***************************************************************************)
(* The per-tenant counters and the top-K tables of dataplane/stats.c.      *)
(* dp_stats_record holds stats->lock, so it is one step here; DataPlane    *)
(* has the lock, the drop counters and the reports.                        *)
(***************************************************************************)
EXTENDS Naturals, FiniteSets

CONSTANTS
  MaxTopK,      \* DP_MAX_TOPK
  MaxTenants,   \* DP_MAX_TENANTS
  Flows,        \* the 5-tuples of the loaded rules
  TenantOf,     \* action->tenant_id of a flow
  NoKey,        \* the zeroed key of an empty slot
  Lens,         \* packet lengths
  MaxPackets    \* bound on the packets explored

Slots == 0 .. MaxTopK - 1
Counted == 0 .. MaxTenants - 1

ASSUME StatsAssumption ==
  /\ MaxTopK \in Nat \ {0} /\ MaxTenants \in Nat \ {0} /\ MaxPackets \in Nat
  /\ TenantOf \in [Flows -> Nat]
  /\ Lens \subseteq Nat
  /\ NoKey \notin Flows \cup Counted

VARIABLES
  tenants,       \* stats->tenants[]
  topk_flows, topk_tenants,
  seen           \* history: what was recorded of each flow

vars == <<tenants, topk_flows, topk_tenants, seen>>

Zero == [packets |-> 0, bytes |-> 0]
Plus(c, packets, bytes) == [packets |-> c.packets + packets, bytes |-> c.bytes + bytes]
Empty == [key |-> NoKey, count |-> Zero]

First(S) == CHOOSE i \in S : \A j \in S : i <= j

\* The slots the first loop of dp_stats_update_topk stops at, and the one the
\* second loop finds.
Stops(topk, key) == {i \in Slots : topk[i].count.packets = 0 \/ topk[i].key = key}
Least(topk) ==
  First({i \in Slots : \A j \in Slots : topk[i].count.packets <= topk[j].count.packets})

\* Mutants of UpdateTopK: >= for > in the eviction; the slot of the key is not
\* looked for.
UpdateTopKEvictsTies(topk, key, packets, bytes) ==
  LET i == First(Stops(topk, key))
      new == [key |-> key, count |-> Plus(Zero, packets, bytes)]
  IN IF Stops(topk, key) = {} THEN
          IF packets >= topk[Least(topk)].count.packets
          THEN [topk EXCEPT ![Least(topk)] = new] ELSE topk
     ELSE IF topk[i].count.packets = 0 THEN [topk EXCEPT ![i] = new]
     ELSE [topk EXCEPT ![i].count = Plus(@, packets, bytes)]
UpdateTopKNoMatch(topk, key, packets, bytes) ==
  LET free == {i \in Slots : topk[i].count.packets = 0}
  IN IF free = {} THEN topk
     ELSE [topk EXCEPT ![First(free)] = [key |-> key, count |-> Plus(Zero, packets, bytes)]]

\* dp_stats_update_topk: the table it leaves.
UpdateTopK(topk, key, packets, bytes) ==
  LET i == First(Stops(topk, key))
      new == [key |-> key, count |-> Plus(Zero, packets, bytes)]
  IN IF Stops(topk, key) = {} THEN
          IF packets > topk[Least(topk)].count.packets
          THEN [topk EXCEPT ![Least(topk)] = new] ELSE topk
     ELSE IF topk[i].count.packets = 0 THEN [topk EXCEPT ![i] = new]
     ELSE [topk EXCEPT ![i].count = Plus(@, packets, bytes)]

\* dp_stats_init.
Init ==
  /\ tenants = [t \in Counted |-> Zero]
  /\ topk_flows = [i \in Slots |-> Empty]
  /\ topk_tenants = [i \in Slots |-> Empty]
  /\ seen = [f \in Flows |-> Zero]

\* dp_stats_record, always for one packet: nothing is counted for a tenant id
\* beyond the table.
Record(f, len) ==
  LET t == TenantOf[f]
  IN /\ seen[f].packets < MaxPackets
     /\ t < MaxTenants
     /\ tenants' = [tenants EXCEPT ![t] = Plus(@, 1, len)]
     /\ topk_flows' = UpdateTopK(topk_flows, f, 1, len)
     /\ topk_tenants' = UpdateTopK(topk_tenants, t, 1, len)
     /\ seen' = [seen EXCEPT ![f] = Plus(@, 1, len)]

Next == \E f \in Flows, len \in Lens : Record(f, len)

Spec == Init /\ [][Next]_vars
-----------------------------------------------------------------------------
Count == [packets : Nat, bytes : Nat]

TypeOK ==
  /\ tenants \in [Counted -> Count]
  /\ topk_flows \in [Slots -> [key : Flows \cup {NoKey}, count : Count]]
  /\ topk_tenants \in [Slots -> [key : Counted \cup {NoKey}, count : Count]]
  /\ seen \in [Flows -> Count]

Used(topk) == {i \in Slots : topk[i].count.packets # 0}

\* A table is filled from the front and names no key twice: otherwise the loop
\* of dp_stats_update_topk, which stops at the first empty slot, would split a
\* key's count over two slots.
WellFormed(topk) ==
  /\ \A i \in Used(topk), j \in Slots : j < i => j \in Used(topk)
  /\ \A i, j \in Used(topk) : topk[i].key = topk[j].key => i = j
TablesWellFormed == WellFormed(topk_flows) /\ WellFormed(topk_tenants)

\* What a table reports of a flow is all that was recorded of it, and what it
\* reports of a tenant is what tenants[] has: a slot is never taken over by a
\* key with an older history (the eviction of dp_stats_update_topk).
TopKExact ==
  /\ \A i \in Used(topk_flows) : topk_flows[i].count = seen[topk_flows[i].key]
  /\ \A i \in Used(topk_tenants) : topk_tenants[i].count = tenants[topk_tenants[i].key]
=============================================================================
