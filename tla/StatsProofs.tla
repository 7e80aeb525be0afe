---------------------------- MODULE StatsProofs ----------------------------
(***************************************************************************)
(* The top-K tables, for any number of slots, flows and tenants.           *)
(*                                                                         *)
(* A table is compared with the full history h of its keys (seen for       *)
(* flows, tenants[] for tenants).  That every used slot is exact is not    *)
(* inductive alone: a key that meets an empty slot must have no history    *)
(* (Remembered), and no slot after that one may hold it (WellFormed).      *)
(***************************************************************************)
EXTENDS Stats, WellFoundedInduction, TLAPS

TableType(topk, K) == topk \in [Slots -> [key : K \cup {NoKey}, count : Count]]

Named(topk, K) == \A i \in Used(topk) : topk[i].key \in K

Exact(topk, h) == \A i \in Used(topk) : topk[i].count = h[topk[i].key]

\* A key that was recorded is in the table, unless the table is full.
Remembered(topk, K, h) ==
  \A k \in K : h[k].packets # 0 =>
    (\E i \in Used(topk) : topk[i].key = k) \/ Used(topk) = Slots

TableInv(topk, K, h) ==
  /\ TableType(topk, K) /\ Named(topk, K) /\ WellFormed(topk)
  /\ Exact(topk, h) /\ Remembered(topk, K, h)
  /\ \A k \in K : h[k].packets = 0 => h[k] = Zero

IInv ==
  /\ tenants \in [Counted -> Count] /\ seen \in [Flows -> Count]
  /\ TableInv(topk_flows, Flows, seen)
  /\ TableInv(topk_tenants, Counted, tenants)

\* A non-empty set of naturals has a least element.
LEMMA LeastNatural ==
  ASSUME NEW S \in SUBSET Nat, S # {}
  PROVE  First(S) \in S /\ \A j \in S : First(S) <= j
<1> DEFINE R == OpToRel(<, Nat)
<1>1. PICK x \in S : \A y \in S : ~(<<y, x>> \in R)
  BY NatLessThanWellFounded, WFMin
<1>2. \A y \in S : x <= y
  <2> TAKE y \in S
  <2>1. ~(y < x)
    BY <1>1 DEF OpToRel
  <2> QED BY <2>1
<1> QED BY <1>1, <1>2 DEF First

\* The second loop of dp_stats_update_topk finds a slot with the least count.
LEMMA LeastSlot ==
  ASSUME NEW K, NEW topk, TableType(topk, K)
  PROVE  Least(topk) \in Slots
<1> DEFINE C == {topk[i].count.packets : i \in Slots}
<1>1. 0 \in Slots /\ Slots \subseteq Nat
  BY StatsAssumption DEF Slots
<1>2. C \in SUBSET Nat /\ C # {}
  BY <1>1 DEF TableType, Count
<1>3. First(C) \in C /\ \A c \in C : First(C) <= c
  BY <1>2, LeastNatural
<1>4. PICK i \in Slots : topk[i].count.packets = First(C)
  BY <1>3
<1> DEFINE M == {m \in Slots : \A j \in Slots : topk[m].count.packets <= topk[j].count.packets}
<1>5. i \in M
  BY <1>3, <1>4
<1>6. First(M) \in M
  BY <1>1, <1>5, LeastNatural
<1> QED BY <1>6 DEF Least

\* One recorded packet keeps a table in step with the history.
LEMMA UpdateKeeps ==
  ASSUME NEW K, NoKey \notin K, NEW h \in [K -> Count], NEW topk, TableInv(topk, K, h),
         NEW key \in K, NEW len \in Nat
  PROVE  TableInv(UpdateTopK(topk, key, 1, len), K, [h EXCEPT ![key] = Plus(@, 1, len)])
<1> DEFINE g == [h EXCEPT ![key] = Plus(@, 1, len)]
           new == [key |-> key, count |-> Plus(Zero, 1, len)]
           S == Stops(topk, key)
           i == First(S)
           after == UpdateTopK(topk, key, 1, len)
<1>1. Slots \subseteq Nat /\ Stops(topk, key) \subseteq Slots
  BY DEF Slots, Stops
<1>2. \A j \in Slots : /\ topk[j].key \in K \cup {NoKey} /\ topk[j].count \in Count
                       /\ topk[j].count.packets \in Nat /\ topk[j].count.bytes \in Nat
  BY DEF TableInv, TableType, Count
<1>3. /\ g \in [K -> Count] /\ g[key] = Plus(h[key], 1, len) /\ g[key].packets # 0
      /\ \A k \in K : k # key => g[k] = h[k]
  BY DEF Plus, Count
<1>4. \A k \in K : g[k].packets = 0 => g[k] = Zero
  BY <1>3 DEF TableInv
<1>5. CASE S = {}
  <2>1. Used(topk) = Slots /\ \A j \in Slots : topk[j].key # key
    BY <1>5 DEF Used, Stops
  <2>2. after = topk
    <3>1. Least(topk) \in Slots
      BY LeastSlot DEF TableInv
    <3>2. topk[Least(topk)].count.packets \in Nat \ {0}
      BY <1>2, <2>1, <3>1 DEF Used
    <3> QED BY <1>5, <3>2 DEF UpdateTopK
  <2>3. Exact(topk, g)
    BY <1>3, <2>1 DEF TableInv, Exact, Named
  <2>4. Remembered(topk, K, g)
    BY <2>1 DEF Remembered
  <2> QED BY <1>4, <2>2, <2>3, <2>4 DEF TableInv
<1>6. CASE S # {} /\ topk[i].count.packets = 0
  <2>1. i \in S /\ \A j \in S : i <= j
    BY <1>1, <1>6, LeastNatural
  <2>2. i \in Slots /\ i \notin Used(topk)
    BY <1>1, <1>6, <2>1 DEF Used
  <2>3. after = [topk EXCEPT ![i] = new]
    BY <1>6 DEF UpdateTopK
  <2>4. /\ new \in [key : K \cup {NoKey}, count : Count]
        /\ new.key = key /\ new.count.packets = 1 /\ new.count = Plus(Zero, 1, len)
    BY DEF Plus, Zero, Count
  <2>5. TableType(after, K) /\ after[i] = new /\ \A j \in Slots : j # i => after[j] = topk[j]
    BY <2>2, <2>3, <2>4 DEF TableInv, TableType
  <2>6. Used(after) = Used(topk) \cup {i}
    BY <2>2, <2>4, <2>5 DEF Used
  <2>7. \A j \in Slots : j < i => j \in Used(topk) /\ topk[j].key # key
    <3> TAKE j \in Slots
    <3>1. j \in S => i <= j
      BY <2>1
    <3>2. i \in Nat /\ j \in Nat
      BY <1>1, <2>2
    <3>3. j < i => j \notin S
      <4> HIDE DEF i, S
      <4> QED BY <3>1, <3>2
    <3> QED BY <3>3 DEF Used, Stops
  <2>8. \A j \in Used(topk) : j < i
    <3> TAKE j \in Used(topk)
    <3>1. j \in Slots /\ j # i
      BY <2>2 DEF Used
    <3>2. ~(i < j)
      BY <2>2 DEF TableInv, WellFormed
    <3> HIDE DEF i
    <3>3. i \in Nat /\ j \in Nat
      BY <1>1, <2>2, <3>1
    <3> QED BY <3>1, <3>2, <3>3
  <2>9. \A j \in Used(topk) : topk[j].key # key /\ j # i /\ j \in Slots
    BY <2>2, <2>7, <2>8 DEF Used
  <2>10. h[key] = Zero
    <3>1. Used(topk) # Slots
      BY <2>2
    <3>2. h[key].packets = 0
      BY <2>9, <3>1 DEF TableInv, Remembered
    <3> QED BY <3>2 DEF TableInv
  <2>11. Named(after, K)
    BY <2>4, <2>5, <2>6, <2>9 DEF TableInv, Named
  <2>12. WellFormed(after)
    <3>1. \A j \in Used(after), m \in Slots : m < j => m \in Used(after)
      BY <2>6, <2>7 DEF TableInv, WellFormed
    <3>2. \A j, m \in Used(after) : after[j].key = after[m].key => j = m
      BY <2>4, <2>5, <2>6, <2>9 DEF TableInv, WellFormed
    <3> QED BY <3>1, <3>2 DEF WellFormed
  <2>13. Exact(after, g)
    <3>1. after[i].count = g[after[i].key]
      BY <1>3, <2>4, <2>5, <2>10
    <3>2. \A j \in Used(topk) : after[j].count = g[after[j].key]
      BY <1>3, <2>5, <2>9 DEF TableInv, Exact, Named
    <3> QED BY <2>6, <3>1, <3>2 DEF Exact
  <2>14. Remembered(after, K, g)
    <3> SUFFICES ASSUME NEW k \in K, g[k].packets # 0
                 PROVE  \E j \in Used(after) : after[j].key = k
      BY DEF Remembered
    <3>1. CASE k = key
      BY <2>4, <2>5, <2>6, <3>1
    <3>2. CASE k # key
      <4>1. Used(topk) # Slots
        BY <2>2
      <4>2. PICK j \in Used(topk) : topk[j].key = k
        BY <1>3, <3>2, <4>1 DEF TableInv, Remembered
      <4> QED BY <2>5, <2>6, <2>9, <4>2
    <3> QED BY <3>1, <3>2
  <2> QED BY <1>4, <2>5, <2>11, <2>12, <2>13, <2>14 DEF TableInv
<1>7. CASE S # {} /\ topk[i].count.packets # 0
  <2>1. i \in S
    BY <1>1, <1>7, LeastNatural
  <2>2. i \in Slots /\ i \in Used(topk) /\ topk[i].key = key
    BY <1>1, <1>7, <2>1 DEF Used, Stops
  <2>3. after = [topk EXCEPT ![i].count = Plus(@, 1, len)]
    BY <1>7 DEF UpdateTopK
  <2>4. Plus(topk[i].count, 1, len) \in Count /\ Plus(topk[i].count, 1, len).packets # 0
    BY <1>2, <2>2 DEF Plus, Count
  <2>5. /\ TableType(after, K)
        /\ after[i].key = key /\ after[i].count = Plus(topk[i].count, 1, len)
        /\ \A j \in Slots : j # i => after[j] = topk[j]
    BY <2>2, <2>3, <2>4 DEF TableInv, TableType
  <2>6. Used(after) = Used(topk) /\ \A j \in Slots : after[j].key = topk[j].key
    BY <2>2, <2>4, <2>5 DEF Used
  <2>7. Named(after, K)
    BY <2>6 DEF TableInv, Named, Used
  <2>8. WellFormed(after)
    BY <2>6 DEF TableInv, WellFormed, Used
  <2>9. Exact(after, g)
    <3>1. after[i].count = g[after[i].key]
      BY <1>3, <2>2, <2>5 DEF TableInv, Exact
    <3>2. \A j \in Used(topk) : j # i => after[j].count = g[after[j].key]
      <4> TAKE j \in Used(topk)
      <4>1. j # i => topk[j].key # key
        BY <2>2 DEF TableInv, WellFormed
      <4>2. j \in Slots /\ topk[j].key \in K
        BY DEF Used, TableInv, Named
      <4> QED BY <1>3, <2>5, <4>1, <4>2 DEF TableInv, Exact
    <3> QED BY <2>6, <3>1, <3>2 DEF Exact
  <2>10. Remembered(after, K, g)
    <3> SUFFICES ASSUME NEW k \in K, g[k].packets # 0
                 PROVE  (\E j \in Used(after) : after[j].key = k) \/ Used(after) = Slots
      BY DEF Remembered
    <3>1. CASE k = key
      BY <2>2, <2>5, <2>6, <3>1
    <3>2. CASE k # key
      BY <1>3, <2>6, <3>2 DEF TableInv, Remembered, Used
    <3> QED BY <3>1, <3>2
  <2> QED BY <1>4, <2>5, <2>7, <2>8, <2>9, <2>10 DEF TableInv
<1> QED BY <1>5, <1>6, <1>7

\* dp_stats_init establishes the invariant: empty tables, nothing recorded.
LEMMA InitIInv == Init => IInv
<1> SUFFICES ASSUME Init PROVE IInv
  OBVIOUS
<1>1. Zero \in Count /\ Zero.packets = 0
  BY DEF Zero, Count
<1>2. ASSUME NEW K, NEW h \in [K -> Count], h = [k \in K |-> Zero], NEW topk,
             topk = [j \in Slots |-> Empty]
      PROVE  TableInv(topk, K, h)
  <2>1. Empty \in [key : K \cup {NoKey}, count : Count] /\ Empty.count.packets = 0
    BY <1>1 DEF Empty
  <2>2. Used(topk) = {} /\ TableType(topk, K)
    BY <1>2, <2>1 DEF Used, TableType
  <2> QED BY <1>1, <1>2, <2>2 DEF TableInv, Named, WellFormed, Exact, Remembered
<1>3. tenants \in [Counted -> Count] /\ seen \in [Flows -> Count]
  BY <1>1 DEF Init
<1> QED BY <1>2, <1>3 DEF Init, IInv

\* A call of dp_stats_record, or a stutter, keeps it.
LEMMA StepIInv == IInv /\ [Next]_vars => IInv'
<1> SUFFICES ASSUME IInv, [Next]_vars PROVE IInv'
  OBVIOUS
<1>1. CASE UNCHANGED vars
  BY <1>1 DEF vars, IInv, TableInv, TableType, Named, WellFormed, Exact, Remembered, Used
<1>2. ASSUME NEW f \in Flows, NEW len \in Lens, Record(f, len)
      PROVE  IInv'
  <2> DEFINE t == TenantOf[f]
  <2>1. t \in Counted /\ len \in Nat
    BY <1>2, StatsAssumption DEF Record, Counted
  <2>2. NoKey \notin Flows /\ NoKey \notin Counted
    BY StatsAssumption
  <2>3. TableInv(UpdateTopK(topk_flows, f, 1, len), Flows, [seen EXCEPT ![f] = Plus(@, 1, len)])
    BY <2>1, <2>2, UpdateKeeps DEF IInv
  <2>4. TableInv(UpdateTopK(topk_tenants, t, 1, len), Counted,
                 [tenants EXCEPT ![t] = Plus(@, 1, len)])
    BY <2>1, <2>2, UpdateKeeps DEF IInv
  <2>5. TableInv(topk_flows, Flows, seen)' /\ TableInv(topk_tenants, Counted, tenants)'
    BY <1>2, <2>3, <2>4 DEF Record, TableInv, TableType, Named, WellFormed, Exact, Remembered,
                            Used
  <2>6. /\ Plus(seen[f], 1, len) \in Count
        /\ Plus(tenants[t], 1, len) \in Count
    BY <2>1 DEF IInv, Plus, Count
  <2>7. tenants' \in [Counted -> Count] /\ seen' \in [Flows -> Count]
    BY <1>2, <2>6 DEF Record, IInv
  <2> QED BY <2>5, <2>7 DEF IInv
<1> QED BY <1>1, <1>2 DEF Next

LEMMA IInvAlways == Spec => []IInv
BY InitIInv, StepIInv, PTL DEF Spec

\* Counters, table slots and their keys keep their types: no tenant id from a
\* rule indexes beyond stats->tenants[].
THEOREM TypeCorrect == Spec => []TypeOK
<1>1. IInv => TypeOK
  BY DEF IInv, TableInv, TableType, TypeOK
<1> QED BY IInvAlways, <1>1, PTL

\* Tables are filled from the front and name no key twice, although the search
\* of dp_stats_update_topk stops at the first empty slot.
THEOREM TablesCorrect == Spec => []TablesWellFormed
<1>1. IInv => TablesWellFormed
  BY DEF IInv, TableInv, TablesWellFormed
<1> QED BY IInvAlways, <1>1, PTL

\* Whatever a report prints of a flow or a tenant is its whole history.
THEOREM TopKCorrect == Spec => []TopKExact
<1>1. IInv => TopKExact
  BY DEF IInv, TableInv, Exact, TopKExact
<1> QED BY IInvAlways, <1>1, PTL
=============================================================================
