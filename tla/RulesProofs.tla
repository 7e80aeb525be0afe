----------------------------- MODULE RulesProofs -----------------------------
(***************************************************************************)
(* The flow table and the policies, for any rule file and any packets.     *)
(*                                                                         *)
(* What a lookup finds depends on the order of the accepted rules: the     *)
(* invariant names, for every key in the table and for every policy, the   *)
(* last rule that wrote it.                                                *)
(***************************************************************************)
EXTENDS Rules, FiniteSetTheorems, TLAPS

\* The accepted rules of a key, and those that name a policy.
KeyHits(k) == {i \in DOMAIN accepted : Key(accepted[i]) = k}
PolicyHits(id) == {i \in DOMAIN accepted : accepted[i].policy = id}
Last(i, hits) == i \in hits /\ \A j \in hits : j <= i

TableRight ==
  \A k \in Keys :
    /\ slot[k] = NoSlot => KeyHits(k) = {}
    /\ slot[k] # NoSlot => \E i \in DOMAIN accepted :
         Last(i, KeyHits(k)) /\ actions[slot[k]] = Action(accepted[i])

PolicyRight ==
  \A id \in 0 .. MaxPolicies - 1 :
    \/ PolicyHits(id) = {} /\ policies[id] = 0
    \/ \E i \in DOMAIN accepted :
         Last(i, PolicyHits(id)) /\ policies[id] = accepted[i].rate

Verdict(p) ==
  [pkt |-> p, action |-> IF Parses(p) THEN Lookup(KeyOfPacket(p)) ELSE NoAction]
VerdictRight == verdict # Nothing => ~loading /\ \E p \in Packets : verdict = Verdict(p)

Inv ==
  /\ TypeOK /\ SlotsDisjoint /\ IsFiniteSet(Used)
  /\ TableRight /\ PolicyRight /\ VerdictRight

\* The tables and the file as a step finds them.
TypedTables ==
  /\ slot \in [Keys -> Slots \cup {NoSlot}] /\ free_slots \in Seq(Slots)
  /\ actions \in [Slots -> ActionType] /\ accepted \in Seq(RuleLines)

LEMMA KeyOfLine ==
  ASSUME NEW line \in RuleLines
  PROVE  Key(line) \in Keys /\ Action(line) \in ActionType /\ Action(line) # NoAction
BY InputAssumption DEF Keys, ActionType

LEMMA InitInv == Init => Inv
<1> SUFFICES ASSUME Init PROVE Inv
  OBVIOUS
<1> USE RulesAssumption
<1>1. TypeOK
  <2>1. free_slots \in Seq(Slots)
    BY DEF Init, Slots
  <2>2. verdict.action = NoAction
    BY DEF Init, Nothing
  <2>3. QED BY <2>1, <2>2 DEF Init, TypeOK, ActionType, Slots
<1>2. Used = {} /\ IsFiniteSet(Used) /\ Cardinality(Used) = 0
  <2>1. Used = {}
    BY DEF Init, Used
  <2>2. QED BY <2>1, FS_EmptySet
<1>3. Len(free_slots) = MaxRules
  BY DEF Init
<1>4. SlotsDisjoint
  <2>1. FreeSet \subseteq Slots
    BY DEF Init, FreeSet, Slots
  <2>2. QED BY <1>2, <1>3, <2>1 DEF Init, SlotsDisjoint
<1>5. TableRight
  BY DEF Init, TableRight, KeyHits
<1>6. PolicyRight
  BY DEF Init, PolicyRight, PolicyHits
<1>7. VerdictRight
  BY DEF Init, VerdictRight
<1>8. QED BY <1>1, <1>2, <1>4, <1>5, <1>6, <1>7 DEF Inv

\* What one more rule does to the last rule of a set.
LEMMA HitsOfKey ==
  ASSUME accepted \in Seq(RuleLines), NEW line \in RuleLines,
         accepted' = Append(accepted, line), NEW k
  PROVE  /\ Key(line) # k => KeyHits(k)' = KeyHits(k)
         /\ Key(line) = k => Last(Len(accepted'), KeyHits(k)')
         /\ accepted'[Len(accepted')] = line /\ Len(accepted') \in DOMAIN accepted'
         /\ \A i \in DOMAIN accepted : i \in DOMAIN accepted' /\ accepted'[i] = accepted[i]
<1>1. /\ Len(accepted') = Len(accepted) + 1 /\ DOMAIN accepted' = 1 .. Len(accepted) + 1
      /\ DOMAIN accepted = 1 .. Len(accepted) /\ Len(accepted) \in Nat
      /\ accepted'[Len(accepted) + 1] = line
      /\ \A i \in 1 .. Len(accepted) : accepted'[i] = accepted[i]
  OBVIOUS
<1>2. QED BY <1>1 DEF KeyHits, Last

LEMMA HitsOfPolicy ==
  ASSUME accepted \in Seq(RuleLines), NEW line \in RuleLines,
         accepted' = Append(accepted, line), NEW id
  PROVE  /\ line.policy # id => PolicyHits(id)' = PolicyHits(id)
         /\ line.policy = id => Last(Len(accepted'), PolicyHits(id)')
<1>1. /\ Len(accepted') = Len(accepted) + 1 /\ DOMAIN accepted' = 1 .. Len(accepted) + 1
      /\ DOMAIN accepted = 1 .. Len(accepted) /\ Len(accepted) \in Nat
      /\ accepted'[Len(accepted) + 1] = line
      /\ \A i \in 1 .. Len(accepted) : accepted'[i] = accepted[i]
  OBVIOUS
<1>2. QED BY <1>1 DEF PolicyHits, Last

\* dp_classify_add with an index no other key has: the rule becomes the last
\* one of its key and of its policy, and nothing else changes.
LEMMA AddRight ==
  ASSUME Inv, NEW line \in RuleLines, NEW i \in Slots, AddToSlot(line, i),
         slot' \in [Keys -> Slots \cup {NoSlot}], slot'[Key(line)] = i,
         \A k \in Keys : k # Key(line) => slot'[k] = slot[k] /\ slot[k] # i
  PROVE  TableRight' /\ PolicyRight' /\ actions' \in [Slots -> ActionType]
         /\ policies' \in [0 .. MaxPolicies - 1 -> Nat] /\ policy_count' \in 0 .. MaxPolicies
         /\ accepted' \in Seq(RuleLines)
<1> USE RulesAssumption
<1> DEFINE n == Len(accepted')
<1>1. /\ accepted \in Seq(RuleLines) /\ accepted' = Append(accepted, line)
      /\ actions \in [Slots -> ActionType] /\ actions' = [actions EXCEPT ![i] = Action(line)]
  BY DEF Inv, TypeOK, AddToSlot
<1>2. accepted' \in Seq(RuleLines)
  BY <1>1
<1>3. Key(line) \in Keys /\ Action(line) \in ActionType
  BY KeyOfLine
<1>4. actions' \in [Slots -> ActionType]
  BY <1>1, <1>3
<1>5. /\ line.policy \in Nat /\ line.rate \in Nat
      /\ policies \in [0 .. MaxPolicies - 1 -> Nat] /\ policy_count \in 0 .. MaxPolicies
      /\ UpdatePolicy(line.policy, line.rate)
  BY InputAssumption DEF Inv, TypeOK, AddToSlot
<1>6. policies' \in [0 .. MaxPolicies - 1 -> Nat] /\ policy_count' \in 0 .. MaxPolicies
  <2>1. CASE line.policy < MaxPolicies
    <3>1. policies' = [policies EXCEPT ![line.policy] = line.rate]
      BY <1>5, <2>1 DEF UpdatePolicy
    <3>2. policy_count' = IF line.policy >= policy_count THEN line.policy + 1 ELSE policy_count
      BY <1>5, <2>1 DEF UpdatePolicy
    <3>3. policies' \in [0 .. MaxPolicies - 1 -> Nat]
      BY <1>5, <3>1
    <3>4. policy_count' \in 0 .. MaxPolicies
      BY <1>5, <2>1, <3>2
    <3>5. QED BY <3>3, <3>4
  <2>2. CASE ~(line.policy < MaxPolicies)
    BY <1>5, <2>2 DEF UpdatePolicy
  <2>3. QED BY <2>1, <2>2
<1>7. TableRight'
  <2> SUFFICES ASSUME NEW k \in Keys
               PROVE  /\ slot'[k] = NoSlot => KeyHits(k)' = {}
                      /\ slot'[k] # NoSlot => \E j \in DOMAIN accepted' :
                           Last(j, KeyHits(k)') /\ actions'[slot'[k]] = Action(accepted'[j])
    BY DEF TableRight, Last
  <2>1. CASE k = Key(line)
    <3>1. slot'[k] = i /\ i # NoSlot /\ actions'[i] = Action(line)
      BY <1>1, <2>1
    <3>2. n \in DOMAIN accepted' /\ Last(n, KeyHits(k)') /\ accepted'[n] = line
      BY <1>1, <2>1, HitsOfKey
    <3>3. QED BY <3>1, <3>2
  <2>2. CASE k # Key(line)
    <3>1. slot'[k] = slot[k] /\ (slot[k] # NoSlot => actions'[slot[k]] = actions[slot[k]])
      BY <1>1, <2>2 DEF Inv, TypeOK
    <3>2. KeyHits(k)' = KeyHits(k)
      BY <1>1, <2>2, HitsOfKey
    <3>3. \A j \in DOMAIN accepted : j \in DOMAIN accepted' /\ accepted'[j] = accepted[j]
      BY <1>1, HitsOfKey
    <3>4. /\ slot[k] = NoSlot => KeyHits(k) = {}
          /\ slot[k] # NoSlot => \E j \in DOMAIN accepted :
               Last(j, KeyHits(k)) /\ actions[slot[k]] = Action(accepted[j])
      BY DEF Inv, TableRight
    <3>5. QED BY <3>1, <3>2, <3>3, <3>4
  <2>3. QED BY <2>1, <2>2
<1>8. PolicyRight'
  <2> SUFFICES ASSUME NEW id \in 0 .. MaxPolicies - 1
               PROVE  \/ PolicyHits(id)' = {} /\ policies'[id] = 0
                      \/ \E j \in DOMAIN accepted' :
                           Last(j, PolicyHits(id)') /\ policies'[id] = accepted'[j].rate
    BY DEF PolicyRight, Last
  <2>1. CASE line.policy = id
    <3>1. policies'[id] = line.rate
      BY <1>5, <2>1 DEF UpdatePolicy
    <3>2. n \in DOMAIN accepted' /\ accepted'[n] = line
      BY <1>1, HitsOfKey
    <3>3. Last(n, PolicyHits(id)')
      BY <1>1, <2>1, HitsOfPolicy
    <3>4. QED BY <3>1, <3>2, <3>3
  <2>2. CASE line.policy # id
    <3>1. policies'[id] = policies[id]
      BY <1>5, <2>2 DEF UpdatePolicy
    <3>2. PolicyHits(id)' = PolicyHits(id)
      BY <1>1, <2>2, HitsOfPolicy
    <3>3. \A j \in DOMAIN accepted : j \in DOMAIN accepted' /\ accepted'[j] = accepted[j]
      BY <1>1, HitsOfKey
    <3>4. \/ PolicyHits(id) = {} /\ policies[id] = 0
          \/ \E j \in DOMAIN accepted :
               Last(j, PolicyHits(id)) /\ policies[id] = accepted[j].rate
      BY DEF Inv, PolicyRight
    <3>5. QED BY <3>1, <3>2, <3>3, <3>4
  <2>3. QED BY <2>1, <2>2
<1>9. QED BY <1>2, <1>4, <1>6, <1>7, <1>8

\* While the file is read no packet has a verdict.
LEMMA NoVerdictYet ==
  ASSUME Inv, loading, UNCHANGED verdict
  PROVE  VerdictRight' /\ verdict'.action \in ActionType
<1>1. verdict = Nothing
  BY DEF Inv, VerdictRight
<1>2. QED BY <1>1 DEF VerdictRight, Nothing, ActionType

LEMMA AddKnownKeeps ==
  ASSUME Inv, NEW line \in RuleLines, AddKnown(line)
  PROVE  Inv'
<1> USE RulesAssumption
<1>1. slot[Key(line)] \in Slots /\ Key(line) \in Keys
  BY KeyOfLine DEF Inv, TypeOK, AddKnown
<1>2. slot' = slot /\ free_slots' = free_slots /\ AddToSlot(line, slot[Key(line)])
  BY DEF AddKnown
<1>3. \A k \in Keys : k # Key(line) => slot[k] # slot[Key(line)]
  BY <1>1 DEF Inv, SlotsDisjoint
<1>4. /\ TableRight' /\ PolicyRight' /\ actions' \in [Slots -> ActionType]
      /\ policies' \in [0 .. MaxPolicies - 1 -> Nat] /\ policy_count' \in 0 .. MaxPolicies
      /\ accepted' \in Seq(RuleLines)
  BY <1>1, <1>2, <1>3, AddRight DEF Inv, TypeOK
<1>5. loading /\ verdict' = verdict /\ loading' = loading /\ lines' \in 0 .. MaxLines
  BY <1>2 DEF AddKnown, ReadLine, AddToSlot, Inv, TypeOK
<1>6. VerdictRight' /\ verdict'.action \in ActionType
  BY <1>5, NoVerdictYet
<1>7. SlotsDisjoint' /\ IsFiniteSet(Used)'
  BY <1>2 DEF Inv, SlotsDisjoint, Used, FreeSet
<1>8. TypeOK'
  BY <1>2, <1>4, <1>5, <1>6 DEF Inv, TypeOK
<1>9. QED BY <1>4, <1>6, <1>7, <1>8 DEF Inv

LEMMA AddNewKeeps ==
  ASSUME Inv, NEW line \in RuleLines, AddNew(line)
  PROVE  Inv'
<1> USE RulesAssumption
<1> DEFINE i == Head(free_slots)
           k0 == Key(line)
<1>1. /\ free_slots \in Seq(Slots) /\ free_slots # <<>>
      /\ slot \in [Keys -> Slots \cup {NoSlot}] /\ slot[k0] = NoSlot
      /\ slot' = [slot EXCEPT ![k0] = i] /\ free_slots' = Tail(free_slots)
      /\ AddToSlot(line, i)
  BY DEF Inv, TypeOK, AddNew
<1>2. /\ i \in Slots /\ i = free_slots[1] /\ 1 \in DOMAIN free_slots
      /\ Len(free_slots') = Len(free_slots) - 1 /\ Len(free_slots) \in Nat
      /\ DOMAIN free_slots' = 1 .. Len(free_slots) - 1 /\ DOMAIN free_slots = 1 .. Len(free_slots)
      /\ \A j \in 1 .. Len(free_slots) - 1 : free_slots'[j] = free_slots[j + 1]
      /\ free_slots' \in Seq(Slots)
  BY <1>1
<1>3. k0 \in Keys /\ i \in FreeSet
  BY <1>2, KeyOfLine DEF FreeSet
<1>4. \A k \in Keys : slot[k] # i
  BY <1>3 DEF Inv, SlotsDisjoint
<1>5. /\ slot' \in [Keys -> Slots \cup {NoSlot}] /\ slot'[k0] = i
      /\ \A k \in Keys : k # k0 => slot'[k] = slot[k]
  BY <1>1, <1>2, <1>3
<1>6. /\ TableRight' /\ PolicyRight' /\ actions' \in [Slots -> ActionType]
      /\ policies' \in [0 .. MaxPolicies - 1 -> Nat] /\ policy_count' \in 0 .. MaxPolicies
      /\ accepted' \in Seq(RuleLines)
  BY <1>1, <1>2, <1>4, <1>5, AddRight
<1>7. loading /\ verdict' = verdict /\ loading' = loading /\ lines' \in 0 .. MaxLines
  BY <1>1 DEF AddNew, ReadLine, AddToSlot, Inv, TypeOK
<1>8. VerdictRight' /\ verdict'.action \in ActionType
  BY <1>7, NoVerdictYet
<1>9. TypeOK'
  BY <1>2, <1>5, <1>6, <1>7, <1>8 DEF Inv, TypeOK
<1>10. IsFiniteSet(Used)' /\ Cardinality(Used)' = Cardinality(Used) + 1
  <2>1. Used' = Used \cup {k0} /\ k0 \notin Used
    BY <1>1, <1>2, <1>3, <1>5 DEF Used
  <2>2. QED BY <2>1, FS_AddElement DEF Inv
<1>11. SlotsDisjoint'
  <2>1. FreeSet' \subseteq FreeSet \ {i}
    <3>1. \A j \in DOMAIN free_slots' : free_slots'[j] \in FreeSet
      BY <1>2 DEF FreeSet
    <3>2. \A j \in DOMAIN free_slots' : free_slots'[j] # i
      BY <1>2 DEF Inv, SlotsDisjoint
    <3>3. QED BY <3>1, <3>2 DEF FreeSet
  <2>2. \A k, l \in Keys : slot'[k] = slot'[l] /\ slot'[k] # NoSlot => k = l
    BY <1>4, <1>5 DEF Inv, SlotsDisjoint
  <2>3. \A j, l \in DOMAIN free_slots' : free_slots'[j] = free_slots'[l] => j = l
    <3>1. \A j, l \in DOMAIN free_slots : free_slots[j] = free_slots[l] => j = l
      BY DEF Inv, SlotsDisjoint
    <3>2. TAKE j, l \in DOMAIN free_slots'
    <3>3. HAVE free_slots'[j] = free_slots'[l]
    <3>4. free_slots[j + 1] = free_slots[l + 1]
      BY <1>2, <3>3
    <3>5. j \in Int /\ l \in Int /\ j + 1 \in DOMAIN free_slots /\ l + 1 \in DOMAIN free_slots
      BY <1>2
    <3>6. j + 1 = l + 1
      BY <3>1, <3>4, <3>5
    <3>7. QED BY <3>5, <3>6
  <2>4. \A k \in Keys : slot'[k] \notin FreeSet'
    BY <1>5, <2>1 DEF Inv, SlotsDisjoint
  <2>5. Len(free_slots') + Cardinality(Used)' = MaxRules
    <3>1. Cardinality(Used) \in Nat
      BY FS_CardinalityType DEF Inv
    <3>2. QED BY <1>2, <1>10, <3>1 DEF Inv, SlotsDisjoint
  <2>6. QED BY <2>2, <2>3, <2>4, <2>5 DEF SlotsDisjoint
<1>12. QED BY <1>6, <1>8, <1>9, <1>10, <1>11 DEF Inv

\* The position at which a rotated sequence of n has what was at the next one.
Turn(n, j) == IF j = n THEN 1 ELSE j + 1
LEMMA TurnOnce ==
  ASSUME NEW n \in Nat \ {0}
  PROVE  /\ \A j \in 1 .. n : Turn(n, j) \in 1 .. n
         /\ \A j, l \in 1 .. n : Turn(n, j) = Turn(n, l) => j = l
         /\ \A j \in 1 .. n : \E l \in 1 .. n : Turn(n, l) = j
<1>1. \A j \in 1 .. n : Turn(n, j) \in 1 .. n
  BY DEF Turn
<1>2. \A j, l \in 1 .. n : Turn(n, j) = Turn(n, l) => j = l
  BY DEF Turn
<1>3. ASSUME NEW j \in 1 .. n PROVE \E l \in 1 .. n : Turn(n, l) = j
  <2>1. CASE j = 1
    <3>1. n \in 1 .. n /\ Turn(n, n) = 1
      BY DEF Turn
    <3>2. QED BY <2>1, <3>1
  <2>2. CASE j # 1
    <3>1. j - 1 \in 1 .. n /\ Turn(n, j - 1) = j
      BY <2>2 DEF Turn
    <3>2. QED BY <3>1
  <2>3. QED BY <2>1, <2>2
<1>4. QED BY <1>1, <1>2, <1>3

\* A head that moves to the tail changes neither the elements of a sequence nor
\* how often they occur.
Rotate(s) == Append(Tail(s), Head(s))
Different(s) == \A j, l \in DOMAIN s : s[j] = s[l] => j = l
Elements(s) == {s[j] : j \in DOMAIN s}
LEMMA Rotated ==
  ASSUME NEW S, NEW s \in Seq(S), s # <<>>, Different(s)
  PROVE  /\ Rotate(s) \in Seq(S) /\ Len(Rotate(s)) = Len(s)
         /\ Different(Rotate(s)) /\ Elements(Rotate(s)) = Elements(s)
<1> DEFINE r == Rotate(s)
<1>1. PICK n \in Nat \ {0} : n = Len(s)
  OBVIOUS
<1>2. /\ DOMAIN s = 1 .. n /\ DOMAIN r = 1 .. n /\ Len(r) = n /\ r \in Seq(S)
      /\ r[n] = s[1] /\ \A j \in 1 .. n - 1 : r[j] = s[j + 1]
  BY <1>1 DEF Rotate
<1> HIDE DEF r
<1>3. \A j \in 1 .. n : r[j] = s[Turn(n, j)]
  <2> TAKE j \in 1 .. n
  <2>1. CASE j = n BY <1>2, <2>1 DEF Turn
  <2>2. CASE j # n
    <3>1. j \in 1 .. n - 1
      BY <2>2
    <3>2. QED BY <1>2, <2>2, <3>1 DEF Turn
  <2>3. QED BY <2>1, <2>2
<1>4. Different(r)
  <2> USE DEF Different
  <2> TAKE j, l \in DOMAIN r
  <2>1. HAVE r[j] = r[l]
  <2>2. /\ j \in 1 .. n /\ l \in 1 .. n
        /\ Turn(n, j) \in DOMAIN s /\ Turn(n, l) \in DOMAIN s
    BY <1>2, TurnOnce
  <2>3. s[Turn(n, j)] = s[Turn(n, l)]
    BY <1>3, <2>1, <2>2
  <2>4. Turn(n, j) = Turn(n, l)
    BY <2>2, <2>3
  <2>5. QED BY <2>2, <2>4, TurnOnce
<1>5. Elements(r) = Elements(s)
  <2>1. ASSUME NEW j \in 1 .. n PROVE r[j] \in {s[l] : l \in 1 .. n}
    <3>1. Turn(n, j) \in 1 .. n
      BY TurnOnce
    <3>2. QED BY <1>3, <3>1
  <2>2. ASSUME NEW j \in 1 .. n PROVE s[j] \in {r[l] : l \in 1 .. n}
    <3>1. PICK l \in 1 .. n : Turn(n, l) = j
      BY TurnOnce
    <3>2. QED BY <1>3, <3>1
  <2>3. {r[l] : l \in 1 .. n} = {s[l] : l \in 1 .. n}
    BY <2>1, <2>2
  <2>4. QED BY <1>2, <2>3 DEF Elements
<1>6. QED BY <1>1, <1>2, <1>4, <1>5 DEF r

\* The slot that was taken goes from the head of the ring to its tail.
LEMMA AddFailsKeeps ==
  ASSUME Inv, NEW line \in RuleLines, AddFails(line)
  PROVE  Inv'
<1> USE RulesAssumption
<1>1. /\ loading /\ loading' = FALSE /\ lines' \in 0 .. MaxLines
      /\ UNCHANGED <<slot, actions, policies, policy_count, accepted, verdict>>
  BY DEF AddFails, ReadLine, Inv, TypeOK
<1>2. VerdictRight' /\ verdict'.action \in ActionType
  BY <1>1, NoVerdictYet
<1>3. /\ free_slots' \in Seq(Slots) /\ Len(free_slots') = Len(free_slots)
      /\ \A j, l \in DOMAIN free_slots' : free_slots'[j] = free_slots'[l] => j = l
      /\ FreeSet' = FreeSet
  <2>0. free_slots \in Seq(Slots)
    BY DEF Inv, TypeOK
  <2>1. CASE free_slots = <<>>
    <3>1. free_slots' = free_slots
      BY <2>1 DEF AddFails
    <3>2. QED BY <2>0, <3>1 DEF Inv, SlotsDisjoint, FreeSet
  <2>2. CASE free_slots # <<>>
    <3>1. free_slots' = Rotate(free_slots)
      BY <2>2 DEF AddFails, Rotate
    <3>2. Different(free_slots)
      BY DEF Inv, SlotsDisjoint, Different
    <3>3. /\ free_slots' \in Seq(Slots) /\ Len(free_slots') = Len(free_slots)
          /\ Different(free_slots') /\ Elements(free_slots') = Elements(free_slots)
      BY <2>0, <2>2, <3>1, <3>2, Rotated
    <3>4. QED BY <3>3 DEF Different, Elements, FreeSet
  <2>3. QED BY <2>1, <2>2
<1>4. SlotsDisjoint' /\ IsFiniteSet(Used)'
  BY <1>1, <1>3 DEF Inv, SlotsDisjoint, Used
<1>5. TypeOK'
  BY <1>1, <1>2, <1>3 DEF Inv, TypeOK
<1>6. TableRight' /\ PolicyRight'
  BY <1>1 DEF Inv, TableRight, PolicyRight, KeyHits, PolicyHits, Last
<1>7. QED BY <1>2, <1>4, <1>5, <1>6 DEF Inv

LEMMA ReceiveKeeps ==
  ASSUME Inv, NEW p \in Packets, Receive(p)
  PROVE  Inv'
<1>1. /\ UNCHANGED <<loading, lines, slot, free_slots, actions, policies, policy_count, accepted>>
      /\ ~loading /\ verdict' = Verdict(p)
  BY DEF Receive, Verdict, table
<1>2. Lookup(KeyOfPacket(p)) \in ActionType
  BY RulesAssumption DEF Lookup, Inv, TypeOK, ActionType
<1>3. verdict'.action \in ActionType
  BY <1>1, <1>2 DEF Verdict, ActionType
<1>4. VerdictRight'
  BY <1>1 DEF VerdictRight, Verdict, Lookup
<1>5. TypeOK' /\ SlotsDisjoint' /\ IsFiniteSet(Used)'
  BY <1>1, <1>3 DEF Inv, TypeOK, SlotsDisjoint, Used, FreeSet
<1>6. TableRight' /\ PolicyRight'
  BY <1>1 DEF Inv, TableRight, PolicyRight, KeyHits, PolicyHits, Last
<1>7. QED BY <1>4, <1>5, <1>6 DEF Inv

\* A line that is skipped, the end of the file, and steps that change nothing.
LEMMA TablesStay ==
  ASSUME Inv, UNCHANGED <<slot, free_slots, actions, policies, policy_count, accepted, verdict>>,
         lines' \in 0 .. MaxLines, loading' \in BOOLEAN, loading' => loading
  PROVE  Inv'
<1>1. TypeOK' /\ SlotsDisjoint' /\ IsFiniteSet(Used)'
  BY DEF Inv, TypeOK, SlotsDisjoint, Used, FreeSet
<1>2. TableRight' /\ PolicyRight'
  BY DEF Inv, TableRight, PolicyRight, KeyHits, PolicyHits, Last
<1>3. VerdictRight'
  BY DEF Inv, TypeOK, VerdictRight, Verdict, Lookup
<1>4. QED BY <1>1, <1>2, <1>3 DEF Inv

LEMMA NextKeeps == Inv /\ [Next]_vars => Inv'
<1> SUFFICES ASSUME Inv, [Next]_vars PROVE Inv'
  OBVIOUS
<1>1. CASE SkipLine
  <2>1. lines' \in 0 .. MaxLines
    BY <1>1, RulesAssumption DEF SkipLine, ReadLine, Inv, TypeOK
  <2>2. QED BY <1>1, <2>1, TablesStay DEF SkipLine, table, Inv, TypeOK
<1>2. ASSUME NEW line \in RuleLines, AddKnown(line) PROVE Inv'
  BY <1>2, AddKnownKeeps
<1>3. ASSUME NEW line \in RuleLines, AddNew(line) PROVE Inv'
  BY <1>3, AddNewKeeps
<1>4. ASSUME NEW line \in RuleLines, AddFails(line) PROVE Inv'
  BY <1>4, AddFailsKeeps
<1>5. CASE EndOfFile
  BY <1>5, TablesStay DEF EndOfFile, table, Inv, TypeOK
<1>6. ASSUME NEW p \in Packets, Receive(p) PROVE Inv'
  BY <1>6, ReceiveKeeps
<1>7. CASE UNCHANGED vars
  BY <1>7, TablesStay DEF vars, table, Inv, TypeOK
<1>8. QED BY <1>1, <1>2, <1>3, <1>4, <1>5, <1>6, <1>7 DEF Next

LEMMA InvHolds == Spec => []Inv
BY InitInv, NextKeeps, PTL DEF Spec

\* The loader and the classifier keep their types: slots stay below the size of
\* the table, policy ids below that of theirs (dp_qos_update_policy).
THEOREM TypeCorrect == Spec => []TypeOK
<1>1. Inv => TypeOK
  BY DEF Inv
<1>2. QED BY InvHolds, <1>1, PTL

\* No two flows share an action and no slot is lost, for any size of the table
\* and any collisions (dp_classify_add).
THEOREM SlotsCorrect == Spec => []SlotsDisjoint
<1>1. Inv => SlotsDisjoint
  BY DEF Inv
<1>2. QED BY InvHolds, <1>1, PTL

\* The largest of a set of indexes is the one LastAction chooses.
LEMMA LastIsChosen ==
  ASSUME NEW S \in SUBSET Int, NEW i \in S, \A j \in S : j <= i
  PROVE  (CHOOSE m \in S : \A j \in S : j <= m) = i
<1> DEFINE c == CHOOSE m \in S : \A j \in S : j <= m
<1>1. c \in S /\ \A j \in S : j <= c
  OBVIOUS
<1> HIDE DEF c
<1>2. i <= c /\ c <= i /\ i \in Int /\ c \in Int
  BY <1>1
<1>3. c = i
  BY <1>2
<1>4. QED BY <1>3 DEF c

\* A policy has the rate of the last rule that names it (dp_cli_load_rules).
THEOREM PoliciesCorrect == Spec => []PoliciesFromRules
<1>1. Inv => PoliciesFromRules
  <2> SUFFICES ASSUME Inv, NEW id \in 0 .. MaxPolicies - 1
               PROVE  LET names(line) == line.policy = id
                      IN policies[id] = IF LastAction(names) = NoAction THEN 0
                                        ELSE LastAction(names).rate
    BY DEF PoliciesFromRules
  <2> DEFINE hits == PolicyHits(id)
             last == IF hits = {} THEN NoAction
                     ELSE Action(accepted[CHOOSE i \in hits : \A j \in hits : j <= i])
  <2>1. policies[id] = IF last = NoAction THEN 0 ELSE last.rate
    <3>1. CASE hits = {} /\ policies[id] = 0
      BY <3>1
    <3>2. ASSUME NEW i \in DOMAIN accepted, Last(i, hits), policies[id] = accepted[i].rate
          PROVE  policies[id] = IF last = NoAction THEN 0 ELSE last.rate
      <4>1. accepted \in Seq(RuleLines) /\ hits \in SUBSET Int
        BY DEF Inv, TypeOK, PolicyHits
      <4>2. (CHOOSE m \in hits : \A j \in hits : j <= m) = i /\ hits # {}
        BY <3>2, <4>1, LastIsChosen DEF Last
      <4>3. last = Action(accepted[i])
        BY <4>2
      <4>4. Action(accepted[i]) # NoAction
        BY <4>1, KeyOfLine
      <4>5. QED BY <3>2, <4>3, <4>4 DEF Action
    <3>3. QED BY <3>1, <3>2 DEF Inv, PolicyRight
  <2>2. QED BY <2>1 DEF LastAction, PolicyHits
<1>2. QED BY InvHolds, <1>1, PTL

\* No byte behind a packet is read, whatever its length and its header fields
\* (dp_parse_5tuple).
THEOREM ParseCorrect == Spec => []ParseInBounds
<1>1. Inv => ParseInBounds
  <2> SUFFICES ASSUME Inv, verdict # Nothing PROVE ReadEnd(verdict.pkt) <= verdict.pkt.len
    BY DEF ParseInBounds
  <2>1. PICK p \in Packets : verdict.pkt = p
    BY DEF Inv, VerdictRight, Verdict
  <2> SUFFICES ReadEnd(p) <= p.len
    BY <2>1
  <2>2. p.len \in Nat /\ p.ihl \in 0 .. 15 /\ Ihl(p) \in Nat
    BY InputAssumption DEF Ihl
  <2>3. CASE ~HasEther(p)
    BY <2>2, <2>3 DEF ReadEnd, HasEther, Parses
  <2>4. CASE HasEther(p) /\ ~(IsIpv4(p) /\ HasIpv4(p))
    BY <2>2, <2>4 DEF ReadEnd, HasEther, Parses, EtherHdr
  <2>5. CASE HasEther(p) /\ IsIpv4(p) /\ HasIpv4(p) /\ ~Parses(p)
    BY <2>2, <2>5 DEF ReadEnd, HasIpv4, EtherHdr, Ipv4Hdr
  <2>6. CASE Parses(p)
    <3>1. L4Hdr[p.proto] \in Nat /\ L4Hdr[p.proto] >= 4
      BY <2>6 DEF Parses, HasL4, L4Hdr
    <3>2. ReadEnd(p) = PortsOffset(p) + 4
      BY <2>6 DEF ReadEnd, Parses
    <3>3. QED BY <2>2, <2>6, <3>1, <3>2 DEF Parses, HasL4, PortsOffset, L4Offset, EtherHdr
  <2>7. QED BY <2>3, <2>4, <2>5, <2>6
<1>2. QED BY InvHolds, <1>1, PTL

\* The code accepts exactly the packets it is meant for, and finds their ports.
LEMMA ParsesComplete ==
  ASSUME NEW p \in Packets
  PROVE  /\ Parses(p) <=> Complete(p)
         /\ KeyOfPacket(p) = [addr |-> p.addr, proto |-> p.proto, ports |-> p.ports]
<1>1. p.len \in Nat /\ p.ihl \in 0 .. 15
  BY InputAssumption
<1>2. Ihl(p) = 4 * p.ihl
  <2>1. p.ihl % 16 = p.ihl
    BY <1>1
  <2>2. QED BY <1>1, <2>1 DEF Ihl
<1>3. KeyOfPacket(p) = [addr |-> p.addr, proto |-> p.proto, ports |-> p.ports]
  BY <1>1, <1>2 DEF KeyOfPacket, PortsOffset, L4Offset, EtherHdr
<1>4. DOMAIN L4Hdr = {"udp", "tcp"} /\ L4Hdr["udp"] = 8 /\ L4Hdr["tcp"] = 20
  BY DEF L4Hdr
<1>5. Parses(p) <=> Complete(p)
  BY <1>1, <1>2, <1>4
     DEF Parses, Complete, HasEther, IsIpv4, HasIpv4, HasOptions, HasL4, L4Offset, EtherHdr, Ipv4Hdr
<1>6. QED BY <1>3, <1>5

\* A complete packet gets the action of the last accepted rule of its flow, any
\* other packet none (dp_parse_5tuple, dp_classify_lookup).
THEOREM PacketCorrect == Spec => []PacketGetsItsRule
<1>1. Inv => PacketGetsItsRule
  <2> SUFFICES ASSUME Inv, verdict # Nothing
               PROVE  LET p == verdict.pkt
                          same(line) == Key(line) = [addr |-> p.addr, proto |-> p.proto,
                                                     ports |-> p.ports]
                      IN verdict.action = IF Complete(p) THEN LastAction(same) ELSE NoAction
    BY DEF PacketGetsItsRule
  <2>1. PICK p \in Packets : verdict = Verdict(p)
    BY DEF Inv, VerdictRight
  <2> DEFINE k == [addr |-> p.addr, proto |-> p.proto, ports |-> p.ports]
             hits == KeyHits(k)
             last == IF hits = {} THEN NoAction
                     ELSE Action(accepted[CHOOSE i \in hits : \A j \in hits : j <= i])
  <2>2. /\ verdict.pkt = p
        /\ verdict.action = IF Complete(p) THEN Lookup(k) ELSE NoAction
    BY <2>1, ParsesComplete DEF Verdict
  <2>3. accepted \in Seq(RuleLines) /\ hits \in SUBSET Int /\ DOMAIN slot = Keys
    BY DEF Inv, TypeOK, KeyHits
  <2>4. Lookup(k) = last
    <3>1. CASE k \notin Keys
      <4>1. hits = {}
        BY <2>3, <3>1, KeyOfLine DEF KeyHits
      <4>2. QED BY <2>3, <3>1, <4>1 DEF Lookup
    <3>2. CASE k \in Keys /\ slot[k] = NoSlot
      <4>1. hits = {}
        BY <3>2 DEF Inv, TableRight
      <4>2. QED BY <3>2, <4>1 DEF Lookup
    <3>3. CASE k \in Keys /\ slot[k] # NoSlot
      <4>1. PICK i \in DOMAIN accepted : Last(i, hits) /\ actions[slot[k]] = Action(accepted[i])
        BY <3>3 DEF Inv, TableRight
      <4>2. (CHOOSE m \in hits : \A j \in hits : j <= m) = i /\ hits # {}
        BY <2>3, <4>1, LastIsChosen DEF Last
      <4>3. QED BY <2>3, <3>3, <4>1, <4>2 DEF Lookup
    <3>4. QED BY <3>1, <3>2, <3>3
  <2>5. QED BY <2>2, <2>4 DEF LastAction, KeyHits
<1>2. QED BY InvHolds, <1>1, PTL
=============================================================================
