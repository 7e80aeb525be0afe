----------------------------- MODULE RingProofs -----------------------------
(***************************************************************************)
(* Theorems about the ring for every set of threads, size, capacity, word  *)
(* range and batch: the positions never cross, no two threads ever copy to *)
(* or from the same slot, and the ring implements the queue of RingFifo.   *)
(***************************************************************************)
EXTENDS Ring, SequenceTheorems, TLAPS

-----------------------------------------------------------------------------
(* Arithmetic modulo the word range and modulo the size.                    *)

\* A multiple of m keeps the order of its factors.
LEMMA MultipleBound ==
  ASSUME NEW m \in Nat \ {0}, NEW q \in Int, q > 0
  PROVE  m * q \in Nat /\ m * q >= m
<1>1. PICK d \in Nat : q = d + 1
  <2>1. q - 1 \in Nat /\ q = (q - 1) + 1
    OBVIOUS
  <2> QED BY <2>1
<1>2. m * q = m * d + m
  BY <1>1
<1>3. m * d \in Nat
  BY <1>1
<1> QED BY <1>2, <1>3

\* The unsigned subtraction gives back every true difference below the range
\* of a word (the comment in __rte_ring_headtail_move_head).
LEMMA WordDifference ==
  ASSUME NEW a \in Nat, NEW b \in Nat, NEW k \in Nat, NEW m \in Nat \ {0},
         0 <= k + a - b, k + a - b < m
  PROVE  (k + (a % m) - (b % m)) % m = k + a - b
<1>1. a = m * (a \div m) + (a % m) /\ a % m \in 0 .. m - 1
  OBVIOUS
<1>2. b = m * (b \div m) + (b % m) /\ b % m \in 0 .. m - 1
  OBVIOUS
<1> DEFINE x == k + (a % m) - (b % m)
<1>3. x \in Int
  BY <1>1, <1>2
<1>4. x = m * (x \div m) + (x % m) /\ x % m \in 0 .. m - 1
  BY <1>3
<1> DEFINE q == (x \div m) + (a \div m) - (b \div m)
<1>5. k + a - b = m * q + (x % m) /\ q \in Int
  <2>1. x \div m \in Int /\ a \div m \in Int /\ b \div m \in Int
    BY <1>3
  <2> HIDE DEF x
  <2>2. m * q = m * (x \div m) + m * (a \div m) - m * (b \div m)
    BY <2>1
  <2>3. k + a - b = x + m * (a \div m) - m * (b \div m)
    BY <1>1, <1>2, <2>1 DEF x
  <2> QED BY <1>4, <2>1, <2>2, <2>3
<1> HIDE DEF x, q
<1>6. ~(q > 0)
  BY <1>4, <1>5, MultipleBound
<1>7. ~(q < 0)
  <2>1. SUFFICES ASSUME q < 0 PROVE FALSE
    OBVIOUS
  <2>2. m * (-q) >= m /\ m * (-q) = -(m * q)
    <3>1. -q \in Int /\ -q > 0
      BY <1>5, <2>1
    <3>2. m * (-q) >= m
      BY <3>1, MultipleBound
    <3>3. m * (-q) = -(m * q)
      BY <1>5
    <3> QED BY <3>2, <3>3
  <2>3. m * q \in Int
    BY <1>5
  <2> QED BY <1>4, <1>5, <2>2, <2>3
<1>8. q = 0
  BY <1>5, <1>6, <1>7
<1>9. m * q = 0
  BY <1>8
<1> QED BY <1>4, <1>5, <1>9 DEF x

\* An index is an index of the table.
LEMMA IndexType ==
  ASSUME NEW a \in Nat
  PROVE  Index(a) \in 0..(Size - 1) /\ Word(a) \in 0..(Mod - 1)
<1> USE RingAssumption
<1>1. Word(a) \in 0..(Mod - 1)
  BY DEF Word
<1>2. Word(a) \in Nat /\ Size \in Nat \ {0}
  BY <1>1
<1> QED BY <1>1, <1>2 DEF Index

\* Two positions less than a table apart are different slots: the mask of a
\* size that divides the word range.
LEMMA IndexDistinct ==
  ASSUME NEW a \in Nat, NEW b \in Nat, a < b, b < a + Size
  PROVE  Index(a) # Index(b)
<1> USE RingAssumption
<1>1. SUFFICES ASSUME Index(a) = Index(b) PROVE FALSE
  OBVIOUS
<1> DEFINE wa == a % Mod  wb == b % Mod  i == wa % Size
           A == a \div Mod  B == b \div Mod  k == Mod \div Size
           qa == wa \div Size  qb == wb \div Size
<1>2. Mod \in Nat \ {0} /\ Size \in Nat \ {0} /\ k \in Int
  OBVIOUS
<1>3. /\ a = Mod * A + wa /\ wa \in 0 .. Mod - 1 /\ A \in Int
      /\ b = Mod * B + wb /\ wb \in 0 .. Mod - 1 /\ B \in Int
  BY <1>2
<1>4. /\ wa = Size * qa + i /\ qa \in Int /\ i \in Int
      /\ wb = Size * qb + (wb % Size) /\ qb \in Int
  BY <1>2, <1>3
<1>5. wb % Size = i
  BY <1>1 DEF Index, Word
<1>6. Mod = Size * k
  <2>1. Mod = Size * k + (Mod % Size)
    BY <1>2
  <2>2. Mod % Size = 0
    OBVIOUS
  <2>3. Size * k \in Int
    BY <1>2
  <2> HIDE DEF k
  <2> QED BY <2>1, <2>2, <2>3
<1> HIDE DEF wa, wb, i, A, B, k, qa, qb
<1> DEFINE q == (k * B + qb) - (k * A + qa)
<1>7. b - a = Size * q /\ q \in Int
  <2>1. Mod * A = Size * (k * A) /\ Mod * B = Size * (k * B)
    <3>1. (Size * k) * A = Size * (k * A) /\ (Size * k) * B = Size * (k * B)
      BY <1>2, <1>3
    <3> QED BY <1>6, <3>1
  <2>2. k * A \in Int /\ k * B \in Int
    BY <1>2, <1>3
  <2>3. \A u, v \in Int : Size * (u + v) = Size * u + Size * v
    BY <1>2
  <2>4. a = Size * (k * A + qa) + i
    <3>1. Size * (k * A + qa) = Size * (k * A) + Size * qa
      BY <1>4, <2>2, <2>3
    <3>2. Size * (k * A) \in Int /\ Size * qa \in Int
      BY <1>2, <1>4, <2>2
    <3> QED BY <1>3, <1>4, <2>1, <3>1, <3>2
  <2>5. b = Size * (k * B + qb) + i
    <3>1. Size * (k * B + qb) = Size * (k * B) + Size * qb
      BY <1>4, <2>2, <2>3
    <3>2. Size * (k * B) \in Int /\ Size * qb \in Int
      BY <1>2, <1>4, <2>2
    <3> QED BY <1>3, <1>4, <1>5, <2>1, <3>1, <3>2
  <2> DEFINE x == k * A + qa  y == k * B + qb
  <2>6. x \in Int /\ y \in Int
    BY <1>4, <2>2
  <2> HIDE DEF x, y
  <2>7. Size * y - Size * x = Size * (y - x)
    BY <1>2, <2>6
  <2>8. q = y - x
    BY DEF x, y
  <2>9. a = Size * x + i /\ b = Size * y + i
    BY <2>4, <2>5 DEF x, y
  <2>10. Size * x \in Int /\ Size * y \in Int
    BY <1>2, <2>6
  <2> HIDE DEF q
  <2> QED BY <1>4, <2>6, <2>7, <2>8, <2>9, <2>10
<1> HIDE DEF q
<1>8. ~(q > 0)
  BY <1>2, <1>7, MultipleBound
<1>9. Size * q <= 0
  <2>1. -q \in Nat
    BY <1>7, <1>8
  <2>2. Size * (-q) \in Nat
    BY <1>2, <2>1
  <2>3. Size * (-q) = -(Size * q)
    BY <1>2, <1>7
  <2> QED BY <1>2, <1>7, <2>2, <2>3
<1> QED BY <1>7, <1>9

\* Words compared for equality tell positions apart that are less than the
\* word range apart (the compare-exchange and the wait for the tail).
LEMMA WordEqual ==
  ASSUME NEW a \in Nat, NEW b \in Nat, a <= b, b - a < Mod, Word(a) = Word(b)
  PROVE  a = b
<1> USE RingAssumption
<1>1. Mod \in Nat \ {0} /\ 0 \in Nat /\ 0 <= 0 + b - a /\ 0 + b - a < Mod
  OBVIOUS
<1> HIDE RingAssumption
<1>2. (0 + (b % Mod) - (a % Mod)) % Mod = 0 + b - a
  BY <1>1, WordDifference
<1>3. 0 + (b % Mod) - (a % Mod) = 0
  <2>1. b % Mod \in Int /\ a % Mod \in Int
    BY <1>1
  <2> QED BY <2>1 DEF Word
<1>4. 0 % Mod = 0
  BY <1>1
<1> QED BY <1>2, <1>3, <1>4

-----------------------------------------------------------------------------
(* The inductive invariant.  PositionsOrdered is not inductive alone: that a *)
(* compare-exchange may claim what was computed from old loads needs what    *)
(* is known of the values a thread still holds.                              *)

\* A head value a thread has loaded is behind, and not a lap behind.
HeadsLoaded ==
  \A t \in Threads : pc[t] \in {"tail", "move"} =>
    /\ oldHead[t] <= head[side[t]]
    /\ head[side[t]] - oldHead[t] + Capacity < Mod

\* What a thread is about to claim fits, counted from its own old head.
MoveFits ==
  \A t \in Threads : pc[t] = "move" =>
    n[t] > 0 /\ oldHead[t] + n[t] <= Slack(side[t]) + tail[Counterpart(side[t])]

HasClaim(t) == pc[t] \in {"copy", "publish"}

\* A claimed range lies between the tail and the head of its side.
ClaimsInside ==
  \A t \in Threads : HasClaim(t) =>
    n[t] > 0 /\ tail[side[t]] <= oldHead[t] /\ oldHead[t] + n[t] <= head[side[t]]

\* The claimed ranges of a side do not overlap.
ClaimsDisjoint ==
  \A t, u \in Threads : t # u /\ HasClaim(t) /\ HasClaim(u) /\ side[t] = side[u] =>
    oldHead[t] + n[t] <= oldHead[u] \/ oldHead[u] + n[u] <= oldHead[t]

\* A side in single mode has one call at a time, whose head is up to date.
SingleAlone ==
  /\ \A t, u \in Threads :
       t # u /\ pc[t] # "idle" /\ pc[u] # "idle" /\ side[t] = side[u] => ~single[side[t]]
  /\ \A t \in Threads :
       single[side[t]] /\ pc[t] \in {"tail", "move"} => oldHead[t] = head[side[t]]

\* A copy starts from the first element and stops after the last.
CopyUnfinished ==
  \A t \in Threads : /\ pc[t] = "copy" => copied[t] < n[t]
                     /\ pc[t] \in {"idle", "tail", "move"} => copied[t] = 0

\* A call asks for something.
Requested == \A t \in Threads : pc[t] \in {"tail", "move"} => max[t] > 0

IInv == /\ Requested /\ TypeOK /\ PositionsOrdered /\ HeadsLoaded /\ MoveFits
        /\ ClaimsInside /\ ClaimsDisjoint /\ SingleAlone /\ CopyUnfinished

\* rte_ring_init establishes the invariant.
LEMMA InitIInv == Init => IInv
<1> SUFFICES ASSUME Init PROVE IInv
  OBVIOUS
<1> USE RingAssumption DEF Init
<1>1. TypeOK
  <2>1. 0 \in 0..MaxBatch
    OBVIOUS
  <2> QED BY <2>1 DEF TypeOK, PCs, Sides
<1>2. PositionsOrdered
  BY DEF PositionsOrdered, Sides
<1> QED BY <1>1, <1>2 DEF IInv, HeadsLoaded, MoveFits, ClaimsInside, ClaimsDisjoint,
             HasClaim, SingleAlone, CopyUnfinished, Requested

\* No step changes the types.
LEMMA TypeStep ==
  ASSUME TypeOK, CopyUnfinished, [Next]_vars
  PROVE  TypeOK'
<1> USE RingAssumption DEF TypeOK, PCs
<1>1. ASSUME NEW t \in Threads, NEW s \in Sides, Call(t, s)
      PROVE  TypeOK'
  BY <1>1 DEF Call
<1>2. ASSUME NEW t \in Threads, Return(t), UNCHANGED <<slots, single>>,
             head' \in [Sides -> Nat], tail' \in [Sides -> Nat]
      PROVE  TypeOK'
  <2>1. 0 \in 0..MaxBatch /\ "prod" \in Sides
    BY DEF Sides
  <2>2. /\ pc' \in [Threads -> PCs] /\ side' \in [Threads -> Sides]
        /\ fixed' \in [Threads -> BOOLEAN]
    BY <1>2, <2>1 DEF Return
  <2>3. max' \in [Threads -> 0..MaxBatch] /\ n' \in [Threads -> 0..MaxBatch]
    BY <1>2, <2>1 DEF Return
  <2>4. copied' \in [Threads -> 0..MaxBatch] /\ oldHead' \in [Threads -> Nat]
    BY <1>2, <2>1 DEF Return
  <2>5. buf' \in [Threads -> Seq(Objects)]
    BY <1>2 DEF Return
  <2> QED BY <1>2, <2>2, <2>3, <2>4, <2>5
<1>3. ASSUME NEW t \in Threads, LoadTail(t)
      PROVE  TypeOK'
  <2>1. CASE Return(t)
    BY <1>2, <1>3, <2>1 DEF LoadTail
  <2>2. CASE n' = [n EXCEPT ![t] = Granted(t, Entries(t))] /\ pc' = [pc EXCEPT ![t] = "move"]
             /\ UNCHANGED <<side, max, fixed, oldHead, copied, buf>>
    <3>1. Entries(t) \in Nat
      <4>1. /\ Slack(side[t]) \in Int
            /\ tail[Counterpart(side[t])] \in Nat
        BY DEF Slack, Counterpart, Sides
      <4>2. \A a \in Nat : Word(a) \in Int
        BY DEF Word
      <4> DEFINE e == Slack(side[t]) + Word(tail[Counterpart(side[t])]) - Word(oldHead[t])
      <4>3. e \in Int
        <5>1. oldHead[t] \in Nat
          OBVIOUS
        <5> HIDE DEF TypeOK
        <5>2. Word(oldHead[t]) \in Int /\ Word(tail[Counterpart(side[t])]) \in Int
          BY <4>1, <4>2, <5>1
        <5> QED BY <4>1, <5>2
      <4> HIDE DEF e
      <4>4. e % Mod \in Nat
        BY <4>3
      <4> QED BY <4>4 DEF Entries, e
    <3>2. Granted(t, Entries(t)) \in 0..MaxBatch
      BY <3>1 DEF Granted
    <3> QED BY <1>3, <2>2, <3>2 DEF LoadTail
  <2> QED BY <1>3, <2>1, <2>2 DEF LoadTail
<1>4. ASSUME NEW t \in Threads, MoveHead(t)
      PROVE  TypeOK'
  <2>1. 0 \in 0..MaxBatch
    OBVIOUS
  <2> QED BY <1>4, <2>1 DEF MoveHead
<1>5. ASSUME NEW t \in Threads, MoveHeadFails(t)
      PROVE  TypeOK'
  BY <1>5 DEF MoveHeadFails
<1>6. ASSUME NEW t \in Threads, CopyElement(t)
      PROVE  TypeOK'
  <2> DEFINE i == (Index(oldHead[t]) + copied[t]) % Size
  <2>1. i \in 0..(Size - 1)
    <3>1. Index(oldHead[t]) \in Nat
      <4>1. oldHead[t] \in Nat
        OBVIOUS
      <4> QED BY <4>1, IndexType
    <3> HIDE DEF i
    <3>2. Index(oldHead[t]) + copied[t] \in Nat
      BY <3>1
    <3> QED BY <3>2 DEF i
  <2>2. copied[t] + 1 \in 0..MaxBatch
    <3>1. pc[t] = "copy" /\ copied[t] < n[t]
      <4>1. pc[t] = "copy"
        BY <1>6 DEF CopyElement
      <4> QED BY <4>1 DEF CopyUnfinished
    <3>2. copied[t] \in 0..MaxBatch /\ n[t] \in 0..MaxBatch
      OBVIOUS
    <3> QED BY <3>1, <3>2
  <2> HIDE DEF i
  <2>3. slots' \in [0..(Size - 1) -> Objects]
    BY <1>6, <2>1 DEF CopyElement, i
  <2>4. buf' \in [Threads -> Seq(Objects)]
    <3>1. slots[i] \in Objects
      BY <2>1
    <3>2. Append(buf[t], slots[i]) \in Seq(Objects)
      BY <3>1
    <3> QED BY <1>6, <3>2 DEF CopyElement, i
  <2> QED BY <1>6, <2>2, <2>3, <2>4 DEF CopyElement
<1>7. ASSUME NEW t \in Threads, UpdateTail(t)
      PROVE  TypeOK'
  <2>1. tail' \in [Sides -> Nat]
    BY <1>7 DEF UpdateTail
  <2> QED BY <1>2, <1>7, <2>1 DEF UpdateTail
<1>8. CASE UNCHANGED vars
  BY <1>8 DEF vars
<1> QED BY <1>1, <1>3, <1>4, <1>5, <1>6, <1>7, <1>8 DEF Next, Step

\* The order part of the invariant; every lemma below shows that one action
\* keeps it.
Order == /\ PositionsOrdered /\ HeadsLoaded /\ MoveFits
         /\ ClaimsInside /\ ClaimsDisjoint /\ SingleAlone /\ CopyUnfinished

\* A new call: its old head is the current one.
LEMMA CallStep ==
  ASSUME TypeOK, Order, NEW t \in Threads, NEW s \in Sides, Call(t, s)
  PROVE  Order'
<1> USE RingAssumption DEF Call, InCall
<1>1. /\ t \in Threads /\ pc[t] = "idle" /\ pc' = [pc EXCEPT ![t] = "tail"]
      /\ side' = [side EXCEPT ![t] = s] /\ oldHead' = [oldHead EXCEPT ![t] = head[s]]
      /\ UNCHANGED <<head, tail, single, n, copied>>
      /\ single[s] => \A u \in Threads : ~InCall(u, s)
  OBVIOUS
<1> HIDE DEF Call
<1> USE DEF TypeOK
<1>2. PositionsOrdered' /\ MoveFits' /\ CopyUnfinished'
  BY <1>1 DEF Order, PositionsOrdered, MoveFits, CopyUnfinished
<1>3. HeadsLoaded'
  <2> SUFFICES ASSUME NEW u \in Threads, pc'[u] \in {"tail", "move"}
               PROVE  /\ oldHead'[u] <= head'[side'[u]]
                      /\ head'[side'[u]] - oldHead'[u] + Capacity < Mod
    BY DEF HeadsLoaded
  <2>1. CASE u = t
    <3>1. oldHead'[t] = head[s] /\ head'[side'[t]] = head[s] /\ head[s] \in Nat
      BY <1>1
    <3>2. Capacity \in Nat /\ Mod \in Nat /\ Capacity < Mod
      OBVIOUS
    <3> HIDE RingAssumption DEF TypeOK
    <3> QED BY <2>1, <3>1, <3>2
  <2>2. CASE u # t
    <3>1. /\ oldHead'[u] = oldHead[u] /\ head'[side'[u]] = head[side[u]]
          /\ pc[u] \in {"tail", "move"}
      BY <1>1, <2>2
    <3> HIDE RingAssumption DEF TypeOK
    <3>2. oldHead[u] <= head[side[u]] /\ head[side[u]] - oldHead[u] + Capacity < Mod
      BY <3>1 DEF Order, HeadsLoaded
    <3> QED BY <3>1, <3>2
  <2> QED BY <2>1, <2>2
<1>4. ClaimsInside' /\ ClaimsDisjoint'
  BY <1>1 DEF Order, ClaimsInside, ClaimsDisjoint, HasClaim
<1>5. SingleAlone'
  BY <1>1 DEF Order, SingleAlone
<1> QED BY <1>2, <1>3, <1>4, <1>5 DEF Order

\* A call that returns leaves everybody else's values alone.
LEMMA ReturnStep ==
  ASSUME TypeOK, Order, NEW t \in Threads, Return(t), UNCHANGED <<head, tail, single>>
  PROVE  Order'
<1>1. /\ t \in Threads /\ pc' = [pc EXCEPT ![t] = "idle"]
      /\ side' = [side EXCEPT ![t] = "prod"] /\ oldHead' = [oldHead EXCEPT ![t] = 0]
      /\ n' = [n EXCEPT ![t] = 0] /\ copied' = [copied EXCEPT ![t] = 0]
      /\ UNCHANGED <<head, tail, single>>
  BY DEF Return
<1> USE DEF TypeOK
<1>2. PositionsOrdered' /\ MoveFits' /\ CopyUnfinished' /\ HeadsLoaded'
  BY <1>1 DEF Order, PositionsOrdered, MoveFits, CopyUnfinished, HeadsLoaded
<1>3. ClaimsInside' /\ ClaimsDisjoint'
  BY <1>1 DEF Order, ClaimsInside, ClaimsDisjoint, HasClaim
<1>4. SingleAlone'
  BY <1>1 DEF Order, SingleAlone
<1> QED BY <1>2, <1>3, <1>4 DEF Order

\* The unsigned subtraction computes the true number of entries, counted from
\* the old head: __rte_ring_headtail_move_head.
LEMMA EntriesExact ==
  ASSUME TypeOK, Order, NEW t \in Threads, pc[t] = "tail"
  PROVE  /\ Entries(t) = Slack(side[t]) + tail[Counterpart(side[t])] - oldHead[t]
         /\ Entries(t) \in Nat
<1> USE RingAssumption
<1> DEFINE k == Slack(side[t])  a == tail[Counterpart(side[t])]  b == oldHead[t]
<1>1. k \in Nat /\ a \in Nat /\ b \in Nat /\ Mod \in Nat \ {0}
  BY DEF TypeOK, Slack, Counterpart, Sides
<1>2. b <= head[side[t]] /\ head[side[t]] - b + Capacity < Mod
  BY DEF Order, HeadsLoaded
<1>3. /\ side[t] \in {"prod", "cons"}
      /\ head["prod"] \in Nat /\ head["cons"] \in Nat
      /\ tail["prod"] \in Nat /\ tail["cons"] \in Nat
  BY DEF TypeOK, Sides
<1>4. 0 <= k + a - b /\ k + a - b < Mod
  BY <1>1, <1>2, <1>3 DEF Order, PositionsOrdered, Slack, Counterpart
<1> HIDE RingAssumption DEF k, a, b
<1>5. (k + (a % Mod) - (b % Mod)) % Mod = k + a - b
  BY <1>1, <1>4, WordDifference
<1>6. k + a - b \in Nat
  BY <1>1, <1>4
<1> QED BY <1>5, <1>6 DEF Entries, Word, k, a, b

\* What is granted fits.
LEMMA LoadTailStep ==
  ASSUME TypeOK, Order, NEW t \in Threads, LoadTail(t)
  PROVE  Order'
<1>1. CASE Return(t)
  BY <1>1, ReturnStep DEF LoadTail
<1>2. CASE /\ Granted(t, Entries(t)) # 0
           /\ n' = [n EXCEPT ![t] = Granted(t, Entries(t))]
           /\ pc' = [pc EXCEPT ![t] = "move"]
           /\ UNCHANGED <<side, max, fixed, oldHead, copied, buf>>
  <2>1. pc[t] = "tail" /\ UNCHANGED <<head, tail, single>>
    BY DEF LoadTail
  <2> DEFINE g == Granted(t, Entries(t))
  <2>2. g > 0 /\ oldHead[t] + g <= Slack(side[t]) + tail[Counterpart(side[t])]
    <3> DEFINE e == Entries(t)
    <3>1. e \in Nat /\ e = Slack(side[t]) + tail[Counterpart(side[t])] - oldHead[t]
      BY <2>1, EntriesExact
    <3>2. max[t] \in Nat /\ fixed[t] \in BOOLEAN /\ oldHead[t] \in Nat
      BY DEF TypeOK
    <3>3. /\ Slack(side[t]) \in Nat
          /\ tail[Counterpart(side[t])] \in Nat
      BY RingAssumption DEF TypeOK, Slack, Counterpart, Sides
    <3> HIDE DEF e
    <3>4. Granted(t, e) \in Nat /\ Granted(t, e) <= e
      BY <3>1, <3>2 DEF Granted
    <3> HIDE DEF g
    <3>5. g = Granted(t, e)
      BY DEF g, e
    <3> QED BY <1>2, <3>1, <3>2, <3>3, <3>4, <3>5 DEF g
  <2>3. /\ t \in Threads /\ pc[t] = "tail" /\ n' = [n EXCEPT ![t] = g]
        /\ pc' = [pc EXCEPT ![t] = "move"]
        /\ UNCHANGED <<head, tail, single, side, oldHead, copied>>
    BY <1>2, <2>1
  <2> HIDE DEF g
  <2> USE DEF TypeOK
  <2>4. PositionsOrdered' /\ CopyUnfinished' /\ HeadsLoaded'
    BY <2>3 DEF Order, PositionsOrdered, CopyUnfinished, HeadsLoaded
  <2>5. MoveFits'
    BY <2>2, <2>3 DEF Order, MoveFits
  <2>6. ClaimsInside' /\ ClaimsDisjoint'
    BY <2>3 DEF Order, ClaimsInside, ClaimsDisjoint, HasClaim
  <2>7. SingleAlone'
    BY <2>3 DEF Order, SingleAlone
  <2> QED BY <2>4, <2>5, <2>6, <2>7 DEF Order
<1> QED BY <1>1, <1>2 DEF LoadTail

\* A failed compare-exchange reloads the head.
LEMMA MoveHeadFailsStep ==
  ASSUME TypeOK, Order, NEW t \in Threads, MoveHeadFails(t)
  PROVE  Order'
<1>1. /\ t \in Threads /\ pc[t] = "move" /\ pc' = [pc EXCEPT ![t] = "tail"]
      /\ oldHead' = [oldHead EXCEPT ![t] = head[side[t]]]
      /\ UNCHANGED <<head, tail, single, side, n, copied>>
  BY DEF MoveHeadFails
<1> USE RingAssumption DEF TypeOK
<1>2. PositionsOrdered' /\ MoveFits' /\ CopyUnfinished'
  BY <1>1 DEF Order, PositionsOrdered, MoveFits, CopyUnfinished
<1>3. HeadsLoaded'
  <2> SUFFICES ASSUME NEW u \in Threads, pc'[u] \in {"tail", "move"}
               PROVE  /\ oldHead'[u] <= head'[side'[u]]
                      /\ head'[side'[u]] - oldHead'[u] + Capacity < Mod
    BY DEF HeadsLoaded
  <2>1. CASE u = t
    <3>1. oldHead'[t] = head[side[t]] /\ head'[side'[t]] = head[side[t]] /\ head[side[t]] \in Nat
      BY <1>1
    <3>2. Capacity \in Nat /\ Mod \in Nat /\ Capacity < Mod
      OBVIOUS
    <3> HIDE RingAssumption DEF TypeOK
    <3> QED BY <2>1, <3>1, <3>2
  <2>2. CASE u # t
    <3>1. /\ oldHead'[u] = oldHead[u] /\ head'[side'[u]] = head[side[u]]
          /\ pc[u] \in {"tail", "move"}
      BY <1>1, <2>2
    <3> HIDE RingAssumption DEF TypeOK
    <3>2. oldHead[u] <= head[side[u]] /\ head[side[u]] - oldHead[u] + Capacity < Mod
      BY <3>1 DEF Order, HeadsLoaded
    <3> QED BY <3>1, <3>2
  <2> QED BY <2>1, <2>2
<1>4. ClaimsInside' /\ ClaimsDisjoint'
  BY <1>1 DEF Order, ClaimsInside, ClaimsDisjoint, HasClaim
<1>5. SingleAlone'
  BY <1>1 DEF Order, SingleAlone
<1> QED BY <1>2, <1>3, <1>4, <1>5 DEF Order

\* The head moves only from the value the claim was computed from.
LEMMA MoveHeadExact ==
  ASSUME TypeOK, Order, NEW t \in Threads, MoveHead(t)
  PROVE  head[side[t]] = oldHead[t]
<1>1. pc[t] = "move" /\ (single[side[t]] \/ Word(head[side[t]]) = Word(oldHead[t]))
  BY DEF MoveHead
<1>2. CASE single[side[t]]
  BY <1>1, <1>2 DEF Order, SingleAlone
<1>3. CASE Word(head[side[t]]) = Word(oldHead[t])
  <2>1. head[side[t]] \in Nat /\ oldHead[t] \in Nat
    BY DEF TypeOK
  <2>2. oldHead[t] <= head[side[t]] /\ head[side[t]] - oldHead[t] + Capacity < Mod
    BY <1>1 DEF Order, HeadsLoaded
  <2>3. Capacity \in Nat /\ Mod \in Nat
    BY RingAssumption
  <2>4. head[side[t]] - oldHead[t] < Mod
    BY <2>1, <2>2, <2>3
  <2> QED BY <1>3, <2>1, <2>2, <2>4, WordEqual
<1> QED BY <1>1, <1>2, <1>3

\* A claim begins at the head, behind every earlier claim of its side.
LEMMA MoveHeadStep ==
  ASSUME TypeOK, Order, NEW t \in Threads, MoveHead(t)
  PROVE  Order'
<1>1. /\ t \in Threads /\ pc[t] = "move" /\ pc' = [pc EXCEPT ![t] = "copy"]
      /\ head' = [head EXCEPT ![side[t]] = oldHead[t] + n[t]]
      /\ NoFullLap(t)
      /\ UNCHANGED <<tail, single, side, n, oldHead, copied>>
  BY DEF MoveHead
<1>2. head[side[t]] = oldHead[t]
  BY MoveHeadExact
<1>3. n[t] > 0 /\ oldHead[t] + n[t] <= Slack(side[t]) + tail[Counterpart(side[t])]
  BY <1>1 DEF Order, MoveFits
<1>4. /\ side \in [Threads -> {"prod", "cons"}] /\ single \in [{"prod", "cons"} -> BOOLEAN]
      /\ head \in [{"prod", "cons"} -> Nat] /\ tail \in [{"prod", "cons"} -> Nat]
      /\ pc \in [Threads -> PCs] /\ n \in [Threads -> Nat] /\ oldHead \in [Threads -> Nat]
      /\ copied \in [Threads -> Nat] /\ Capacity \in Nat /\ Mod \in Nat
  BY RingAssumption DEF TypeOK, Sides
<1>5. PositionsOrdered'
  BY <1>1, <1>2, <1>3, <1>4 DEF Order, PositionsOrdered, Slack, Counterpart
<1>6. HeadsLoaded'
  <2> SUFFICES ASSUME NEW u \in Threads, pc'[u] \in {"tail", "move"}
               PROVE  /\ oldHead'[u] <= head'[side'[u]]
                      /\ head'[side'[u]] - oldHead'[u] + Capacity < Mod
    BY DEF HeadsLoaded
  <2>1. u # t /\ pc[u] \in {"tail", "move"}
    BY <1>1, <1>4
  <2>2. oldHead[u] <= head[side[u]] /\ head[side[u]] - oldHead[u] + Capacity < Mod
    BY <2>1 DEF Order, HeadsLoaded
  <2>3. CASE side[u] = side[t]
    <3>1. u \in Peers(t)
      BY <2>1, <2>3 DEF Peers, InCall
    <3>2. head[side[t]] + n[t] - oldHead[u] + Capacity < Mod
      BY <1>1, <2>1, <3>1 DEF NoFullLap
    <3>3. head'[side'[u]] = head[side[t]] + n[t] /\ oldHead'[u] = oldHead[u]
      BY <1>1, <1>2, <1>4, <2>3
    <3>4. n[t] \in Nat /\ head[side[t]] \in Nat /\ oldHead[u] \in Nat
      BY <1>4
    <3> QED BY <2>2, <2>3, <3>2, <3>3, <3>4
  <2>4. CASE side[u] # side[t]
    <3>1. head'[side'[u]] = head[side[u]] /\ oldHead'[u] = oldHead[u]
      BY <1>1, <1>4, <2>4
    <3> QED BY <2>2, <3>1
  <2> QED BY <2>3, <2>4
<1>7. MoveFits'
  BY <1>1, <1>4 DEF Order, MoveFits
<1>8. ClaimsInside'
  <2> SUFFICES ASSUME NEW u \in Threads, HasClaim(u)'
               PROVE  (/\ n[u] > 0 /\ tail[side[u]] <= oldHead[u]
                       /\ oldHead[u] + n[u] <= head[side[u]])'
    BY DEF ClaimsInside
  <2>1. CASE u = t
    BY <1>1, <1>2, <1>3, <1>4, <2>1 DEF Order, PositionsOrdered
  <2>2. CASE u # t
    <3>1. HasClaim(u)
      BY <1>1, <2>2 DEF HasClaim
    <3>2. n[u] > 0 /\ tail[side[u]] <= oldHead[u] /\ oldHead[u] + n[u] <= head[side[u]]
      BY <3>1 DEF Order, ClaimsInside
    <3>3. head[side[u]] <= head'[side[u]]
      BY <1>1, <1>2, <1>3, <1>4
    <3> QED BY <1>1, <1>4, <3>2, <3>3
  <2> QED BY <2>1, <2>2
<1>9. ClaimsDisjoint'
  <2>1. \A u \in Threads \ {t} : HasClaim(u)' /\ side[u] = side[t] =>
          HasClaim(u) /\ oldHead[u] + n[u] <= oldHead[t]
    <3> SUFFICES ASSUME NEW u \in Threads \ {t}, HasClaim(u)', side[u] = side[t]
                 PROVE  HasClaim(u) /\ oldHead[u] + n[u] <= oldHead[t]
      OBVIOUS
    <3>1. HasClaim(u)
      BY <1>1 DEF HasClaim
    <3> QED BY <1>2, <3>1 DEF Order, ClaimsInside
  <2>2. \A u \in Threads \ {t} : HasClaim(u)' => HasClaim(u)
    BY <1>1 DEF HasClaim
  <2> QED BY <1>1, <2>1, <2>2 DEF Order, ClaimsDisjoint
<1>10. SingleAlone'
  <2>1. \A u \in Threads : pc'[u] # "idle" => pc[u] # "idle"
    BY <1>1, <1>4
  <2>2. ASSUME NEW u \in Threads, single[side[u]], pc'[u] \in {"tail", "move"}
        PROVE  oldHead[u] = head'[side[u]]
    <3>1. u # t /\ pc[u] \in {"tail", "move"}
      BY <1>1, <1>4, <2>2
    <3>2. side[u] # side[t]
      BY <1>1, <2>2, <3>1 DEF Order, SingleAlone
    <3>3. head'[side[u]] = head[side[u]]
      BY <1>1, <1>4, <3>2
    <3> QED BY <2>2, <3>1, <3>3 DEF Order, SingleAlone
  <2> QED BY <1>1, <2>1, <2>2 DEF Order, SingleAlone
<1>11. CopyUnfinished'
  <2>1. copied[t] = 0
    BY <1>1 DEF Order, CopyUnfinished
  <2> QED BY <1>1, <1>3, <1>4, <2>1 DEF Order, CopyUnfinished
<1> QED BY <1>5, <1>6, <1>7, <1>8, <1>9, <1>10, <1>11 DEF Order

\* Copying moves no position.
LEMMA CopyElementStep ==
  ASSUME TypeOK, Order, NEW t \in Threads, CopyElement(t)
  PROVE  Order'
<1>1. /\ t \in Threads /\ pc[t] = "copy"
      /\ copied' = [copied EXCEPT ![t] = copied[t] + 1]
      /\ pc' = [pc EXCEPT ![t] = IF copied'[t] = n[t] THEN "publish" ELSE "copy"]
      /\ UNCHANGED <<head, tail, single, side, n, oldHead>>
  BY DEF CopyElement
<1>2. /\ pc \in [Threads -> PCs] /\ n \in [Threads -> Nat] /\ copied \in [Threads -> Nat]
  BY RingAssumption DEF TypeOK
<1>3. PositionsOrdered' /\ MoveFits' /\ HeadsLoaded'
  BY <1>1, <1>2 DEF Order, PositionsOrdered, MoveFits, HeadsLoaded
<1>4. \A u \in Threads : HasClaim(u)' => HasClaim(u)
  BY <1>1, <1>2 DEF HasClaim
<1>5. ClaimsInside' /\ ClaimsDisjoint'
  BY <1>1, <1>4 DEF Order, ClaimsInside, ClaimsDisjoint
<1>6. SingleAlone'
  BY <1>1, <1>2 DEF Order, SingleAlone
<1>7. CopyUnfinished'
  <2> SUFFICES ASSUME NEW u \in Threads
               PROVE  /\ pc'[u] = "copy" => copied'[u] < n'[u]
                      /\ pc'[u] \in {"idle", "tail", "move"} => copied'[u] = 0
    BY DEF CopyUnfinished
  <2>1. CASE u = t
    <3>1. copied[t] < n[t] /\ copied[t] \in Nat /\ n[t] \in Nat
      BY <1>1, <1>2 DEF Order, CopyUnfinished
    <3>2. copied'[t] = copied[t] + 1 /\ n'[t] = n[t]
      BY <1>1, <1>2
    <3> QED BY <1>1, <1>2, <2>1, <3>1, <3>2
  <2>2. CASE u # t
    BY <1>1, <1>2, <2>2 DEF Order, CopyUnfinished
  <2> QED BY <2>1, <2>2
<1> QED BY <1>3, <1>5, <1>6, <1>7 DEF Order

\* The tail advances over the claim that begins at it and over no other:
\* __rte_ring_update_tail.
LEMMA UpdateTailStep ==
  ASSUME TypeOK, Order, NEW t \in Threads, UpdateTail(t)
  PROVE  Order'
<1>1. /\ t \in Threads /\ pc[t] = "publish" /\ pc' = [pc EXCEPT ![t] = "idle"]
      /\ tail' = [tail EXCEPT ![side[t]] = oldHead[t] + n[t]]
      /\ side' = [side EXCEPT ![t] = "prod"] /\ oldHead' = [oldHead EXCEPT ![t] = 0]
      /\ n' = [n EXCEPT ![t] = 0] /\ copied' = [copied EXCEPT ![t] = 0]
      /\ UNCHANGED <<head, single>>
  BY DEF UpdateTail, Return
<1>2. /\ side \in [Threads -> {"prod", "cons"}] /\ single \in [{"prod", "cons"} -> BOOLEAN]
      /\ head \in [{"prod", "cons"} -> Nat] /\ tail \in [{"prod", "cons"} -> Nat]
      /\ pc \in [Threads -> PCs] /\ n \in [Threads -> Nat] /\ oldHead \in [Threads -> Nat]
      /\ copied \in [Threads -> Nat] /\ Capacity \in Nat /\ Mod \in Nat /\ Capacity < Mod
  BY RingAssumption DEF TypeOK, Sides
<1>3. /\ HasClaim(t) /\ n[t] > 0
      /\ tail[side[t]] <= oldHead[t] /\ oldHead[t] + n[t] <= head[side[t]]
  BY <1>1 DEF Order, ClaimsInside, HasClaim
<1>4. ~single[side[t]] => tail[side[t]] = oldHead[t]
  <2> SUFFICES ASSUME ~single[side[t]] PROVE tail[side[t]] = oldHead[t]
    OBVIOUS
  <2>1. Word(tail[side[t]]) = Word(oldHead[t])
    BY DEF UpdateTail
  <2>2. tail[side[t]] \in Nat /\ oldHead[t] \in Nat
    BY <1>2
  <2>3. oldHead[t] - tail[side[t]] < Mod
    BY <1>2, <1>3 DEF Order, PositionsOrdered
  <2> QED BY <1>3, <2>1, <2>2, <2>3, WordEqual
<1>5. tail[side[t]] <= tail'[side[t]] /\ tail'[side[t]] <= head[side[t]]
  BY <1>1, <1>2, <1>3
<1>6. \A s \in {"prod", "cons"} : tail[s] <= tail'[s] /\ (s # side[t] => tail'[s] = tail[s])
  BY <1>1, <1>2, <1>5
<1>7. PositionsOrdered'
  BY <1>1, <1>2, <1>5, <1>6 DEF Order, PositionsOrdered
<1>8. \A u \in Threads \ {t} : /\ pc'[u] = pc[u] /\ side'[u] = side[u] /\ n'[u] = n[u]
                              /\ oldHead'[u] = oldHead[u] /\ copied'[u] = copied[u]
  BY <1>1, <1>2
<1>9. pc'[t] = "idle" /\ copied'[t] = 0
  BY <1>1, <1>2
<1>10. HeadsLoaded' /\ SingleAlone' /\ CopyUnfinished'
  BY <1>1, <1>8, <1>9 DEF Order, HeadsLoaded, SingleAlone, CopyUnfinished
<1>11. MoveFits'
  <2> SUFFICES ASSUME NEW u \in Threads, pc'[u] = "move"
               PROVE  (/\ n[u] > 0
                       /\ oldHead[u] + n[u] <= Slack(side[u]) + tail[Counterpart(side[u])])'
    BY DEF MoveFits
  <2>1. u \in Threads \ {t} /\ pc[u] = "move"
    BY <1>8, <1>9
  <2>2. n[u] > 0 /\ oldHead[u] + n[u] <= Slack(side[u]) + tail[Counterpart(side[u])]
    BY <2>1 DEF Order, MoveFits
  <2>3. Counterpart(side[u]) \in {"prod", "cons"} /\ Slack(side[u]) \in Nat
    BY <1>2 DEF Counterpart, Slack
  <2>4. tail[Counterpart(side[u])] <= tail'[Counterpart(side[u])]
    BY <1>6, <2>3
  <2>5. /\ tail[Counterpart(side[u])] \in Nat /\ oldHead[u] \in Nat /\ n[u] \in Nat
        /\ tail'[Counterpart(side[u])] \in Nat
    BY <1>1, <1>2, <2>3
  <2>6. /\ Slack(side[u])' = Slack(side[u]) /\ Counterpart(side[u])' = Counterpart(side[u])
    BY <1>8, <2>1 DEF Slack, Counterpart
  <2>7. (tail[Counterpart(side[u])])' = tail'[Counterpart(side[u])]
    BY <2>6
  <2> QED BY <1>8, <2>1, <2>2, <2>3, <2>4, <2>5, <2>6, <2>7
<1>12. ClaimsInside'
  <2> SUFFICES ASSUME NEW u \in Threads, HasClaim(u)'
               PROVE  (/\ n[u] > 0 /\ tail[side[u]] <= oldHead[u]
                       /\ oldHead[u] + n[u] <= head[side[u]])'
    BY DEF ClaimsInside
  <2>1. u # t /\ HasClaim(u)
    BY <1>8, <1>9 DEF HasClaim
  <2>2. n[u] > 0 /\ tail[side[u]] <= oldHead[u] /\ oldHead[u] + n[u] <= head[side[u]]
    BY <2>1 DEF Order, ClaimsInside
  <2>3. tail'[side[u]] <= oldHead[u]
    <3>1. CASE side[u] = side[t]
      <4>1. tail[side[t]] = oldHead[t]
        <5>1. ~single[side[t]]
          BY <1>1, <2>1, <3>1 DEF Order, SingleAlone, HasClaim
        <5> QED BY <1>4, <5>1
      <4>2. oldHead[t] + n[t] <= oldHead[u] \/ oldHead[u] + n[u] <= oldHead[t]
        BY <1>3, <2>1, <3>1 DEF Order, ClaimsDisjoint
      <4>3. tail'[side[u]] = oldHead[t] + n[t]
        BY <1>1, <1>2, <3>1
      <4>4. oldHead[u] \in Nat /\ n[u] \in Nat /\ oldHead[t] \in Nat /\ n[t] \in Nat
        BY <1>2
      <4> QED BY <2>2, <3>1, <4>1, <4>2, <4>3, <4>4
    <3>2. CASE side[u] # side[t]
      <4>1. tail'[side[u]] = tail[side[u]]
        BY <1>2, <1>6, <3>2
      <4> QED BY <2>2, <4>1
    <3> QED BY <3>1, <3>2
  <2> QED BY <1>1, <1>8, <2>1, <2>2, <2>3
<1>13. ClaimsDisjoint'
  <2>1. \A u \in Threads : HasClaim(u)' => u # t /\ HasClaim(u)
    BY <1>8, <1>9 DEF HasClaim
  <2> QED BY <1>8, <2>1 DEF Order, ClaimsDisjoint
<1> QED BY <1>7, <1>10, <1>11, <1>12, <1>13 DEF Order

\* A request is kept until the head has moved.
LEMMA RequestedStep ==
  ASSUME TypeOK, Requested, [Next]_vars
  PROVE  Requested'
<1> USE RingAssumption DEF TypeOK, Requested
<1>1. ASSUME NEW t \in Threads, NEW s \in Sides, Call(t, s) PROVE Requested'
  BY <1>1 DEF Call
<1>2. ASSUME NEW t \in Threads, Return(t) PROVE Requested'
  BY <1>2 DEF Return
<1>3. ASSUME NEW t \in Threads, LoadTail(t) PROVE Requested'
  BY <1>2, <1>3 DEF LoadTail
<1>4. ASSUME NEW t \in Threads, MoveHead(t) PROVE Requested'
  BY <1>4 DEF MoveHead
<1>5. ASSUME NEW t \in Threads, MoveHeadFails(t) PROVE Requested'
  BY <1>5 DEF MoveHeadFails
<1>6. ASSUME NEW t \in Threads, CopyElement(t) PROVE Requested'
  BY <1>6 DEF CopyElement
<1>7. ASSUME NEW t \in Threads, UpdateTail(t) PROVE Requested'
  BY <1>2, <1>7 DEF UpdateTail
<1>8. CASE UNCHANGED vars
  BY <1>8 DEF vars
<1> QED BY <1>1, <1>3, <1>4, <1>5, <1>6, <1>7, <1>8 DEF Next, Step

\* Every step keeps the invariant.
LEMMA StepIInv == IInv /\ [Next]_vars => IInv'
<1> SUFFICES ASSUME IInv, [Next]_vars PROVE IInv'
  OBVIOUS
<1>1. TypeOK /\ Order /\ Requested
  BY DEF IInv, Order
<1>2. TypeOK'
  BY <1>1, TypeStep DEF Order
<1>3. Order'
  <2>1. ASSUME NEW t \in Threads, NEW s \in Sides, Call(t, s) PROVE Order'
    BY <1>1, <2>1, CallStep
  <2>2. ASSUME NEW t \in Threads, LoadTail(t) PROVE Order'
    BY <1>1, <2>2, LoadTailStep
  <2>3. ASSUME NEW t \in Threads, MoveHead(t) PROVE Order'
    BY <1>1, <2>3, MoveHeadStep
  <2>4. ASSUME NEW t \in Threads, MoveHeadFails(t) PROVE Order'
    BY <1>1, <2>4, MoveHeadFailsStep
  <2>5. ASSUME NEW t \in Threads, CopyElement(t) PROVE Order'
    BY <1>1, <2>5, CopyElementStep
  <2>6. ASSUME NEW t \in Threads, UpdateTail(t) PROVE Order'
    BY <1>1, <2>6, UpdateTailStep
  <2>7. CASE UNCHANGED vars
    BY <1>1, <2>7 DEF vars, Order, PositionsOrdered, HeadsLoaded, MoveFits, ClaimsInside,
       ClaimsDisjoint, HasClaim, SingleAlone, CopyUnfinished
  <2> QED BY <2>1, <2>2, <2>3, <2>4, <2>5, <2>6, <2>7 DEF Next, Step
<1>4. Requested'
  BY <1>1, RequestedStep
<1> QED BY <1>2, <1>3, <1>4 DEF IInv, Order

\* The invariant holds throughout.
LEMMA IInvAlways == Spec => []IInv
<1> QED BY InitIInv, StepIInv, PTL DEF Spec

-----------------------------------------------------------------------------
(* The theorems.                                                            *)

\* Every variable keeps its type, positions and locals included.
THEOREM TypeCorrect == Spec => []TypeOK
<1>1. IInv => TypeOK
  BY DEF IInv
<1> QED BY <1>1, IInvAlways, PTL

\* Producers never run past the consumers by more than the capacity, nor
\* consumers past what was published (rte_ring enqueue and dequeue).
THEOREM PositionsCorrect == Spec => []PositionsOrdered
<1>1. IInv => PositionsOrdered
  BY DEF IInv
<1> QED BY <1>1, IInvAlways, PTL

\* The copies of two threads never meet in a slot (the element copies between
\* the move of the head and the update of the tail).
THEOREM SlotsCorrect == Spec => []SlotsExclusive
<1>1. IInv => SlotsExclusive
  <2> SUFFICES ASSUME IInv, NEW t \in Threads, NEW u \in Threads, t # u,
                      HasClaim(t), HasClaim(u)
               PROVE  \A i \in 0..(n[t] - 1), j \in 0..(n[u] - 1) :
                        Index(oldHead[t] + i) # Index(oldHead[u] + j)
    BY DEF SlotsExclusive, Claimed, HasClaim
  <2> TAKE i \in 0..(n[t] - 1), j \in 0..(n[u] - 1)
  <2> DEFINE a == oldHead[t] + i  b == oldHead[u] + j
  <2>1. /\ side[t] \in {"prod", "cons"} /\ side[u] \in {"prod", "cons"}
        /\ head["prod"] \in Nat /\ head["cons"] \in Nat
        /\ tail["prod"] \in Nat /\ tail["cons"] \in Nat
        /\ n[t] \in Nat /\ n[u] \in Nat /\ oldHead[t] \in Nat /\ oldHead[u] \in Nat
        /\ Capacity \in Nat /\ Size \in Nat /\ Capacity < Size
    BY RingAssumption DEF IInv, TypeOK, Sides
  <2>2. /\ tail[side[t]] <= oldHead[t] /\ oldHead[t] + n[t] <= head[side[t]]
        /\ tail[side[u]] <= oldHead[u] /\ oldHead[u] + n[u] <= head[side[u]]
    BY DEF IInv, ClaimsInside
  <2>3. a \in Nat /\ b \in Nat /\ i < n[t] /\ j < n[u] /\ i \in Nat /\ j \in Nat
    BY <2>1
  <2>4. a # b
    <3>1. CASE side[t] = side[u]
      <4>1. oldHead[t] + n[t] <= oldHead[u] \/ oldHead[u] + n[u] <= oldHead[t]
        BY <3>1 DEF IInv, ClaimsDisjoint
      <4> QED BY <2>1, <2>3, <4>1
    <3>2. CASE side[t] # side[u]
      BY <2>1, <2>2, <2>3, <3>2 DEF IInv, PositionsOrdered
    <3> QED BY <3>1, <3>2
  <2>5. a < b + Size /\ b < a + Size
    <3>1. /\ tail["cons"] <= a /\ a < tail["cons"] + Size
          /\ tail["cons"] <= b /\ b < tail["cons"] + Size
      BY <2>1, <2>2, <2>3 DEF IInv, PositionsOrdered
    <3> QED BY <2>1, <2>3, <3>1
  <2> HIDE DEF a, b
  <2>6. CASE a < b
    BY <2>3, <2>5, <2>6, IndexDistinct DEF a, b
  <2>7. CASE b < a
    BY <2>3, <2>5, <2>7, IndexDistinct DEF a, b
  <2> QED BY <2>3, <2>4, <2>6, <2>7
<1> QED BY <1>1, IInvAlways, PTL

\* A call that gives up was right to, at that moment and not only when it
\* loaded the head (the early return of __rte_ring_headtail_move_head).
THEOREM FailureCorrect == Spec => FailureJustified
<1> DEFINE Justified == \A t \in Threads : GivesUp(t) =>
                          RoomNow(t) < (IF fixed[t] THEN max[t] ELSE 1)
<1>1. IInv /\ [Next]_vars => Justified
  <2> SUFFICES ASSUME IInv, [Next]_vars, NEW t \in Threads, GivesUp(t)
               PROVE  RoomNow(t) < (IF fixed[t] THEN max[t] ELSE 1)
    OBVIOUS
  <2>1. TypeOK /\ Order /\ Requested
    BY DEF IInv, Order
  <2>2. pc[t] = "tail" /\ pc'[t] = "idle"
    BY DEF GivesUp
  <2>3. LoadTail(t)
    <3>1. ASSUME NEW u \in Threads, u # t, Step(u) \/ \E s \in Sides : Call(u, s)
          PROVE  FALSE
      <4>1. pc'[t] = pc[t]
        BY <2>1, <3>1 DEF Step, Call, LoadTail, Return, MoveHead, MoveHeadFails,
           CopyElement, UpdateTail, TypeOK
      <4> QED BY <2>2, <4>1
    <3>2. ~(UNCHANGED vars)
      BY <2>2 DEF vars
    <3>3. Step(t) \/ \E s \in Sides : Call(t, s)
      BY <3>1, <3>2 DEF Next
    <3> QED BY <2>2, <3>3 DEF Step, Call, MoveHead, MoveHeadFails, CopyElement, UpdateTail
  <2> DEFINE e == Entries(t)
  <2>4. Granted(t, e) = 0
    <3>1. pc \in [Threads -> PCs]
      BY <2>1 DEF TypeOK
    <3> QED BY <2>2, <2>3, <3>1 DEF LoadTail
  <2>5. e \in Nat /\ e = Slack(side[t]) + tail[Counterpart(side[t])] - oldHead[t]
    BY <2>1, <2>2, EntriesExact
  <2>6. oldHead[t] <= head[side[t]] /\ max[t] > 0
    BY <2>1, <2>2 DEF Order, HeadsLoaded, Requested
  <2>7. /\ Slack(side[t]) \in Nat /\ tail[Counterpart(side[t])] \in Nat
        /\ oldHead[t] \in Nat /\ head[side[t]] \in Nat /\ max[t] \in Nat
        /\ fixed[t] \in BOOLEAN
    BY <2>1, RingAssumption DEF TypeOK, Slack, Counterpart, Sides
  <2> HIDE DEF e
  <2>8. e < (IF fixed[t] THEN max[t] ELSE 1)
    BY <2>4, <2>5, <2>6, <2>7 DEF Granted
  <2>9. RoomNow(t) <= e
    BY <2>5, <2>6, <2>7 DEF RoomNow
  <2>10. RoomNow(t) \in Int
    BY <2>7 DEF RoomNow
  <2> QED BY <2>5, <2>7, <2>8, <2>9, <2>10
<1>2. IInv /\ [Next]_vars => [Justified]_vars
  BY <1>1
<1> QED BY <1>2, IInvAlways, PTL DEF Spec, FailureJustified
-----------------------------------------------------------------------------
(* The ring implements the queue of RingFifo.  The queue is what lies between *)
(* the head of the consumers and the tail of the producers in the table.     *)

\* A remainder is determined by what it is the remainder of.
LEMMA RemainderUnique ==
  ASSUME NEW m \in Nat \ {0}, NEW x \in Int, NEW y \in Int,
         NEW r \in 0 .. m - 1, NEW s \in 0 .. m - 1, m * x + r = m * y + s
  PROVE  r = s
<1> DEFINE d == x - y
           e == y - x
<1>1. d \in Int /\ e \in Int /\ d = -e
  OBVIOUS
<1>2. m * d = m * x - m * y /\ m * e = m * y - m * x /\ m * x \in Int /\ m * y \in Int
  OBVIOUS
<1> HIDE DEF d, e
<1>3. ~(d > 0)
  <2>1. d > 0 => m * d >= m
    BY <1>1, MultipleBound
  <2> QED BY <1>2, <2>1
<1>4. ~(e > 0)
  <2>1. e > 0 => m * e >= m
    BY <1>1, MultipleBound
  <2> QED BY <1>2, <2>1
<1>5. d = 0
  BY <1>1, <1>3, <1>4
<1>6. m * d = 0
  BY <1>5
<1> QED BY <1>2, <1>6

\* What a position has over its index is a multiple of the size.
LEMMA IndexIs ==
  ASSUME NEW a \in Nat
  PROVE  Index(a) \in 0 .. Size - 1 /\ \E q \in Int : a = Size * q + Index(a)
<1> USE RingAssumption
<1> DEFINE wa == a % Mod
           A == a \div Mod
           k == Mod \div Size
           qa == wa \div Size
           i == wa % Size
<1>1. Mod \in Nat \ {0} /\ Size \in Nat \ {0} /\ k \in Int
  OBVIOUS
<1>2. a = Mod * A + wa /\ wa \in 0 .. Mod - 1 /\ A \in Int
  BY <1>1
<1>3. wa = Size * qa + i /\ qa \in Int /\ i \in 0 .. Size - 1
  BY <1>1, <1>2
<1>4. Mod = Size * k
  <2>1. Mod = Size * k + (Mod % Size)
    BY <1>1
  <2>2. Mod % Size = 0 /\ Size * k \in Int
    BY <1>1
  <2> HIDE DEF k
  <2> QED BY <2>1, <2>2
<1>5. Index(a) = i
  BY DEF Index, Word
<1> HIDE DEF wa, A, k, qa, i
<1>6. Mod * A = Size * (k * A)
  <2>1. (Size * k) * A = Size * (k * A)
    BY <1>1, <1>2
  <2> QED BY <1>4, <2>1
<1>7. k * A \in Int
  BY <1>1, <1>2
<1>8. Size * (k * A + qa) = Size * (k * A) + Size * qa
  BY <1>1, <1>3, <1>7
<1>9. Size * (k * A) \in Int /\ Size * qa \in Int
  BY <1>1, <1>3, <1>7
<1>10. a = Size * (k * A + qa) + i
  BY <1>2, <1>3, <1>6, <1>8, <1>9
<1> DEFINE q == k * A + qa
<1>11. q \in Int /\ a = Size * q + i
  BY <1>3, <1>7, <1>10
<1> HIDE DEF q
<1> QED BY <1>3, <1>5, <1>11

\* The copies count the index on from where it began and wrap it at the size.
LEMMA IndexAdvances ==
  ASSUME NEW a \in Nat, NEW k \in Nat
  PROVE  (Index(a) + k) % Size = Index(a + k)
<1>1. Size \in Nat \ {0}
  BY RingAssumption
<1>2. PICK q \in Int : a = Size * q + Index(a)
  BY IndexIs
<1>3. a + k \in Nat /\ Index(a) \in Nat
  BY <1>1, IndexIs
<1>4. PICK p \in Int : a + k = Size * p + Index(a + k)
  BY <1>3, IndexIs
<1> DEFINE x == Index(a) + k
           c == x \div Size
           r == x % Size
<1>5. x = Size * c + r /\ c \in Int /\ r \in 0 .. Size - 1
  BY <1>1, <1>3
<1>6. Index(a + k) \in 0 .. Size - 1
  BY <1>3, IndexIs
<1> HIDE DEF c, r
<1>7. Size * (q + c) = Size * q + Size * c /\ Size * q \in Int /\ Size * c \in Int
  BY <1>1, <1>5
<1>8. Size * (q + c) + r = Size * p + Index(a + k)
  <2>1. Size * p \in Int /\ Index(a) \in Int /\ Index(a + k) \in Int
    BY <1>1, <1>3, <1>6
  <2>2. x = Index(a) + k
    OBVIOUS
  <2> HIDE DEF x
  <2> QED BY <1>2, <1>4, <1>5, <1>7, <2>1, <2>2
<1>9. q + c \in Int
  BY <1>5
<1>10. r = Index(a + k)
  BY <1>1, <1>4, <1>5, <1>6, <1>8, <1>9, RemainderUnique
<1> QED BY <1>10 DEF r

\* The entries of the table s between two positions.
Window(s, from, to) == [j \in 1..(to - from) |-> s[Index(from + j - 1)]]
Table == [0..(Size - 1) -> Objects]

LEMMA WindowIs ==
  ASSUME NEW s \in Table, NEW a \in Nat, NEW b \in Nat, a <= b
  PROVE  /\ Window(s, a, b) \in Seq(Objects) /\ Len(Window(s, a, b)) = b - a
         /\ \A j \in 1..(b - a) : Window(s, a, b)[j] = s[Index(a + j - 1)]
<1> DEFINE w == Window(s, a, b)
           k == b - a
<1>1. k \in Nat
  OBVIOUS
<1>2. w = [j \in 1..k |-> s[Index(a + j - 1)]]
  BY DEF Window
<1>3. \A j \in 1..k : s[Index(a + j - 1)] \in Objects
  <2> TAKE j \in 1..k
  <2>1. a + j - 1 \in Nat
    BY <1>1
  <2>2. Index(a + j - 1) \in 0..(Size - 1)
    BY <2>1, IndexType
  <2> QED BY <2>2 DEF Table
<1> HIDE DEF w, k
<1>4. w \in [1..k -> Objects]
  BY <1>2, <1>3
<1>5. w \in Seq(Objects)
  BY <1>1, <1>4, SeqDef
<1>6. Len(w) = k
  BY <1>1, <1>4, <1>5, LenProperties
<1>7. \A j \in 1..k : w[j] = s[Index(a + j - 1)]
  BY <1>2
<1> QED BY <1>5, <1>6, <1>7 DEF w, k

\* Where a window is cut its parts are windows: at the head, where a dequeue
\* takes them, and at the tail, where an enqueue appends them.
LEMMA WindowCut ==
  ASSUME NEW s \in Table, NEW a \in Nat, NEW m \in Nat, NEW b \in Nat, a <= m, m <= b
  PROVE  /\ Window(s, a, m) = SubSeq(Window(s, a, b), 1, m - a)
         /\ Window(s, m, b) = SubSeq(Window(s, a, b), m - a + 1, Len(Window(s, a, b)))
<1> DEFINE u == Window(s, a, m)
           v == Window(s, m, b)
           w == Window(s, a, b)
           k == m - a
<1>1. /\ u \in Seq(Objects) /\ Len(u) = k /\ \A j \in 1..k : u[j] = s[Index(a + j - 1)]
      /\ v \in Seq(Objects) /\ Len(v) = b - m /\ \A j \in 1..(b - m) : v[j] = s[Index(m + j - 1)]
      /\ w \in Seq(Objects) /\ Len(w) = b - a /\ \A j \in 1..(b - a) : w[j] = s[Index(a + j - 1)]
  <2>1. a <= b
    OBVIOUS
  <2> QED BY <2>1, WindowIs
<1> HIDE DEF u, v, w
<1>2. \A j \in 1 .. Len(w) : w[j] \in Objects
  BY <1>1, LenProperties
<1>3. u = SubSeq(w, 1, k)
  <2> DEFINE x == SubSeq(w, 1, k)
  <2>1. \A j \in 1 .. k : w[j] \in Objects
    BY <1>1, <1>2
  <2>2. /\ x \in Seq(Objects) /\ Len(x) = (IF 1 <= k THEN k - 1 + 1 ELSE 0)
        /\ \A j \in 1 .. k - 1 + 1 : x[j] = w[1 + j - 1]
    BY <2>1, SubSeqProperties
  <2> HIDE DEF x
  <2>3. Len(x) = Len(u) /\ \A j \in 1 .. Len(u) : u[j] = x[j]
    <3>1. Len(x) = k /\ \A j \in 1 .. k : x[j] = w[j]
      BY <2>2
    <3>2. \A j \in 1 .. k : w[j] = s[Index(a + j - 1)]
      BY <1>1
    <3> QED BY <1>1, <3>1, <3>2
  <2>4. u = x
    BY <1>1, <2>2, <2>3, SeqEqual
  <2> QED BY <2>4 DEF x
<1>4. v = SubSeq(w, k + 1, Len(w))
  <2> DEFINE x == SubSeq(w, k + 1, Len(w))
             l == Len(w)
  <2>1. l \in Int /\ l = b - a /\ k + 1 \in Int /\ \A j \in k + 1 .. l : w[j] \in Objects
    BY <1>1, <1>2
  <2>2. /\ x \in Seq(Objects) /\ Len(x) = (IF k + 1 <= l THEN l - (k + 1) + 1 ELSE 0)
        /\ \A j \in 1 .. l - (k + 1) + 1 : x[j] = w[(k + 1) + j - 1]
    BY <2>1, SubSeqProperties
  <2> HIDE DEF x, l
  <2>3. Len(x) = Len(v)
    BY <1>1, <2>1, <2>2
  <2>4. ASSUME NEW j \in 1 .. Len(v) PROVE v[j] = x[j]
    <3> DEFINE i == (k + 1) + j - 1
    <3>1. j \in 1 .. b - m
      BY <1>1
    <3>2. /\ j \in 1 .. l - (k + 1) + 1 /\ i \in 1 .. b - a /\ a + i - 1 = m + j - 1
      <4> HIDE DEF l
      <4> QED BY <2>1, <3>1
    <3>3. x[j] = w[i]
      BY <2>2, <3>2
    <3>4. w[i] = s[Index(a + i - 1)]
      BY <1>1, <3>2
    <3>5. v[j] = s[Index(m + j - 1)]
      BY <1>1, <3>1
    <3> QED BY <3>2, <3>3, <3>4, <3>5
  <2>5. v = x
    BY <1>1, <2>2, <2>3, <2>4, SeqEqual
  <2> QED BY <2>5 DEF x, l
<1> QED BY <1>3, <1>4 DEF u, v, w

LEMMA WindowJoin ==
  ASSUME NEW s \in Table, NEW a \in Nat, NEW m \in Nat, NEW b \in Nat, a <= m, m <= b
  PROVE  Window(s, a, b) = Window(s, a, m) \o Window(s, m, b)
<1> DEFINE u == Window(s, a, m)
           v == Window(s, m, b)
           w == Window(s, a, b)
           c == u \o v
<1>1. /\ u \in Seq(Objects) /\ Len(u) = m - a /\ \A j \in 1..(m - a) : u[j] = s[Index(a + j - 1)]
      /\ v \in Seq(Objects) /\ Len(v) = b - m /\ \A j \in 1..(b - m) : v[j] = s[Index(m + j - 1)]
      /\ w \in Seq(Objects) /\ Len(w) = b - a /\ \A j \in 1..(b - a) : w[j] = s[Index(a + j - 1)]
  <2>1. a <= b
    OBVIOUS
  <2> QED BY <2>1, WindowIs
<1> HIDE DEF u, v, w
<1>2. /\ c \in Seq(Objects) /\ Len(c) = (m - a) + (b - m)
      /\ \A j \in 1 .. (m - a) + (b - m) : c[j] = IF j <= m - a THEN u[j] ELSE v[j - (m - a)]
  <2>1. /\ c \in Seq(Objects) /\ Len(c) = Len(u) + Len(v)
        /\ \A j \in 1 .. Len(u) + Len(v) : c[j] = IF j <= Len(u) THEN u[j] ELSE v[j - Len(u)]
    BY <1>1, ConcatProperties
  <2> QED BY <1>1, <2>1
<1> HIDE DEF c
<1>3. Len(c) = Len(w)
  BY <1>1, <1>2
<1>4. ASSUME NEW j \in 1 .. Len(w) PROVE w[j] = c[j]
  <2>1. w[j] = s[Index(a + j - 1)] /\ j \in 1 .. (m - a) + (b - m)
    <3>1. 1 .. Len(w) = 1 .. (b - a) /\ (m - a) + (b - m) = b - a
      BY <1>1
    <3> QED BY <1>1, <3>1
  <2>2. CASE j <= m - a
    <3>1. j \in 1 .. m - a
      BY <2>1, <2>2
    <3> QED BY <1>1, <1>2, <2>1, <2>2, <3>1
  <2>3. CASE ~(j <= m - a)
    <3> DEFINE i == j - (m - a)
    <3>1. i \in 1 .. b - m /\ m + i - 1 = a + j - 1
      BY <2>1, <2>3
    <3>2. c[j] = v[i]
      BY <1>2, <2>1, <2>3
    <3>3. v[i] = s[Index(m + i - 1)]
      BY <1>1, <3>1
    <3> QED BY <2>1, <3>1, <3>2, <3>3
  <2> QED BY <2>2, <2>3
<1> QED BY <1>1, <1>2, <1>3, <1>4, SeqEqual DEF u, v, w, c

\* One more object received is one less that is still in the table.
LEMMA WindowAdvances ==
  ASSUME NEW s \in Table, NEW a \in Nat, NEW b \in Nat, a < b, NEW x \in Seq(Objects)
  PROVE  Append(x, s[Index(a)]) \o Window(s, a + 1, b) = x \o Window(s, a, b)
<1> DEFINE e == s[Index(a)]
           y == <<e>>
           v == Window(s, a + 1, b)
           w == Window(s, a, b)
<1>1. e \in Objects
  BY IndexType DEF Table
<1>2. a + 1 \in Nat /\ a <= a + 1 /\ a + 1 <= b
  OBVIOUS
<1> DEFINE d == a + 1
           one == Window(s, a, d)
<1>3. one = y
  <2>1. d \in Nat /\ a <= d /\ d - a = 1
    OBVIOUS
  <2> HIDE DEF d
  <2>2. /\ one \in Seq(Objects) /\ Len(one) = d - a
        /\ \A j \in 1..(d - a) : one[j] = s[Index(a + j - 1)]
    BY <2>1, WindowIs
  <2>3. a + 1 - 1 = a
    OBVIOUS
  <2> HIDE DEF one
  <2>4. Len(one) = 1 /\ one[1] = e
    <3>1. Len(one) = 1
      BY <2>1, <2>2
    <3>2. 1 \in 1..(d - a)
      BY <2>1
    <3>3. one[1] = s[Index(a + 1 - 1)]
      BY <2>2, <3>2
    <3>4. one[1] = e
      BY <2>3, <3>3
    <3> QED BY <3>1, <3>4
  <2> HIDE DEF e
  <2>5. y \in Seq(Objects) /\ Len(y) = 1 /\ \A j \in 1 .. 1 : y[j] = e
    BY <1>1
  <2>6. \A j \in 1 .. 1 : one[j] = y[j]
    BY <2>4, <2>5
  <2> HIDE DEF y
  <2> QED BY <2>2, <2>4, <2>5, <2>6, SeqEqual
<1>4. w = y \o v
  <2>1. d \in Nat /\ a <= d /\ d <= b
    OBVIOUS
  <2> HIDE DEF d
  <2>2. Window(s, a, b) = Window(s, a, d) \o Window(s, d, b)
    BY <2>1, WindowJoin
  <2> QED BY <1>3, <2>2 DEF d
<1>5. y \in Seq(Objects) /\ v \in Seq(Objects)
  BY <1>1, <1>2, WindowIs
<1>6. Append(x, e) = x \o y
  BY <1>1, AppendIsConcat
<1> HIDE DEF e, y, v, w
<1>7. (x \o y) \o v = x \o (y \o v)
  BY <1>5, ConcatAssociative
<1> QED BY <1>4, <1>6, <1>7 DEF e, v, w

\* A window is left alone by a store to another slot.
LEMMA WindowKept ==
  ASSUME NEW s, NEW i, NEW o, NEW a \in Nat, NEW b \in Nat,
         \A p \in a .. b - 1 : Index(p) # i
  PROVE  Window([s EXCEPT ![i] = o], a, b) = Window(s, a, b)
<1> DEFINE r == [s EXCEPT ![i] = o]
<1>1. ASSUME NEW j \in 1..(b - a) PROVE r[Index(a + j - 1)] = s[Index(a + j - 1)]
  <2>1. a + j - 1 \in a .. b - 1
    OBVIOUS
  <2>2. Index(a + j - 1) # i
    BY <2>1
  <2> QED BY <2>2
<1> QED BY <1>1 DEF Window
-----------------------------------------------------------------------------
(* The refinement.  Beyond IInv: a single-mode side has nothing between tail *)
(* and head but the claim of its call, since it does not wait for the tail;  *)
(* and a call has received nothing before its head has moved.                *)

SingleExact ==
  /\ \A s \in Sides : single[s] /\ (\A t \in Threads : HasClaim(t) => side[t] # s)
                      => tail[s] = head[s]
  /\ \A t \in Threads : single[side[t]] /\ HasClaim(t) =>
       tail[side[t]] = oldHead[t] /\ oldHead[t] + n[t] = head[side[t]]

NothingReceived == \A t \in Threads : ~HasClaim(t) => buf[t] = <<>>

FifoInv == IInv /\ SingleExact /\ NothingReceived

LEMMA FifoFacts ==
  ASSUME IInv
  PROVE  /\ TypeOK /\ Order
         /\ head["prod"] \in Nat /\ head["cons"] \in Nat
         /\ tail["prod"] \in Nat /\ tail["cons"] \in Nat /\ slots \in Table
         /\ side \in [Threads -> {"prod", "cons"}] /\ single \in [{"prod", "cons"} -> BOOLEAN]
         /\ head \in [{"prod", "cons"} -> Nat] /\ tail \in [{"prod", "cons"} -> Nat]
         /\ pc \in [Threads -> PCs] /\ n \in [Threads -> 0..MaxBatch]
         /\ oldHead \in [Threads -> Nat] /\ copied \in [Threads -> Nat]
         /\ n \in [Threads -> Nat] /\ buf \in [Threads -> Seq(Objects)]
         /\ Capacity \in Nat /\ Size \in Nat /\ Capacity < Size /\ MaxBatch \in Nat
         /\ PositionsOrdered
<1>1. TypeOK /\ Order /\ PositionsOrdered
  BY DEF IInv, Order
<1>2. MaxBatch \in Nat /\ Capacity \in Nat /\ Size \in Nat /\ Capacity < Size
  BY RingAssumption
<1> QED BY <1>1, <1>2 DEF TypeOK, Sides, Table

LEMMA FifoInvInit == Init => FifoInv
<1> SUFFICES ASSUME Init PROVE FifoInv
  OBVIOUS
<1>1. IInv
  BY InitIInv
<1>2. SingleExact /\ NothingReceived
  BY DEF Init, SingleExact, NothingReceived, HasClaim, Sides
<1> QED BY <1>1, <1>2 DEF FifoInv

LEMMA SingleStep ==
  ASSUME FifoInv, [Next]_vars
  PROVE  SingleExact'
<1>1. /\ TypeOK /\ Order /\ SingleExact /\ SingleAlone
      /\ side \in [Threads -> {"prod", "cons"}] /\ single \in [{"prod", "cons"} -> BOOLEAN]
      /\ head \in [{"prod", "cons"} -> Nat] /\ tail \in [{"prod", "cons"} -> Nat]
      /\ pc \in [Threads -> PCs] /\ n \in [Threads -> Nat] /\ oldHead \in [Threads -> Nat]
  BY FifoFacts DEF FifoInv, IInv
<1> USE DEF Sides
<1>2. ASSUME NEW t \in Threads, ~HasClaim(t), ~HasClaim(t)',
             UNCHANGED <<head, tail, single>>,
             \A u \in Threads \ {t} : /\ pc'[u] = pc[u] /\ side'[u] = side[u]
                                      /\ n'[u] = n[u] /\ oldHead'[u] = oldHead[u]
      PROVE  SingleExact'
  BY <1>1, <1>2 DEF SingleExact, HasClaim
<1>3. ASSUME NEW t \in Threads, NEW s \in Sides, Call(t, s) PROVE SingleExact'
  BY <1>1, <1>2, <1>3 DEF Call, HasClaim
<1>4. ASSUME NEW t \in Threads, LoadTail(t) PROVE SingleExact'
  BY <1>1, <1>2, <1>4 DEF LoadTail, Return, HasClaim
<1>5. ASSUME NEW t \in Threads, MoveHeadFails(t) PROVE SingleExact'
  BY <1>1, <1>2, <1>5 DEF MoveHeadFails, HasClaim
<1>6. ASSUME NEW t \in Threads, CopyElement(t) PROVE SingleExact'
  <2>1. /\ HasClaim(t)' <=> HasClaim(t)
        /\ \A u \in Threads \ {t} : HasClaim(u)' <=> HasClaim(u)
        /\ UNCHANGED <<head, tail, single, side, n, oldHead>>
    BY <1>1, <1>6 DEF CopyElement, HasClaim
  <2> QED BY <1>1, <2>1 DEF SingleExact
<1>7. ASSUME NEW t \in Threads, MoveHead(t) PROVE SingleExact'
  <2>1. /\ pc[t] = "move" /\ pc' = [pc EXCEPT ![t] = "copy"]
        /\ head' = [head EXCEPT ![side[t]] = oldHead[t] + n[t]]
        /\ UNCHANGED <<tail, single, side, n, oldHead>>
    BY <1>7 DEF MoveHead
  <2>2. head[side[t]] = oldHead[t]
    BY <1>1, <1>7, MoveHeadExact
  <2>3. /\ HasClaim(t)' /\ ~HasClaim(t)
        /\ \A u \in Threads \ {t} : HasClaim(u)' <=> HasClaim(u)
    BY <1>1, <2>1 DEF HasClaim
  <2>4. single[side[t]] => \A u \in Threads : HasClaim(u) => side[u] # side[t]
    BY <1>1, <2>1, <2>3 DEF SingleAlone, HasClaim
  <2>5. single[side[t]] => tail[side[t]] = head[side[t]]
    BY <1>1, <2>4 DEF SingleExact
  <2>6. head'[side[t]] = oldHead[t] + n[t] /\ \A s \in Sides : s # side[t] => head'[s] = head[s]
    BY <1>1, <2>1
  <2>7. ASSUME NEW s \in Sides, single[s], \A u \in Threads : HasClaim(u)' => side[u] # s
        PROVE  tail[s] = head'[s]
    BY <1>1, <2>3, <2>6, <2>7 DEF SingleExact
  <2>8. ASSUME NEW u \in Threads, single[side[u]], HasClaim(u)'
        PROVE  tail[side[u]] = oldHead[u] /\ oldHead[u] + n[u] = head'[side[u]]
    <3>1. CASE u = t
      BY <2>2, <2>5, <2>6, <2>8, <3>1
    <3>2. CASE u # t
      <4>1. HasClaim(u) /\ side[u] # side[t]
        BY <2>3, <2>4, <2>8, <3>2
      <4> QED BY <1>1, <2>6, <2>8, <4>1 DEF SingleExact
    <3> QED BY <3>1, <3>2
  <2> QED BY <2>1, <2>7, <2>8 DEF SingleExact
<1>8. ASSUME NEW t \in Threads, UpdateTail(t) PROVE SingleExact'
  <2>1. /\ pc[t] = "publish" /\ pc' = [pc EXCEPT ![t] = "idle"]
        /\ tail' = [tail EXCEPT ![side[t]] = oldHead[t] + n[t]]
        /\ \A u \in Threads \ {t} : side'[u] = side[u] /\ n'[u] = n[u] /\ oldHead'[u] = oldHead[u]
        /\ UNCHANGED <<head, single>>
    BY <1>1, <1>8 DEF UpdateTail, Return
  <2>2. /\ ~HasClaim(t)' /\ HasClaim(t)
        /\ \A u \in Threads \ {t} : HasClaim(u)' <=> HasClaim(u)
    BY <1>1, <2>1 DEF HasClaim
  <2>3. single[side[t]] => \A u \in Threads \ {t} : HasClaim(u) => side[u] # side[t]
    BY <1>1, <2>1, <2>2 DEF SingleAlone, HasClaim
  <2>4. single[side[t]] => oldHead[t] + n[t] = head[side[t]]
    BY <1>1, <2>2 DEF SingleExact
  <2>5. tail'[side[t]] = oldHead[t] + n[t] /\ \A s \in Sides : s # side[t] => tail'[s] = tail[s]
    BY <1>1, <2>1
  <2>6. ASSUME NEW s \in Sides, single[s], \A u \in Threads : HasClaim(u)' => side'[u] # s
        PROVE  tail'[s] = head[s]
    <3>1. CASE s = side[t]
      BY <2>4, <2>5, <2>6, <3>1
    <3>2. CASE s # side[t]
      <4>1. \A u \in Threads : HasClaim(u) => side[u] # s
        BY <2>1, <2>2, <2>6, <3>2
      <4> QED BY <1>1, <2>5, <2>6, <3>2, <4>1 DEF SingleExact
    <3> QED BY <3>1, <3>2
  <2>7. ASSUME NEW u \in Threads, single[side'[u]], HasClaim(u)'
        PROVE  tail'[side'[u]] = oldHead'[u] /\ oldHead'[u] + n'[u] = head[side'[u]]
    <3>1. u # t /\ HasClaim(u) /\ side'[u] = side[u]
      BY <2>1, <2>2, <2>7
    <3>2. side[u] # side[t]
      BY <2>3, <2>7, <3>1
    <3> QED BY <1>1, <2>1, <2>5, <2>7, <3>1, <3>2 DEF SingleExact
  <2> QED BY <2>1, <2>6, <2>7 DEF SingleExact
<1>9. CASE UNCHANGED vars
  BY <1>1, <1>9 DEF vars, SingleExact, HasClaim
<1> QED BY <1>3, <1>4, <1>5, <1>6, <1>7, <1>8, <1>9 DEF Next, Step

LEMMA ReceivedStep ==
  ASSUME FifoInv, [Next]_vars
  PROVE  NothingReceived'
<1>1. /\ NothingReceived /\ pc \in [Threads -> PCs] /\ buf \in [Threads -> Seq(Objects)]
  BY FifoFacts DEF FifoInv
<1>2. ASSUME NEW t \in Threads, NEW s \in Sides, Call(t, s) PROVE NothingReceived'
  BY <1>1, <1>2 DEF Call, NothingReceived, HasClaim
<1>3. ASSUME NEW t \in Threads, LoadTail(t) PROVE NothingReceived'
  BY <1>1, <1>3 DEF LoadTail, Return, NothingReceived, HasClaim
<1>4. ASSUME NEW t \in Threads, MoveHead(t) PROVE NothingReceived'
  BY <1>1, <1>4 DEF MoveHead, NothingReceived, HasClaim
<1>5. ASSUME NEW t \in Threads, MoveHeadFails(t) PROVE NothingReceived'
  BY <1>1, <1>5 DEF MoveHeadFails, NothingReceived, HasClaim
<1>6. ASSUME NEW t \in Threads, CopyElement(t) PROVE NothingReceived'
  <2>1. HasClaim(t)' /\ \A u \in Threads \ {t} : pc'[u] = pc[u] /\ buf'[u] = buf[u]
    BY <1>1, <1>6 DEF CopyElement, HasClaim
  <2> QED BY <1>1, <2>1 DEF NothingReceived, HasClaim
<1>7. ASSUME NEW t \in Threads, UpdateTail(t) PROVE NothingReceived'
  BY <1>1, <1>7 DEF UpdateTail, Return, NothingReceived, HasClaim
<1>8. CASE UNCHANGED vars
  BY <1>1, <1>8 DEF vars, NothingReceived, HasClaim
<1> QED BY <1>2, <1>3, <1>4, <1>5, <1>6, <1>7, <1>8 DEF Next, Step

LEMMA FifoInvStep == FifoInv /\ [Next]_vars => FifoInv'
BY StepIInv, SingleStep, ReceivedStep DEF FifoInv

\* What the user of the queue sees: its objects, and what each call took.
Queue == Contents(head["cons"], tail["prod"])
Got == [t \in Threads |-> Received(t)]

LEMMA Views ==
  /\ Queue = Window(slots, head["cons"], tail["prod"])
  /\ Queue' = Window(slots', head'["cons"], tail'["prod"])
  /\ \A t : Received(t) =
       IF HasClaim(t) /\ side[t] = "cons"
       THEN buf[t] \o Window(slots, oldHead[t] + copied[t], oldHead[t] + n[t]) ELSE <<>>
  /\ \A t : Received(t)' =
       IF HasClaim(t)' /\ side'[t] = "cons"
       THEN buf'[t] \o Window(slots', oldHead'[t] + copied'[t], oldHead'[t] + n'[t]) ELSE <<>>
BY DEF Queue, Contents, Window, Received, HasClaim

\* A step of t that stores nothing to the table is seen in what t received only.
LEMMA OthersKeep ==
  ASSUME NEW t \in Threads, UNCHANGED slots,
         \A u \in Threads \ {t} :
           /\ pc'[u] = pc[u] /\ side'[u] = side[u] /\ n'[u] = n[u] /\ oldHead'[u] = oldHead[u]
           /\ copied'[u] = copied[u] /\ buf'[u] = buf[u]
  PROVE  Got' = [Got EXCEPT ![t] = Received(t)']
<1>1. \A u \in Threads \ {t} : Received(u)' = Received(u)
  BY Views DEF HasClaim
<1>2. Got' = [u \in Threads |-> Received(u)']
  BY DEF Got
<1> QED BY <1>1, <1>2 DEF Got

\* A call that has not moved the head is not seen, nor is its giving up.
LEMMA UnseenStep ==
  ASSUME FifoInv, NEW t \in Threads,
         LoadTail(t) \/ MoveHeadFails(t) \/ \E s \in Sides : Call(t, s)
  PROVE  Queue' = Queue /\ Got' = Got
<1>1. /\ side \in [Threads -> {"prod", "cons"}] /\ pc \in [Threads -> PCs]
      /\ n \in [Threads -> Nat] /\ oldHead \in [Threads -> Nat]
      /\ copied \in [Threads -> Nat] /\ buf \in [Threads -> Seq(Objects)]
  BY FifoFacts DEF FifoInv
<1>2. /\ UNCHANGED <<head, tail, slots>> /\ ~HasClaim(t) /\ ~HasClaim(t)'
      /\ \A u \in Threads \ {t} :
           /\ pc'[u] = pc[u] /\ side'[u] = side[u] /\ n'[u] = n[u] /\ oldHead'[u] = oldHead[u]
           /\ copied'[u] = copied[u] /\ buf'[u] = buf[u]
  <2>1. CASE LoadTail(t)
    BY <1>1, <2>1 DEF LoadTail, Return, HasClaim
  <2>2. CASE MoveHeadFails(t)
    BY <1>1, <2>2 DEF MoveHeadFails, HasClaim
  <2>3. CASE \E s \in Sides : Call(t, s)
    BY <1>1, <2>3 DEF Call, HasClaim
  <2> QED BY <2>1, <2>2, <2>3
<1>3. Queue' = Queue
  BY <1>2, Views
<1>4. Received(t)' = Received(t)
  BY <1>2, Views
<1>5. Got' = [Got EXCEPT ![t] = Received(t)]
  BY <1>2, <1>4, OthersKeep
<1>6. Got' = Got
  BY <1>5 DEF Got
<1> QED BY <1>3, <1>6

\* The move of the consumers' head takes a batch from the queue.
LEMMA MoveHeadFifo ==
  ASSUME FifoInv, NEW t \in Threads, MoveHead(t)
  PROVE  (Queue' = Queue /\ Got' = Got) \/ Fifo!Take(t)
<1>1. /\ TypeOK /\ Order /\ PositionsOrdered /\ slots \in Table
      /\ side \in [Threads -> {"prod", "cons"}] /\ pc \in [Threads -> PCs]
      /\ head \in [{"prod", "cons"} -> Nat] /\ tail \in [{"prod", "cons"} -> Nat]
      /\ n \in [Threads -> Nat] /\ n[t] \in 0..MaxBatch /\ oldHead \in [Threads -> Nat]
      /\ copied \in [Threads -> Nat] /\ buf \in [Threads -> Seq(Objects)] /\ MaxBatch \in Nat
  BY FifoFacts DEF FifoInv
<1>2. /\ pc[t] = "move" /\ pc' = [pc EXCEPT ![t] = "copy"]
      /\ head' = [head EXCEPT ![side[t]] = oldHead[t] + n[t]]
      /\ UNCHANGED <<tail, slots, side, n, oldHead, copied, buf>>
  BY DEF MoveHead
<1>3. head[side[t]] = oldHead[t]
  BY <1>1, MoveHeadExact
<1>4. HasClaim(t)' /\ ~HasClaim(t) /\ buf[t] = <<>> /\ copied[t] = 0
  BY <1>1, <1>2 DEF HasClaim, FifoInv, NothingReceived, Order, CopyUnfinished
<1>5. Received(t) = <<>>
  BY <1>4, Views
<1>6. Got' = [Got EXCEPT ![t] = Received(t)']
  BY <1>1, <1>2, OthersKeep
<1>7. CASE side[t] = "prod"
  <2>1. head'["cons"] = head["cons"]
    BY <1>1, <1>2, <1>7
  <2>2. Queue' = Queue
    BY <1>2, <2>1, Views
  <2>3. Received(t)' = <<>>
    BY <1>2, <1>7, Views
  <2>4. Got' = Got
    BY <1>5, <1>6, <2>3 DEF Got
  <2> QED BY <2>2, <2>4
<1>8. CASE side[t] = "cons"
  <2> DEFINE a == head["cons"]
             b == tail["prod"]
             k == n[t]
             m == a + k
  <2>1. a \in Nat /\ b \in Nat /\ k \in Nat /\ m \in Nat /\ a <= m /\ m - a = k
    BY <1>1
  <2>2. k > 0 /\ oldHead[t] + k <= Slack("cons") + tail[Counterpart("cons")]
    BY <1>2, <1>8 DEF FifoInv, IInv, MoveFits
  <2>3. a = oldHead[t] /\ m = oldHead[t] + n[t] /\ m <= b /\ k \in 1..MaxBatch
    BY <1>1, <1>3, <1>8, <2>1, <2>2 DEF Slack, Counterpart
  <2>4. head'["cons"] = m /\ tail'["prod"] = b
    BY <1>1, <1>2, <1>8, <2>3
  <2>5. Received(t)' = <<>> \o Window(slots, a + 0, m)
    BY <1>2, <1>4, <1>8, <2>3, Views
  <2>6. Queue = Window(slots, a, b) /\ Queue' = Window(slots, m, b)
    BY <1>2, <2>4, Views
  <2> HIDE DEF a, b, k, m
  <2>7. /\ Window(slots, a, m) = SubSeq(Queue, 1, k)
        /\ Window(slots, m, b) = SubSeq(Queue, k + 1, Len(Queue))
    <3>1. slots \in Table /\ a \in Nat /\ m \in Nat /\ b \in Nat /\ a <= m /\ m <= b
      BY <1>1, <2>1, <2>3
    <3>2. /\ Window(slots, a, m) = SubSeq(Window(slots, a, b), 1, m - a)
          /\ Window(slots, m, b)
               = SubSeq(Window(slots, a, b), m - a + 1, Len(Window(slots, a, b)))
      BY <3>1, WindowCut
    <3> QED BY <2>1, <2>6, <3>2
  <2>8. Window(slots, a, m) \in Seq(Objects) /\ a + 0 = a
    <3>1. slots \in Table /\ a \in Nat /\ m \in Nat /\ a <= m
      BY <1>1, <2>1
    <3>2. Window(slots, a, m) \in Seq(Objects)
      BY <3>1, WindowIs
    <3> QED BY <2>1, <3>2
  <2>9. Received(t)' = SubSeq(Queue, 1, k)
    BY <2>5, <2>7, <2>8, ConcatEmptySeq
  <2>10. k <= Len(Queue)
    <3>1. a <= b
      BY <2>1, <2>3
    <3>2. Len(Queue) = b - a
      BY <1>1, <2>1, <2>6, <3>1, WindowIs
    <3> QED BY <2>1, <2>3, <3>2
  <2>11. Got[t] = <<>>
    BY <1>5 DEF Got
  <2>12. Queue' = SubSeq(Queue, k + 1, Len(Queue))
    BY <2>6, <2>7
  <2>13. Got' = [Got EXCEPT ![t] = SubSeq(Queue, 1, k)]
    BY <1>6, <2>9
  <2> QED BY <2>3, <2>10, <2>11, <2>12, <2>13 DEF Fifo!Take, Queue, Got
<1> QED BY <1>1, <1>7, <1>8

\* No store of a producer is to a slot with an object of the queue, or with one
\* that a consumer is still to copy.
LEMMA SlotApart ==
  ASSUME IInv, NEW t \in Threads, HasClaim(t), side[t] = "prod",
         NEW p \in Nat, oldHead[t] <= p, p < oldHead[t] + n[t],
         NEW q \in Nat, tail["cons"] <= q, q < tail["prod"]
  PROVE  Index(q) # Index(p)
<1>1. /\ head["prod"] \in Nat /\ head["cons"] \in Nat
      /\ tail["prod"] \in Nat /\ tail["cons"] \in Nat /\ oldHead[t] \in Nat /\ n[t] \in Nat
      /\ Capacity \in Nat /\ Size \in Nat /\ Capacity < Size
  BY FifoFacts
<1>2. /\ tail["prod"] <= oldHead[t] /\ oldHead[t] + n[t] <= head["prod"]
      /\ head["prod"] <= tail["cons"] + Capacity
  BY DEF IInv, ClaimsInside, PositionsOrdered
<1>3. q < p /\ p < q + Size
  BY <1>1, <1>2
<1> QED BY <1>3, IndexDistinct

\* The copies change neither the queue nor what a call receives in the end.
LEMMA CopyElementFifo ==
  ASSUME FifoInv, NEW t \in Threads, CopyElement(t)
  PROVE  Queue' = Queue /\ Got' = Got
<1> DEFINE p == oldHead[t] + copied[t]
           i == (Index(oldHead[t]) + copied[t]) % Size
<1>1. /\ TypeOK /\ Order /\ PositionsOrdered /\ slots \in Table
      /\ side \in [Threads -> {"prod", "cons"}] /\ pc \in [Threads -> PCs]
      /\ head["prod"] \in Nat /\ head["cons"] \in Nat
      /\ tail["prod"] \in Nat /\ tail["cons"] \in Nat
      /\ n \in [Threads -> Nat] /\ oldHead \in [Threads -> Nat]
      /\ copied \in [Threads -> Nat] /\ buf \in [Threads -> Seq(Objects)]
  BY FifoFacts DEF FifoInv
<1>2. /\ pc[t] = "copy" /\ copied' = [copied EXCEPT ![t] = @ + 1]
      /\ pc' = [pc EXCEPT ![t] = IF copied'[t] = n[t] THEN "publish" ELSE "copy"]
      /\ UNCHANGED <<head, tail, side, n, oldHead>>
  BY DEF CopyElement
<1>3. HasClaim(t) /\ HasClaim(t)' /\ \A u \in Threads \ {t} : pc'[u] = pc[u] /\ copied'[u] = copied[u]
  BY <1>1, <1>2 DEF HasClaim
<1>4. /\ copied'[t] = copied[t] + 1 /\ copied[t] < n[t]
      /\ p \in Nat /\ oldHead[t] <= p /\ p < oldHead[t] + n[t]
  BY <1>1, <1>2 DEF Order, CopyUnfinished
<1>5. i = Index(p)
  BY <1>1, IndexAdvances
<1>6. CASE side[t] = "prod"
  <2>1. PICK o \in Objects : slots' = [slots EXCEPT ![i] = o]
    BY <1>6 DEF CopyElement
  <2>2. buf' = buf
    BY <1>6 DEF CopyElement
  <2>3. \A q \in Nat : tail["cons"] <= q /\ q < tail["prod"] => Index(q) # i
    BY <1>3, <1>4, <1>5, <1>6, SlotApart DEF FifoInv
  <2> HIDE DEF i, p
  <2>4. ASSUME NEW a \in Nat, NEW b \in Nat, tail["cons"] <= a, b <= tail["prod"]
        PROVE  Window(slots', a, b) = Window(slots, a, b)
    <3>1. ASSUME NEW q \in a .. b - 1 PROVE Index(q) # i
      <4>1. q \in Nat /\ tail["cons"] <= q /\ q < tail["prod"]
        BY <1>1, <2>4
      <4> QED BY <2>3, <4>1
    <3>2. Window([slots EXCEPT ![i] = o], a, b) = Window(slots, a, b)
      BY <3>1, WindowKept
    <3> QED BY <2>1, <3>2
  <2>5. tail["cons"] <= head["cons"]
    BY <1>1 DEF PositionsOrdered
  <2>6. Queue' = Queue
    BY <1>1, <1>2, <2>4, <2>5, Views
  <2>7. ASSUME NEW u \in Threads PROVE Received(u)' = Received(u)
    <3>1. CASE HasClaim(u) /\ side[u] = "cons"
      <4> DEFINE a == oldHead[u] + copied[u]
                 b == oldHead[u] + n[u]
      <4>1. u # t /\ HasClaim(u)' /\ copied'[u] = copied[u]
        BY <1>2, <1>3, <1>6, <3>1 DEF HasClaim
      <4>2. tail["cons"] <= oldHead[u] /\ b <= head["cons"] /\ head["cons"] <= tail["prod"]
        BY <1>1, <3>1 DEF FifoInv, IInv, ClaimsInside, PositionsOrdered
      <4>3. a \in Nat /\ b \in Nat /\ tail["cons"] <= a /\ b <= tail["prod"]
        BY <1>1, <4>2
      <4>4. Window(slots', a, b) = Window(slots, a, b)
        BY <2>4, <4>3
      <4>5. Received(u) = buf[u] \o Window(slots, a, b)
        BY <3>1, Views
      <4>6. Received(u)' = buf'[u] \o Window(slots', oldHead'[u] + copied'[u], oldHead'[u] + n'[u])
        BY <1>2, <3>1, <4>1, Views
      <4>7. oldHead'[u] + copied'[u] = a /\ oldHead'[u] + n'[u] = b /\ buf'[u] = buf[u]
        BY <1>2, <2>2, <4>1
      <4> HIDE DEF a, b
      <4> QED BY <4>4, <4>5, <4>6, <4>7
    <3>2. CASE ~(HasClaim(u) /\ side[u] = "cons")
      <4>1. ~(HasClaim(u)' /\ side'[u] = "cons")
        BY <1>2, <1>3, <1>6, <3>2 DEF HasClaim
      <4> QED BY <3>2, <4>1, Views
    <3> QED BY <3>1, <3>2
  <2>8. Got' = Got
    BY <2>7 DEF Got
  <2> QED BY <2>6, <2>8
<1>7. CASE side[t] = "cons"
  <2>1. buf' = [buf EXCEPT ![t] = Append(@, slots[i])] /\ slots' = slots
    BY <1>7 DEF CopyElement
  <2>2. Queue' = Queue
    BY <1>2, <2>1, Views
  <2> DEFINE b == oldHead[t] + n[t]
             x == buf[t]
  <2>3. b \in Nat /\ p < b /\ x \in Seq(Objects) /\ p \in Nat
    BY <1>1, <1>4
  <2>4. Received(t) = x \o Window(slots, p, b)
    BY <1>3, <1>7, Views
  <2>5. Received(t)' = Append(x, slots[Index(p)]) \o Window(slots, p + 1, b)
    <3>1. buf'[t] = Append(x, slots[Index(p)])
      BY <1>1, <1>5, <2>1
    <3>2. oldHead'[t] + copied'[t] = p + 1 /\ oldHead'[t] + n'[t] = b
      BY <1>1, <1>2, <1>4
    <3> HIDE DEF p, b, x
    <3>3. Received(t)' = buf'[t] \o Window(slots', oldHead'[t] + copied'[t], oldHead'[t] + n'[t])
      BY <1>2, <1>3, <1>7, Views
    <3> QED BY <2>1, <3>1, <3>2, <3>3
  <2>6. Received(t)' = Received(t)
    <3> HIDE DEF p, b, x
    <3> QED BY <1>1, <2>3, <2>4, <2>5, WindowAdvances
  <2>7. \A u \in Threads \ {t} : buf'[u] = buf[u]
    BY <1>1, <2>1
  <2>8. Got' = [Got EXCEPT ![t] = Received(t)]
    <3>1. Got' = [Got EXCEPT ![t] = Received(t)']
      BY <1>2, <1>3, <2>1, <2>7, OthersKeep
    <3> QED BY <2>6, <3>1
  <2>9. Got' = Got
    BY <2>8 DEF Got
  <2> QED BY <2>2, <2>9
<1> QED BY <1>1, <1>6, <1>7

\* The update of the producers' tail puts the batch of the claim at the end of
\* the queue; that of the consumers' tail ends the call.
LEMMA UpdateTailFifo ==
  ASSUME FifoInv, NEW t \in Threads, UpdateTail(t)
  PROVE  Fifo!Put \/ Fifo!Return(t)
<1>1. /\ TypeOK /\ Order /\ PositionsOrdered /\ slots \in Table
      /\ side \in [Threads -> {"prod", "cons"}] /\ pc \in [Threads -> PCs]
      /\ single \in [{"prod", "cons"} -> BOOLEAN]
      /\ head \in [{"prod", "cons"} -> Nat] /\ tail \in [{"prod", "cons"} -> Nat]
      /\ n \in [Threads -> Nat] /\ n[t] \in 0..MaxBatch /\ oldHead \in [Threads -> Nat]
      /\ copied \in [Threads -> Nat] /\ buf \in [Threads -> Seq(Objects)] /\ MaxBatch \in Nat
      /\ Capacity \in Nat
  BY FifoFacts DEF FifoInv
<1>2. /\ pc[t] = "publish" /\ pc' = [pc EXCEPT ![t] = "idle"]
      /\ tail' = [tail EXCEPT ![side[t]] = oldHead[t] + n[t]]
      /\ single[side[t]] \/ Word(tail[side[t]]) = Word(oldHead[t])
      /\ UNCHANGED <<head, slots>>
      /\ \A u \in Threads \ {t} :
           /\ pc'[u] = pc[u] /\ side'[u] = side[u] /\ n'[u] = n[u] /\ oldHead'[u] = oldHead[u]
           /\ copied'[u] = copied[u] /\ buf'[u] = buf[u]
  BY <1>1 DEF UpdateTail, Return
<1>3. HasClaim(t) /\ ~HasClaim(t)'
  BY <1>1, <1>2 DEF HasClaim
<1>4. n[t] > 0 /\ tail[side[t]] <= oldHead[t] /\ oldHead[t] + n[t] <= head[side[t]]
  BY <1>3 DEF FifoInv, IInv, ClaimsInside
<1>5. tail[side[t]] = oldHead[t]
  <2>1. CASE single[side[t]]
    BY <1>3, <2>1 DEF FifoInv, SingleExact
  <2>2. CASE Word(tail[side[t]]) = Word(oldHead[t])
    <3>1. tail[side[t]] \in Nat /\ oldHead[t] \in Nat
      BY <1>1
    <3>2. Capacity < Mod /\ Mod \in Nat
      BY RingAssumption
    <3>3. oldHead[t] - tail[side[t]] < Mod
      BY <1>1, <1>4, <3>2 DEF PositionsOrdered
    <3> QED BY <1>4, <2>2, <3>1, <3>3, WordEqual
  <2> QED BY <1>2, <2>1, <2>2
<1>6. Received(t)' = <<>>
  BY <1>3, Views
<1>7. Got' = [Got EXCEPT ![t] = <<>>]
  BY <1>2, <1>6, OthersKeep
<1>8. CASE side[t] = "prod"
  <2> DEFINE a == head["cons"]
             b == tail["prod"]
             k == n[t]
             c == b + k
             batch == Window(slots, b, c)
  <2>1. a \in Nat /\ b \in Nat /\ k \in 1..MaxBatch /\ c \in Nat /\ a <= b /\ b <= c /\ c - b = k
    BY <1>1, <1>4 DEF PositionsOrdered
  <2>2. tail'["prod"] = c /\ head'["cons"] = a
    BY <1>1, <1>2, <1>5, <1>8
  <2>3. c - a <= Capacity
    <3>1. c <= head["prod"] /\ head["prod"] <= tail["cons"] + Capacity /\ tail["cons"] <= a
      BY <1>1, <1>4, <1>5, <1>8 DEF PositionsOrdered
    <3>2. head["prod"] \in Nat /\ tail["cons"] \in Nat
      BY <1>1
    <3> QED BY <1>1, <2>1, <3>1, <3>2
  <2>4. Queue = Window(slots, a, b) /\ Queue' = Window(slots, a, c)
    BY <1>2, <2>2, Views
  <2> HIDE DEF a, b, k, c
  <2>5. Queue' = Queue \o batch
    <3>1. slots \in Table /\ a \in Nat /\ b \in Nat /\ c \in Nat /\ a <= b /\ b <= c
      BY <1>1, <2>1
    <3>2. Window(slots, a, c) = Window(slots, a, b) \o Window(slots, b, c)
      BY <3>1, WindowJoin
    <3> QED BY <2>4, <3>2
  <2>6. Len(Queue) = b - a
    BY <1>1, <2>1, <2>4, WindowIs
  <2>7. batch \in Seq(Objects) /\ Len(batch) = k
    BY <1>1, <2>1, WindowIs
  <2>8. Len(Queue) + Len(batch) <= Capacity
    BY <2>1, <2>3, <2>6, <2>7
  <2> HIDE DEF batch
  <2>9. batch \in [1..k -> Objects] /\ k \in 0..MaxBatch
    BY <1>1, <2>1, <2>7, LenProperties
  <2>10. batch \in Fifo!BoundedSeq(Objects, MaxBatch)
    BY <2>9 DEF Fifo!BoundedSeq, Fifo!SeqOf
  <2>11. batch # <<>>
    BY <2>1, <2>7, EmptySeq
  <2>12. Got' = Got
    <3>1. Received(t) = <<>>
      BY <1>8, Views
    <3> QED BY <1>7, <3>1 DEF Got
  <2> QED BY <2>5, <2>8, <2>10, <2>11, <2>12 DEF Fifo!Put, Queue, Got
<1>9. CASE side[t] = "cons"
  <2>1. tail'["prod"] = tail["prod"]
    BY <1>1, <1>2, <1>9
  <2>2. Queue' = Queue
    BY <1>2, <2>1, Views
  <2> QED BY <1>7, <2>2 DEF Fifo!Return, Queue, Got
<1> QED BY <1>1, <1>8, <1>9

\* In any mix of single and multi mode, and for any number of threads, the ring
\* is a queue that takes and gives whole batches, each in one step: none of the
\* loads, compare-exchanges, copies and stores in between can be told from
\* outside (__rte_ring_do_enqueue, __rte_ring_do_dequeue).
THEOREM RefinesFifo == Spec => ImplementsFifo
<1>1. FifoInv /\ [Next]_vars => [Fifo!Next]_<<Queue, Got>>
  <2> SUFFICES ASSUME FifoInv, [Next]_vars
               PROVE  Fifo!Next \/ (Queue' = Queue /\ Got' = Got)
    OBVIOUS
  <2>1. ASSUME NEW t \in Threads, NEW s \in Sides, Call(t, s)
        PROVE  Queue' = Queue /\ Got' = Got
    BY <2>1, UnseenStep
  <2>2. ASSUME NEW t \in Threads, LoadTail(t) \/ MoveHeadFails(t)
        PROVE  Queue' = Queue /\ Got' = Got
    BY <2>2, UnseenStep
  <2>3. ASSUME NEW t \in Threads, MoveHead(t)
        PROVE  Fifo!Next \/ (Queue' = Queue /\ Got' = Got)
    BY <2>3, MoveHeadFifo DEF Fifo!Next
  <2>4. ASSUME NEW t \in Threads, CopyElement(t) PROVE Queue' = Queue /\ Got' = Got
    BY <2>4, CopyElementFifo
  <2>5. ASSUME NEW t \in Threads, UpdateTail(t) PROVE Fifo!Next
    BY <2>5, UpdateTailFifo DEF Fifo!Next
  <2>6. CASE UNCHANGED vars
    BY <2>6 DEF vars, Queue, Contents, Got, Received
  <2> QED BY <2>1, <2>2, <2>3, <2>4, <2>5, <2>6 DEF Next, Step
<1>2. Init => Fifo!Init
  <2> SUFFICES ASSUME Init PROVE Fifo!Init
    OBVIOUS
  <2>1. head["cons"] = tail["prod"] /\ Start \in Nat /\ tail["prod"] \in Nat
    BY RingAssumption DEF Init, Sides
  <2>2. Contents(head["cons"], tail["prod"]) = <<>>
    BY <2>1 DEF Contents
  <2>3. \A t \in Threads : Received(t) = <<>>
    BY DEF Init, Received
  <2> QED BY <2>2, <2>3 DEF Fifo!Init
<1>3. [Fifo!Next]_<<Queue, Got>>
        <=> [Fifo!Next]_<<Contents(head["cons"], tail["prod"]), [t \in Threads |-> Received(t)]>>
  BY DEF Queue, Got
<1> QED BY <1>1, <1>2, <1>3, FifoInvInit, FifoInvStep, PTL DEF Spec, ImplementsFifo, Fifo!Spec
=============================================================================
