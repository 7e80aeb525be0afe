-------------------------------- MODULE Ring --------------------------------
(* lib/ring: the lock-free ring behind mempools, in its SP/MP and SC/MC modes *)
(* (the C11 implementation).  Every load, compare-exchange, element copy and  *)
(* store to a shared word is a step of its own.                               *)
(*                                                                            *)
(* A position counts the entries that ever went past it; the code keeps it in *)
(* a uint32_t, so everything the code computes is computed from Word(pos).    *)
EXTENDS Integers, Sequences, FiniteSets

CONSTANTS
  Threads,                \* lcores; each may enqueue and dequeue
  Objects,                \* what a slot may hold
  Size, Capacity,         \* r->size, r->capacity (less than size)
  Mod,                    \* the range of a position word, 2^32 in the code
  MaxBatch,               \* bound on the number of objects of a call
  Start,                  \* how many entries have passed before
  MaxPos                  \* bound: no enqueue begins once head is past it

ASSUME RingAssumption ==
  /\ Size \in Nat /\ Capacity \in Nat /\ Mod \in Nat /\ Start \in Nat /\ MaxPos \in Nat /\ MaxBatch \in Nat
  /\ 0 < Capacity /\ Capacity < Size /\ Size <= Mod /\ Mod % Size = 0

VARIABLES
  head, tail,        \* prod.head/tail and cons.head/tail, as positions
  slots,             \* the element table behind the header
  single,            \* sync_type: RTE_RING_SYNC_ST (TRUE) or _MT, for each side
  side,              \* the side each thread's call works on
  pc,                \* where each thread is in its call
  max, fixed,        \* the caller's n and behavior
  n,                 \* how many entries the call will move
  oldHead,           \* *old_head
  copied,            \* elements copied so far
  buf                \* the caller's obj_table of a dequeue

vars == <<head, tail, slots, single, side, pc, max, fixed, n, oldHead, copied, buf>>

Sides == {"prod", "cons"}
Counterpart(s) == IF s = "prod" THEN "cons" ELSE "prod"
InCall(t, s) == pc[t] # "idle" /\ side[t] = s
Peers(t) == {u \in Threads \ {t} : InCall(u, side[t])}

Word(pos) == pos % Mod
Index(pos) == Word(pos) % Size     \* pos & r->mask
(* MUTANT: the producer may use every slot of the table.                      *)
SlackWholeTable(s) == IF s = "prod" THEN Size ELSE 0

(* The capacity argument of move_head: zero for a consumer.                   *)
Slack(s) == IF s = "prod" THEN Capacity ELSE 0

PCs == {"idle", "tail", "move", "copy", "publish"}

TypeOK ==
  /\ head \in [Sides -> Nat] /\ tail \in [Sides -> Nat]
  /\ slots \in [0..(Size - 1) -> Objects]
  /\ single \in [Sides -> BOOLEAN]
  /\ side \in [Threads -> Sides] /\ pc \in [Threads -> PCs]
  /\ max \in [Threads -> 0..MaxBatch] /\ n \in [Threads -> 0..MaxBatch]
  /\ fixed \in [Threads -> BOOLEAN]
  /\ oldHead \in [Threads -> Nat]
  /\ copied \in [Threads -> 0..MaxBatch]
  /\ buf \in [Threads -> Seq(Objects)]

(* rte_ring_init, any pair of sync types; the ring is empty and Start entries *)
(* have already gone through it.                                              *)
Init ==
  /\ single \in [Sides -> BOOLEAN]
  /\ head = [s \in Sides |-> Start] /\ tail = [s \in Sides |-> Start]
  /\ \E o \in Objects : slots = [i \in 0..(Size - 1) |-> o]
  /\ pc = [t \in Threads |-> "idle"] /\ side = [t \in Threads |-> "prod"]
  /\ max = [t \in Threads |-> 0] /\ n = [t \in Threads |-> 0]
  /\ fixed = [t \in Threads |-> FALSE]
  /\ oldHead = [t \in Threads |-> 0] /\ copied = [t \in Threads |-> 0]
  /\ buf = [t \in Threads |-> <<>>]

(* A call of rte_ring_(en|de)queue_(bulk|burst), fixed for bulk, up to A0:    *)
(* *old_head = load-acquire of d->head, its first access to the ring.  A side *)
(* in single mode is used by one thread at a time: that is its contract.      *)
Call(t, s) ==
  /\ pc[t] = "idle"
  /\ s = "prod" => head["prod"] < MaxPos
  /\ single[s] => \A u \in Threads : ~InCall(u, s)
  /\ side' = [side EXCEPT ![t] = s]
  /\ \E m \in 1..MaxBatch, f \in BOOLEAN :
       max' = [max EXCEPT ![t] = m] /\ fixed' = [fixed EXCEPT ![t] = f]
  /\ oldHead' = [oldHead EXCEPT ![t] = head[s]]
  /\ pc' = [pc EXCEPT ![t] = "tail"]
  /\ UNCHANGED <<head, tail, slots, single, n, copied, buf>>

(* The locals of a call end with it.                                          *)
Return(t) ==
  /\ pc' = [pc EXCEPT ![t] = "idle"] /\ side' = [side EXCEPT ![t] = "prod"]
  /\ max' = [max EXCEPT ![t] = 0] /\ fixed' = [fixed EXCEPT ![t] = FALSE]
  /\ n' = [n EXCEPT ![t] = 0] /\ oldHead' = [oldHead EXCEPT ![t] = 0]
  /\ copied' = [copied EXCEPT ![t] = 0] /\ buf' = [buf EXCEPT ![t] = <<>>]

(* entries = capacity + stail - *old_head, in 32 bits.                        *)
Entries(t) ==
  (Slack(side[t]) + Word(tail[Counterpart(side[t])]) - Word(oldHead[t])) % Mod

(* MUTANT: a request for exactly what is available is refused.                *)
GrantedOffByOne(t, e) ==
  IF max[t] < e THEN max[t] ELSE IF fixed[t] THEN 0 ELSE e
(* MUTANT: a burst takes all there is, whatever was asked for.                *)
GrantedEverything(t, e) ==
  IF fixed[t] THEN IF max[t] <= e THEN max[t] ELSE 0 ELSE e

(* What is left of the request of max entries when e are available.           *)
Granted(t, e) ==
  IF max[t] <= e THEN max[t] ELSE IF fixed[t] THEN 0 ELSE e

(* A1: load-acquire of the counterpart's tail; the call ends here with 0 when *)
(* there is not enough room.                                                  *)
LoadTail(t) ==
  LET granted == Granted(t, Entries(t)) IN
  /\ pc[t] = "tail"
  /\ \/ granted = 0 /\ Return(t)
     \/ /\ granted # 0
        /\ n' = [n EXCEPT ![t] = granted]
        /\ pc' = [pc EXCEPT ![t] = "move"]
        /\ UNCHANGED <<side, max, fixed, oldHead, copied, buf>>
  /\ UNCHANGED <<head, tail, slots, single>>

(* Bound: a thread between its load of head and its compare-exchange is never *)
(* left behind by nearly 2^32 entries.                                        *)
NoFullLap(t) ==
  \A u \in Peers(t) : pc[u] \in {"tail", "move"} =>
    head[side[t]] + n[t] - oldHead[u] + Capacity < Mod

(* MUTANT: a plain store in multi mode too.                                   *)
MoveHeadNoCompare(t) ==
  /\ pc[t] = "move"
  /\ NoFullLap(t)
  /\ head' = [head EXCEPT ![side[t]] = oldHead[t] + n[t]]
  /\ pc' = [pc EXCEPT ![t] = "copy"]
  /\ max' = [max EXCEPT ![t] = 0] /\ fixed' = [fixed EXCEPT ![t] = FALSE]
  /\ UNCHANGED <<tail, slots, single, side, n, oldHead, copied, buf>>

(* The head moves by a plain store in single mode, by a compare-exchange      *)
(* otherwise.  The caller's request is not used any more.                     *)
MoveHead(t) ==
  /\ pc[t] = "move"
  /\ single[side[t]] \/ Word(head[side[t]]) = Word(oldHead[t])
  /\ NoFullLap(t)
  /\ head' = [head EXCEPT ![side[t]] = oldHead[t] + n[t]]
  /\ pc' = [pc EXCEPT ![t] = "copy"]
  /\ max' = [max EXCEPT ![t] = 0] /\ fixed' = [fixed EXCEPT ![t] = FALSE]
  /\ UNCHANGED <<tail, slots, single, side, n, oldHead, copied, buf>>

(* A failed compare-exchange writes the value it found to *old_head; the loop *)
(* starts over from the caller's n.                                           *)
MoveHeadFails(t) ==
  /\ pc[t] = "move"
  /\ ~single[side[t]] /\ Word(head[side[t]]) # Word(oldHead[t])
  /\ oldHead' = [oldHead EXCEPT ![t] = head[side[t]]]
  /\ pc' = [pc EXCEPT ![t] = "tail"]
  /\ UNCHANGED <<head, tail, slots, single, side, max, fixed, n, copied, buf>>

(* One element of __rte_ring_enqueue_elems or __rte_ring_dequeue_elems; the   *)
(* index wraps at size.                                                       *)
CopyElement(t) ==
  LET i == (Index(oldHead[t]) + copied[t]) % Size IN
  /\ pc[t] = "copy"
  /\ copied' = [copied EXCEPT ![t] = @ + 1]
  /\ pc' = [pc EXCEPT ![t] = IF copied'[t] = n[t] THEN "publish" ELSE "copy"]
  /\ \/ /\ side[t] = "prod"
        /\ \E o \in Objects : slots' = [slots EXCEPT ![i] = o]
        /\ UNCHANGED buf
     \/ /\ side[t] = "cons"
        /\ buf' = [buf EXCEPT ![t] = Append(@, slots[i])]
        /\ UNCHANGED slots
  /\ UNCHANGED <<head, tail, single, side, max, fixed, n, oldHead>>

(* MUTANT: earlier calls are not waited for.                                  *)
UpdateTailNoWait(t) ==
  /\ pc[t] = "publish"
  /\ tail' = [tail EXCEPT ![side[t]] = oldHead[t] + n[t]]
  /\ Return(t)
  /\ UNCHANGED <<head, slots, single>>

(* MUTANT: only the newest claim updates the tail, as in the relaxed-tail ring *)
(* but without its counters.                                                  *)
UpdateTailNewestOnly(t) ==
  /\ pc[t] = "publish"
  /\ single[side[t]] \/ Word(head[side[t]]) = Word(oldHead[t] + n[t])
  /\ tail' = [tail EXCEPT ![side[t]] = oldHead[t] + n[t]]
  /\ Return(t)
  /\ UNCHANGED <<head, slots, single>>

(* __rte_ring_update_tail: in multi mode wait for the calls that moved the    *)
(* head earlier, then store-release the new tail.                             *)
UpdateTail(t) ==
  /\ pc[t] = "publish"
  /\ single[side[t]] \/ Word(tail[side[t]]) = Word(oldHead[t])
  /\ tail' = [tail EXCEPT ![side[t]] = oldHead[t] + n[t]]
  /\ Return(t)
  /\ UNCHANGED <<head, slots, single>>

Step(t) == LoadTail(t) \/ MoveHead(t) \/ MoveHeadFails(t)
           \/ CopyElement(t) \/ UpdateTail(t)
Next == \E t \in Threads : (\E s \in Sides : Call(t, s)) \/ Step(t)

(* Every lcore that is inside a call keeps executing.                         *)
Spec == Init /\ [][Next]_vars /\ \A t \in Threads : WF_vars(Step(t))

-----------------------------------------------------------------------------
(* The four positions never cross and the ring never holds more than its      *)
(* capacity: what the unsigned subtraction in move_head must guarantee        *)
(* although head and tail are loaded at different times.                      *)
PositionsOrdered ==
  /\ tail["cons"] <= head["cons"] /\ head["cons"] <= tail["prod"]
  /\ tail["prod"] <= head["prod"] /\ head["prod"] <= tail["cons"] + Capacity

Claimed(t) == IF pc[t] \in {"copy", "publish"}
              THEN {Index(oldHead[t] + j) : j \in 0..(n[t] - 1)} ELSE {}

(* A slot is being copied by at most one thread at a time, whichever side it  *)
(* is on: the element copies need no atomics.                                 *)
SlotsExclusive ==
  \A t, u \in Threads : t # u => Claimed(t) \cap Claimed(u) = {}

(* The view of a user: objects published and not yet claimed, and what each   *)
(* dequeue has copied and is about to copy.                                   *)
Contents(from, to) == [j \in 1..(to - from) |-> slots[Index(from + j - 1)]]
Received(t) ==
  IF pc[t] \in {"copy", "publish"} /\ side[t] = "cons"
  THEN buf[t] \o Contents(oldHead[t] + copied[t], oldHead[t] + n[t])
  ELSE <<>>

Fifo == INSTANCE RingFifo WITH
          queue <- Contents(head["cons"], tail["prod"]),
          got <- [t \in Threads |-> Received(t)]

(* The ring is that queue: no object lost, duplicated, torn, out of order, or *)
(* overwritten while a consumer still copies it, in any mix of modes.         *)
ImplementsFifo == Fifo!Spec

(* A call gives up only when there really is too little room at that moment,  *)
(* although it computes from a head it loaded earlier: a burst returns nothing *)
(* only when nothing is available, a bulk only when less than n is.           *)
GivesUp(t) == pc[t] = "tail" /\ pc'[t] = "idle"
RoomNow(t) == Slack(side[t]) + tail[Counterpart(side[t])] - head[side[t]]
FailureJustified ==
  [][\A t \in Threads : GivesUp(t) =>
       RoomNow(t) < (IF fixed[t] THEN max[t] ELSE 1)]_vars

(* A claimed range is always published: the waits for earlier calls in        *)
(* __rte_ring_update_tail form no cycle.                                      *)
ClaimsPublished ==
  \A t \in Threads : pc[t] = "copy" ~> pc[t] = "idle"
=============================================================================
