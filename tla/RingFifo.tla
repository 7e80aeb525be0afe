------------------------------ MODULE RingFifo ------------------------------
(* What rte_ring promises its users: a bounded first-in first-out queue in    *)
(* which a batch is put, and a batch is taken, in one step.                   *)
EXTENDS Naturals, Sequences, SequencesExt
CONSTANTS Threads, Objects, Capacity, MaxBatch

VARIABLES
  queue,   \* the objects in the ring, oldest first
  got      \* got[t]: the batch that thread t's dequeue took

TypeOK == /\ queue \in Seq(Objects) /\ Len(queue) <= Capacity
          /\ got \in [Threads -> Seq(Objects)]

Init == queue = <<>> /\ got = [t \in Threads |-> <<>>]

(* A batch goes in whole, behind everything already there, and only if it     *)
(* fits.                                                                      *)
Put == \E batch \in BoundedSeq(Objects, MaxBatch) :
         /\ batch # <<>> /\ Len(queue) + Len(batch) <= Capacity
         /\ queue' = queue \o batch
         /\ UNCHANGED got

(* A dequeue receives the oldest objects, which nobody else will receive, and *)
(* hands them to its caller unchanged.                                        *)
Take(t) == \E n \in 1..MaxBatch :
             /\ n <= Len(queue) /\ got[t] = <<>>
             /\ got' = [got EXCEPT ![t] = SubSeq(queue, 1, n)]
             /\ queue' = SubSeq(queue, n + 1, Len(queue))

Return(t) == got' = [got EXCEPT ![t] = <<>>] /\ UNCHANGED queue

Next == Put \/ \E t \in Threads : (Take(t) \/ Return(t))
Spec == Init /\ [][Next]_<<queue, got>>
=============================================================================
