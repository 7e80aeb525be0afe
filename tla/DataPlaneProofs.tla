-------------------------- MODULE DataPlaneProofs --------------------------
(***************************************************************************)
(* The spinlock of the statistics, the order of start and end, and the     *)
(* accounts of mbufs and packets that rest on both, for any number of      *)
(* lcores, any burst and any traffic.                                      *)
(*                                                                         *)
(* To the two properties the invariant adds that an lcore inside a burst   *)
(* still has a packet of it (HoldsPacket), so that the countdown never     *)
(* passes zero, and where main() is while lcores run (Phases): it would    *)
(* otherwise start its own loop a second time inside the critical section. *)
(*                                                                         *)
(* The last part is about the mempool that the mbufs come from, whose      *)
(* accounts are sums over threads, too.                                    *)
(***************************************************************************)
EXTENDS DataPlane, Mempool, TLAPS, FiniteSetTheorems, NaturalsInduction, WellFoundedInduction,
        SequenceTheorems

HoldsPacket(l) ==
  lcore[l].pc \in {"packet", "lock", "load", "store", "unlock", "free"} => lcore[l].left > 0

IInv == TypeOK /\ LockExclusive /\ \A l \in Lcores : HoldsPacket(l)

Running(l) == lcore[l].pc \notin {"off", "ended"}

\* Every worker is started before main's own loop, and has ended before the
\* final report.
Phases ==
  /\ main = "launch" => lcore[Main].pc = "off"
  /\ main # "launch" => \A w \in Workers : lcore[w].pc # "off"
  /\ main \in {"wait", "report", "done"} => lcore[Main].pc = "ended"
  /\ main \in {"report", "done"} => \A w \in Workers : lcore[w].pc = "ended"
  /\ \A w \in Workers : state[w] = "RUNNING" <=> Running(w)

LcoreState == [pc : Pcs, left : 0 .. Burst, outcome : Outcomes, reg : Nat, now : 0 .. MaxTsc]

\* Nothing runs and nothing is counted when the first lcore is launched.
LEMMA InitIInv == Init => IInv
<1> SUFFICES ASSUME Init PROVE IInv
  OBVIOUS
<1> USE DataPlaneAssumption DEF Init, Zero
<1>1. Off \in LcoreState /\ Off.pc = "off"
  BY DEF Off, LcoreState, Pcs, Outcomes
<1>2. TypeOK
  <2>1. lcore \in [Lcores -> LcoreState]
    BY <1>1
  <2>2. counts \in [Outcomes -> Nat] /\ printed \in [Outcomes -> Nat]
    OBVIOUS
  <2>3. state \in [Workers -> {"WAIT", "RUNNING"}]
    OBVIOUS
  <2>4. tsc \in 1 .. MaxTsc /\ arrived \in 0 .. MaxPackets /\ last_report \in 0 .. MaxTsc
    OBVIOUS
  <2> QED BY <2>1, <2>2, <2>3, <2>4 DEF TypeOK, LcoreState
<1>3. \A l \in Lcores : lcore[l].pc = "off"
  BY <1>1
<1>4. LockExclusive
  BY <1>3 DEF LockExclusive, Critical, CriticalPcs
<1> QED BY <1>2, <1>3, <1>4 DEF IInv, HoldsPacket

\* One lcore goes from a record to another: the others keep theirs.
LEMMA SetLcore ==
  ASSUME TypeOK, NEW l \in Lcores, NEW r \in LcoreState, Set(l, r)
  PROVE  /\ lcore' \in [Lcores -> LcoreState]
         /\ lcore'[l] = r
         /\ \A k \in Lcores : k # l => lcore'[k] = lcore[k]
BY DEF TypeOK, Set, LcoreState

LEMMA GotoLcore ==
  ASSUME TypeOK, NEW l \in Lcores, NEW p \in Pcs, Goto(l, p)
  PROVE  /\ lcore' \in [Lcores -> LcoreState]
         /\ lcore'[l] = [lcore[l] EXCEPT !.pc = p]
         /\ \A k \in Lcores : k # l => lcore'[k] = lcore[k]
BY DEF TypeOK, Goto, LcoreState

\* What TypeOK says of everything but the lcores.
RestOK ==
  /\ quit \in BOOLEAN /\ tsc \in 1 .. MaxTsc
  /\ wire \in Nat /\ pool \in Nat /\ arrived \in 0 .. MaxPackets
  /\ lock \in BOOLEAN /\ counts \in [Outcomes -> Nat] /\ last_report \in 0 .. MaxTsc
  /\ state \in [Workers -> {"WAIT", "RUNNING"}]
  /\ main \in {"launch", "run", "wait", "report", "done"}
  /\ printed \in [Outcomes -> Nat]

LEMMA Split == TypeOK <=> RestOK /\ lcore \in [Lcores -> LcoreState]
BY DEF TypeOK, RestOK, LcoreState

\* A step of one lcore: the lock follows it into and out of the critical
\* section, and stays as it is otherwise.
LEMMA OneLcore ==
  ASSUME IInv, NEW l \in Lcores, RestOK',
         lcore' \in [Lcores -> LcoreState], HoldsPacket(l)',
         \A k \in Lcores : k # l => lcore'[k] = lcore[k],
         \/ lock' = lock /\ (Critical(l)' <=> Critical(l))
         \/ ~lock /\ lock' = TRUE /\ Critical(l)'
         \/ Critical(l) /\ lock' = FALSE /\ ~Critical(l)'
  PROVE  IInv'
<1>1. TypeOK'
  <2>1. (RestOK /\ lcore \in [Lcores -> LcoreState])'
    OBVIOUS
  <2> QED BY <2>1 DEF TypeOK, RestOK, LcoreState
<1>2. \A k \in Lcores : k # l => (Critical(k)' <=> Critical(k)) /\ (HoldsPacket(k)' <=> HoldsPacket(k))
  BY DEF Critical, HoldsPacket
<1>3. LockExclusive'
  BY <1>2 DEF LockExclusive, IInv
<1>4. \A k \in Lcores : HoldsPacket(k)'
  BY <1>2 DEF IInv
<1> QED BY <1>1, <1>3, <1>4 DEF IInv

\* The polling loop: a burst has at least one packet or none is processed.
LEMMA PollSteps ==
  ASSUME IInv, NEW l \in Lcores, Loop(l) \/ Rx(l) \/ Decide(l)
  PROVE  IInv'
<1>1. TypeOK /\ RestOK /\ HoldsPacket(l) /\ lcore[l] \in LcoreState
  BY Split DEF IInv
<1> USE DEF device, stats, launch, At
<1>2. ASSUME Loop(l)
      PROVE  IInv'
  <2>1. PICK p \in {"exit", "rx"} : Goto(l, p)
    BY <1>2 DEF Loop
  <2>2. /\ lcore' \in [Lcores -> LcoreState] /\ lcore'[l].pc = p
        /\ \A k \in Lcores : k # l => lcore'[k] = lcore[k]
    <3>1. p \in Pcs
      BY DEF Pcs
    <3>2. /\ lcore' \in [Lcores -> LcoreState] /\ lcore'[l] = [lcore[l] EXCEPT !.pc = p]
          /\ \A k \in Lcores : k # l => lcore'[k] = lcore[k]
      BY <1>1, <2>1, <3>1, GotoLcore
    <3> QED BY <1>1, <3>2 DEF LcoreState
  <2>3. RestOK'
    BY <1>1, <1>2 DEF Loop, RestOK
  <2> QED BY <1>2, <2>2, <2>3, OneLcore DEF Loop, HoldsPacket, Critical, CriticalPcs
<1>3. ASSUME Rx(l)
      PROVE  IInv'
  <2>1. PICK n \in 0 .. Burst :
          /\ n <= wire /\ wire' = wire - n
          /\ Set(l, [lcore[l] EXCEPT !.pc = IF n = 0 THEN "loop" ELSE "packet", !.left = n])
    BY <1>3 DEF Rx
  <2> DEFINE p == IF n = 0 THEN "loop" ELSE "packet"
             r == [lcore[l] EXCEPT !.pc = p, !.left = n]
  <2>2. r \in LcoreState /\ r.left = n /\ r.pc = p
    <3>1. p \in Pcs
      BY DEF Pcs
    <3> HIDE DEF p
    <3> QED BY <1>1, <3>1 DEF LcoreState
  <2>3. /\ lcore' \in [Lcores -> LcoreState] /\ lcore'[l] = r
        /\ \A k \in Lcores : k # l => lcore'[k] = lcore[k]
    <3> HIDE DEF r
    <3>1. Set(l, r)
      BY <2>1 DEF r
    <3> QED BY <1>1, <2>2, <3>1, SetLcore
  <2>4. RestOK'
    <3>1. wire' \in Nat
      <4>1. wire \in Nat /\ n \in Int
        BY <1>1 DEF RestOK
      <4> QED BY <2>1, <4>1
    <3>2. UNCHANGED <<quit, tsc, pool, arrived, lock, counts, last_report, state, main, printed>>
      BY <1>3 DEF Rx
    <3> QED BY <1>1, <3>1, <3>2 DEF RestOK
  <2>5. HoldsPacket(l)' /\ ~Critical(l) /\ ~Critical(l)'
    <3>1. n = 0 \/ n > 0
      BY DataPlaneAssumption
    <3>2. lcore[l].pc = "rx"
      BY <1>3 DEF Rx
    <3> HIDE DEF r
    <3>3. HoldsPacket(l)'
      BY <2>2, <2>3, <3>1 DEF HoldsPacket
    <3> QED BY <2>2, <2>3, <3>2, <3>3 DEF Critical, CriticalPcs
  <2> QED BY <1>3, <2>3, <2>4, <2>5, OneLcore DEF Rx
<1>4. ASSUME Decide(l)
      PROVE  IInv'
  <2>1. PICK o \in Outcomes : Set(l, [lcore[l] EXCEPT !.pc = "lock", !.outcome = o])
    BY <1>4 DEF Decide
  <2> DEFINE r == [lcore[l] EXCEPT !.pc = "lock", !.outcome = o]
  <2>2. r \in LcoreState /\ r.left = lcore[l].left /\ r.pc = "lock"
    <3> "lock" \in Pcs
      BY DEF Pcs
    <3> QED BY <1>1 DEF LcoreState
  <2>3. /\ lcore' \in [Lcores -> LcoreState] /\ lcore'[l] = r
        /\ \A k \in Lcores : k # l => lcore'[k] = lcore[k]
    <3> HIDE DEF r
    <3>1. Set(l, r)
      BY <2>1 DEF r
    <3> QED BY <1>1, <2>2, <3>1, SetLcore
  <2>4. RestOK'
    BY <1>1, <1>4 DEF Decide, RestOK
  <2>5. HoldsPacket(l)' /\ ~Critical(l) /\ ~Critical(l)'
    BY <1>1, <1>4, <2>2, <2>3 DEF Decide, HoldsPacket, Critical, CriticalPcs
  <2> QED BY <1>4, <2>3, <2>4, <2>5, OneLcore DEF Decide
<1> QED BY <1>2, <1>3, <1>4

\* dp_stats_record and dp_stats_drop, then rte_pktmbuf_free.
LEMMA CountSteps ==
  ASSUME IInv, NEW l \in Lcores,
         Lock(l) \/ LoadCount(l) \/ StoreCount(l) \/ Unlock(l) \/ Free(l)
  PROVE  IInv'
<1>1. TypeOK /\ RestOK /\ HoldsPacket(l) /\ LockExclusive
      /\ lcore[l] \in LcoreState /\ lcore \in [Lcores -> LcoreState]
  BY Split DEF IInv
<1> USE DEF device, stats, launch, At
<1>2. ASSUME Lock(l)
      PROVE  IInv'
  <2>1. /\ lcore' \in [Lcores -> LcoreState] /\ lcore'[l] = [lcore[l] EXCEPT !.pc = "load"]
        /\ \A k \in Lcores : k # l => lcore'[k] = lcore[k]
    <3>1. "load" \in Pcs
      BY DEF Pcs
    <3> QED BY <1>1, <1>2, <3>1, GotoLcore DEF Lock
  <2>2. RestOK'
    BY <1>1, <1>2 DEF Lock, RestOK
  <2>3. HoldsPacket(l)' /\ Critical(l)'
    BY <1>1, <1>2, <2>1 DEF Lock, HoldsPacket, Critical, CriticalPcs, LcoreState
  <2> QED BY <1>2, <2>1, <2>2, <2>3, OneLcore DEF Lock
<1>3. ASSUME LoadCount(l)
      PROVE  IInv'
  <2> DEFINE r == [lcore[l] EXCEPT !.pc = "store", !.reg = counts[lcore[l].outcome]]
  <2>1. r \in LcoreState /\ r.pc = "store" /\ r.left = lcore[l].left
    <3>1. counts[lcore[l].outcome] \in Nat /\ "store" \in Pcs
      BY <1>1 DEF RestOK, LcoreState, Pcs
    <3> QED BY <1>1, <3>1 DEF LcoreState
  <2>2. /\ lcore' \in [Lcores -> LcoreState] /\ lcore'[l] = r
        /\ \A k \in Lcores : k # l => lcore'[k] = lcore[k]
    <3> HIDE DEF r
    <3>1. Set(l, r)
      BY <1>3 DEF LoadCount, r
    <3> QED BY <1>1, <2>1, <3>1, SetLcore
  <2>3. RestOK'
    BY <1>1, <1>3 DEF LoadCount, RestOK
  <2>4. HoldsPacket(l)' /\ Critical(l) /\ Critical(l)'
    BY <1>1, <1>3, <2>1, <2>2 DEF LoadCount, HoldsPacket, Critical, CriticalPcs
  <2> QED BY <1>3, <2>2, <2>3, <2>4, OneLcore DEF LoadCount
<1>4. ASSUME StoreCount(l)
      PROVE  IInv'
  <2>1. /\ lcore' \in [Lcores -> LcoreState] /\ lcore'[l] = [lcore[l] EXCEPT !.pc = "unlock"]
        /\ \A k \in Lcores : k # l => lcore'[k] = lcore[k]
    <3>1. "unlock" \in Pcs
      BY DEF Pcs
    <3> QED BY <1>1, <1>4, <3>1, GotoLcore DEF StoreCount
  <2>2. RestOK'
    <3>1. counts' \in [Outcomes -> Nat]
      BY <1>1, <1>4 DEF StoreCount, RestOK, LcoreState
    <3> QED BY <1>1, <1>4, <3>1 DEF StoreCount, RestOK
  <2>3. HoldsPacket(l)' /\ Critical(l) /\ Critical(l)'
    BY <1>1, <1>4, <2>1 DEF StoreCount, HoldsPacket, Critical, CriticalPcs, LcoreState
  <2> QED BY <1>4, <2>1, <2>2, <2>3, OneLcore DEF StoreCount
<1>5. ASSUME Unlock(l)
      PROVE  IInv'
  <2>1. /\ lcore' \in [Lcores -> LcoreState] /\ lcore'[l] = [lcore[l] EXCEPT !.pc = "free"]
        /\ \A k \in Lcores : k # l => lcore'[k] = lcore[k]
    <3>1. "free" \in Pcs
      BY DEF Pcs
    <3> QED BY <1>1, <1>5, <3>1, GotoLcore DEF Unlock
  <2>2. RestOK'
    BY <1>1, <1>5 DEF Unlock, RestOK
  <2>3. HoldsPacket(l)' /\ Critical(l) /\ ~Critical(l)'
    BY <1>1, <1>5, <2>1 DEF Unlock, HoldsPacket, Critical, CriticalPcs, LcoreState
  <2> QED BY <1>5, <2>1, <2>2, <2>3, OneLcore DEF Unlock
<1>6. ASSUME Free(l)
      PROVE  IInv'
  <2> DEFINE p == IF lcore[l].left = 1 THEN "clock" ELSE "packet"
             r == [Off EXCEPT !.pc = p, !.left = lcore[l].left - 1]
  <2>1. lcore[l].left \in 1 .. Burst
    BY <1>1, <1>6, DataPlaneAssumption DEF Free, HoldsPacket, LcoreState
  <2>2. r \in LcoreState /\ r.pc = p /\ r.left = lcore[l].left - 1
    <3>1. lcore[l].left - 1 \in 0 .. Burst /\ p \in Pcs /\ 0 \in 0 .. MaxTsc
      BY <2>1, DataPlaneAssumption DEF Pcs
    <3> QED BY <3>1 DEF LcoreState, Off, Outcomes
  <2>3. /\ lcore' \in [Lcores -> LcoreState] /\ lcore'[l] = r
        /\ \A k \in Lcores : k # l => lcore'[k] = lcore[k]
    <3> HIDE DEF r
    <3>1. Set(l, r)
      BY <1>6 DEF Free, r
    <3> QED BY <1>1, <2>2, <3>1, SetLcore
  <2>4. RestOK'
    <3>1. pool' \in Nat
      BY <1>1, <1>6 DEF Free, RestOK
    <3> QED BY <1>1, <1>6, <3>1 DEF Free, RestOK
  <2>5. HoldsPacket(l)' /\ ~Critical(l) /\ ~Critical(l)'
    BY <1>6, <2>1, <2>2, <2>3 DEF Free, HoldsPacket, Critical, CriticalPcs
  <2> QED BY <1>6, <2>3, <2>4, <2>5, OneLcore DEF Free
<1> QED BY <1>2, <1>3, <1>4, <1>5, <1>6

\* dp_stats_maybe_report and the end of the loop.
LEMMA ReportSteps ==
  ASSUME IInv, NEW l \in Lcores,
         \/ Clock(l) \/ ReportDue(l) \/ ReportLock(l) \/ ReportPrint(l) \/ ReportStamp(l)
         \/ Exit(l)
  PROVE  IInv'
<1>1. TypeOK /\ RestOK /\ LockExclusive
      /\ lcore[l] \in LcoreState /\ lcore \in [Lcores -> LcoreState]
  BY Split DEF IInv
<1> USE DEF device, stats, launch, At
<1>2. ASSUME Clock(l)
      PROVE  IInv'
  <2> DEFINE p == IF ReportInterval = 0 THEN "loop" ELSE "due"
             r == [lcore[l] EXCEPT !.now = tsc, !.pc = p]
  <2>1. r \in LcoreState /\ r.pc = p
    <3>1. tsc \in 0 .. MaxTsc /\ p \in Pcs
      BY <1>1, DataPlaneAssumption DEF RestOK, Pcs
    <3> QED BY <1>1, <3>1 DEF LcoreState
  <2>2. /\ lcore' \in [Lcores -> LcoreState] /\ lcore'[l] = r
        /\ \A k \in Lcores : k # l => lcore'[k] = lcore[k]
    <3> HIDE DEF r
    <3>1. Set(l, r)
      BY <1>2 DEF Clock, r
    <3> QED BY <1>1, <2>1, <3>1, SetLcore
  <2>3. RestOK'
    BY <1>1, <1>2 DEF Clock, RestOK
  <2>4. HoldsPacket(l)' /\ ~Critical(l) /\ ~Critical(l)'
    BY <1>2, <2>1, <2>2 DEF Clock, HoldsPacket, Critical, CriticalPcs
  <2> QED BY <1>2, <2>2, <2>3, <2>4, OneLcore DEF Clock
<1>3. ASSUME ReportDue(l)
      PROVE  IInv'
  <2>1. PICK p \in {"report", "loop"} : Goto(l, p)
    BY <1>3 DEF ReportDue
  <2>2. /\ lcore' \in [Lcores -> LcoreState] /\ lcore'[l] = [lcore[l] EXCEPT !.pc = p]
        /\ \A k \in Lcores : k # l => lcore'[k] = lcore[k]
    <3>1. p \in Pcs
      BY DEF Pcs
    <3> QED BY <1>1, <2>1, <3>1, GotoLcore
  <2>3. RestOK'
    <3>1. last_report' \in 0 .. MaxTsc
      BY <1>1, <1>3 DEF ReportDue, RestOK, LcoreState
    <3> QED BY <1>1, <1>3, <3>1 DEF ReportDue, RestOK
  <2>4. HoldsPacket(l)' /\ ~Critical(l) /\ ~Critical(l)'
    <3>1. lcore'[l].pc = p /\ lcore[l].pc = "due"
      BY <1>1, <1>3, <2>2 DEF ReportDue, LcoreState
    <3> QED BY <3>1 DEF HoldsPacket, Critical, CriticalPcs
  <2> QED BY <1>3, <2>2, <2>3, <2>4, OneLcore DEF ReportDue
<1>4. ASSUME ReportLock(l)
      PROVE  IInv'
  <2>1. /\ lcore' \in [Lcores -> LcoreState] /\ lcore'[l] = [lcore[l] EXCEPT !.pc = "print"]
        /\ \A k \in Lcores : k # l => lcore'[k] = lcore[k]
    <3>1. "print" \in Pcs
      BY DEF Pcs
    <3> QED BY <1>1, <1>4, <3>1, GotoLcore DEF ReportLock
  <2>2. RestOK'
    BY <1>1, <1>4 DEF ReportLock, RestOK
  <2>3. HoldsPacket(l)' /\ Critical(l)'
    BY <1>1, <2>1 DEF HoldsPacket, Critical, CriticalPcs, LcoreState
  <2> QED BY <1>4, <2>1, <2>2, <2>3, OneLcore DEF ReportLock
<1>5. ASSUME ReportPrint(l)
      PROVE  IInv'
  <2>1. /\ lcore' \in [Lcores -> LcoreState] /\ lcore'[l] = [lcore[l] EXCEPT !.pc = "stamp"]
        /\ \A k \in Lcores : k # l => lcore'[k] = lcore[k]
    <3>1. "stamp" \in Pcs
      BY DEF Pcs
    <3> QED BY <1>1, <1>5, <3>1, GotoLcore DEF ReportPrint
  <2>2. RestOK'
    BY <1>1, <1>5 DEF ReportPrint, RestOK
  <2>3. HoldsPacket(l)' /\ Critical(l) /\ ~Critical(l)'
    BY <1>1, <1>5, <2>1 DEF ReportPrint, HoldsPacket, Critical, CriticalPcs, LcoreState
  <2> QED BY <1>5, <2>1, <2>2, <2>3, OneLcore DEF ReportPrint
<1>6. ASSUME ReportStamp(l)
      PROVE  IInv'
  <2>1. /\ lcore' \in [Lcores -> LcoreState] /\ lcore'[l] = [lcore[l] EXCEPT !.pc = "loop"]
        /\ \A k \in Lcores : k # l => lcore'[k] = lcore[k]
    <3>1. "loop" \in Pcs
      BY DEF Pcs
    <3> QED BY <1>1, <1>6, <3>1, GotoLcore DEF ReportStamp
  <2>2. RestOK'
    BY <1>1, <1>6 DEF ReportStamp, RestOK, LcoreState
  <2>3. HoldsPacket(l)' /\ ~Critical(l) /\ ~Critical(l)'
    BY <1>1, <1>6, <2>1 DEF ReportStamp, HoldsPacket, Critical, CriticalPcs, LcoreState
  <2> QED BY <1>6, <2>1, <2>2, <2>3, OneLcore DEF ReportStamp
<1>7. ASSUME Exit(l)
      PROVE  IInv'
  <2>1. /\ lcore' \in [Lcores -> LcoreState] /\ lcore'[l] = [lcore[l] EXCEPT !.pc = "ended"]
        /\ \A k \in Lcores : k # l => lcore'[k] = lcore[k]
    <3>1. "ended" \in Pcs
      BY DEF Pcs
    <3> QED BY <1>1, <1>7, <3>1, GotoLcore DEF Exit
  <2>2. RestOK'
    <3>1. state' \in [Workers -> {"WAIT", "RUNNING"}]
      BY <1>1, <1>7 DEF Exit, RestOK
    <3>2. main' \in {"launch", "run", "wait", "report", "done"}
      BY <1>1, <1>7 DEF Exit, RestOK
    <3>3. UNCHANGED <<quit, tsc, wire, pool, arrived, lock, counts, last_report, printed>>
      BY <1>7 DEF Exit
    <3> QED BY <1>1, <3>1, <3>2, <3>3 DEF RestOK
  <2>3. HoldsPacket(l)' /\ ~Critical(l) /\ ~Critical(l)'
    BY <1>1, <1>7, <2>1 DEF Exit, HoldsPacket, Critical, CriticalPcs, LcoreState
  <2> QED BY <1>7, <2>1, <2>2, <2>3, OneLcore DEF Exit
<1> QED BY <1>2, <1>3, <1>4, <1>5, <1>6, <1>7

\* Signals, arrivals, time, and what main() does outside the loop.
LEMMA OtherSteps ==
  ASSUME IInv, Phases, Environment \/ CallMain \/ WaitWorkers \/ FinalReport
               \/ (\E w \in Workers : Launch(w))
  PROVE  IInv'
<1>1. TypeOK /\ RestOK /\ lcore \in [Lcores -> LcoreState]
  BY Split DEF IInv
<1> USE DEF device, stats, launch, At
<1>2. ASSUME RestOK', UNCHANGED <<lock, lcore>>
      PROVE  IInv'
  <2>1. (RestOK /\ lcore \in [Lcores -> LcoreState])'
    BY <1>1, <1>2
  <2>2. TypeOK'
    BY <2>1 DEF TypeOK, RestOK, LcoreState
  <2> QED BY <1>2, <2>2 DEF IInv, LockExclusive, Critical, HoldsPacket
<1>3. CASE Environment
  <2>1. RestOK'
    <3>1. CASE Signal
      BY <1>1, <3>1 DEF Signal, RestOK
    <3>2. CASE Arrive
      <4>1. arrived' \in 0 .. MaxPackets /\ wire' \in Nat /\ pool' \in Nat
        BY <1>1, <3>2, DataPlaneAssumption DEF Arrive, RestOK
      <4> QED BY <1>1, <3>2, <4>1 DEF Arrive, RestOK
    <3>3. CASE Tick
      <4>1. tsc' \in 1 .. MaxTsc
        BY <1>1, <3>3, DataPlaneAssumption DEF Tick, RestOK
      <4> QED BY <1>1, <3>3, <4>1 DEF Tick, RestOK
    <3> QED BY <1>3, <3>1, <3>2, <3>3 DEF Environment
  <2> QED BY <1>2, <1>3, <2>1 DEF Environment, Signal, Arrive, Tick
<1>4. CASE WaitWorkers \/ FinalReport
  <2>1. RestOK'
    BY <1>1, <1>4 DEF WaitWorkers, FinalReport, RestOK
  <2> QED BY <1>2, <1>4, <2>1 DEF WaitWorkers, FinalReport
<1>5. ASSUME NEW l \in Lcores, Goto(l, "loop"), RestOK', ~Critical(l), UNCHANGED lock
      PROVE  IInv'
  <2>1. /\ lcore' \in [Lcores -> LcoreState] /\ lcore'[l] = [lcore[l] EXCEPT !.pc = "loop"]
        /\ \A k \in Lcores : k # l => lcore'[k] = lcore[k]
    BY <1>1, <1>5, GotoLcore DEF Pcs
  <2>2. HoldsPacket(l)' /\ ~Critical(l)'
    BY <1>1, <2>1 DEF HoldsPacket, Critical, CriticalPcs, LcoreState
  <2> QED BY <1>5, <2>1, <2>2, OneLcore
<1>6. ASSUME NEW w \in Workers, Launch(w)
      PROVE  IInv'
  <2>1. RestOK'
    BY <1>1, <1>6 DEF Launch, RestOK
  <2>2. w \in Lcores /\ ~Critical(w)
    BY <1>6 DEF Launch, Workers, Critical, CriticalPcs
  <2> QED BY <1>5, <1>6, <2>1, <2>2 DEF Launch
<1>7. ASSUME CallMain
      PROVE  IInv'
  <2>1. RestOK'
    BY <1>1, <1>7 DEF CallMain, RestOK
  <2>2. Main \in Lcores /\ ~Critical(Main)
    BY <1>7, DataPlaneAssumption DEF CallMain, Phases, Critical, CriticalPcs
  <2> QED BY <1>5, <1>7, <2>1, <2>2 DEF CallMain
<1> QED BY <1>3, <1>4, <1>6, <1>7

\* Inside its loop an lcore neither starts nor ends, and main() does not move.
LEMMA LoopSteps ==
  ASSUME TypeOK, NEW l \in Lcores, LcoreStep(l), ~Exit(l)
  PROVE  /\ Running(l) /\ Running(l)' /\ UNCHANGED <<main, state>>
         /\ \A k \in Lcores : k # l => lcore'[k] = lcore[k]
<1>1. lcore \in [Lcores -> LcoreState]
  BY Split
<1> USE DEF Running, Set, Goto, At, launch, Off, LcoreState
<1>2. CASE Loop(l) \/ Rx(l) \/ Decide(l)
  <2>1. CASE Loop(l)
    BY <1>1, <2>1 DEF Loop
  <2>2. CASE Rx(l)
    BY <1>1, <2>2 DEF Rx
  <2>3. CASE Decide(l)
    BY <1>1, <2>3 DEF Decide
  <2> QED BY <1>2, <2>1, <2>2, <2>3
<1>3. CASE Lock(l) \/ LoadCount(l) \/ StoreCount(l)
  <2>1. CASE Lock(l)
    BY <1>1, <2>1 DEF Lock
  <2>2. CASE LoadCount(l)
    BY <1>1, <2>2 DEF LoadCount
  <2>3. CASE StoreCount(l)
    BY <1>1, <2>3 DEF StoreCount
  <2> QED BY <1>3, <2>1, <2>2, <2>3
<1>4. CASE Unlock(l) \/ Free(l) \/ Clock(l)
  <2>1. CASE Unlock(l)
    BY <1>1, <2>1 DEF Unlock
  <2>2. CASE Free(l)
    BY <1>1, <2>2 DEF Free
  <2>3. CASE Clock(l)
    BY <1>1, <2>3 DEF Clock
  <2> QED BY <1>4, <2>1, <2>2, <2>3
<1>5. CASE ReportDue(l) \/ ReportLock(l) \/ ReportPrint(l) \/ ReportStamp(l)
  <2>1. CASE ReportDue(l)
    BY <1>1, <2>1 DEF ReportDue
  <2>2. CASE ReportLock(l)
    BY <1>1, <2>2 DEF ReportLock
  <2>3. CASE ReportPrint(l)
    BY <1>1, <2>3 DEF ReportPrint
  <2>4. CASE ReportStamp(l)
    BY <1>1, <2>4 DEF ReportStamp
  <2> QED BY <1>5, <2>1, <2>2, <2>3, <2>4
<1> QED BY <1>2, <1>3, <1>4, <1>5 DEF LcoreStep

\* No step breaks the order of start and end.
LEMMA PhasesStep ==
  ASSUME TypeOK, Phases, [Next]_vars
  PROVE  Phases'
<1>1. /\ lcore \in [Lcores -> LcoreState] /\ state \in [Workers -> {"WAIT", "RUNNING"}]
      /\ Main \in Lcores /\ Main \notin Workers /\ Workers \subseteq Lcores
  BY Split, DataPlaneAssumption DEF Workers, TypeOK
<1> USE DEF launch, At
<1>2. CASE UNCHANGED <<lcore, main, state>>
  BY <1>2 DEF Phases, Running
<1>3. ASSUME NEW l \in Lcores, LcoreStep(l), ~Exit(l)
      PROVE  Phases'
  <2>1. /\ Running(l) /\ Running(l)' /\ UNCHANGED <<main, state>>
        /\ \A k \in Lcores : k # l => lcore'[k] = lcore[k]
    BY <1>3, LoopSteps
  <2>2. l \in Workers \/ l = Main
    BY <1>3 DEF Workers
  <2> QED BY <1>1, <2>1, <2>2 DEF Phases, Running
<1>4. ASSUME NEW l \in Lcores, Exit(l)
      PROVE  Phases'
  <2>1. lcore'[l].pc = "ended" /\ Running(l)
        /\ \A k \in Lcores : k # l => lcore'[k] = lcore[k]
    BY <1>1, <1>4 DEF Exit, Goto, Running, LcoreState
  <2>2. CASE l = Main
    <3>1. main' = "wait" /\ state' = state /\ main \notin {"launch", "wait", "report", "done"}
      BY <1>4, <2>1, <2>2 DEF Exit, Phases, Running
    <3> QED BY <1>1, <2>1, <2>2, <3>1 DEF Phases, Running
  <2>3. CASE l # Main
    <3>1. /\ main' = main /\ state'[l] = "WAIT" /\ l \in Workers
          /\ \A w \in Workers : w # l => state'[w] = state[w]
      BY <1>1, <1>4, <2>3 DEF Exit, Workers
    <3> QED BY <1>1, <2>1, <2>3, <3>1 DEF Phases, Running
  <2> QED BY <2>2, <2>3
<1>5. ASSUME NEW w \in Workers, Launch(w)
      PROVE  Phases'
  <2>1. lcore'[w].pc = "loop" /\ \A k \in Lcores : k # w => lcore'[k] = lcore[k]
    BY <1>1, <1>5 DEF Launch, Goto, LcoreState
  <2>2. /\ main = "launch" /\ main' = main /\ state'[w] = "RUNNING"
        /\ \A v \in Workers : v # w => state'[v] = state[v]
    BY <1>1, <1>5 DEF Launch
  <2> QED BY <1>1, <2>1, <2>2 DEF Phases, Running
<1>6. CASE CallMain
  <2>1. lcore'[Main].pc = "loop" /\ \A k \in Lcores : k # Main => lcore'[k] = lcore[k]
    BY <1>1, <1>6 DEF CallMain, Goto, LcoreState
  <2>2. main' = "run" /\ state' = state /\ \A w \in Workers : lcore[w].pc # "off"
    BY <1>6 DEF CallMain
  <2> QED BY <1>1, <2>1, <2>2 DEF Phases, Running
<1>7. CASE WaitWorkers
  <2>1. /\ main = "wait" /\ main' = "report" /\ UNCHANGED <<lcore, state>>
        /\ \A w \in Workers : state[w] = "WAIT"
    BY <1>7 DEF WaitWorkers
  <2> QED BY <2>1 DEF Phases, Running
<1>8. CASE FinalReport
  <2>1. main = "report" /\ main' = "done" /\ UNCHANGED <<lcore, state>>
    BY <1>8 DEF FinalReport
  <2> QED BY <2>1 DEF Phases, Running
<1>9. CASE Environment \/ UNCHANGED vars
  BY <1>2, <1>9 DEF Environment, Signal, Arrive, Tick, vars
<1> QED BY <1>3, <1>4, <1>5, <1>6, <1>7, <1>8, <1>9 DEF Next, MainStep

\* Both parts hold at the start and are kept by every step.
LEMMA InvAlways == Spec => [](IInv /\ Phases)
<1>1. Init => IInv /\ Phases
  <2> SUFFICES ASSUME Init PROVE Phases
    BY InitIInv
  <2> QED BY DataPlaneAssumption DEF Init, Phases, Running, Off, Workers
<1>2. IInv /\ Phases /\ [Next]_vars => (IInv /\ Phases)'
  <2> SUFFICES ASSUME IInv, Phases, [Next]_vars PROVE IInv' /\ Phases'
    OBVIOUS
  <2>1. Phases'
    BY PhasesStep DEF IInv
  <2>2. CASE UNCHANGED vars
    BY <2>1, <2>2 DEF vars, device, stats, launch, IInv, TypeOK, LockExclusive, Critical, HoldsPacket
  <2>3. ASSUME NEW l \in Lcores, LcoreStep(l)
        PROVE  IInv'
    BY <2>3, PollSteps, CountSteps, ReportSteps DEF LcoreStep
  <2> QED BY <2>1, <2>2, <2>3, OtherSteps DEF Next, MainStep
<1> QED BY <1>1, <1>2, PTL DEF Spec

\* Every counter, clock and lcore keeps its type; no burst overruns the array.
THEOREM TypeCorrect == Spec => []TypeOK
<1>1. IInv => TypeOK
  BY DEF IInv
<1> QED BY InvAlways, <1>1, PTL

\* The statistics are in the hands of one lcore at a time, and the lock is
\* taken exactly while one has them (rte_spinlock_lock in stats.c).
THEOREM LockCorrect == Spec => []LockExclusive
<1>1. IInv => LockExclusive
  BY DEF IInv
<1> QED BY InvAlways, <1>1, PTL

\* When main() takes the lock for the final report no other lcore is in its
\* loop any more: nothing is counted after the report (main.c).
AllEnded == main \in {"report", "done"} => \A l \in Lcores : lcore[l].pc = "ended"
THEOREM ReportLast == Spec => []AllEnded
<1>1. Phases => AllEnded
  BY DEF Phases, AllEnded, Workers
<1> QED BY InvAlways, <1>1, PTL
-----------------------------------------------------------------------------
(***************************************************************************)
(* Sums over a finite domain, as SumFunction of the library builds them.   *)
(***************************************************************************)
\* A set of naturals with 0 and all successors has them all.
LEMMA AllNaturals ==
  ASSUME NEW S, 0 \in S, \A n \in Nat : n \in S => n + 1 \in S
  PROVE  Nat \subseteq S
<1> SUFFICES ASSUME Nat \ S # {} PROVE FALSE
  OBVIOUS
<1> DEFINE R == OpToRel(<, Nat)
<1>1. PICK x \in Nat \ S : \A y \in Nat \ S : ~(<<y, x>> \in R)
  <2>1. IsWellFoundedOn(R, Nat)
    BY NatLessThanWellFounded
  <2> HIDE DEF R
  <2>2. QED BY <2>1, WFMin
<1>2. x # 0 /\ x - 1 \in Nat /\ x - 1 < x
  OBVIOUS
<1>3. x - 1 \in S
  BY <1>1, <1>2 DEF OpToRel
<1>4. (x - 1) + 1 = x
  OBVIOUS
<1>5. QED BY <1>2, <1>3, <1>4

Pick(s) == CHOOSE x \in s : TRUE
SumOf(f, g, s) == IF s = {} THEN 0 ELSE f[Pick(s)] + g[s \ {Pick(s)}]
IsSum(f, g) == g = [s \in SUBSET (DOMAIN f) |-> SumOf(f, g, s)]

LEMMA SumUnfolds ==
  ASSUME NEW f
  PROVE  SumFunction(f) = (CHOOSE g : IsSum(f, g))[DOMAIN f]
BY DEF SumFunction, SumFunctionOnSet, FoldFunctionOnSet, MapThenFoldSet, IsSum, SumOf, Pick

\* The sum of f over its domain is reached by way of the subsets of the domain,
\* without an element at a time: a set of subsets that goes along has them all.
LEMMA SubsetInduction ==
  ASSUME NEW D, IsFiniteSet(D), NEW T, {} \in T,
         \A s \in SUBSET D : s # {} /\ s \ {Pick(s)} \in T => s \in T
  PROVE  \A s \in SUBSET D : s \in T
<1> DEFINE S == {n \in Nat : \A s \in SUBSET D : Cardinality(s) = n => s \in T}
<1>1. \A s \in SUBSET D : IsFiniteSet(s) /\ Cardinality(s) \in Nat
  BY FS_Subset, FS_CardinalityType
<1>2. 0 \in S
  BY <1>1, FS_EmptySet
<1>3. ASSUME NEW n \in Nat, n \in S PROVE n + 1 \in S
  <2> SUFFICES ASSUME NEW s \in SUBSET D, Cardinality(s) = n + 1 PROVE s \in T
    OBVIOUS
  <2>1. s # {}
    BY FS_EmptySet
  <2>2. Pick(s) \in s
    BY <2>1 DEF Pick
  <2>3. Cardinality(s \ {Pick(s)}) = n
    <3>1. Cardinality(s \ {Pick(s)}) = Cardinality(s) - 1
      BY <1>1, <2>2, FS_RemoveElement
    <3>2. QED BY <3>1
  <2>4. s \ {Pick(s)} \in T
    BY <1>3, <2>3
  <2>5. QED BY <2>1, <2>4
<1>4. Nat \subseteq S
  <2> HIDE DEF S
  <2>1. QED BY <1>2, <1>3, AllNaturals
<1>5. QED BY <1>1, <1>4

Partial(f) == CHOOSE g : IsSum(f, g)

\* There is such a function: one that is right for small sets is right for
\* sets of one element more once SumOf is applied to it.
LEMMA SumExists ==
  ASSUME NEW D, IsFiniteSet(D), NEW f, DOMAIN f = D
  PROVE  IsSum(f, Partial(f))
<1> DEFINE Right(g, n) == \A s \in SUBSET D : Cardinality(s) <= n => g[s] = SumOf(f, g, s)
<1> DEFINE Good(g, n) == g = [s \in SUBSET D |-> g[s]] /\ Right(g, n)
<1> DEFINE S == {n \in Nat : \E g : Good(g, n)}
<1>1. \A s \in SUBSET D : IsFiniteSet(s) /\ Cardinality(s) \in Nat
  BY FS_Subset, FS_CardinalityType
<1>2. 0 \in S
  <2> DEFINE g == [s \in SUBSET D |-> 0]
  <2>1. Right(g, 0)
    <3> SUFFICES ASSUME NEW s \in SUBSET D, Cardinality(s) <= 0 PROVE g[s] = SumOf(f, g, s)
      OBVIOUS
    <3>1. s = {}
      BY <1>1, FS_EmptySet
    <3>2. QED BY <3>1 DEF SumOf
  <2>2. g = [s \in SUBSET D |-> g[s]]
    OBVIOUS
  <2>3. Good(g, 0)
    BY <2>1, <2>2
  <2> HIDE DEF g, Good
  <2>4. QED BY <2>3
<1>3. ASSUME NEW n \in Nat, n \in S PROVE n + 1 \in S
  <2>1. PICK g : Good(g, n)
    BY <1>3
  <2> DEFINE h == [s \in SUBSET D |-> SumOf(f, g, s)]
  <2>2. Right(h, n + 1)
    <3> SUFFICES ASSUME NEW s \in SUBSET D, Cardinality(s) <= n + 1
                 PROVE  h[s] = SumOf(f, h, s)
      OBVIOUS
    <3>1. CASE s = {}
      BY <3>1 DEF SumOf
    <3>2. CASE s # {}
      <4> DEFINE r == s \ {Pick(s)}
      <4>1. Pick(s) \in s
        BY <3>2 DEF Pick
      <4>2. Cardinality(r) <= n
        <5>1. Cardinality(r) = Cardinality(s) - 1
          BY <1>1, <4>1, FS_RemoveElement
        <5>2. QED BY <1>1, <5>1
      <4>3. r \in SUBSET D
        OBVIOUS
      <4>4. h[r] = SumOf(f, g, r) /\ g[r] = SumOf(f, g, r)
        BY <2>1, <4>2, <4>3
      <4>5. h[s] = SumOf(f, g, s)
        OBVIOUS
      <4>6. QED BY <3>2, <4>4, <4>5 DEF SumOf
    <3>3. QED BY <3>1, <3>2
  <2>3. h = [s \in SUBSET D |-> h[s]]
    OBVIOUS
  <2>4. Good(h, n + 1)
    BY <2>2, <2>3
  <2> HIDE DEF h, Good
  <2>5. QED BY <2>4
<1>4. Nat \subseteq S
  <2> HIDE DEF S
  <2>1. QED BY <1>2, <1>3, AllNaturals
<1>5. PICK g : Good(g, Cardinality(D))
  <2>1. Cardinality(D) \in S
    BY <1>1, <1>4
  <2> HIDE DEF Good
  <2>2. QED BY <2>1
<1>6. \A s \in SUBSET D : g[s] = SumOf(f, g, s)
  <2> SUFFICES ASSUME NEW s \in SUBSET D PROVE g[s] = SumOf(f, g, s)
    OBVIOUS
  <2>1. Cardinality(s) <= Cardinality(D)
    BY FS_Subset
  <2>2. QED BY <1>5, <2>1
<1>7. IsSum(f, g)
  BY <1>5, <1>6 DEF IsSum
<1>8. QED BY <1>7 DEF Partial

LEMMA SumSteps ==
  ASSUME NEW D, IsFiniteSet(D), NEW f \in [D -> Int]
  PROVE  /\ SumFunction(f) = Partial(f)[D] /\ Partial(f)[{}] = 0
         /\ \A s \in SUBSET D : s # {} =>
              /\ Partial(f)[s] = f[Pick(s)] + Partial(f)[s \ {Pick(s)}]
              /\ Pick(s) \in s
         /\ \A s \in SUBSET D : Partial(f)[s] \in Int
<1> DEFINE g == Partial(f)
<1>1. IsSum(f, g) /\ DOMAIN f = D
  BY SumExists
<1>2. SumFunction(f) = g[D]
  BY <1>1, SumUnfolds DEF Partial
<1> HIDE DEF g
<1>3. \A s \in SUBSET D : g[s] = SumOf(f, g, s)
  BY <1>1 DEF IsSum
<1>4. g[{}] = 0
  BY <1>3 DEF SumOf
<1>5. \A s \in SUBSET D : s # {} => g[s] = f[Pick(s)] + g[s \ {Pick(s)}] /\ Pick(s) \in s
  BY <1>3 DEF SumOf, Pick
<1> DEFINE T == {s \in SUBSET D : g[s] \in Int}
<1>6. {} \in T
  BY <1>4
<1>7. \A s \in SUBSET D : s # {} /\ s \ {Pick(s)} \in T => s \in T
  BY <1>5
<1>8. \A s \in SUBSET D : s \in T
  <2> HIDE DEF T
  <2>1. QED BY <1>6, <1>7, SubsetInduction
<1>9. QED BY <1>2, <1>4, <1>5, <1>8 DEF g

\* One value changes, and the sum by as much.
LEMMA SumChanges ==
  ASSUME NEW D, IsFiniteSet(D), NEW f \in [D -> Int], NEW h \in [D -> Int], NEW l \in D,
         \A x \in D : x # l => h[x] = f[x]
  PROVE  /\ SumFunction(h) = SumFunction(f) + h[l] - f[l]
         /\ SumFunction(f) \in Int /\ SumFunction(h) \in Int
<1> DEFINE a == Partial(f)
<1> DEFINE b == Partial(h)
<1> DEFINE T == {s \in SUBSET D : b[s] = a[s] + (IF l \in s THEN h[l] - f[l] ELSE 0)}
<1>1. /\ SumFunction(f) = a[D] /\ a[{}] = 0
      /\ \A s \in SUBSET D : s # {} => a[s] = f[Pick(s)] + a[s \ {Pick(s)}] /\ Pick(s) \in s
      /\ \A s \in SUBSET D : a[s] \in Int
  BY SumSteps
<1>2. /\ SumFunction(h) = b[D] /\ b[{}] = 0
      /\ \A s \in SUBSET D : s # {} => b[s] = h[Pick(s)] + b[s \ {Pick(s)}] /\ Pick(s) \in s
      /\ \A s \in SUBSET D : b[s] \in Int
  BY SumSteps
<1> HIDE DEF a, b
<1>3. {} \in T
  BY <1>1, <1>2
<1>4. ASSUME NEW s \in SUBSET D, s # {}, s \ {Pick(s)} \in T PROVE s \in T
  <2> DEFINE x == Pick(s)
  <2> DEFINE r == s \ {x}
  <2>1. x \in s /\ r \in SUBSET D /\ a[s] = f[x] + a[r] /\ b[s] = h[x] + b[r]
        /\ a[r] \in Int /\ b[r] \in Int /\ f[x] \in Int /\ h[x] \in Int
        /\ f[l] \in Int /\ h[l] \in Int
    BY <1>1, <1>2, <1>4
  <2>2. b[r] = a[r] + (IF l \in r THEN h[l] - f[l] ELSE 0)
    BY <1>4
  <2> HIDE DEF x
  <2>3. CASE x = l
    <3>1. l \notin r /\ l \in s
      BY <2>1, <2>3
    <3>2. b[s] = a[s] + (h[l] - f[l])
      BY <2>1, <2>2, <2>3, <3>1
    <3>3. QED BY <3>1, <3>2
  <2>4. CASE x # l
    <3>1. (l \in r <=> l \in s) /\ h[x] = f[x]
      BY <2>1, <2>4
    <3> DEFINE d == IF l \in s THEN h[l] - f[l] ELSE 0
    <3>2. d \in Int
      BY <2>1
    <3>3. b[r] = a[r] + d
      BY <2>2, <3>1
    <3> HIDE DEF d, r
    <3>4. b[s] = a[s] + d
      BY <2>1, <3>1, <3>2, <3>3
    <3>5. QED BY <3>4 DEF d
  <2>5. QED BY <2>3, <2>4
<1>5. D \in T
  <2> HIDE DEF T
  <2>1. QED BY <1>3, <1>4, SubsetInduction
<1>6. QED BY <1>1, <1>2, <1>5

LEMMA SumOfZeros ==
  ASSUME NEW D, IsFiniteSet(D), NEW f \in [D -> Int], \A x \in D : f[x] = 0
  PROVE  SumFunction(f) = 0
<1> DEFINE a == Partial(f)
<1> DEFINE T == {s \in SUBSET D : a[s] = 0}
<1>1. /\ SumFunction(f) = a[D] /\ a[{}] = 0
      /\ \A s \in SUBSET D : s # {} => a[s] = f[Pick(s)] + a[s \ {Pick(s)}] /\ Pick(s) \in s
  BY SumSteps
<1> HIDE DEF a
<1>2. {} \in T
  BY <1>1
<1>3. \A s \in SUBSET D : s # {} /\ s \ {Pick(s)} \in T => s \in T
  BY <1>1
<1>4. D \in T
  <2> HIDE DEF T
  <2>1. QED BY <1>2, <1>3, SubsetInduction
<1>5. QED BY <1>1, <1>4
-----------------------------------------------------------------------------
(***************************************************************************)
(* The accounts of mbufs and packets.  To the two balances the invariant   *)
(* adds that an lcore outside a burst owes nothing (LeftRight), and that   *)
(* the value it has loaded is still the counter's when it stores it        *)
(* (RegRight), which is what the lock is for.                              *)
(***************************************************************************)
BurstPcs == {"packet", "lock", "load", "store", "unlock", "free"}
LeftRight(l) == lcore[l].pc \notin BurstPcs => lcore[l].left = 0
RegRight(l) == lcore[l].pc = "store" => lcore[l].reg = counts[lcore[l].outcome]

Accounts ==
  /\ MbufsConserved /\ EveryPacketCounted
  /\ \A l \in Lcores : LeftRight(l) /\ RegRight(l)

Lefts == [l \in Lcores |-> lcore[l].left]
Uncounteds == [l \in Lcores |-> Uncounted(l)]

LEMMA OutcomesFinite == IsFiniteSet(Outcomes)
<1> DEFINE s1 == {"parse_error"}
<1> DEFINE s2 == s1 \cup {"unmatched"}
<1> DEFINE s3 == s2 \cup {"rate_limit"}
<1>1. IsFiniteSet(s1)
  BY FS_Singleton
<1>2. IsFiniteSet(s2)
  BY <1>1, FS_AddElement
<1>3. IsFiniteSet(s3)
  BY <1>2, FS_AddElement
<1>4. IsFiniteSet(s3 \cup {"record"})
  BY <1>3, FS_AddElement
<1>5. Outcomes = s3 \cup {"record"}
  BY DEF Outcomes
<1>6. QED BY <1>4, <1>5

LEMMA LeftsTyped ==
  ASSUME TypeOK
  PROVE  Lefts \in [Lcores -> Int] /\ Uncounteds \in [Lcores -> Int]
<1>1. \A l \in Lcores : lcore[l].left \in Int /\ Uncounted(l) \in Int
  BY DataPlaneAssumption DEF TypeOK, Uncounted
<1>2. QED BY <1>1 DEF Lefts, Uncounteds

\* At the start nothing is owed and nothing counted.
LEMMA InitAccounts == Init => Accounts
<1> SUFFICES ASSUME Init PROVE Accounts
  OBVIOUS
<1> USE DataPlaneAssumption
<1>1. TypeOK
  BY InitIInv DEF IInv
<1>2. \A l \in Lcores : lcore[l].left = 0 /\ lcore[l].pc = "off"
  BY DEF Init, Off
<1>3. \A l \in Lcores : Uncounted(l) = 0
  BY <1>2 DEF Uncounted, CountedPcs
<1>4. SumFunction(Lefts) = 0 /\ SumFunction(Uncounteds) = 0
  BY <1>1, <1>2, <1>3, LeftsTyped, SumOfZeros DEF Lefts, Uncounteds
<1>5. Total(counts) = 0
  <2>1. counts \in [Outcomes -> Int] /\ \A o \in Outcomes : counts[o] = 0
    BY DEF Init, Zero
  <2>2. QED BY <2>1, OutcomesFinite, SumOfZeros DEF Total
<1>6. MbufsConserved /\ EveryPacketCounted
  BY <1>4, <1>5 DEF Init, MbufsConserved, EveryPacketCounted, Lefts, Uncounteds
<1>7. QED BY <1>2, <1>6 DEF Accounts, LeftRight, RegRight

\* A step of one lcore changes the sums by what it owes more or less.
LEMMA SumsOfLcores ==
  ASSUME TypeOK, TypeOK', NEW l \in Lcores, \A k \in Lcores : k # l => lcore'[k] = lcore[k]
  PROVE  /\ SumFunction(Lefts)' = SumFunction(Lefts) + lcore'[l].left - lcore[l].left
         /\ SumFunction(Uncounteds)' = SumFunction(Uncounteds) + Uncounted(l)' - Uncounted(l)
         /\ SumFunction(Lefts) \in Int /\ SumFunction(Uncounteds) \in Int
<1>1. /\ Lefts \in [Lcores -> Int] /\ Uncounteds \in [Lcores -> Int]
      /\ Lefts' \in [Lcores -> Int] /\ Uncounteds' \in [Lcores -> Int]
  <2>1. (Lefts \in [Lcores -> Int] /\ Uncounteds \in [Lcores -> Int])'
    BY LeftsTyped, PTL
  <2>2. QED BY <2>1, LeftsTyped
<1>2. \A k \in Lcores : k # l => Lefts'[k] = Lefts[k] /\ Uncounteds'[k] = Uncounteds[k]
  BY DEF Lefts, Uncounteds, Uncounted
<1>3. /\ Lefts'[l] = lcore'[l].left /\ Lefts[l] = lcore[l].left
      /\ Uncounteds'[l] = Uncounted(l)' /\ Uncounteds[l] = Uncounted(l)
  BY DEF Lefts, Uncounteds
<1>4. IsFiniteSet(Lcores)
  BY DataPlaneAssumption
<1>5. /\ SumFunction(Lefts') = SumFunction(Lefts) + Lefts'[l] - Lefts[l]
      /\ SumFunction(Lefts) \in Int
  BY <1>1, <1>2, <1>4, SumChanges
<1>6. /\ SumFunction(Uncounteds') = SumFunction(Uncounteds) + Uncounteds'[l] - Uncounteds[l]
      /\ SumFunction(Uncounteds) \in Int
  BY <1>1, <1>2, <1>4, SumChanges
<1>7. QED BY <1>3, <1>5, <1>6

\* A step that neither takes, counts nor frees a packet.
LEMMA QuietStep ==
  ASSUME TypeOK, TypeOK', Accounts, NEW l \in Lcores,
         \A k \in Lcores : k # l => lcore'[k] = lcore[k],
         lcore'[l].left = lcore[l].left,
         lcore'[l].pc \in CountedPcs <=> lcore[l].pc \in CountedPcs,
         LeftRight(l)', RegRight(l)', UNCHANGED <<wire, pool, arrived, counts>>
  PROVE  Accounts'
<1>1. Uncounted(l)' = Uncounted(l) /\ Uncounted(l) \in Int /\ lcore[l].left \in Int
  BY DataPlaneAssumption DEF TypeOK, Uncounted
<1>2. SumFunction(Lefts)' = SumFunction(Lefts) /\ SumFunction(Uncounteds)' = SumFunction(Uncounteds)
  BY <1>1, SumsOfLcores
<1>3. MbufsConserved' /\ EveryPacketCounted'
  BY <1>2 DEF Accounts, MbufsConserved, EveryPacketCounted, Lefts, Uncounteds, Total
<1>4. \A k \in Lcores : LeftRight(k)' /\ RegRight(k)'
  BY DEF Accounts, LeftRight, RegRight
<1>5. QED BY <1>3, <1>4 DEF Accounts

\* The steps that only go on to another place.
LEMMA GotoAccounts ==
  ASSUME TypeOK, TypeOK', Accounts, NEW l \in Lcores, NEW p \in Pcs, Goto(l, p),
         p \in CountedPcs <=> lcore[l].pc \in CountedPcs,
         p \in BurstPcs \/ lcore[l].pc \notin BurstPcs, p # "store",
         UNCHANGED <<wire, pool, arrived, counts>>
  PROVE  Accounts'
<1>1. /\ lcore[l] \in LcoreState /\ lcore'[l] = [lcore[l] EXCEPT !.pc = p]
      /\ \A k \in Lcores : k # l => lcore'[k] = lcore[k]
  BY GotoLcore, Split
<1>2. lcore'[l].pc = p /\ lcore'[l].left = lcore[l].left
  BY <1>1 DEF LcoreState
<1>3. LeftRight(l)' /\ RegRight(l)'
  BY <1>2 DEF LeftRight, RegRight, Accounts
<1>4. QED BY <1>1, <1>2, <1>3, QuietStep

LEMMA QuietAccounts ==
  ASSUME IInv, TypeOK', Accounts, NEW l \in Lcores,
         \/ Loop(l) \/ Decide(l) \/ Lock(l) \/ LoadCount(l) \/ Unlock(l)
         \/ Clock(l) \/ ReportDue(l) \/ ReportLock(l) \/ ReportPrint(l) \/ ReportStamp(l) \/ Exit(l)
  PROVE  Accounts'
<1>1. /\ TypeOK /\ lcore[l] \in LcoreState /\ lcore \in [Lcores -> LcoreState]
      /\ counts \in [Outcomes -> Nat]
  BY Split DEF IInv, RestOK
<1> USE DEF device, stats, launch, At
<1>2. CASE Loop(l) \/ Lock(l) \/ Unlock(l) \/ ReportDue(l) \/ ReportLock(l) \/ ReportPrint(l)
           \/ ReportStamp(l) \/ Exit(l)
  <2>1. PICK p \in {"exit", "rx", "load", "free", "report", "loop", "print", "stamp", "ended"} :
          /\ Goto(l, p)
          /\ p \in CountedPcs <=> lcore[l].pc \in CountedPcs
          /\ p \in BurstPcs \/ lcore[l].pc \notin BurstPcs
    <3> USE DEF CountedPcs, BurstPcs
    <3>1. CASE Loop(l) \/ ReportDue(l) BY <3>1 DEF Loop, ReportDue
    <3>2. CASE Lock(l) \/ Unlock(l) BY <3>2 DEF Lock, Unlock
    <3>3. CASE ReportLock(l) \/ ReportPrint(l) \/ ReportStamp(l)
      BY <3>3 DEF ReportLock, ReportPrint, ReportStamp
    <3>4. CASE Exit(l) BY <3>4 DEF Exit
    <3>5. QED BY <1>2, <3>1, <3>2, <3>3, <3>4
  <2>2. p \in Pcs /\ p # "store"
    BY DEF Pcs
  <2>3. UNCHANGED <<wire, pool, arrived, counts>>
    BY <1>2 DEF Loop, Lock, Unlock, ReportDue, ReportLock, ReportPrint, ReportStamp, Exit
  <2>4. QED BY <1>1, <2>1, <2>2, <2>3, GotoAccounts
<1>3. CASE Decide(l)
  <2>1. PICK o \in Outcomes : Set(l, [lcore[l] EXCEPT !.pc = "lock", !.outcome = o])
    BY <1>3 DEF Decide
  <2>2. lcore'[l].pc = "lock" /\ lcore'[l].left = lcore[l].left /\ lcore[l].pc = "packet"
        /\ \A k \in Lcores : k # l => lcore'[k] = lcore[k]
    BY <1>1, <1>3, <2>1 DEF Set, LcoreState, Decide
  <2>3. LeftRight(l)' /\ RegRight(l)' /\ UNCHANGED <<wire, pool, arrived, counts>>
    BY <1>3, <2>2 DEF LeftRight, RegRight, BurstPcs, Decide
  <2>4. lcore'[l].pc \notin CountedPcs /\ lcore[l].pc \notin CountedPcs
    BY <2>2 DEF CountedPcs
  <2>5. QED BY <1>1, <2>2, <2>3, <2>4, QuietStep
<1>4. CASE LoadCount(l)
  <2>1. /\ lcore'[l].pc = "store" /\ lcore'[l].left = lcore[l].left /\ lcore[l].pc = "load"
        /\ lcore'[l].reg = counts[lcore[l].outcome] /\ lcore'[l].outcome = lcore[l].outcome
        /\ \A k \in Lcores : k # l => lcore'[k] = lcore[k]
    BY <1>1, <1>4 DEF Set, LcoreState, LoadCount
  <2>2. LeftRight(l)' /\ RegRight(l)' /\ UNCHANGED <<wire, pool, arrived, counts>>
    BY <1>4, <2>1 DEF LeftRight, RegRight, BurstPcs, LoadCount
  <2>3. lcore'[l].pc \notin CountedPcs /\ lcore[l].pc \notin CountedPcs
    BY <2>1 DEF CountedPcs
  <2>4. QED BY <1>1, <2>1, <2>2, <2>3, QuietStep
<1>5. CASE Clock(l)
  <2>1. /\ lcore'[l].pc \in {"loop", "due"} /\ lcore'[l].left = lcore[l].left
        /\ lcore[l].pc = "clock" /\ \A k \in Lcores : k # l => lcore'[k] = lcore[k]
    BY <1>1, <1>5 DEF Set, LcoreState, Clock
  <2>2. LeftRight(l)' /\ RegRight(l)' /\ UNCHANGED <<wire, pool, arrived, counts>>
    BY <1>5, <2>1 DEF LeftRight, RegRight, BurstPcs, Clock, Accounts
  <2>3. lcore'[l].pc \notin CountedPcs /\ lcore[l].pc \notin CountedPcs
    BY <2>1 DEF CountedPcs
  <2>4. QED BY <1>1, <2>1, <2>2, <2>3, QuietStep
<1>6. QED BY <1>2, <1>3, <1>4, <1>5

\* A burst: the packets go from the port to the lcore that has to count them.
LEMMA RxAccounts ==
  ASSUME TypeOK, TypeOK', Accounts, NEW l \in Lcores, Rx(l)
  PROVE  Accounts'
<1>1. lcore[l] \in LcoreState /\ lcore \in [Lcores -> LcoreState] /\ RestOK /\ RestOK'
  <2>1. (RestOK /\ lcore \in [Lcores -> LcoreState])'
    BY Split, PTL
  <2>2. QED BY <2>1, Split
<1>2. PICK n \in 0 .. Burst :
        /\ n <= wire /\ wire' = wire - n
        /\ Set(l, [lcore[l] EXCEPT !.pc = IF n = 0 THEN "loop" ELSE "packet", !.left = n])
  BY DEF Rx
<1>3. /\ lcore'[l].pc \in {"loop", "packet"} /\ lcore'[l].left = n /\ lcore[l].pc = "rx"
      /\ (lcore'[l].pc = "loop" => n = 0)
      /\ \A k \in Lcores : k # l => lcore'[k] = lcore[k]
  BY <1>1, <1>2 DEF Set, LcoreState, Rx, At
<1>4. UNCHANGED <<pool, arrived, counts>>
  BY DEF Rx, stats
<1>5. lcore[l].left = 0 /\ Uncounted(l) = 0 /\ Uncounted(l)' = n
  <2>1. lcore[l].left = 0
    BY <1>3 DEF Accounts, LeftRight, BurstPcs
  <2>2. lcore[l].pc \notin CountedPcs /\ lcore'[l].pc \notin CountedPcs /\ n \in Int
    BY <1>3, DataPlaneAssumption DEF CountedPcs
  <2>3. Uncounted(l) = lcore[l].left - 0 /\ Uncounted(l)' = lcore'[l].left - 0
    BY Zenon, <2>2 DEF Uncounted
  <2>4. Uncounted(l) = 0 /\ Uncounted(l)' = n
    BY <1>3, <2>1, <2>2, <2>3
  <2>5. QED BY <2>1, <2>4
<1>6. /\ SumFunction(Lefts)' = SumFunction(Lefts) + n /\ SumFunction(Lefts) \in Int
      /\ SumFunction(Uncounteds)' = SumFunction(Uncounteds) + n /\ SumFunction(Uncounteds) \in Int
  BY <1>3, <1>5, SumsOfLcores, DataPlaneAssumption
<1>7. MbufsConserved'
  BY <1>1, <1>2, <1>4, <1>6, DataPlaneAssumption DEF Accounts, MbufsConserved, Lefts, RestOK
<1>8. EveryPacketCounted'
  <2>1. Total(counts) \in Int
    BY <1>1, OutcomesFinite, SumSteps DEF Total, RestOK
  <2>2. QED
    BY <1>1, <1>2, <1>4, <1>6, <2>1, DataPlaneAssumption
       DEF Accounts, EveryPacketCounted, Uncounteds, RestOK
<1>9. \A k \in Lcores : LeftRight(k)' /\ RegRight(k)'
  BY <1>3, <1>4 DEF Accounts, LeftRight, RegRight, BurstPcs
<1>10. QED BY <1>7, <1>8, <1>9 DEF Accounts

\* The counter goes up by one, and the lcore owes one count less: what it
\* loaded is still in the counter, as no other lcore is in its place.
LEMMA StoreCountAccounts ==
  ASSUME IInv, TypeOK', Accounts, NEW l \in Lcores, StoreCount(l)
  PROVE  Accounts'
<1> DEFINE o == lcore[l].outcome
<1>1. /\ TypeOK /\ LockExclusive /\ lcore[l] \in LcoreState /\ lcore \in [Lcores -> LcoreState]
      /\ RestOK /\ counts \in [Outcomes -> Int] /\ o \in Outcomes
  BY Split DEF IInv, RestOK, LcoreState
<1>2. /\ lcore'[l].pc = "unlock" /\ lcore'[l].left = lcore[l].left /\ lcore[l].pc = "store"
      /\ \A k \in Lcores : k # l => lcore'[k] = lcore[k]
  BY <1>1 DEF StoreCount, Goto, At, LcoreState
<1>3. /\ counts' = [counts EXCEPT ![o] = counts[o] + 1] /\ UNCHANGED <<wire, pool, arrived>>
  BY <1>2 DEF StoreCount, device, Accounts, RegRight
<1>4. Total(counts)' = Total(counts) + 1 /\ Total(counts) \in Int
  <2>1. counts' \in [Outcomes -> Int] /\ counts'[o] = counts[o] + 1 /\ counts[o] \in Int
        /\ \A q \in Outcomes : q # o => counts'[q] = counts[q]
    BY <1>1, <1>3
  <2> HIDE DEF o
  <2>2. /\ SumFunction(counts') = SumFunction(counts) + counts'[o] - counts[o]
        /\ SumFunction(counts) \in Int
    BY <1>1, <2>1, OutcomesFinite, SumChanges
  <2>3. QED BY <2>1, <2>2 DEF Total
<1>5. Uncounted(l)' = Uncounted(l) - 1 /\ Uncounted(l) \in Int /\ lcore[l].left \in Int
  BY <1>1, <1>2, DataPlaneAssumption DEF Uncounted, CountedPcs, LcoreState
<1>6. /\ SumFunction(Lefts)' = SumFunction(Lefts) /\ SumFunction(Lefts) \in Int
      /\ SumFunction(Uncounteds)' = SumFunction(Uncounteds) - 1 /\ SumFunction(Uncounteds) \in Int
  BY <1>1, <1>2, <1>5, SumsOfLcores
<1>7. MbufsConserved' /\ EveryPacketCounted'
  BY <1>1, <1>3, <1>4, <1>6 DEF Accounts, MbufsConserved, EveryPacketCounted, Lefts, Uncounteds
<1>8. \A k \in Lcores : LeftRight(k)' /\ RegRight(k)'
  <2>1. \A k \in Lcores : k # l => lcore[k].pc # "store"
    BY <1>1, <1>2 DEF LockExclusive, Critical, CriticalPcs
  <2>2. QED BY <1>2, <2>1 DEF Accounts, LeftRight, RegRight, BurstPcs
<1>9. QED BY <1>7, <1>8 DEF Accounts

\* rte_pktmbuf_free: the mbuf goes back to the pool, the packet has been counted.
LEMMA FreeAccounts ==
  ASSUME IInv, TypeOK', Accounts, NEW l \in Lcores, Free(l)
  PROVE  Accounts'
<1>1. /\ TypeOK /\ HoldsPacket(l) /\ lcore[l] \in LcoreState /\ lcore \in [Lcores -> LcoreState]
      /\ RestOK
  BY Split DEF IInv
<1>2. /\ lcore'[l].pc = (IF lcore[l].left = 1 THEN "clock" ELSE "packet")
      /\ lcore'[l].left = lcore[l].left - 1 /\ lcore[l].pc = "free"
      /\ \A k \in Lcores : k # l => lcore'[k] = lcore[k]
  BY <1>1 DEF Free, Set, At, LcoreState, Off
<1>3. pool' = pool + 1 /\ UNCHANGED <<wire, arrived, counts>>
  BY DEF Free, stats
<1>4. Uncounted(l)' = Uncounted(l) /\ Uncounted(l) \in Int /\ lcore[l].left \in Int
  BY <1>1, <1>2, DataPlaneAssumption DEF Uncounted, CountedPcs, LcoreState
<1>5. /\ SumFunction(Lefts)' = SumFunction(Lefts) - 1 /\ SumFunction(Lefts) \in Int
      /\ SumFunction(Uncounteds)' = SumFunction(Uncounteds)
  BY <1>1, <1>2, <1>4, SumsOfLcores
<1>6. MbufsConserved' /\ EveryPacketCounted'
  BY <1>1, <1>3, <1>5 DEF Accounts, MbufsConserved, EveryPacketCounted, Lefts, Uncounteds, RestOK,
     Total
<1>7. \A k \in Lcores : LeftRight(k)' /\ RegRight(k)'
  BY <1>1, <1>2, <1>3, DataPlaneAssumption DEF Accounts, LeftRight, RegRight, BurstPcs, LcoreState
<1>8. QED BY <1>6, <1>7 DEF Accounts

\* Nothing main() or the environment does touches the accounts but an arrival,
\* which takes an mbuf for a packet the port holds.
LEMMA OtherAccounts ==
  ASSUME IInv, TypeOK', Accounts, Phases,
         Environment \/ MainStep \/ UNCHANGED vars
  PROVE  Accounts'
<1>1. TypeOK /\ RestOK /\ lcore \in [Lcores -> LcoreState]
  BY Split DEF IInv
<1>2. CASE Arrive
  <2>1. /\ arrived' = arrived + 1 /\ wire' = wire + 1 /\ pool' = pool - 1
        /\ UNCHANGED <<lcore, counts>>
    BY <1>2 DEF Arrive, stats
  <2>2. SumFunction(Lefts) \in Int /\ SumFunction(Uncounteds) \in Int /\ Total(counts) \in Int
    BY <1>1, LeftsTyped, OutcomesFinite, SumSteps, DataPlaneAssumption DEF Total, RestOK
  <2>3. Lefts' = Lefts /\ Uncounteds' = Uncounteds
    BY <2>1 DEF Lefts, Uncounteds, Uncounted
  <2>4. MbufsConserved' /\ EveryPacketCounted'
    BY <1>1, <2>1, <2>2, <2>3, DataPlaneAssumption DEF Accounts, MbufsConserved, EveryPacketCounted, Lefts,
       Uncounteds, RestOK
  <2>5. QED BY <2>1, <2>4 DEF Accounts, LeftRight, RegRight
<1>3. CASE UNCHANGED <<lcore, counts, wire, pool, arrived>>
  BY <1>3 DEF Accounts, MbufsConserved, EveryPacketCounted, Uncounted, LeftRight, RegRight
<1>4. ASSUME NEW l \in Lcores, Goto(l, "loop"), lcore[l].pc = "off",
             UNCHANGED <<wire, pool, arrived, counts>>
      PROVE  Accounts'
  <2>1. "loop" \in Pcs /\ "off" \notin BurstPcs /\ "loop" \notin CountedPcs
        /\ "off" \notin CountedPcs
    BY DEF Pcs, BurstPcs, CountedPcs
  <2>2. QED BY <1>1, <1>4, <2>1, GotoAccounts
<1>5. ASSUME NEW w \in Workers, Launch(w) PROVE Accounts'
  BY <1>4, <1>5 DEF Launch, Workers, At, device, stats
<1>6. CASE CallMain
  <2>1. Main \in Lcores /\ lcore[Main].pc = "off"
    BY <1>6, DataPlaneAssumption DEF CallMain, Phases
  <2>2. QED BY <1>4, <1>6, <2>1 DEF CallMain, device, stats
<1>7. CASE WaitWorkers \/ FinalReport \/ Signal \/ Tick \/ UNCHANGED vars
  BY <1>3, <1>7 DEF WaitWorkers, FinalReport, Signal, Tick, vars, device, stats
<1>8. QED BY <1>2, <1>5, <1>6, <1>7 DEF Environment, MainStep

LEMMA AccountsStep ==
  ASSUME IInv, Phases, TypeOK', Accounts, [Next]_vars
  PROVE  Accounts'
<1>1. TypeOK
  BY DEF IInv
<1>2. ASSUME NEW l \in Lcores, LcoreStep(l) PROVE Accounts'
  BY <1>1, <1>2, QuietAccounts, RxAccounts, StoreCountAccounts, FreeAccounts DEF LcoreStep
<1>3. QED BY <1>2, OtherAccounts DEF Next

\* The final report is made when nothing is owed, and after it no lcore counts.
LEMMA ReportStep ==
  ASSUME IInv, Phases, Accounts, FinalReportComplete, [Next]_vars
  PROVE  FinalReportComplete'
<1>1. TypeOK /\ RestOK /\ lcore \in [Lcores -> LcoreState] /\ IsFiniteSet(Lcores)
  BY Split, DataPlaneAssumption DEF IInv
<1>2. CASE FinalReport
  <2>1. \A l \in Lcores : lcore[l].pc = "ended"
    BY <1>2 DEF FinalReport, Phases, Workers
  <2>2. \A l \in Lcores : Uncounted(l) = 0
    BY <2>1 DEF Accounts, LeftRight, BurstPcs, Uncounted, CountedPcs
  <2>3. SumFunction(Uncounteds) = 0
    BY <1>1, <2>2, LeftsTyped, SumOfZeros DEF Uncounteds
  <2>4. Total(counts) = arrived - wire
    <3>1. Total(counts) \in Int
      BY <1>1, OutcomesFinite, SumSteps DEF Total, RestOK
    <3>2. QED BY <2>3, <3>1 DEF Accounts, EveryPacketCounted, Uncounteds
  <2>5. QED BY <1>2, <2>4 DEF FinalReport, FinalReportComplete, device
<1>3. CASE Arrive
  BY <1>1, <1>3, DataPlaneAssumption DEF Arrive, FinalReportComplete, launch, RestOK, Total
<1>4. ASSUME NEW l \in Lcores, LcoreStep(l) PROVE main' # "done"
  <2>1. main = "done" => lcore[l].pc = "ended"
    BY DEF Phases, Workers
  <2>2. lcore[l].pc # "ended"
    <3>1. CASE Exit(l) BY <3>1 DEF Exit, At
    <3>2. CASE ~Exit(l) BY <1>1, <1>4, <3>2, LoopSteps DEF Running
    <3>3. QED BY <3>1, <3>2
  <2>3. main' = main \/ main' = "wait"
    <3>1. CASE Exit(l) BY <3>1 DEF Exit
    <3>2. CASE ~Exit(l) BY <1>1, <1>4, <3>2, LoopSteps
    <3>3. QED BY <3>1, <3>2
  <2>4. QED BY <2>1, <2>2, <2>3
<1>5. CASE CallMain \/ WaitWorkers
  BY <1>5 DEF CallMain, WaitWorkers, FinalReportComplete
<1>6. CASE (\E w \in Workers : Launch(w)) \/ Signal \/ Tick \/ UNCHANGED vars
  BY <1>6 DEF Launch, Signal, Tick, vars, launch, device, FinalReportComplete
<1>7. QED
  BY <1>2, <1>3, <1>4, <1>5, <1>6 DEF Next, Environment, MainStep, FinalReportComplete

LEMMA AccountsAlways == Spec => [](Accounts /\ FinalReportComplete)
<1>1. Init => FinalReportComplete
  BY DEF Init, FinalReportComplete
<1>2. IInv /\ Phases /\ Accounts /\ FinalReportComplete /\ [Next]_vars /\ IInv'
      => (Accounts /\ FinalReportComplete)'
  BY AccountsStep, ReportStep DEF IInv
<1>3. QED BY InitAccounts, <1>1, <1>2, InvAlways, PTL DEF Spec

\* Each path of dp_lcore_main frees its mbuf, once: an mbuf is always free, on
\* the port, or in the burst of an lcore.
THEOREM MbufsCorrect == Spec => []MbufsConserved
<1>1. Accounts => MbufsConserved
  BY DEF Accounts
<1>2. QED BY AccountsAlways, <1>1, PTL

\* No update of a counter is lost, and none is made twice: every packet taken
\* from the port is counted under exactly one outcome (dp_stats_record,
\* dp_stats_drop).
THEOREM CountCorrect == Spec => []EveryPacketCounted
<1>1. Accounts => EveryPacketCounted
  BY DEF Accounts
<1>2. QED BY AccountsAlways, <1>1, PTL

\* The final report has every packet any lcore ever took from the port (main.c).
THEOREM ReportCorrect == Spec => []FinalReportComplete
BY AccountsAlways, PTL
-----------------------------------------------------------------------------
\* Sequences: where the entries of a part, a whole or a reversal are.
LEMMA PartOf ==
  ASSUME NEW S, NEW s \in Seq(S), NEW n \in 0 .. Len(s)
  PROVE  /\ Prefix(s, n) \in Seq(S) /\ Len(Prefix(s, n)) = n
         /\ \A i \in 1 .. n : Prefix(s, n)[i] = s[i]
         /\ Rest(s, n) \in Seq(S) /\ Len(Rest(s, n)) = Len(s) - n
         /\ \A i \in 1 .. Len(s) - n : Rest(s, n)[i] = s[n + i]
<1>1. Len(s) \in Nat /\ \A i \in 1 .. Len(s) : s[i] \in S
  BY LenProperties
<1>2. /\ SubSeq(s, 1, n) \in Seq(S) /\ Len(SubSeq(s, 1, n)) = IF 1 <= n THEN n - 1 + 1 ELSE 0
      /\ \A i \in 1 .. n - 1 + 1 : SubSeq(s, 1, n)[i] = s[1 + i - 1]
  <2>1. \A i \in 1 .. n : s[i] \in S
    BY <1>1
  <2> QED BY <2>1, SubSeqProperties
<1>3. /\ SubSeq(s, n + 1, Len(s)) \in Seq(S)
      /\ Len(SubSeq(s, n + 1, Len(s))) =
           IF n + 1 <= Len(s) THEN Len(s) - (n + 1) + 1 ELSE 0
      /\ \A i \in 1 .. Len(s) - (n + 1) + 1 : SubSeq(s, n + 1, Len(s))[i] = s[(n + 1) + i - 1]
  <2>1. \A i \in n + 1 .. Len(s) : s[i] \in S
    BY <1>1
  <2>2. n + 1 \in Int /\ Len(s) \in Int
    BY <1>1
  <2> QED BY <2>1, <2>2, SubSeqProperties
<1>4. Len(s) - (n + 1) + 1 = Len(s) - n /\ n - 1 + 1 = n
  BY <1>1
<1>5. Len(SubSeq(s, 1, n)) = n /\ \A i \in 1 .. n : SubSeq(s, 1, n)[i] = s[i]
  BY <1>1, <1>2
<1>6. /\ Len(SubSeq(s, n + 1, Len(s))) = Len(s) - n
      /\ \A i \in 1 .. Len(s) - n : SubSeq(s, n + 1, Len(s))[i] = s[n + i]
  <2>1. Len(SubSeq(s, n + 1, Len(s))) = Len(s) - n
    BY <1>1, <1>3
  <2>2. ASSUME NEW i \in 1 .. Len(s) - n PROVE SubSeq(s, n + 1, Len(s))[i] = s[n + i]
    <3>1. (n + 1) + i - 1 = n + i
      BY <1>1
    <3> QED BY <1>3, <1>4, <3>1
  <2> QED BY <2>1, <2>2
<1> QED BY <1>2, <1>3, <1>5, <1>6 DEF Prefix, Rest

LEMMA WholePart ==
  ASSUME NEW S, NEW s \in Seq(S)
  PROVE  Prefix(s, Len(s)) = s /\ Prefix(s, 0) = <<>>
<1>1. ASSUME NEW n \in 0 .. Len(s), n = Len(s) PROVE Prefix(s, n) = s
  <2>1. Prefix(s, n) \in Seq(S) /\ Len(Prefix(s, n)) = n /\ \A i \in 1 .. n : Prefix(s, n)[i] = s[i]
    BY PartOf
  <2> QED BY <1>1, <2>1, SeqEqual
<1>2. ASSUME NEW n \in 0 .. Len(s), n = 0 PROVE Prefix(s, n) = <<>>
  <2>1. Prefix(s, n) \in Seq(S) /\ Len(Prefix(s, n)) = n
    BY PartOf
  <2> QED BY <1>2, <2>1, EmptySeq
<1>3. Len(s) \in 0 .. Len(s) /\ 0 \in 0 .. Len(s)
  BY LenProperties
<1> QED BY <1>1, <1>2, <1>3

\* A sequence as its entries: each once, and which ones.
LEMMA Entries ==
  ASSUME NEW S, NEW s \in Seq(S)
  PROVE  /\ Len(s) \in Nat /\ DOMAIN s = 1 .. Len(s)
         /\ \A o : o \in ToSet(s) <=> \E i \in 1 .. Len(s) : s[i] = o
         /\ ToSet(s) \subseteq S
         /\ IsInjective(s) <=> \A i, j \in 1 .. Len(s) : s[i] = s[j] => i = j
BY LenProperties DEF ToSet, IsInjective

LEMMA PartEntries ==
  ASSUME NEW S, NEW s \in Seq(S), NEW n \in 0 .. Len(s), IsInjective(s)
  PROVE  /\ IsInjective(Prefix(s, n)) /\ IsInjective(Rest(s, n))
         /\ ToSet(Prefix(s, n)) \cap ToSet(Rest(s, n)) = {}
         /\ ToSet(Prefix(s, n)) \cup ToSet(Rest(s, n)) = ToSet(s)
<1> DEFINE p == Prefix(s, n)
           r == Rest(s, n)
<1>1. /\ p \in Seq(S) /\ Len(p) = n /\ \A i \in 1 .. n : p[i] = s[i]
      /\ r \in Seq(S) /\ Len(r) = Len(s) - n /\ \A i \in 1 .. Len(s) - n : r[i] = s[n + i]
  BY PartOf
<1>2. Len(s) \in Nat /\ \A i, j \in 1 .. Len(s) : s[i] = s[j] => i = j
  BY Entries
<1> HIDE DEF p, r
<1>3. \A i \in 1 .. n : i \in 1 .. Len(s)
  BY <1>2
<1>4. \A i \in 1 .. Len(s) - n : n + i \in 1 .. Len(s)
  BY <1>2
<1>5. IsInjective(p)
  <2>1. \A i, j \in 1 .. Len(p) : p[i] = p[j] => i = j
    BY <1>1, <1>2, <1>3
  <2> QED BY <1>1, <2>1, Entries
<1>6. IsInjective(r)
  <2>1. ASSUME NEW i \in 1 .. Len(s) - n, NEW j \in 1 .. Len(s) - n, r[i] = r[j] PROVE i = j
    <3>1. r[i] = s[n + i] /\ r[j] = s[n + j]
      BY <1>1
    <3>2. n + i \in 1 .. Len(s) /\ n + j \in 1 .. Len(s)
      BY <1>4
    <3>3. n + i = n + j
      BY <1>2, <2>1, <3>1, <3>2
    <3> QED BY <1>2, <3>3
  <2> QED BY <1>1, <2>1, Entries
<1>7. ASSUME NEW o, o \in ToSet(p), o \in ToSet(r) PROVE FALSE
  <2>1. PICK i \in 1 .. n : p[i] = o
    BY <1>1, <1>7, Entries
  <2>2. PICK j \in 1 .. Len(s) - n : r[j] = o
    BY <1>1, <1>7, Entries
  <2>3. i = n + j
    BY <1>1, <1>2, <1>3, <1>4, <2>1, <2>2
  <2> QED BY <2>3
<1>8. ASSUME NEW o, o \in ToSet(p) \/ o \in ToSet(r) PROVE o \in ToSet(s)
  <2>1. CASE o \in ToSet(p)
    <3>1. PICK i \in 1 .. n : p[i] = o
      BY <1>1, <2>1, Entries
    <3> QED BY <1>1, <1>3, <3>1, Entries
  <2>2. CASE o \in ToSet(r)
    <3>1. PICK j \in 1 .. Len(s) - n : r[j] = o
      BY <1>1, <2>2, Entries
    <3> QED BY <1>1, <1>4, <3>1, Entries
  <2> QED BY <1>8, <2>1, <2>2
<1>9. ASSUME NEW o, o \in ToSet(s) PROVE o \in ToSet(p) \/ o \in ToSet(r)
  <2>1. PICK i \in 1 .. Len(s) : s[i] = o
    BY <1>9, Entries
  <2>2. CASE i <= n
    <3>1. i \in 1 .. n
      BY <1>2, <2>2
    <3> QED BY <1>1, <2>1, <3>1, Entries
  <2>3. CASE i > n
    <3>1. i - n \in 1 .. Len(s) - n /\ n + (i - n) = i
      BY <1>2, <2>3
    <3>2. r[i - n] = o
      BY <1>1, <2>1, <3>1
    <3> QED BY <1>1, <3>1, <3>2, Entries
  <2> QED BY <1>2, <2>2, <2>3
<1> QED BY <1>5, <1>6, <1>7, <1>8, <1>9 DEF p, r

LEMMA JoinEntries ==
  ASSUME NEW S, NEW s \in Seq(S), NEW r \in Seq(S)
  PROVE  /\ s \o r \in Seq(S) /\ Len(s \o r) = Len(s) + Len(r)
         /\ ToSet(s \o r) = ToSet(s) \cup ToSet(r)
         /\ IsInjective(s) /\ IsInjective(r) /\ ToSet(s) \cap ToSet(r) = {}
              => IsInjective(s \o r)
<1> DEFINE c == s \o r
<1>1. /\ c \in Seq(S) /\ Len(c) = Len(s) + Len(r)
      /\ \A i \in 1 .. Len(s) + Len(r) : c[i] = IF i <= Len(s) THEN s[i] ELSE r[i - Len(s)]
      /\ Len(s) \in Nat /\ Len(r) \in Nat
  BY ConcatProperties, LenProperties
<1> HIDE DEF c
<1>2. \A i \in 1 .. Len(s) : i \in 1 .. Len(c) /\ c[i] = s[i]
  BY <1>1
<1>3. \A i \in 1 .. Len(r) : Len(s) + i \in 1 .. Len(c) /\ c[Len(s) + i] = r[i]
  <2> TAKE i \in 1 .. Len(r)
  <2>1. Len(s) + i \in 1 .. Len(s) + Len(r) /\ ~(Len(s) + i <= Len(s)) /\ Len(s) + i - Len(s) = i
    BY <1>1
  <2> QED BY <1>1, <2>1
<1>4. \A i \in 1 .. Len(c) : \/ i \in 1 .. Len(s)
                             \/ i - Len(s) \in 1 .. Len(r) /\ c[i] = r[i - Len(s)]
  BY <1>1
<1>5. ToSet(c) = ToSet(s) \cup ToSet(r)
  <2>1. ASSUME NEW o, o \in ToSet(c) PROVE o \in ToSet(s) \cup ToSet(r)
    <3>1. PICK i \in 1 .. Len(c) : c[i] = o
      BY <1>1, <2>1, Entries
    <3>2. CASE i \in 1 .. Len(s)
      BY <1>2, <3>1, <3>2, Entries
    <3>3. CASE i - Len(s) \in 1 .. Len(r) /\ c[i] = r[i - Len(s)]
      BY <3>1, <3>3, Entries
    <3> QED BY <1>4, <3>2, <3>3
  <2>2. ASSUME NEW o, o \in ToSet(s) PROVE o \in ToSet(c)
    <3>1. PICK i \in 1 .. Len(s) : s[i] = o
      BY <2>2, Entries
    <3> QED BY <1>1, <1>2, <3>1, Entries
  <2>3. ASSUME NEW o, o \in ToSet(r) PROVE o \in ToSet(c)
    <3>1. PICK i \in 1 .. Len(r) : r[i] = o
      BY <2>3, Entries
    <3> QED BY <1>1, <1>3, <3>1, Entries
  <2> QED BY <2>1, <2>2, <2>3
<1>6. ASSUME IsInjective(s), IsInjective(r), ToSet(s) \cap ToSet(r) = {}
      PROVE  IsInjective(c)
  <2>1. \A i, j \in 1 .. Len(s) : s[i] = s[j] => i = j
    BY <1>6, Entries
  <2>2. \A i, j \in 1 .. Len(r) : r[i] = r[j] => i = j
    BY <1>6, Entries
  <2>3. \A i \in 1 .. Len(s), j \in 1 .. Len(r) : s[i] # r[j]
    BY <1>6, Entries
  <2>4. ASSUME NEW i \in 1 .. Len(c), NEW j \in 1 .. Len(c), c[i] = c[j] PROVE i = j
    <3>1. CASE i \in 1 .. Len(s) /\ j \in 1 .. Len(s)
      BY <1>2, <2>1, <2>4, <3>1
    <3>2. CASE i \in 1 .. Len(s) /\ j \notin 1 .. Len(s)
      BY <1>2, <1>4, <2>3, <2>4, <3>2
    <3>3. CASE i \notin 1 .. Len(s) /\ j \in 1 .. Len(s)
      BY <1>2, <1>4, <2>3, <2>4, <3>3
    <3>4. CASE i \notin 1 .. Len(s) /\ j \notin 1 .. Len(s)
      <4>1. i - Len(s) = j - Len(s)
        BY <1>4, <2>2, <2>4, <3>4
      <4> QED BY <1>1, <4>1
    <3> QED BY <3>1, <3>2, <3>3, <3>4
  <2> QED BY <1>1, <2>4, Entries
<1> QED BY <1>1, <1>5, <1>6 DEF c

LEMMA ReverseEntries ==
  ASSUME NEW S, NEW s \in Seq(S)
  PROVE  /\ Reverse(s) \in Seq(S) /\ Len(Reverse(s)) = Len(s)
         /\ ToSet(Reverse(s)) = ToSet(s)
         /\ IsInjective(s) => IsInjective(Reverse(s))
<1> DEFINE r == Reverse(s)
           n == Len(s)
<1>1. n \in Nat /\ \A i \in 1 .. n : s[i] \in S
  BY LenProperties
<1>2. \A i \in 1 .. n : (n - i) + 1 \in 1 .. n /\ (n - ((n - i) + 1)) + 1 = i
  BY <1>1
<1>3. r = [i \in 1 .. n |-> s[(n - i) + 1]]
  BY DEF Reverse
<1>4. r \in Seq(S)
  <2>1. r \in [1 .. n -> S]
    BY <1>1, <1>2, <1>3
  <2> QED BY <1>1, <2>1, SeqDef
<1>5. Len(r) = n /\ \A i \in 1 .. n : r[i] = s[(n - i) + 1]
  BY <1>1, <1>3
<1> HIDE DEF r, n
<1>6. ASSUME NEW o PROVE o \in ToSet(r) <=> o \in ToSet(s)
  <2>1. ASSUME o \in ToSet(r) PROVE o \in ToSet(s)
    <3>1. PICK i \in 1 .. n : r[i] = o
      BY <1>4, <1>5, <2>1, Entries
    <3> QED BY <1>2, <1>5, <3>1, Entries DEF n
  <2>2. ASSUME o \in ToSet(s) PROVE o \in ToSet(r)
    <3>1. PICK i \in 1 .. n : s[i] = o
      BY <2>2, Entries DEF n
    <3>2. r[(n - i) + 1] = s[i]
      BY <1>2, <1>5
    <3> QED BY <1>2, <1>4, <1>5, <3>1, <3>2, Entries
  <2> QED BY <2>1, <2>2
<1>7. ASSUME IsInjective(s) PROVE IsInjective(r)
  <2>1. \A i, j \in 1 .. n : s[i] = s[j] => i = j
    BY <1>7, Entries DEF n
  <2>2. ASSUME NEW i \in 1 .. n, NEW j \in 1 .. n, r[i] = r[j] PROVE i = j
    <3>1. s[(n - i) + 1] = s[(n - j) + 1]
      BY <1>5, <2>2
    <3>2. (n - i) + 1 = (n - j) + 1
      BY <1>2, <2>1, <3>1
    <3> QED BY <1>1, <3>2
  <2> QED BY <1>4, <1>5, <2>2, Entries
<1> QED BY <1>4, <1>5, <1>6, <1>7 DEF r, n

\* The entries of a sequence without repetition are as many as it is long.
LEMMA CountEntries ==
  ASSUME NEW S, NEW s \in Seq(S), IsInjective(s)
  PROVE  IsFiniteSet(ToSet(s)) /\ Cardinality(ToSet(s)) = Len(s)
<1>1. Len(s) \in Nat /\ s \in [1 .. Len(s) -> ToSet(s)] /\ DOMAIN s = 1 .. Len(s)
  BY LenProperties DEF ToSet
<1>2. s \in Bijection(1 .. Len(s), ToSet(s))
  BY <1>1 DEF Bijection, Injection, Surjection, IsInjective, ToSet
<1>3. ExistsBijection(1 .. Len(s), ToSet(s))
  BY <1>2 DEF ExistsBijection
<1>4. IsFiniteSet(1 .. Len(s)) /\ Cardinality(1 .. Len(s)) = Len(s)
  BY <1>1, FS_Interval
<1> QED BY <1>3, <1>4, FS_Bijection
-----------------------------------------------------------------------------
(***************************************************************************)
(* The mempool.  A thread's cache and table are one store, objs[t]: while  *)
(* a get is under way the table has the objects of the emptied cache once  *)
(* more, in reverse, and they are still in objs (Stocked).                 *)
(***************************************************************************)
Stocked(t) ==
  /\ Len(objs[t]) <= Flush
  /\ t \notin Cached => objs[t] = <<>>
  /\ \/ /\ pc[t] = "idle" /\ len[t] = Len(objs[t])
        /\ want[t] = 0 /\ table[t] = <<>>
     \/ /\ pc[t] \in {"fill", "direct"} /\ len[t] = 0
        /\ table[t] = Reverse(objs[t]) /\ Len(objs[t]) < want[t]
  /\ pc[t] = "fill" => t \in Cached /\ want[t] - Len(objs[t]) <= CacheMax

PoolTypes ==
  /\ backend \in Seq(Objects) /\ held \in SUBSET Objects
  /\ objs \in [Threads -> Seq(Objects)] /\ table \in [Threads -> Seq(Objects)]
  /\ len \in [Threads -> Nat]
  /\ pc \in [Threads -> {"idle", "fill", "direct"}] /\ want \in [Threads -> 0 .. MaxBatch]

\* No object is in two stores, or in one twice, and each is in one.
InOnePlace ==
  /\ IsInjective(backend) /\ \A t \in Threads : IsInjective(objs[t])
  /\ ToSet(backend) \cap held = {}
  /\ \A t \in Threads : ToSet(objs[t]) \cap (ToSet(backend) \cup held) = {}
  /\ \A t, u \in Threads : t # u => ToSet(objs[t]) \cap ToSet(objs[u]) = {}
  /\ \A o \in Objects : o \in ToSet(backend) \cup held \/ \E t \in Threads : o \in ToSet(objs[t])

PoolInv == PoolTypes /\ (\A t \in Threads : Stocked(t)) /\ InOnePlace

LEMMA FlushBounds == Flush \in Nat /\ Size \in Nat /\ Size <= Flush /\ Flush <= 2 * CacheMax
BY MempoolAssumption DEF Flush

\* rte_mempool_create leaves every object in the backend.
LEMMA PoolInit == MInit => PoolInv
<1> USE MempoolAssumption
<1> SUFFICES ASSUME MInit PROVE PoolInv
  OBVIOUS
<1> DEFINE n == Cardinality(Objects)
<1>1. n \in Nat
  BY FS_CardinalityType
<1>2. backend \in [1 .. n -> Objects] /\ ToSet(backend) = Objects
  BY DEF MInit
<1>3. backend \in Seq(Objects) /\ Len(backend) = n
  <2> HIDE DEF n
  <2>1. backend \in Seq(Objects)
    BY <1>1, <1>2, SeqDef
  <2> QED BY <1>1, <1>2, <2>1, LenProperties
<1>4. IsInjective(backend)
  <2>1. backend \in Surjection(1 .. n, Objects)
    BY <1>2 DEF Surjection, ToSet
  <2>2. IsFiniteSet(1 .. n) /\ Cardinality(1 .. n) = n
    BY <1>1, FS_Interval
  <2>3. backend \in Injection(1 .. n, Objects)
    BY <1>2, <2>1, <2>2, FS_SurjSameCardinalityImpliesInj DEF n
  <2> QED BY <1>2, <2>3 DEF Injection, IsInjective
<1>5. <<>> \in Seq(Objects) /\ Len(<<>>) = 0 /\ IsInjective(<<>>) /\ ToSet(<<>>) = {}
  BY EmptySeq DEF IsInjective, ToSet
<1>6. PoolTypes
  BY <1>3, <1>5 DEF MInit, PoolTypes
<1>7. \A t \in Threads : Stocked(t)
  BY <1>5, FlushBounds DEF MInit, Stocked
<1>8. InOnePlace
  BY <1>2, <1>4, <1>5 DEF MInit, InOnePlace
<1> QED BY <1>6, <1>7, <1>8 DEF PoolInv

\* What is known of one thread and its store.
LEMMA ThreadFacts ==
  ASSUME PoolInv, NEW t \in Threads
  PROVE  /\ objs[t] \in Seq(Objects) /\ Len(objs[t]) \in Nat /\ IsInjective(objs[t])
         /\ backend \in Seq(Objects) /\ Len(backend) \in Nat /\ IsInjective(backend)
         /\ held \in SUBSET Objects
         /\ len[t] \in Nat /\ want[t] \in 0 .. MaxBatch /\ MaxBatch \in Nat
         /\ table[t] \in Seq(Objects) /\ pc[t] \in {"idle", "fill", "direct"}
         /\ Stocked(t)
         /\ ToSet(backend) \cap held = {}
         /\ ToSet(objs[t]) \cap (ToSet(backend) \cup held) = {}
         /\ objs = [objs EXCEPT ![t] = objs[t]] /\ len = [len EXCEPT ![t] = len[t]]
         /\ pc = [pc EXCEPT ![t] = pc[t]] /\ want = [want EXCEPT ![t] = want[t]]
         /\ table = [table EXCEPT ![t] = table[t]]
<1>1. PoolTypes /\ Stocked(t) /\ InOnePlace
  BY DEF PoolInv
<1>2. objs[t] \in Seq(Objects) /\ backend \in Seq(Objects) /\ MaxBatch \in Nat
  BY <1>1, MempoolAssumption DEF PoolTypes
<1>3. Len(objs[t]) \in Nat /\ Len(backend) \in Nat
  BY <1>2, LenProperties
<1>4. /\ held \in SUBSET Objects /\ len[t] \in Nat /\ want[t] \in 0 .. MaxBatch
      /\ table[t] \in Seq(Objects) /\ pc[t] \in {"idle", "fill", "direct"}
  BY <1>1 DEF PoolTypes
<1>5. /\ IsInjective(objs[t]) /\ IsInjective(backend) /\ ToSet(backend) \cap held = {}
      /\ ToSet(objs[t]) \cap (ToSet(backend) \cup held) = {}
  BY <1>1 DEF InOnePlace
<1>6. /\ objs = [objs EXCEPT ![t] = objs[t]] /\ len = [len EXCEPT ![t] = len[t]]
      /\ pc = [pc EXCEPT ![t] = pc[t]] /\ want = [want EXCEPT ![t] = want[t]]
      /\ table = [table EXCEPT ![t] = table[t]]
  BY <1>1 DEF PoolTypes
<1> QED BY <1>1, <1>2, <1>3, <1>4, <1>5, <1>6

\* The stores a step can leave: the same objects, dealt out anew between the
\* backend, the store of the thread and the application.
Dealt(t, b, s, h) ==
  /\ IsInjective(b) /\ IsInjective(s)
  /\ ToSet(b) \cap h = {} /\ ToSet(s) \cap (ToSet(b) \cup h) = {}
  /\ ToSet(b) \cup ToSet(s) \cup h = ToSet(backend) \cup ToSet(objs[t]) \cup held

LEMMA DealKeeps ==
  ASSUME PoolInv, NEW t \in Threads, NEW b \in Seq(Objects), NEW s \in Seq(Objects), NEW h,
         Dealt(t, b, s, h), backend' = b, objs' = [objs EXCEPT ![t] = s], held' = h
  PROVE  InOnePlace'
<1>1. InOnePlace /\ objs \in [Threads -> Seq(Objects)]
  BY DEF PoolInv, PoolTypes
<1>2. objs'[t] = s /\ \A u \in Threads : u # t => objs'[u] = objs[u]
  BY <1>1
<1> DEFINE mine == ToSet(backend) \cup ToSet(objs[t]) \cup held
<1>3. \A u \in Threads : u # t => ToSet(objs[u]) \cap mine = {}
  BY <1>1 DEF InOnePlace
<1>4. ToSet(b) \cup ToSet(s) \cup h = mine
  BY DEF Dealt
<1>5. \A u \in Threads : IsInjective(objs'[u])
  BY <1>1, <1>2 DEF InOnePlace, Dealt
<1>6. \A u \in Threads : ToSet(objs'[u]) \cap (ToSet(b) \cup h) = {}
  <2> TAKE u \in Threads
  <2>1. CASE u = t
    BY <1>2, <2>1 DEF Dealt
  <2>2. CASE u # t
    <3> HIDE DEF mine
    <3> QED BY <1>2, <1>3, <1>4, <2>2
  <2> QED BY <2>1, <2>2
<1>7. \A u, v \in Threads : u # v => ToSet(objs'[u]) \cap ToSet(objs'[v]) = {}
  <2> SUFFICES ASSUME NEW u \in Threads, NEW v \in Threads, u # v
               PROVE  ToSet(objs'[u]) \cap ToSet(objs'[v]) = {}
    OBVIOUS
  <2>1. CASE u # t /\ v # t
    BY <1>1, <1>2, <2>1 DEF InOnePlace
  <2>2. CASE u = t
    <3> HIDE DEF mine
    <3> QED BY <1>2, <1>3, <1>4, <2>2
  <2>3. CASE v = t
    <3> HIDE DEF mine
    <3> QED BY <1>2, <1>3, <1>4, <2>3
  <2> QED BY <2>1, <2>2, <2>3
<1>8. ASSUME NEW o \in Objects
      PROVE  o \in ToSet(b) \cup h \/ \E u \in Threads : o \in ToSet(objs'[u])
  <2>1. CASE o \in mine
    <3> HIDE DEF mine
    <3> QED BY <1>2, <1>4, <2>1
  <2>2. CASE o \notin mine
    <3>1. PICK u \in Threads : o \in ToSet(objs[u])
      BY <1>1, <2>2 DEF InOnePlace
    <3>2. u # t
      BY <2>2, <3>1
    <3> QED BY <1>2, <3>1, <3>2
  <2> QED BY <2>1, <2>2
<1> QED BY <1>5, <1>6, <1>7, <1>8 DEF InOnePlace, Dealt

\* A step of one thread: its own store is stocked, the rest is dealt out right.
LEMMA ThreadStep ==
  ASSUME PoolInv, NEW t \in Threads, NEW b \in Seq(Objects), NEW s \in Seq(Objects),
         NEW h \in SUBSET Objects, NEW n \in Nat, NEW p \in {"idle", "fill", "direct"},
         NEW w \in 0 .. MaxBatch, NEW x \in Seq(Objects),
         backend' = b, objs' = [objs EXCEPT ![t] = s], held' = h,
         len' = [len EXCEPT ![t] = n], pc' = [pc EXCEPT ![t] = p],
         want' = [want EXCEPT ![t] = w], table' = [table EXCEPT ![t] = x],
         Dealt(t, b, s, h),
         Len(s) <= Flush, t \notin Cached => s = <<>>,
         \/ p = "idle" /\ n = Len(s) /\ w = 0 /\ x = <<>>
         \/ p # "idle" /\ n = 0 /\ x = Reverse(s) /\ Len(s) < w,
         p = "fill" => t \in Cached /\ w - Len(s) <= CacheMax
  PROVE  PoolInv'
<1>1. PoolTypes
  BY DEF PoolInv
<1>2. PoolTypes'
  BY <1>1 DEF PoolTypes
<1>3. /\ objs'[t] = s /\ len'[t] = n /\ pc'[t] = p /\ want'[t] = w /\ table'[t] = x
      /\ \A u \in Threads : u # t =>
           /\ objs'[u] = objs[u] /\ len'[u] = len[u] /\ pc'[u] = pc[u]
           /\ want'[u] = want[u] /\ table'[u] = table[u]
  BY <1>1 DEF PoolTypes
<1>4. Stocked(t)'
  BY <1>3 DEF Stocked
<1>5. \A u \in Threads : u # t => Stocked(u)'
  BY <1>3 DEF PoolInv, Stocked
<1>6. InOnePlace'
  BY DealKeeps
<1> QED BY <1>2, <1>4, <1>5, <1>6 DEF PoolInv

\* The two ways a step leaves its thread: done with its call, ...
LEMMA EndStep ==
  ASSUME PoolInv, NEW t \in Threads, NEW b \in Seq(Objects), NEW s \in Seq(Objects),
         NEW h \in SUBSET Objects,
         backend' = b, objs' = [objs EXCEPT ![t] = s], held' = h,
         len' = [len EXCEPT ![t] = Len(s)], pc' = [pc EXCEPT ![t] = "idle"],
         want' = [want EXCEPT ![t] = 0], table' = [table EXCEPT ![t] = <<>>],
         Dealt(t, b, s, h), Len(s) <= Flush, t \notin Cached => s = <<>>
  PROVE  PoolInv'
<1> DEFINE n == Len(s)
           p == "idle"
           w == 0
           x == <<>>
<1>1. n \in Nat /\ p \in {"idle", "fill", "direct"} /\ w \in 0 .. MaxBatch /\ x \in Seq(Objects)
  BY LenProperties, EmptySeq, MempoolAssumption
<1>2. /\ len' = [len EXCEPT ![t] = n] /\ pc' = [pc EXCEPT ![t] = p]
      /\ want' = [want EXCEPT ![t] = w] /\ table' = [table EXCEPT ![t] = x]
      /\ p = "idle" /\ n = Len(s) /\ w = 0 /\ x = <<>> /\ p # "fill"
  OBVIOUS
<1> HIDE DEF n, p, w, x
<1> QED BY <1>1, <1>2, ThreadStep

\* ... or at the backend for what its cache does not have.
LEMMA BusyStep ==
  ASSUME PoolInv, NEW t \in Threads, NEW p \in {"fill", "direct"}, NEW w \in 0 .. MaxBatch,
         UNCHANGED <<backend, objs, held>>,
         len' = [len EXCEPT ![t] = 0], pc' = [pc EXCEPT ![t] = p],
         want' = [want EXCEPT ![t] = w], table' = [table EXCEPT ![t] = Reverse(objs[t])],
         Len(objs[t]) < w, p = "fill" => t \in Cached /\ w - Len(objs[t]) <= CacheMax
  PROVE  PoolInv'
<1> DEFINE n == 0
           s == objs[t]
           x == Reverse(s)
<1>1. /\ s \in Seq(Objects) /\ backend \in Seq(Objects) /\ held \in SUBSET Objects
      /\ Stocked(t) /\ objs = [objs EXCEPT ![t] = s] /\ Dealt(t, backend, s, held)
  BY ThreadFacts DEF Dealt
<1>2. x \in Seq(Objects) /\ n \in Nat /\ n = 0 /\ p \in {"idle", "fill", "direct"} /\ p # "idle"
  BY <1>1, ReverseEntries
<1>3. Len(s) <= Flush /\ (t \notin Cached => s = <<>>)
  BY <1>1 DEF Stocked
<1>4. /\ backend' = backend /\ held' = held /\ objs' = [objs EXCEPT ![t] = s]
      /\ len' = [len EXCEPT ![t] = n] /\ table' = [table EXCEPT ![t] = x] /\ x = Reverse(s)
      /\ Len(s) < w /\ (p = "fill" => t \in Cached /\ w - Len(s) <= CacheMax)
  BY <1>1
<1> HIDE DEF n, s, x
<1> QED BY <1>1, <1>2, <1>3, <1>4, ThreadStep

LEMMA NoEntries ==
  <<>> \in Seq(Objects) /\ Len(<<>>) = 0 /\ IsInjective(<<>>) /\ ToSet(<<>>) = {}
BY EmptySeq DEF IsInjective, ToSet

\* A get that ends: what the application has more are want[t] objects.
Gets(t) == Cardinality(held' \ held) = want[t] /\ held' # held

LEMMA GetsCount ==
  ASSUME NEW t \in Threads, NEW x \in Seq(Objects), IsInjective(x), Len(x) = want[t],
         Len(x) > 0, ToSet(x) \cap held = {}, held' = held \cup ToSet(x)
  PROVE  Gets(t)
<1>1. held' \ held = ToSet(x)
  OBVIOUS
<1>2. Cardinality(ToSet(x)) = Len(x)
  BY CountEntries
<1>3. ToSet(x) # {}
  BY Entries
<1> QED BY <1>1, <1>2, <1>3 DEF Gets

\* rte_mempool_do_generic_get on the cache alone.
LEMMA GetStep ==
  ASSUME PoolInv, NEW t \in Threads, NEW n \in 1 .. MaxBatch, Get(t, n)
  PROVE  PoolInv'
<1> DEFINE s == objs[t]
           left == len[t] - Least(n, len[t])
           rest == Rest(s, left)
           taken == Reverse(rest)
<1>1. /\ s \in Seq(Objects) /\ Len(s) \in Nat /\ IsInjective(s)
      /\ backend \in Seq(Objects) /\ IsInjective(backend) /\ held \in SUBSET Objects
      /\ MaxBatch \in Nat /\ Stocked(t)
      /\ ToSet(backend) \cap held = {} /\ ToSet(s) \cap (ToSet(backend) \cup held) = {}
      /\ objs = [objs EXCEPT ![t] = s]
  BY ThreadFacts
<1>2. pc[t] = "idle" /\ len[t] = Len(s) /\ Len(s) <= Flush /\ (t \notin Cached => s = <<>>)
  BY <1>1 DEF Get, Stocked
<1>3. left \in 0 .. Len(s) /\ Len(s) - left = Least(n, Len(s)) /\ Least(n, Len(s)) \in Nat
  BY <1>1, <1>2 DEF Least
<1>4. backend' = backend
  BY DEF Get
<1> HIDE DEF left
<1>5. /\ Prefix(s, left) \in Seq(Objects) /\ Len(Prefix(s, left)) = left
      /\ rest \in Seq(Objects) /\ Len(rest) = Len(s) - left
      /\ \A i \in 1 .. Len(s) - left : rest[i] = s[left + i]
  BY <1>1, <1>3, PartOf
<1>6. /\ IsInjective(Prefix(s, left)) /\ IsInjective(rest)
      /\ ToSet(Prefix(s, left)) \cap ToSet(rest) = {}
      /\ ToSet(Prefix(s, left)) \cup ToSet(rest) = ToSet(s)
  BY <1>1, <1>3, PartEntries
<1> HIDE DEF rest
<1>7. /\ taken \in Seq(Objects) /\ Len(taken) = Len(s) - left /\ ToSet(taken) = ToSet(rest)
  BY <1>5, ReverseEntries
<1> HIDE DEF taken
<1>8. ToSet(taken) \subseteq Objects
  BY <1>7, Entries
<1>9. CASE Len(taken) = n
  <2> DEFINE p == Prefix(s, left)
             h == held \cup ToSet(taken)
  <2>1. SetCache(t, p) /\ Return(t, taken)
    BY <1>9 DEF Get, left, rest, taken
  <2>2. Dealt(t, backend, p, h)
    BY <1>1, <1>6, <1>7 DEF Dealt
  <2>3. p \in Seq(Objects) /\ h \in SUBSET Objects /\ Len(p) \in Nat
    BY <1>1, <1>3, <1>5, <1>8
  <2>4. Len(p) <= Flush /\ (t \notin Cached => p = <<>>)
    <3>1. Len(p) <= Len(s) /\ Len(p) \in Nat
      BY <1>1, <1>3, <1>5
    <3>2. Len(p) <= Flush
      BY <1>1, <1>2, <3>1, FlushBounds
    <3>3. t \notin Cached => Len(p) = 0
      BY <1>2, <3>1, NoEntries
    <3> QED BY <2>3, <3>2, <3>3, EmptySeq
  <2>5. /\ objs' = [objs EXCEPT ![t] = p] /\ len' = [len EXCEPT ![t] = Len(p)]
        /\ held' = h /\ pc' = [pc EXCEPT ![t] = "idle"] /\ want' = [want EXCEPT ![t] = 0]
        /\ table' = [table EXCEPT ![t] = <<>>]
    BY <2>1 DEF SetCache, Return
  <2> HIDE DEF p, h
  <2> QED BY <1>1, <1>4, <2>2, <2>3, <2>4, <2>5, EndStep
<1>10. CASE Len(taken) # n
  <2>1. left = 0 /\ Len(s) < n
    <3>1. Len(s) - left = n \/ (left = 0 /\ Len(s) < n)
      BY <1>1, <1>2, <1>3 DEF Least, left
    <3> QED BY <1>7, <1>10, <3>1
  <2>2. rest = s
    <3>1. Len(rest) = Len(s) /\ \A i \in 1 .. Len(s) : rest[i] = s[i]
      BY <1>1, <1>5, <2>1
    <3> QED BY <1>1, <1>5, <3>1, SeqEqual
  <2>3. taken = Reverse(s) /\ Len(taken) = Len(s)
    BY <1>1, <1>7, <2>1, <2>2 DEF taken
  <2>4. /\ len' = [len EXCEPT ![t] = left] /\ Continue(t, n, taken) /\ objs' = objs /\ held' = held
    BY <1>10 DEF Get, left, rest, taken
  <2> DEFINE p == IF t \in Cached /\ n - Len(taken) <= CacheMax THEN "fill" ELSE "direct"
  <2>5. /\ pc' = [pc EXCEPT ![t] = p]
        /\ want' = [want EXCEPT ![t] = n] /\ table' = [table EXCEPT ![t] = taken]
    BY <2>4 DEF Continue
  <2>6. /\ p \in {"fill", "direct"} /\ n \in 0 .. MaxBatch
        /\ (p = "fill" => t \in Cached /\ n - Len(s) <= CacheMax)
    BY <1>1, <2>3
  <2> HIDE DEF p
  <2> QED BY <1>4, <2>1, <2>3, <2>4, <2>5, <2>6, BusyStep
<1> QED BY <1>9, <1>10

\* The refill: the first size objects go to the cache, the rest to the caller.
LEMMA FillStep ==
  ASSUME PoolInv, NEW t \in Threads, Fill(t)
  PROVE  PoolInv' /\ (pc'[t] = "idle" => Gets(t))
<1> DEFINE s == objs[t]
           all == Size + Remaining(t)
           fetched == Prefix(backend, all)
           more == Rest(fetched, Size)
           given == table[t] \o Reverse(more)
<1>1. /\ s \in Seq(Objects) /\ Len(s) \in Nat /\ IsInjective(s)
      /\ backend \in Seq(Objects) /\ Len(backend) \in Nat /\ IsInjective(backend)
      /\ held \in SUBSET Objects
      /\ want[t] \in 0 .. MaxBatch /\ MaxBatch \in Nat /\ Stocked(t)
      /\ ToSet(backend) \cap held = {} /\ ToSet(s) \cap (ToSet(backend) \cup held) = {}
      /\ table[t] \in Seq(Objects)
  BY ThreadFacts
<1>2. /\ pc[t] = "fill" /\ t \in Cached /\ len[t] = 0 /\ table[t] = Reverse(s)
      /\ Len(s) < want[t] /\ Len(s) <= Flush /\ want[t] - Len(s) <= CacheMax
  BY <1>1 DEF Fill, Stocked
<1>3. Len(table[t]) = Len(s) /\ ToSet(table[t]) = ToSet(s) /\ IsInjective(table[t])
  BY <1>1, <1>2, ReverseEntries
<1>4. all \in Nat /\ all = Size + (want[t] - Len(s)) /\ Size <= all /\ Size \in Nat
  BY <1>1, <1>2, <1>3, FlushBounds DEF Remaining
<1> HIDE DEF all
<1>5. CASE all <= Len(backend)
  <2>1. /\ backend' = Rest(backend, all) /\ SetCache(t, Prefix(fetched, Size))
        /\ Return(t, given)
    BY <1>5 DEF Fill, all
  <2>2. /\ fetched \in Seq(Objects) /\ Len(fetched) = all
        /\ Rest(backend, all) \in Seq(Objects)
    BY <1>1, <1>4, <1>5, PartOf
  <2>3. /\ IsInjective(fetched) /\ IsInjective(Rest(backend, all))
        /\ ToSet(fetched) \cap ToSet(Rest(backend, all)) = {}
        /\ ToSet(fetched) \cup ToSet(Rest(backend, all)) = ToSet(backend)
    BY <1>1, <1>4, <1>5, PartEntries
  <2> DEFINE b == Rest(backend, all)
             p == Prefix(fetched, Size)
  <2> HIDE DEF fetched, b
  <2>4. /\ p \in Seq(Objects) /\ Len(p) = Size
        /\ more \in Seq(Objects) /\ Len(more) = all - Size
    <3>1. Size \in 0 .. Len(fetched)
      BY <1>4, <2>2
    <3> QED BY <2>2, <3>1, PartOf
  <2>5. /\ IsInjective(p) /\ IsInjective(more) /\ ToSet(p) \cap ToSet(more) = {}
        /\ ToSet(p) \cup ToSet(more) = ToSet(fetched)
    <3>1. Size \in 0 .. Len(fetched)
      BY <1>4, <2>2
    <3> QED BY <2>2, <2>3, <3>1, PartEntries
  <2> HIDE DEF p, more
  <2>6. /\ Reverse(more) \in Seq(Objects) /\ Len(Reverse(more)) = all - Size
        /\ ToSet(Reverse(more)) = ToSet(more) /\ IsInjective(Reverse(more))
    BY <2>4, <2>5, ReverseEntries
  <2>7. ToSet(table[t]) \cap ToSet(Reverse(more)) = {}
    BY <1>1, <1>3, <2>3, <2>5, <2>6 DEF b
  <2>8. /\ given \in Seq(Objects) /\ Len(given) = Len(table[t]) + (all - Size)
        /\ ToSet(given) = ToSet(s) \cup ToSet(more) /\ IsInjective(given)
    <3> DEFINE a == table[t]
               r == Reverse(more)
    <3>1. /\ a \in Seq(Objects) /\ IsInjective(a) /\ Len(a) = Len(s) /\ ToSet(a) = ToSet(s)
          /\ r \in Seq(Objects) /\ IsInjective(r) /\ Len(r) = all - Size
          /\ ToSet(r) = ToSet(more) /\ ToSet(a) \cap ToSet(r) = {}
      BY <1>1, <1>3, <2>6, <2>7
    <3> HIDE DEF a, r
    <3>2. /\ a \o r \in Seq(Objects) /\ Len(a \o r) = Len(a) + Len(r)
          /\ ToSet(a \o r) = ToSet(a) \cup ToSet(r)
      BY <3>1, JoinEntries
    <3>3. IsInjective(a \o r)
      BY <3>1, JoinEntries
    <3> QED BY <3>1, <3>2, <3>3 DEF a, r
  <2> HIDE DEF given
  <2>9. ToSet(given) \subseteq Objects /\ Len(given) = want[t] /\ want[t] > 0
    <3>1. ToSet(given) \subseteq Objects
      BY <2>8, Entries
    <3>2. Len(given) = Len(s) + (want[t] - Len(s))
      BY <1>1, <1>3, <1>4, <2>8
    <3> QED BY <1>1, <1>2, <3>1, <3>2
  <2> DEFINE h == held \cup ToSet(given)
  <2>10. Dealt(t, b, p, h)
    <3>1. IsInjective(b) /\ IsInjective(p)
      BY <2>3, <2>5 DEF b
    <3>2. ToSet(b) \cap ToSet(fetched) = {} /\ ToSet(b) \subseteq ToSet(backend)
          /\ ToSet(fetched) \subseteq ToSet(backend)
          /\ ToSet(b) \cup ToSet(fetched) = ToSet(backend)
      BY <2>3 DEF b
    <3>3. ToSet(b) \cap h = {} /\ ToSet(p) \cap (ToSet(b) \cup h) = {}
      BY <1>1, <2>5, <2>8, <3>2
    <3>4. ToSet(b) \cup ToSet(p) \cup h = ToSet(backend) \cup ToSet(s) \cup held
      BY <2>5, <2>8, <3>2
    <3> QED BY <3>1, <3>3, <3>4 DEF Dealt
  <2>11. /\ backend' = b /\ held' = h
         /\ objs' = [objs EXCEPT ![t] = p] /\ len' = [len EXCEPT ![t] = Len(p)]
         /\ pc' = [pc EXCEPT ![t] = "idle"] /\ want' = [want EXCEPT ![t] = 0]
         /\ table' = [table EXCEPT ![t] = <<>>]
    BY <2>1 DEF SetCache, Return, b, p
  <2>12. Len(p) \in Nat /\ Len(p) <= Flush
    BY <1>4, <2>4, FlushBounds
  <2>13. b \in Seq(Objects) /\ h \in SUBSET Objects
    BY <1>1, <2>2, <2>9 DEF b
  <2>14. PoolInv'
    <3> HIDE DEF h
    <3> QED BY <1>2, <2>4, <2>10, <2>11, <2>12, <2>13, EndStep
  <2>15. Gets(t)
    <3>1. ToSet(given) \cap held = {}
      BY <1>1, <2>3, <2>5, <2>8
    <3> QED BY <2>8, <2>9, <2>11, <3>1, GetsCount
  <2> QED BY <2>14, <2>15
<1>6. CASE all > Len(backend)
  <2>1. /\ pc' = [pc EXCEPT ![t] = "direct"]
        /\ UNCHANGED <<backend, objs, len, want, table, held>>
    BY <1>1, <1>4, <1>6 DEF Fill, all
  <2>2. pc'[t] = "direct"
    BY <2>1 DEF PoolInv, PoolTypes
  <2>3. /\ len' = [len EXCEPT ![t] = 0] /\ want' = [want EXCEPT ![t] = want[t]]
        /\ table' = [table EXCEPT ![t] = Reverse(s)]
    BY <1>2, <2>1, ThreadFacts
  <2>4. PoolInv'
    BY <1>1, <1>2, <2>1, <2>3, BusyStep
  <2> QED BY <2>2, <2>4
<1> QED BY <1>1, <1>4, <1>5, <1>6

\* driver_dequeue for the rest of a request: all of it, or the cache as it was.
LEMMA DirectStep ==
  ASSUME PoolInv, NEW t \in Threads, Direct(t)
  PROVE  /\ PoolInv'
         /\ \/ Gets(t)
            \/ /\ held' = held /\ Len(backend) + Len(objs[t]) < want[t]
               /\ objs'[t] = objs[t] /\ len'[t] = Len(objs[t])
<1> DEFINE s == objs[t]
           n == Remaining(t)
           fetched == Prefix(backend, n)
           b == Rest(backend, n)
           given == table[t] \o fetched
<1>1. /\ s \in Seq(Objects) /\ Len(s) \in Nat /\ IsInjective(s)
      /\ backend \in Seq(Objects) /\ Len(backend) \in Nat /\ IsInjective(backend)
      /\ held \in SUBSET Objects
      /\ want[t] \in 0 .. MaxBatch /\ MaxBatch \in Nat /\ Stocked(t)
      /\ ToSet(backend) \cap held = {} /\ ToSet(s) \cap (ToSet(backend) \cup held) = {}
      /\ table[t] \in Seq(Objects)
  BY ThreadFacts
<1>2. /\ pc[t] = "direct" /\ len[t] = 0 /\ table[t] = Reverse(s)
      /\ Len(s) < want[t] /\ Len(s) <= Flush /\ (t \notin Cached => s = <<>>)
  BY <1>1 DEF Direct, Stocked
<1>3. Len(table[t]) = Len(s) /\ ToSet(table[t]) = ToSet(s) /\ IsInjective(table[t])
  BY <1>1, <1>2, ReverseEntries
<1>4. n \in Nat /\ n = want[t] - Len(s) /\ want[t] - n = Len(s)
  BY <1>1, <1>2, <1>3 DEF Remaining
<1> HIDE DEF n
<1>5. CASE n <= Len(backend)
  <2>1. backend' = b /\ SetCache(t, Prefix(s, len[t])) /\ Return(t, given)
    BY <1>5 DEF Direct, n
  <2>2. Prefix(s, len[t]) = <<>>
    BY <1>1, <1>2, WholePart
  <2>3. /\ fetched \in Seq(Objects) /\ Len(fetched) = n /\ b \in Seq(Objects)
    BY <1>1, <1>4, <1>5, PartOf
  <2>4. /\ IsInjective(fetched) /\ IsInjective(b) /\ ToSet(fetched) \cap ToSet(b) = {}
        /\ ToSet(fetched) \cup ToSet(b) = ToSet(backend)
    BY <1>1, <1>4, <1>5, PartEntries
  <2> HIDE DEF fetched, b
  <2>5. /\ given \in Seq(Objects) /\ Len(given) = want[t]
        /\ ToSet(given) = ToSet(s) \cup ToSet(fetched) /\ IsInjective(given)
    <3> DEFINE a == table[t]
    <3>1. /\ a \in Seq(Objects) /\ IsInjective(a) /\ ToSet(a) \cap ToSet(fetched) = {}
          /\ Len(a) = Len(s) /\ ToSet(a) = ToSet(s)
      BY <1>1, <1>3, <2>4
    <3> HIDE DEF a
    <3>2. /\ a \o fetched \in Seq(Objects) /\ Len(a \o fetched) = Len(a) + Len(fetched)
          /\ ToSet(a \o fetched) = ToSet(a) \cup ToSet(fetched)
      BY <2>3, <3>1, JoinEntries
    <3>3. IsInjective(a \o fetched)
      BY <2>3, <2>4, <3>1, JoinEntries
    <3>4. Len(a) + Len(fetched) = want[t]
      BY <1>1, <1>4, <2>3, <3>1
    <3> QED BY <3>1, <3>2, <3>3, <3>4 DEF a
  <2> HIDE DEF given
  <2> DEFINE h == held \cup ToSet(given)
             z == <<>>
  <2>6. ToSet(given) \subseteq Objects /\ want[t] > 0
    BY <1>1, <1>2, <2>5, Entries
  <2>7. Dealt(t, b, z, h)
    BY <1>1, <2>4, <2>5, NoEntries DEF Dealt
  <2>8. /\ held' = h /\ objs' = [objs EXCEPT ![t] = z] /\ len' = [len EXCEPT ![t] = Len(z)]
        /\ pc' = [pc EXCEPT ![t] = "idle"] /\ want' = [want EXCEPT ![t] = 0]
        /\ table' = [table EXCEPT ![t] = <<>>]
    BY <2>1, <2>2 DEF SetCache, Return
  <2>9. h \in SUBSET Objects /\ z \in Seq(Objects) /\ Len(z) <= Flush /\ z = <<>>
    BY <1>1, <2>6, NoEntries, FlushBounds
  <2>10. PoolInv'
    <3> HIDE DEF h, z
    <3> QED BY <2>1, <2>3, <2>7, <2>8, <2>9, EndStep
  <2>11. Gets(t)
    <3>1. ToSet(given) \cap held = {}
      BY <1>1, <2>4, <2>5
    <3> QED BY <2>5, <2>6, <2>8, <3>1, GetsCount
  <2> QED BY <2>10, <2>11
<1>6. CASE n > Len(backend)
  <2>1. backend' = backend /\ SetCache(t, Prefix(s, Len(s))) /\ Return(t, <<>>)
    <3>1. backend' = backend /\ SetCache(t, Prefix(s, want[t] - n)) /\ Return(t, <<>>)
      BY <1>1, <1>4, <1>6 DEF Direct, n
    <3> QED BY <1>4, <3>1
  <2>2. Prefix(s, Len(s)) = s
    BY <1>1, WholePart
  <2>3. /\ held' = held /\ objs' = [objs EXCEPT ![t] = s] /\ len' = [len EXCEPT ![t] = Len(s)]
        /\ pc' = [pc EXCEPT ![t] = "idle"] /\ want' = [want EXCEPT ![t] = 0]
        /\ table' = [table EXCEPT ![t] = <<>>]
    BY <2>1, <2>2, NoEntries DEF SetCache, Return
  <2>4. Dealt(t, backend, s, held)
    BY <1>1 DEF Dealt
  <2>5. PoolInv'
    BY <1>1, <1>2, <2>1, <2>3, <2>4, EndStep
  <2>6. objs'[t] = s /\ len'[t] = Len(s)
    BY <2>3 DEF PoolInv, PoolTypes
  <2>7. Len(backend) + Len(s) < want[t]
    BY <1>1, <1>4, <1>6
  <2> QED BY <2>3, <2>5, <2>6, <2>7
<1> QED BY <1>1, <1>4, <1>5, <1>6

\* rte_mempool_do_generic_put, into the cache, after a flush of it or past it.
LEMMA PutStep ==
  ASSUME PoolInv, NEW t \in Threads, NEW s \in Tables, Put(t, s)
  PROVE  PoolInv'
<1> DEFINE own == objs[t]
           h == held \ ToSet(s)
<1>1. /\ own \in Seq(Objects) /\ Len(own) \in Nat /\ IsInjective(own)
      /\ backend \in Seq(Objects) /\ IsInjective(backend) /\ held \in SUBSET Objects
      /\ Stocked(t) /\ ToSet(backend) \cap held = {}
      /\ ToSet(own) \cap (ToSet(backend) \cup held) = {}
      /\ objs = [objs EXCEPT ![t] = own] /\ len = [len EXCEPT ![t] = len[t]]
      /\ pc = [pc EXCEPT ![t] = pc[t]] /\ want = [want EXCEPT ![t] = want[t]]
      /\ table = [table EXCEPT ![t] = table[t]]
  BY ThreadFacts
<1>2. /\ pc[t] = "idle" /\ len[t] = Len(own) /\ want[t] = 0 /\ table[t] = <<>>
      /\ Len(own) <= Flush /\ (t \notin Cached => own = <<>>)
  BY <1>1 DEF Put, Stocked
<1>3. /\ held' = h /\ pc' = [pc EXCEPT ![t] = "idle"] /\ want' = [want EXCEPT ![t] = 0]
      /\ table' = [table EXCEPT ![t] = <<>>]
  BY <1>1, <1>2 DEF Put, call
<1>4. s \in Seq(Objects) /\ Len(s) \in Nat /\ ToSet(s) \subseteq held /\ IsInjective(s)
  <2>1. PICK k \in 1 .. MaxBatch : s \in [1 .. k -> held] /\ IsInjective(s)
    BY DEF Tables
  <2>2. k \in Nat
    BY MempoolAssumption
  <2>3. s \in Seq(held) /\ s \in Seq(Objects)
    BY <1>1, <2>1, <2>2, SeqDef
  <2> QED BY <2>1, <2>3, Entries
<1>5. h \in SUBSET Objects
  BY <1>1
<1>6. CASE t \in Cached /\ len[t] + Len(s) <= Flush
  <2> DEFINE c == own \o s
  <2>1. /\ backend' = backend /\ objs' = [objs EXCEPT ![t] = c]
        /\ len' = [len EXCEPT ![t] = Len(c)]
    BY <1>6 DEF Put, SetCache
  <2>2. c \in Seq(Objects) /\ Len(c) = Len(own) + Len(s) /\ ToSet(c) = ToSet(own) \cup ToSet(s)
    BY <1>1, <1>4, JoinEntries
  <2>3. IsInjective(c)
    <3>1. ToSet(own) \cap ToSet(s) = {}
      BY <1>1, <1>4
    <3> QED BY <1>1, <1>4, <3>1, JoinEntries
  <2> HIDE DEF c
  <2>4. Dealt(t, backend, c, h)
    BY <1>1, <1>4, <2>2, <2>3 DEF Dealt
  <2> HIDE DEF h
  <2>5. Len(c) <= Flush
    BY <1>2, <1>6, <2>2
  <2> QED BY <1>1, <1>3, <1>5, <1>6, <2>1, <2>2, <2>4, <2>5, EndStep
<1>7. CASE ~(t \in Cached /\ len[t] + Len(s) <= Flush) /\ t \in Cached /\ Len(s) <= Flush
  <2> DEFINE c == backend \o own
  <2>1. /\ backend' = c /\ objs' = [objs EXCEPT ![t] = s] /\ len' = [len EXCEPT ![t] = Len(s)]
    BY <1>7 DEF Put, SetCache
  <2>2. c \in Seq(Objects) /\ ToSet(c) = ToSet(backend) \cup ToSet(own)
    BY <1>1, JoinEntries
  <2>3. IsInjective(c)
    <3>1. ToSet(backend) \cap ToSet(own) = {}
      BY <1>1
    <3> QED BY <1>1, <3>1, JoinEntries
  <2> HIDE DEF c
  <2>4. Dealt(t, c, s, h)
    BY <1>1, <1>4, <2>2, <2>3 DEF Dealt
  <2> HIDE DEF h
  <2> QED BY <1>3, <1>4, <1>5, <1>7, <2>1, <2>2, <2>4, EndStep
<1>8. CASE /\ ~(t \in Cached /\ len[t] + Len(s) <= Flush)
           /\ ~(t \in Cached /\ Len(s) <= Flush)
  <2> DEFINE c == backend \o s
  <2>1. /\ backend' = c /\ objs' = objs /\ len' = len
    BY <1>8 DEF Put
  <2>2. c \in Seq(Objects) /\ ToSet(c) = ToSet(backend) \cup ToSet(s)
    BY <1>1, <1>4, JoinEntries
  <2>3. IsInjective(c)
    <3>1. ToSet(backend) \cap ToSet(s) = {}
      BY <1>1, <1>4
    <3> QED BY <1>1, <1>4, <3>1, JoinEntries
  <2> HIDE DEF c
  <2>4. Dealt(t, c, own, h)
    BY <1>1, <1>4, <2>2, <2>3 DEF Dealt
  <2>5. objs' = [objs EXCEPT ![t] = own] /\ len' = [len EXCEPT ![t] = Len(own)]
    BY <1>1, <1>2, <2>1
  <2> HIDE DEF h
  <2> QED BY <1>1, <1>2, <1>3, <1>5, <2>1, <2>2, <2>4, <2>5, EndStep
<1> QED BY <1>6, <1>7, <1>8

\* rte_mempool_cache_flush.
LEMMA CacheFlushStep ==
  ASSUME PoolInv, NEW t \in Threads, CacheFlush(t)
  PROVE  PoolInv'
<1> DEFINE own == objs[t]
           c == backend \o own
           z == <<>>
<1>1. /\ own \in Seq(Objects) /\ IsInjective(own)
      /\ backend \in Seq(Objects) /\ IsInjective(backend) /\ held \in SUBSET Objects
      /\ Stocked(t) /\ ToSet(backend) \cap held = {}
      /\ ToSet(own) \cap (ToSet(backend) \cup held) = {}
      /\ pc = [pc EXCEPT ![t] = pc[t]] /\ want = [want EXCEPT ![t] = want[t]]
      /\ table = [table EXCEPT ![t] = table[t]]
  BY ThreadFacts
<1>2. /\ pc[t] = "idle" /\ want[t] = 0 /\ table[t] = <<>>
      /\ backend' = c /\ objs' = [objs EXCEPT ![t] = z] /\ len' = [len EXCEPT ![t] = Len(z)]
      /\ held' = held /\ UNCHANGED <<pc, want, table>>
  BY <1>1 DEF CacheFlush, Stocked, SetCache, call
<1>3. /\ pc' = [pc EXCEPT ![t] = "idle"] /\ want' = [want EXCEPT ![t] = 0]
      /\ table' = [table EXCEPT ![t] = <<>>]
  BY <1>1, <1>2
<1>4. c \in Seq(Objects) /\ ToSet(c) = ToSet(backend) \cup ToSet(own)
  BY <1>1, JoinEntries
<1>5. IsInjective(c)
  <2>1. ToSet(backend) \cap ToSet(own) = {}
    BY <1>1
  <2> QED BY <1>1, <2>1, JoinEntries
<1> HIDE DEF c
<1>6. Dealt(t, c, z, held)
  BY <1>1, <1>4, <1>5, NoEntries DEF Dealt
<1>7. z \in Seq(Objects) /\ Len(z) <= Flush /\ z = <<>>
  BY NoEntries, FlushBounds
<1> HIDE DEF z
<1> QED BY <1>1, <1>2, <1>3, <1>4, <1>6, <1>7, EndStep

LEMMA PoolStep == PoolInv /\ [MNext]_mvars => PoolInv'
<1> SUFFICES ASSUME PoolInv, [MNext]_mvars PROVE PoolInv'
  OBVIOUS
<1>1. ASSUME NEW t \in Threads, NEW n \in 1 .. MaxBatch, Get(t, n) PROVE PoolInv'
  BY <1>1, GetStep
<1>2. ASSUME NEW t \in Threads, Fill(t) PROVE PoolInv'
  BY <1>2, FillStep
<1>3. ASSUME NEW t \in Threads, Direct(t) PROVE PoolInv'
  BY <1>3, DirectStep
<1>4. ASSUME NEW t \in Threads, NEW s \in Tables, Put(t, s) PROVE PoolInv'
  BY <1>4, PutStep
<1>5. ASSUME NEW t \in Threads, CacheFlush(t) PROVE PoolInv'
  BY <1>5, CacheFlushStep
<1>6. CASE UNCHANGED mvars
  BY <1>6 DEF mvars, PoolInv, PoolTypes, Stocked, InOnePlace
<1> QED BY <1>1, <1>2, <1>3, <1>4, <1>5, <1>6 DEF MNext

LEMMA PoolInvariant == MSpec => []PoolInv
BY PoolInit, PoolStep, PTL DEF MSpec

LEMMA PoolTypesAll == PoolInv => MTypeOK
<1> SUFFICES ASSUME PoolInv PROVE MTypeOK
  OBVIOUS
<1>1. PoolTypes
  BY DEF PoolInv
<1>2. \A t \in Threads : len[t] \in 0 .. Flush
  <2> TAKE t \in Threads
  <2>1. Stocked(t) /\ Len(objs[t]) \in Nat
    BY ThreadFacts
  <2> QED BY <2>1, FlushBounds DEF Stocked
<1> QED BY <1>1, <1>2 DEF PoolTypes, MTypeOK

LEMMA PoolFits == PoolInv => CacheWithinArray
<1> SUFFICES ASSUME PoolInv, NEW t \in Cached
             PROVE  /\ len[t] <= Flush /\ Len(objs[t]) <= 2 * CacheMax
                    /\ pc[t] = "fill" => Size + Remaining(t) <= 2 * CacheMax
  BY DEF CacheWithinArray
<1>1. t \in Threads
  BY DEF Threads
<1>2. /\ Stocked(t) /\ objs[t] \in Seq(Objects) /\ Len(objs[t]) \in Nat
      /\ want[t] \in 0 .. MaxBatch /\ MaxBatch \in Nat
  BY <1>1, ThreadFacts
<1>3. Size <= CacheMax /\ CacheMax \in Nat
  BY MempoolAssumption
<1>4. len[t] <= Flush /\ Len(objs[t]) <= 2 * CacheMax
  BY <1>2, <1>3, FlushBounds DEF Stocked
<1>5. ASSUME pc[t] = "fill" PROVE Size + Remaining(t) <= 2 * CacheMax
  <2>1. table[t] = Reverse(objs[t]) /\ want[t] - Len(objs[t]) <= CacheMax
    BY <1>2, <1>5 DEF Stocked
  <2>2. Len(table[t]) = Len(objs[t])
    BY <1>2, <2>1, ReverseEntries
  <2>3. Remaining(t) = want[t] - Len(objs[t])
    BY <2>2 DEF Remaining
  <2> QED BY <1>2, <1>3, <2>1, <2>3, FlushBounds
<1> QED BY <1>4, <1>5

\* How often an object is in a sequence without repetition.
LEMMA TimesOf ==
  ASSUME NEW s \in Seq(Objects), IsInjective(s), NEW o
  PROVE  Times(s, o) = IF o \in ToSet(s) THEN 1 ELSE 0
<1> DEFINE at == {i \in DOMAIN s : s[i] = o}
<1>1. CASE o \in ToSet(s)
  <2>1. PICK i \in 1 .. Len(s) : s[i] = o
    BY <1>1, Entries
  <2>2. at = {i}
    BY <2>1, Entries
  <2> QED BY <1>1, <2>2, FS_Singleton DEF Times
<1>2. CASE o \notin ToSet(s)
  <2>1. at = {}
    BY <1>2, Entries
  <2> QED BY <1>2, <2>1, FS_EmptySet DEF Times
<1> QED BY <1>1, <1>2

\* A thread counts an object of its store once, before, in and after a get.
LEMMA TimesWith ==
  ASSUME PoolInv, NEW t \in Threads, NEW o
  PROVE  Times(Prefix(objs[t], len[t]), o) + Times(table[t], o)
           = IF o \in ToSet(objs[t]) THEN 1 ELSE 0
<1> DEFINE s == objs[t]
           p == Prefix(s, len[t])
           x == table[t]
<1>1. s \in Seq(Objects) /\ Len(s) \in Nat /\ IsInjective(s) /\ Stocked(t)
  BY ThreadFacts
<1>2. CASE len[t] = Len(s) /\ x = <<>>
  <2>1. p = s
    BY <1>1, <1>2, WholePart
  <2>2. Times(x, o) = 0
    BY <1>2, NoEntries, TimesOf
  <2> QED BY <1>1, <2>1, <2>2, TimesOf
<1>3. CASE len[t] = 0 /\ x = Reverse(s)
  <2>1. p = <<>>
    BY <1>1, <1>3, WholePart
  <2>2. Times(p, o) = 0
    BY <2>1, NoEntries, TimesOf
  <2>3. x \in Seq(Objects) /\ IsInjective(x) /\ ToSet(x) = ToSet(s)
    BY <1>1, <1>3, ReverseEntries
  <2> QED BY <2>2, <2>3, TimesOf
<1> QED BY <1>1, <1>2, <1>3 DEF Stocked

LEMMA PoolCounts == PoolInv => EachObjectOnce
<1> SUFFICES ASSUME PoolInv, NEW o \in Objects PROVE Places(o) = 1
  BY DEF EachObjectOnce
<1> DEFINE f == [t \in Threads |-> Times(Prefix(objs[t], len[t]), o) + Times(table[t], o)]
           z == [t \in Threads |-> 0]
<1>1. InOnePlace /\ backend \in Seq(Objects)
  BY DEF PoolInv, PoolTypes
<1>2. Times(backend, o) = IF o \in ToSet(backend) THEN 1 ELSE 0
  BY <1>1, TimesOf DEF InOnePlace
<1>3. \A t \in Threads : f[t] = IF o \in ToSet(objs[t]) THEN 1 ELSE 0
  BY TimesWith
<1>4. IsFiniteSet(Threads)
  BY MempoolAssumption, FS_Union DEF Threads
<1>5. DOMAIN f = Threads /\ Places(o) = Times(backend, o) + (IF o \in held THEN 1 ELSE 0) + SumFunction(f)
  BY DEF Places
<1>6. f \in [Threads -> Int] /\ z \in [Threads -> Int]
  <2>1. f = [t \in Threads |-> f[t]]
    OBVIOUS
  <2> HIDE DEF f
  <2> QED BY <1>3, <2>1
<1>7. SumFunction(z) = 0
  BY <1>4, <1>6, SumOfZeros
<1> HIDE DEF f
<1>8. CASE \E t \in Threads : o \in ToSet(objs[t])
  <2>1. PICK t \in Threads : o \in ToSet(objs[t])
    BY <1>8
  <2>2. \A u \in Threads : u # t => o \notin ToSet(objs[u])
    BY <1>1, <2>1 DEF InOnePlace
  <2>3. o \notin ToSet(backend) /\ o \notin held
    BY <1>1, <2>1 DEF InOnePlace
  <2>4. f[t] = 1 /\ z[t] = 0 /\ \A u \in Threads : u # t => f[u] = z[u]
    BY <1>3, <2>1, <2>2
  <2>5. SumFunction(f) = SumFunction(z) + f[t] - z[t]
    <3> HIDE DEF z
    <3> QED BY <1>4, <1>6, <2>4, SumChanges
  <2> QED BY <1>2, <1>5, <1>7, <2>3, <2>4, <2>5
<1>9. CASE ~\E t \in Threads : o \in ToSet(objs[t])
  <2>1. SumFunction(f) = 0
    BY <1>3, <1>4, <1>6, <1>9, SumOfZeros
  <2>2. (o \in ToSet(backend) /\ o \notin held) \/ (o \notin ToSet(backend) /\ o \in held)
    BY <1>1, <1>9 DEF InOnePlace
  <2> QED BY <1>2, <1>5, <2>1, <2>2
<1> QED BY <1>8, <1>9

\* A step that ends a get under way is its refill or its direct dequeue.
LEMMA GetEnds ==
  ASSUME PoolInv, [MNext]_mvars, NEW t \in Threads, pc[t] # "idle", pc'[t] = "idle"
  PROVE  \/ Gets(t)
         \/ /\ held' = held /\ Len(backend) + Len(objs[t]) < want[t]
            /\ objs'[t] = objs[t] /\ len'[t] = Len(objs[t])
<1>1. pc \in [Threads -> {"idle", "fill", "direct"}]
  BY DEF PoolInv, PoolTypes
<1>2. CASE UNCHANGED mvars
  BY <1>2 DEF mvars
<1>3. ASSUME NEW u \in Threads, NEW n \in 1 .. MaxBatch, Get(u, n) PROVE FALSE
  BY <1>1, <1>3 DEF Get, Return, Continue
<1>4. ASSUME NEW u \in Threads, Fill(u) PROVE u = t /\ Gets(t)
  <2>1. u = t
    BY <1>1, <1>4 DEF Fill, Return
  <2> QED BY <1>4, <2>1, FillStep
<1>5. ASSUME NEW u \in Threads, Direct(u)
      PROVE  \/ Gets(t)
             \/ /\ held' = held /\ Len(backend) + Len(objs[t]) < want[t]
                /\ objs'[t] = objs[t] /\ len'[t] = Len(objs[t])
  <2>1. u = t
    BY <1>1, <1>5 DEF Direct, Return
  <2> QED BY <1>5, <2>1, DirectStep
<1>6. ASSUME NEW u \in Threads, NEW s \in Tables, Put(u, s) PROVE FALSE
  BY <1>6 DEF Put, call
<1>7. ASSUME NEW u \in Threads, CacheFlush(u) PROVE FALSE
  BY <1>7 DEF CacheFlush, call
<1> QED BY <1>1, <1>2, <1>3, <1>4, <1>5, <1>6, <1>7 DEF MNext

\* rte_mempool_do_generic_get and _put keep every variable in its type.
THEOREM PoolTypeCorrect == MSpec => []MTypeOK
BY PoolInvariant, PoolTypesAll, PTL

\* No path of rte_mempool_do_generic_get and _put loses an object or has it in
\* two places, for any number of threads, any cache size and any batches.
THEOREM EachOnceCorrect == MSpec => []EachObjectOnce
BY PoolInvariant, PoolCounts, PTL

\* No put and no refill writes past the 2 * RTE_MEMPOOL_CACHE_MAX_SIZE entries
\* of cache->objs.
THEOREM WithinArrayCorrect == MSpec => []CacheWithinArray
BY PoolInvariant, PoolFits, PTL

\* A get under way ends with all its n objects or with none.
THEOREM AllOrNothingCorrect == MSpec => GetAllOrNothing
<1>1. PoolInv /\ [MNext]_mvars =>
        [\A t \in Threads : pc[t] # "idle" /\ pc'[t] = "idle" =>
           held' = held \/ Cardinality(held' \ held) = want[t]]_mvars
  BY GetEnds DEF Gets
<1> QED BY <1>1, PoolInvariant, PTL DEF MSpec, GetAllOrNothing

\* A direct dequeue fails only if the backend and the thread's cache together
\* have less than n objects, and the cache is then what it was.
THEOREM FailsWhenShortCorrect == MSpec => FailsOnlyWhenShort
<1>1. PoolInv /\ [MNext]_mvars =>
        [\A t \in Threads : Fails(t) =>
           /\ Len(backend) + Len(objs[t]) < want[t]
           /\ t \in Cached => objs'[t] = objs[t] /\ len'[t] = Len(objs[t])]_mvars
  BY GetEnds DEF Gets, Fails
<1> QED BY <1>1, PoolInvariant, PTL DEF MSpec, FailsOnlyWhenShort
=============================================================================
