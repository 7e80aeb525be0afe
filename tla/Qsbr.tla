-------------------------------- MODULE Qsbr --------------------------------
(***************************************************************************)
(* The quiescent state variable of lib/rcu.  Readers register, go online,  *)
(* use the shared structure until they report a quiescent state or go      *)
(* offline.  A writer that removed something starts a grace period and     *)
(* checks its token until no reader can still use what was removed.        *)
(* Every load and store of the variable is a step.  The registered ids are *)
(* one word of the bitmap array: up to 64 threads.                         *)
(***************************************************************************)
EXTENDS Integers, FiniteSets

CONSTANTS
  MaxThreads,  \* v->max_threads
  Writers,     \* the threads that start and check grace periods
  CntMax       \* __RTE_QSBR_CNT_MAX: the 64-bit token never gets there

Readers == 0 .. MaxThreads - 1    \* thread ids
Offline == 0                      \* __RTE_QSBR_CNT_THR_OFFLINE
CntInit == 1                      \* __RTE_QSBR_CNT_INIT

ASSUME QsbrAssumption == MaxThreads \in 0 .. 64 /\ CntMax \in Nat /\ CntInit < CntMax

VARIABLES
  token,       \* v->token
  acked,       \* v->acked_token
  cnt,         \* v->qsbr_cnt[].cnt
  bitmap,      \* the registered thread ids
  num,         \* v->num_threads
  reader,      \* where each reader is, and the token it loaded
  check,       \* where each writer is in rte_rcu_qsbr_check
  began        \* history: the token when a reader's use of the structure began

qvars == <<token, acked, cnt, bitmap, num, reader, check, began>>
shared == <<token, acked, cnt, bitmap, num>>

Out == [pc |-> "out", t |-> 0]
NoCheck == [pc |-> "idle", t |-> 0, wait |-> FALSE, all |-> FALSE, left |-> {}, least |-> 0]

\* rte_rcu_qsbr_init.
QInit ==
  /\ token = CntInit /\ acked = CntInit - 1
  /\ cnt = [r \in Readers |-> Offline]
  /\ bitmap = {} /\ num = 0
  /\ reader = [r \in Readers |-> Out]
  /\ check = [w \in Writers |-> NoCheck]
  /\ began = [r \in Readers |-> 0]

RAt(r, pc) == reader[r].pc = pc
RGoto(r, pc) == reader' = [reader EXCEPT ![r].pc = pc]
InSection(r) == RAt(r, "in")      \* it may use the structure
WAt(w, pc) == check[w].pc = pc
-----------------------------------------------------------------------------
\* rte_rcu_qsbr_thread_register and _unregister, called by the thread itself
\* or, while it is not online, for it.
Register(r) ==
  /\ RAt(r, "out") /\ RGoto(r, "registering")
  /\ bitmap' = bitmap \cup {r}
  /\ UNCHANGED <<token, acked, cnt, num, check, began>>
CountRegistered(r) ==
  /\ RAt(r, "registering") /\ RGoto(r, "offline")
  /\ num' = num + 1
  /\ UNCHANGED <<token, acked, cnt, bitmap, check, began>>
Unregister(r) ==
  /\ RAt(r, "offline") /\ RGoto(r, "unregistering")
  /\ bitmap' = bitmap \ {r}
  /\ UNCHANGED <<token, acked, cnt, num, check, began>>
CountUnregistered(r) ==
  /\ RAt(r, "unregistering") /\ RGoto(r, "out")
  /\ num' = num - 1
  /\ UNCHANGED <<token, acked, cnt, bitmap, check, began>>

\* rte_rcu_qsbr_thread_online: the token is loaded, later stored; the fence
\* behind the store keeps the use of the structure after it.
OnlineLoad(r) ==
  /\ RAt(r, "offline")
  /\ reader' = [reader EXCEPT ![r] = [pc |-> "onlining", t |-> token]]
  /\ UNCHANGED <<shared, check, began>>
Enter(r) ==
  /\ reader' = [reader EXCEPT ![r] = [pc |-> "in", t |-> 0]]
  /\ began' = [began EXCEPT ![r] = token]
OnlineStore(r) ==
  /\ RAt(r, "onlining")
  /\ cnt' = [cnt EXCEPT ![r] = reader[r].t]
  /\ Enter(r)
  /\ UNCHANGED <<token, acked, bitmap, num, check>>

\* rte_rcu_qsbr_thread_offline.
GoOffline(r) ==
  /\ InSection(r) /\ RGoto(r, "offline")
  /\ cnt' = [cnt EXCEPT ![r] = Offline]
  /\ began' = [began EXCEPT ![r] = 0]
  /\ UNCHANGED <<token, acked, bitmap, num, check>>

\* rte_rcu_qsbr_quiescent: there is no store if nothing was started.
QuiescentLoad(r) ==
  /\ InSection(r)
  /\ reader' = [reader EXCEPT ![r] = [pc |-> "reporting", t |-> token]]
  /\ began' = [began EXCEPT ![r] = 0]
  /\ UNCHANGED <<shared, check>>
QuiescentStore(r) ==
  /\ RAt(r, "reporting")
  /\ cnt' = [cnt EXCEPT ![r] = reader[r].t]
  /\ Enter(r)
  /\ UNCHANGED <<token, acked, bitmap, num, check>>

ReaderStep(r) ==
  \/ Register(r) \/ CountRegistered(r) \/ Unregister(r) \/ CountUnregistered(r)
  \/ OnlineLoad(r) \/ OnlineStore(r) \/ GoOffline(r)
  \/ QuiescentLoad(r) \/ QuiescentStore(r)
-----------------------------------------------------------------------------
\* rte_rcu_qsbr_start, after w removed something; the token is token'.
Start(w) ==
  /\ WAt(w, "idle") /\ token + 1 < CntMax
  /\ token' = token + 1
  /\ UNCHANGED <<acked, cnt, bitmap, num, reader, check, began>>

\* The call of rte_rcu_qsbr_check with a token that was given out.
Check(w, t, wait) ==
  /\ WAt(w, "idle")
  /\ check' = [check EXCEPT ![w] = [NoCheck EXCEPT !.pc = "acked", !.t = t, !.wait = wait]]
  /\ UNCHANGED <<shared, reader, began>>

WGoto(w, pc) == check' = [check EXCEPT ![w].pc = pc]
Return(w, answer) == check' = [check EXCEPT ![w] = [NoCheck EXCEPT !.pc = answer]]
Answered(w) == WAt(w, "yes") \/ WAt(w, "no")

\* Have all readers acknowledged this token or a later one before?
CheckAcked(w) ==
  /\ WAt(w, "acked")
  /\ IF check[w].t <= acked THEN Return(w, "yes") ELSE WGoto(w, "num")
  /\ UNCHANGED <<shared, reader, began>>

\* __rte_rcu_qsbr_check_all, or _selective after the bitmap was loaded.
CheckNum(w) ==
  /\ WAt(w, "num")
  /\ check' = [check EXCEPT ![w].pc = IF num = MaxThreads THEN "scan" ELSE "bitmap",
                            ![w].all = (num = MaxThreads),
                            ![w].left = Readers, ![w].least = CntMax]
  /\ UNCHANGED <<shared, reader, began>>
CheckBitmap(w) ==
  /\ WAt(w, "bitmap")
  /\ check' = [check EXCEPT ![w].pc = "scan", ![w].left = bitmap]
  /\ UNCHANGED <<shared, reader, began>>

\* The next thread to look at is the one with the lowest id (rte_ctz64).
Next1(w) == CHOOSE r \in check[w].left : \A s \in check[w].left : r <= s
\* Mutant of Quiet: a reader that reported at the token itself does not count.
QuietStrict(c, t) == c = Offline \/ c > t
Quiet(c, t) == c = Offline \/ c >= t

\* Mutant of CheckThread: a counter one behind counts as quiescent.
CheckThreadOffByOne(w) ==
  /\ WAt(w, "scan") /\ check[w].left # {}
  /\ LET r == Next1(w) c == cnt[r] IN
       /\ Quiet(c + 1, check[w].t)
       /\ check' = [check EXCEPT ![w].left = @ \ {r}]
  /\ UNCHANGED <<shared, reader, began>>

\* One counter: quiescent, or the whole check fails, or - waiting - it is
\* looked at again, and the bitmap first.
CheckThread(w) ==
  /\ WAt(w, "scan") /\ check[w].left # {}
  /\ LET r == Next1(w)
         c == cnt[r]
     IN \/ /\ Quiet(c, check[w].t)
           /\ check' = [check EXCEPT ![w].left = @ \ {r},
                ![w].least = IF c # Offline /\ c < @ THEN c ELSE @]
        \/ /\ ~Quiet(c, check[w].t) /\ ~check[w].wait
           /\ Return(w, "no")
        \/ /\ ~Quiet(c, check[w].t) /\ check[w].wait /\ ~check[w].all
           /\ WGoto(w, "bitmap")
  /\ UNCHANGED <<shared, reader, began>>

\* Mutant of CheckDone: the initial value of the minimum is stored if no
\* reader was online.
CheckDoneMax(w) ==
  /\ WAt(w, "scan") /\ check[w].left = {}
  /\ acked' = check[w].least
  /\ Return(w, "yes")
  /\ UNCHANGED <<token, cnt, bitmap, num, reader, began>>

\* Every reader was looked at.
CheckDone(w) ==
  /\ WAt(w, "scan") /\ check[w].left = {}
  /\ acked' = IF check[w].least # CntMax THEN check[w].least ELSE acked
  /\ Return(w, "yes")
  /\ UNCHANGED <<token, cnt, bitmap, num, reader, began>>

CheckStep(w) ==
  CheckAcked(w) \/ CheckNum(w) \/ CheckBitmap(w) \/ CheckThread(w) \/ CheckDone(w)

\* The caller goes on with the answer.
Continue(w) ==
  /\ Answered(w)
  /\ check' = [check EXCEPT ![w] = NoCheck]
  /\ UNCHANGED <<shared, reader, began>>

QNext ==
  \/ \E r \in Readers : ReaderStep(r)
  \/ \E w \in Writers : 
       \/ Start(w) \/ CheckStep(w) \/ Continue(w)
       \/ \E t \in CntInit + 1 .. token, wait \in BOOLEAN : Check(w, t, wait)

QSpec == QInit /\ [][QNext]_qvars
-----------------------------------------------------------------------------
CheckType ==
  [pc : {"idle", "acked", "num", "bitmap", "scan", "yes", "no"}, t : 0 .. token,
   wait : BOOLEAN, all : BOOLEAN, left : SUBSET Readers, least : 0 .. CntMax]
QTypeOK ==
  /\ token \in CntInit .. CntMax - 1 /\ acked \in 0 .. token
  /\ cnt \in [Readers -> 0 .. token]
  /\ bitmap \subseteq Readers /\ num \in Int
  /\ reader \in [Readers ->
       [pc : {"out", "registering", "offline", "onlining", "in", "reporting", "unregistering"},
        t : 0 .. token]]
  /\ check \in [Writers -> CheckType]
  /\ began \in [Readers -> 0 .. token]

\* "If this API indicates that all the reader threads have entered the
\* quiescent state, the application can free the deleted entry" (rcu_lib.rst):
\* when rte_rcu_qsbr_check passes a token, every reader that is using the
\* structure began to after the token was given out, so that it cannot have
\* found what was removed before.
Passed(w) == ~WAt(w, "yes") /\ check'[w].pc = "yes"
GracePeriodOver ==
  [][\A v \in Writers : Passed(v) =>
       \A r \in Readers : InSection(r) => began[r] >= check[v].t]_qvars

\* The same of the checks that look at the readers, and do not find the token
\* acknowledged by an earlier one: __rte_rcu_qsbr_check_all and _selective.
Scanned(w) == Passed(w) /\ WAt(w, "scan")
ScansOver ==
  [][\A v \in Writers : Scanned(v) =>
       \A r \in Readers : InSection(r) => began[r] >= check[v].t]_qvars
=============================================================================
