----------------------------- MODULE DataPlane -----------------------------
(***************************************************************************)
(* main.c of tenant-qos: the main lcore launches dp_lcore_main on the      *)
(* workers, runs it itself, waits for the workers and prints the final     *)
(* report.  Every lcore polls queue 0 of the first port, classifies each   *)
(* packet and counts it under the spinlock of the statistics.              *)
(*                                                                         *)
(* What parse, classify and dp_qos_apply say of a packet is any of the     *)
(* Outcomes; Parse, Rules and Qos model them.  The launch is one step per  *)
(* worker: EalLaunch shows that the handshake behind it amounts to that.   *)
(* --tenants is at most DP_MAX_TENANTS, as by default: dp_stats_record     *)
(* counts nothing for the tenants beyond.                                  *)
(* The back-off of an idle lcore only passes time and is left out.         *)
(***************************************************************************)
EXTENDS Integers, FiniteSetsExt

CONSTANTS
  Lcores, Main,      \* the lcores of the EAL command line, and the main one
  Burst,             \* DP_RX_BURST
  MbufCount,         \* mbufs of dp_mbuf_pool
  ReportInterval,    \* report_interval_tsc
  U64,               \* one more than the largest uint64_t
  MaxPackets,        \* bound on the packets that arrive
  MaxTsc             \* bound on the time explored

Workers == Lcores \ {Main}
Outcomes == {"parse_error", "unmatched", "rate_limit", "record"}

ASSUME DataPlaneAssumption ==
  /\ Main \in Lcores /\ IsFiniteSet(Lcores)
  /\ Burst \in Nat \ {0} /\ MbufCount \in Nat /\ ReportInterval \in Nat
  /\ MaxPackets \in Nat /\ MaxTsc \in Nat \ {0} /\ MaxTsc < U64

VARIABLES
  quit,          \* dp_force_quit
  tsc,           \* the time-stamp counter
  wire,          \* packets the port holds for queue 0
  pool,          \* free mbufs of the pool
  lock,          \* stats->lock
  counts,        \* stats->drops[], and the packets of stats->tenants[]
  last_report,   \* stats->last_report_tsc
  lcore,         \* what each lcore executes
  state,         \* lcore_config[].state of the workers
  main,          \* what main() does
  arrived,       \* history: packets that reached the port
  printed        \* history: the counters of the final report

device == <<wire, pool, arrived>>
stats == <<lock, counts, last_report>>
launch == <<state, main, printed>>
vars == <<quit, tsc, device, stats, launch, lcore>>

Off == [pc |-> "off", left |-> 0, outcome |-> "record", reg |-> 0, now |-> 0]
Zero == [o \in Outcomes |-> 0]

\* After dp_context_init, dp_cli_load_rules and dp_port_init.
Init ==
  /\ quit = FALSE /\ tsc = 1
  /\ wire = 0 /\ pool = MbufCount /\ arrived = 0
  /\ lock = FALSE /\ counts = Zero /\ last_report = 0
  /\ lcore = [l \in Lcores |-> Off]
  /\ state = [w \in Workers |-> "WAIT"]
  /\ main = "launch" /\ printed = Zero

At(l, pc) == lcore[l].pc = pc
Set(l, r) == lcore' = [lcore EXCEPT ![l] = r]
Goto(l, pc) == lcore' = [lcore EXCEPT ![l].pc = pc]
-----------------------------------------------------------------------------
\* The environment: signals, packets and time.

\* dp_signal_handler for SIGINT or SIGTERM.
Signal == ~quit /\ quit' = TRUE /\ UNCHANGED <<tsc, device, stats, launch, lcore>>

\* The port stores an arriving packet in an mbuf of the pool, if there is one.
Arrive ==
  /\ arrived < MaxPackets /\ pool > 0
  /\ arrived' = arrived + 1 /\ wire' = wire + 1 /\ pool' = pool - 1
  /\ UNCHANGED <<quit, tsc, stats, launch, lcore>>

Tick == tsc < MaxTsc /\ tsc' = tsc + 1 /\ UNCHANGED <<quit, device, stats, launch, lcore>>
-----------------------------------------------------------------------------
\* main(), and rte_eal_mp_remote_launch with CALL_MAIN.
Launch(w) ==
  /\ main = "launch" /\ state[w] = "WAIT" /\ At(w, "off")
  /\ state' = [state EXCEPT ![w] = "RUNNING"]
  /\ Goto(w, "loop")
  /\ UNCHANGED <<quit, tsc, device, stats, main, printed>>

CallMain ==
  /\ main = "launch"
  /\ \A w \in Workers : ~At(w, "off")
  /\ main' = "run"
  /\ Goto(Main, "loop")
  /\ UNCHANGED <<quit, tsc, device, stats, state, printed>>

\* Mutant of WaitWorkers: main goes on when its own loop has ended.
WaitNobody ==
  /\ main = "wait"
  /\ main' = "report"
  /\ UNCHANGED <<quit, tsc, device, stats, state, printed, lcore>>

\* rte_eal_wait_lcore for each worker in turn: none leaves WAIT again.
WaitWorkers ==
  /\ main = "wait"
  /\ \A w \in Workers : state[w] = "WAIT"
  /\ main' = "report"
  /\ UNCHANGED <<quit, tsc, device, stats, state, printed, lcore>>

\* dp_stats_report(.., true), under the lock; then main returns.
FinalReport ==
  /\ main = "report" /\ ~lock
  /\ printed' = counts
  /\ main' = "done"
  /\ UNCHANGED <<quit, tsc, device, stats, state, lcore>>
-----------------------------------------------------------------------------
\* dp_lcore_main.
Loop(l) ==
  /\ At(l, "loop")
  /\ Goto(l, IF quit THEN "exit" ELSE "rx")
  /\ UNCHANGED <<quit, tsc, device, stats, launch>>

\* rte_eth_rx_burst returns; the lcore is inside it while its pc is "rx".
Rx(l) ==
  /\ At(l, "rx")
  /\ \E n \in 0 .. Burst :
       /\ n <= wire
       /\ wire' = wire - n
       /\ Set(l, [lcore[l] EXCEPT !.pc = IF n = 0 THEN "loop" ELSE "packet", !.left = n])
  /\ UNCHANGED <<quit, tsc, pool, arrived, stats, launch>>

\* Mutant of Decide: an unmatched packet is freed without being counted.
DecideUncounted(l) ==
  /\ At(l, "packet")
  /\ \E o \in Outcomes :
       Set(l, [lcore[l] EXCEPT !.pc = IF o = "unmatched" THEN "free" ELSE "lock", !.outcome = o])
  /\ UNCHANGED <<quit, tsc, device, stats, launch>>

\* dp_parse_5tuple, dp_classify_lookup and dp_qos_apply.
Decide(l) ==
  /\ At(l, "packet")
  /\ \E o \in Outcomes : Set(l, [lcore[l] EXCEPT !.pc = "lock", !.outcome = o])
  /\ UNCHANGED <<quit, tsc, device, stats, launch>>

\* Mutant of Lock: the lock is taken whoever has it.
LockAlways(l) ==
  /\ At(l, "lock")
  /\ lock' = TRUE
  /\ Goto(l, "load")
  /\ UNCHANGED <<quit, tsc, device, counts, last_report, launch>>

\* dp_stats_drop and dp_stats_record: lock, read and write the counter, unlock.
Lock(l) ==
  /\ At(l, "lock") /\ ~lock
  /\ lock' = TRUE
  /\ Goto(l, "load")
  /\ UNCHANGED <<quit, tsc, device, counts, last_report, launch>>

LoadCount(l) ==
  /\ At(l, "load")
  /\ Set(l, [lcore[l] EXCEPT !.pc = "store", !.reg = counts[lcore[l].outcome]])
  /\ UNCHANGED <<quit, tsc, device, stats, launch>>

StoreCount(l) ==
  /\ At(l, "store")
  /\ counts' = [counts EXCEPT ![lcore[l].outcome] = lcore[l].reg + 1]
  /\ Goto(l, "unlock")
  /\ UNCHANGED <<quit, tsc, device, lock, last_report, launch>>

\* Mutant of Unlock: the lock is kept after a packet that was let through.
UnlockForgotten(l) ==
  /\ At(l, "unlock")
  /\ lock' = (lcore[l].outcome = "record")
  /\ Goto(l, "free")
  /\ UNCHANGED <<quit, tsc, device, counts, last_report, launch>>

Unlock(l) ==
  /\ At(l, "unlock")
  /\ lock' = FALSE
  /\ Goto(l, "free")
  /\ UNCHANGED <<quit, tsc, device, counts, last_report, launch>>

\* Mutant of Free: a packet dropped by the classifier keeps its mbuf.
FreeLeaks(l) ==
  /\ At(l, "free")
  /\ pool' = IF lcore[l].outcome = "unmatched" THEN pool ELSE pool + 1
  /\ Set(l, [Off EXCEPT !.pc = IF lcore[l].left = 1 THEN "clock" ELSE "packet",
                        !.left = lcore[l].left - 1])
  /\ UNCHANGED <<quit, tsc, wire, arrived, stats, launch>>

\* rte_pktmbuf_free, and the next packet of the burst.
Free(l) ==
  /\ At(l, "free")
  /\ pool' = pool + 1
  /\ Set(l, [Off EXCEPT !.pc = IF lcore[l].left = 1 THEN "clock" ELSE "packet",
                        !.left = lcore[l].left - 1])
  /\ UNCHANGED <<quit, tsc, wire, arrived, stats, launch>>

\* dp_stats_maybe_report(stats, rte_rdtsc()): last_report_tsc has no lock.
Clock(l) ==
  /\ At(l, "clock")
  /\ Set(l, [lcore[l] EXCEPT !.now = tsc, !.pc = IF ReportInterval = 0 THEN "loop" ELSE "due"])
  /\ UNCHANGED <<quit, tsc, device, stats, launch>>

ReportDue(l) ==
  LET now == lcore[l].now
      due == last_report # 0 /\ (now - last_report) % U64 >= ReportInterval
  IN /\ At(l, "due")
     /\ last_report' = IF last_report = 0 THEN now ELSE last_report
     /\ Goto(l, IF due THEN "report" ELSE "loop")
     /\ UNCHANGED <<quit, tsc, device, lock, counts, launch>>

\* dp_stats_report(.., false): the lock is held while the counters are printed.
ReportLock(l) ==
  /\ At(l, "report") /\ ~lock
  /\ lock' = TRUE
  /\ Goto(l, "print")
  /\ UNCHANGED <<quit, tsc, device, counts, last_report, launch>>

ReportPrint(l) ==
  /\ At(l, "print")
  /\ lock' = FALSE
  /\ Goto(l, "stamp")
  /\ UNCHANGED <<quit, tsc, device, counts, last_report, launch>>

ReportStamp(l) ==
  /\ At(l, "stamp")
  /\ last_report' = lcore[l].now
  /\ Goto(l, "loop")
  /\ UNCHANGED <<quit, tsc, device, lock, counts, launch>>

\* The loop ends: eal_thread_loop of a worker stores WAIT, main's call returns.
Exit(l) ==
  /\ At(l, "exit")
  /\ Goto(l, "ended")
  /\ IF l = Main THEN main' = "wait" /\ UNCHANGED state
     ELSE state' = [state EXCEPT ![l] = "WAIT"] /\ UNCHANGED main
  /\ UNCHANGED <<quit, tsc, device, stats, printed>>

LcoreStep(l) ==
  \/ Loop(l) \/ Rx(l) \/ Decide(l)
  \/ Lock(l) \/ LoadCount(l) \/ StoreCount(l) \/ Unlock(l) \/ Free(l)
  \/ Clock(l) \/ ReportDue(l) \/ ReportLock(l) \/ ReportPrint(l) \/ ReportStamp(l)
  \/ Exit(l)
MainStep == CallMain \/ WaitWorkers \/ FinalReport \/ \E w \in Workers : Launch(w)
Environment == Signal \/ Arrive \/ Tick

Next == Environment \/ MainStep \/ \E l \in Lcores : LcoreStep(l)

\* Every lcore is a thread that is scheduled for ever; no fairness of the
\* spinlock, of the port or of the signal.
Fairness == WF_vars(MainStep) /\ \A l \in Lcores : WF_vars(LcoreStep(l))

Spec == Init /\ [][Next]_vars /\ Fairness
-----------------------------------------------------------------------------
Pcs == {"off", "loop", "rx", "packet", "lock", "load", "store", "unlock", "free",
        "clock", "due", "report", "print", "stamp", "exit", "ended"}
CriticalPcs == {"load", "store", "unlock", "print"}
CountedPcs == {"unlock", "free"}

TypeOK ==
  /\ quit \in BOOLEAN /\ tsc \in 1 .. MaxTsc
  /\ wire \in Nat /\ pool \in Nat /\ arrived \in 0 .. MaxPackets
  /\ lock \in BOOLEAN /\ counts \in [Outcomes -> Nat] /\ last_report \in 0 .. MaxTsc
  /\ lcore \in [Lcores -> [pc : Pcs, left : 0 .. Burst, outcome : Outcomes,
                            reg : Nat, now : 0 .. MaxTsc]]
  /\ state \in [Workers -> {"WAIT", "RUNNING"}]
  /\ main \in {"launch", "run", "wait", "report", "done"}
  /\ printed \in [Outcomes -> Nat]

\* The statistics are never read or written by two lcores at a time, and the
\* lock is taken exactly while one of them does (rte_spinlock_lock in stats.c).
Critical(l) == lcore[l].pc \in CriticalPcs
LockExclusive ==
  /\ \A k, l \in Lcores : Critical(k) /\ Critical(l) => k = l
  /\ lock <=> \E l \in Lcores : Critical(l)

\* Every mbuf is free, on the port, or held by the lcore whose burst it is in:
\* each path of dp_lcore_main frees its packet, once.
MbufsConserved == pool + wire + SumFunction([l \in Lcores |-> lcore[l].left]) = MbufCount

\* Every packet taken from the port is counted under exactly one outcome, up to
\* the ones lcores still have to count: no update of a counter is lost.
Total(c) == SumFunction(c)
Uncounted(l) == lcore[l].left - IF lcore[l].pc \in CountedPcs THEN 1 ELSE 0
EveryPacketCounted ==
  Total(counts) + SumFunction([l \in Lcores |-> Uncounted(l)]) = arrived - wire

\* The final report has every packet any lcore ever took from the port: main
\* waits for the workers first (main.c).
FinalReportComplete == main = "done" => Total(printed) = arrived - wire

\* After SIGINT or SIGTERM the program prints its final report and ends,
\* whatever traffic goes on arriving (dp_force_quit).
Terminates == quit ~> main = "done"
=============================================================================
