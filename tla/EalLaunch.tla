------------------------------ MODULE EalLaunch ------------------------------
(***************************************************************************)
(* rte_eal_remote_launch, rte_eal_wait_lcore and eal_thread_loop: the main *)
(* lcore and each worker share lcore_config[w] and a pipe in each          *)
(* direction.  Job n is the function and the argument of the n-th launch.  *)
(* The pipes neither fail nor end: both processes hold both ends.  state   *)
(* and f are atomics with acquire and release order, so that a step sees   *)
(* every store that precedes the value it reads.                           *)
(***************************************************************************)
EXTENDS Naturals

CONSTANTS Workers, MaxJobs     \* MaxJobs: bound on the jobs per worker

ASSUME JobsAssumption == MaxJobs \in Nat

NULL == 0

VARIABLES
  main,      \* what the main lcore executes: [pc, w]
  pc,        \* what eal_thread_loop of each worker executes
  state,     \* lcore_config[w].state
  f, arg,    \* lcore_config[w].f and .arg
  ret,       \* lcore_config[w].ret
  m2w, w2m,  \* bytes in the two pipes of each worker
  local,     \* the worker's copies of f and fct_arg
  launched, finished, awaited   \* history: see Launcher

config == <<state, f, arg, ret>>
pipes == <<m2w, w2m>>
history == <<launched, finished, awaited>>
vars == <<main, pc, config, pipes, local, history>>

All(v) == [w \in Workers |-> v]
NoCall == [pc |-> "idle"]

Init ==
  /\ main = NoCall
  /\ pc = All("wait_command")
  /\ state = All("WAIT") /\ f = All(NULL) /\ arg = All(NULL) /\ ret = All(0)
  /\ m2w = All(0) /\ w2m = All(0)
  /\ local = All([f |-> NULL, arg |-> NULL])
  /\ launched = All(0) /\ finished = All(0) /\ awaited = All(0)

MainAt(p, w) == main = [pc |-> p, w |-> w]
MainGoto(p, w) == main' = [pc |-> p, w |-> w]
Return == main' = NoCall

\* rte_eal_remote_launch(f, arg, w): -EBUSY unless the worker waits.
RemoteLaunch(w) ==
  /\ main = NoCall
  /\ launched[w] < MaxJobs
  /\ IF state[w] = "WAIT" THEN MainGoto("arg", w) ELSE Return
  /\ UNCHANGED <<pc, config, pipes, local, history>>

StoreArg(w) ==
  /\ MainAt("arg", w)
  /\ arg' = [arg EXCEPT ![w] = launched[w] + 1]
  /\ MainGoto("f", w)
  /\ UNCHANGED <<pc, state, f, ret, pipes, local, history>>

StoreF(w) ==
  /\ MainAt("f", w)
  /\ f' = [f EXCEPT ![w] = launched[w] + 1]
  /\ MainGoto("write", w)
  /\ UNCHANGED <<pc, state, arg, ret, pipes, local, history>>

\* eal_thread_wake_worker: write a byte, then read the answer.
WakeWorker(w) ==
  /\ MainAt("write", w)
  /\ m2w' = [m2w EXCEPT ![w] = @ + 1]
  /\ launched' = [launched EXCEPT ![w] = @ + 1]
  /\ MainGoto("read", w)
  /\ UNCHANGED <<pc, config, w2m, local, finished, awaited>>

\* Mutant of ReadAck: the launch does not wait for the worker's answer.
ReadNothing(w) ==
  /\ MainAt("read", w)
  /\ Return
  /\ UNCHANGED <<pc, config, pipes, local, history>>

ReadAck(w) ==
  /\ MainAt("read", w) /\ w2m[w] > 0
  /\ w2m' = [w2m EXCEPT ![w] = @ - 1]
  /\ Return
  /\ UNCHANGED <<pc, config, m2w, local, history>>

\* rte_eal_wait_lcore(w): spins until the state is WAIT, then returns ret.
WaitLcore(w) ==
  /\ main = NoCall
  /\ MainGoto("spin", w)
  /\ UNCHANGED <<pc, config, pipes, local, history>>

Waited(w) ==
  /\ MainAt("spin", w) /\ state[w] = "WAIT"
  /\ awaited' = [awaited EXCEPT ![w] = ret[w]]
  /\ Return
  /\ UNCHANGED <<pc, config, pipes, local, launched, finished>>
-----------------------------------------------------------------------------
\* eal_thread_loop.
At(w, p) == pc[w] = p
Goto(w, p) == pc' = [pc EXCEPT ![w] = p]

WaitCommand(w) ==
  /\ At(w, "wait_command") /\ m2w[w] > 0
  /\ m2w' = [m2w EXCEPT ![w] = @ - 1]
  /\ Goto(w, "running")
  /\ UNCHANGED <<main, config, w2m, local, history>>

SetRunning(w) ==
  /\ At(w, "running")
  /\ state' = [state EXCEPT ![w] = "RUNNING"]
  /\ Goto(w, "ack")
  /\ UNCHANGED <<main, f, arg, ret, pipes, local, history>>

AckCommand(w) ==
  /\ At(w, "ack")
  /\ w2m' = [w2m EXCEPT ![w] = @ + 1]
  /\ Goto(w, "load_f")
  /\ UNCHANGED <<main, config, m2w, local, history>>

LoadF(w) ==
  /\ At(w, "load_f") /\ f[w] # NULL
  /\ local' = [local EXCEPT ![w].f = f[w]]
  /\ Goto(w, "load_arg")
  /\ UNCHANGED <<main, config, pipes, history>>

LoadArg(w) ==
  /\ At(w, "load_arg")
  /\ local' = [local EXCEPT ![w].arg = arg[w]]
  /\ Goto(w, "call")
  /\ UNCHANGED <<main, config, pipes, history>>

\* Mutant of CallF: WAIT is stored before f and arg are cleared.
CallFThenWait(w) ==
  /\ At(w, "call")
  /\ ret' = [ret EXCEPT ![w] = local[w].f]
  /\ state' = [state EXCEPT ![w] = "WAIT"]
  /\ Goto(w, "clear_f")
  /\ UNCHANGED <<main, f, arg, pipes, local, history>>

\* ret = f(fct_arg), which the job is done with.
CallF(w) ==
  /\ At(w, "call")
  /\ ret' = [ret EXCEPT ![w] = local[w].f]
  /\ Goto(w, "clear_f")
  /\ UNCHANGED <<main, state, f, arg, pipes, local, history>>

ClearF(w) ==
  /\ At(w, "clear_f")
  /\ f' = [f EXCEPT ![w] = NULL]
  /\ Goto(w, "clear_arg")
  /\ UNCHANGED <<main, state, arg, ret, pipes, local, history>>

ClearArg(w) ==
  /\ At(w, "clear_arg")
  /\ arg' = [arg EXCEPT ![w] = NULL]
  /\ Goto(w, "done")
  /\ UNCHANGED <<main, state, f, ret, pipes, local, history>>

\* Mutant of SetWait: the state stays RUNNING.
SetWaitForgotten(w) ==
  /\ At(w, "done")
  /\ finished' = [finished EXCEPT ![w] = local[w].f]
  /\ Goto(w, "wait_command")
  /\ UNCHANGED <<main, config, pipes, local, launched, awaited>>

SetWait(w) ==
  /\ At(w, "done")
  /\ state' = [state EXCEPT ![w] = "WAIT"]
  /\ finished' = [finished EXCEPT ![w] = local[w].f]
  /\ Goto(w, "wait_command")
  /\ UNCHANGED <<main, f, arg, ret, pipes, local, launched, awaited>>

MainStep(w) == StoreArg(w) \/ StoreF(w) \/ WakeWorker(w) \/ ReadAck(w) \/ Waited(w)
WorkerStep(w) ==
  \/ WaitCommand(w) \/ SetRunning(w) \/ AckCommand(w) \/ LoadF(w) \/ LoadArg(w)
  \/ CallF(w) \/ ClearF(w) \/ ClearArg(w) \/ SetWait(w)

Next == \E w \in Workers : RemoteLaunch(w) \/ WaitLcore(w) \/ MainStep(w) \/ WorkerStep(w)

\* Threads are scheduled; nothing obliges the main lcore to make a call.
Fairness == \A w \in Workers : WF_vars(MainStep(w)) /\ WF_vars(WorkerStep(w))

Spec == Init /\ [][Next]_vars /\ Fairness
-----------------------------------------------------------------------------
Calls == {NoCall} \cup [pc : {"arg", "f", "write", "read", "spin"}, w : Workers]
Places == {"wait_command", "running", "ack", "load_f", "load_arg", "call",
           "clear_f", "clear_arg", "done"}

TypeOK ==
  /\ main \in Calls
  /\ pc \in [Workers -> Places]
  /\ state \in [Workers -> {"WAIT", "RUNNING"}]
  /\ f \in [Workers -> 0 .. MaxJobs] /\ arg \in [Workers -> 0 .. MaxJobs]
  /\ ret \in [Workers -> 0 .. MaxJobs]
  /\ launched \in [Workers -> 0 .. MaxJobs] /\ finished \in [Workers -> 0 .. MaxJobs]
  /\ awaited \in [Workers -> 0 .. MaxJobs]
  /\ m2w \in [Workers -> 0 .. 1] /\ w2m \in [Workers -> 0 .. 1]
  /\ local \in [Workers -> [f : 0 .. MaxJobs, arg : 0 .. MaxJobs]]

\* The handshake implements Launcher: RUNNING is stored before the answer, so
\* rte_eal_wait_lcore cannot return before the job has run, and f is cleared
\* before WAIT is stored, so the next job is not lost.
Launching == INSTANCE Launcher
ImplementsLauncher == Launching!Spec

\* A worker calls the function of the last launch with that launch's argument.
RunsWhatWasLaunched ==
  \A w \in Workers : At(w, "call") => local[w] = [f |-> launched[w], arg |-> launched[w]]

\* The main lcore never waits for ever: every call it makes returns.
EveryCallReturns == []<>(main = NoCall)
=============================================================================
