------------------------------ MODULE Launcher ------------------------------
(***************************************************************************)
(* What rte_launch.h promises the main lcore: a worker runs the jobs it is *)
(* given, each once and in order; a job is refused while the worker has    *)
(* one; rte_eal_wait_lcore returns the result of the last job.             *)
(***************************************************************************)
EXTENDS Naturals

CONSTANTS Workers, MaxJobs     \* MaxJobs: bound on the jobs per worker

VARIABLES
  launched,   \* the number of the last job given to each worker, 0: none
  finished,   \* the number of the last job it has finished
  awaited     \* the last result rte_eal_wait_lcore returned

vars == <<launched, finished, awaited>>

Init ==
  /\ launched = [w \in Workers |-> 0]
  /\ finished = [w \in Workers |-> 0]
  /\ awaited = [w \in Workers |-> 0]

Launch(w) ==
  /\ launched[w] = finished[w] /\ launched[w] < MaxJobs
  /\ launched' = [launched EXCEPT ![w] = @ + 1]
  /\ UNCHANGED <<finished, awaited>>

Finish(w) ==
  /\ finished[w] < launched[w]
  /\ finished' = [finished EXCEPT ![w] = launched[w]]
  /\ UNCHANGED <<launched, awaited>>

Wait(w) ==
  /\ finished[w] = launched[w]
  /\ awaited' = [awaited EXCEPT ![w] = finished[w]]
  /\ UNCHANGED <<launched, finished>>

Next == \E w \in Workers : Launch(w) \/ Finish(w) \/ Wait(w)

\* A job that was accepted is finished.
Spec == Init /\ [][Next]_vars /\ \A w \in Workers : WF_vars(Finish(w))
=============================================================================
