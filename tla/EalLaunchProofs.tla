-------------------------- MODULE EalLaunchProofs --------------------------
(***************************************************************************)
(* The launch handshake, for any set of workers and any number of jobs.    *)
(*                                                                         *)
(* A worker is Busy from the byte that wakes it until it stores WAIT.  The *)
(* invariant says, for one worker: which of the two threads has the byte   *)
(* of the handshake; that WAIT is read only outside a job, but for the     *)
(* step between the wake-up and the store of RUNNING, in which the main    *)
(* lcore is still inside rte_eal_remote_launch; and what f, arg, ret and   *)
(* the worker's copies hold in each phase.                                 *)
(***************************************************************************)
EXTENDS EalLaunch, TLAPS

\* Where a launch of w is before its wake-up byte is written.
Preparing(w) == MainAt("arg", w) \/ MainAt("f", w) \/ MainAt("write", w)

Busy(w) == m2w[w] = 1 \/ pc[w] # "wait_command"

\* The job in hand: the one being prepared, or the last launched.
Job(w) == IF Preparing(w) THEN launched[w] + 1 ELSE launched[w]

Handshake(w) ==
  /\ m2w[w] = 1 => MainAt("read", w) /\ pc[w] = "wait_command" /\ w2m[w] = 0
  /\ w2m[w] = 1 => MainAt("read", w) /\ m2w[w] = 0 /\ pc[w] \notin {"running", "ack"}
  /\ pc[w] \in {"running", "ack"} => MainAt("read", w) /\ m2w[w] = 0 /\ w2m[w] = 0
  /\ Preparing(w) => pc[w] = "wait_command" /\ launched[w] < MaxJobs

WaitMeansFree(w) == state[w] = "WAIT" <=> pc[w] \in {"wait_command", "running"}

Counted(w) == launched[w] = IF Busy(w) THEN finished[w] + 1 ELSE finished[w]

Cells(w) ==
  /\ f[w] = IF MainAt("write", w) \/ (Busy(w) /\ pc[w] \notin {"clear_arg", "done"})
            THEN Job(w) ELSE NULL
  /\ arg[w] = IF \/ MainAt("f", w) \/ MainAt("write", w)
                 \/ Busy(w) /\ pc[w] # "done"
              THEN Job(w) ELSE NULL
  /\ pc[w] \in {"load_arg", "call", "clear_f", "clear_arg", "done"} => local[w].f = launched[w]
  /\ pc[w] \in {"call", "clear_f", "clear_arg", "done"} => local[w].arg = launched[w]
  /\ ~Busy(w) \/ pc[w] \in {"clear_f", "clear_arg", "done"} => ret[w] = launched[w]

WorkerInv(w) == Handshake(w) /\ WaitMeansFree(w) /\ Counted(w) /\ Cells(w)
IInv == TypeOK /\ \A w \in Workers : WorkerInv(w)

\* The main lcore is at one place of one call.
LEMMA MainPlaces ==
  ASSUME NEW p, NEW w
  PROVE  /\ MainAt(p, w) => \A q, v : MainAt(q, v) <=> (q = p /\ v = w)
         /\ MainGoto(p, w) => \A q, v : MainAt(q, v)' <=> (q = p /\ v = w)
         /\ p # "idle" => (main = NoCall => ~MainAt(p, w))
         /\ p # "idle" => (Return => ~MainAt(p, w)')
BY DEF MainAt, MainGoto, Return, NoCall

\* A call of the main lcore keeps its type.
LEMMA CallType ==
  /\ Return => main' \in Calls
  /\ \A p \in {"arg", "f", "write", "read", "spin"}, w \in Workers :
       MainGoto(p, w) => main' \in Calls
BY DEF Calls, Return, MainGoto

\* Before the first launch every worker waits and every cell is empty.
LEMMA InitIInv == Init => IInv
<1> SUFFICES ASSUME Init PROVE IInv
  OBVIOUS
<1> USE JobsAssumption DEF Init, All
<1>1. TypeOK
  <2>1. main \in Calls
    BY DEF Calls
  <2>2. pc \in [Workers -> Places] /\ state \in [Workers -> {"WAIT", "RUNNING"}]
    BY DEF Places
  <2>3. 0 \in 0 .. MaxJobs
    OBVIOUS
  <2>4. local \in [Workers -> [f : 0 .. MaxJobs, arg : 0 .. MaxJobs]]
    BY <2>3 DEF NULL
  <2> QED BY <2>1, <2>2, <2>3, <2>4 DEF TypeOK, NULL
<1>2. ASSUME NEW w \in Workers PROVE WorkerInv(w)
  <2>1. \A p : p # "idle" => ~MainAt(p, w)
    BY MainPlaces
  <2>2. ~Preparing(w) /\ ~Busy(w)
    BY <2>1 DEF Preparing, Busy
  <2> QED BY <1>2, <2>1, <2>2 DEF WorkerInv, Handshake, WaitMeansFree, Counted, Cells, NULL, Job
<1> QED BY <1>1, <1>2 DEF IInv

\* No step changes the types.
LEMMA TypeStep ==
  ASSUME IInv, NEW w \in Workers,
         RemoteLaunch(w) \/ WaitLcore(w) \/ MainStep(w) \/ WorkerStep(w)
  PROVE  TypeOK'
<1>1. TypeOK /\ WorkerInv(w)
  BY DEF IInv
<1>2. NULL \in 0 .. MaxJobs /\ local[w].f \in 0 .. MaxJobs
  BY <1>1, JobsAssumption DEF NULL, TypeOK
<1> USE DEF TypeOK, config, pipes, history, Places
<1>3. ASSUME RemoteLaunch(w) \/ WaitLcore(w)
      PROVE  TypeOK'
  <2>1. main' \in Calls
    BY <1>3, CallType DEF RemoteLaunch, WaitLcore
  <2> QED BY <1>1, <1>3, <2>1 DEF RemoteLaunch, WaitLcore
<1>4. ASSUME StoreArg(w) \/ StoreF(w)
      PROVE  TypeOK'
  <2>1. launched[w] + 1 \in 0 .. MaxJobs
    BY <1>1, <1>4, JobsAssumption
    DEF WorkerInv, Handshake, Preparing, StoreArg, StoreF
  <2>2. main' \in Calls
    BY <1>4, CallType DEF StoreArg, StoreF
  <2>3. CASE StoreArg(w)
    BY <1>1, <2>1, <2>2, <2>3 DEF StoreArg
  <2>4. CASE StoreF(w)
    BY <1>1, <2>1, <2>2, <2>4 DEF StoreF
  <2> QED BY <1>4, <2>3, <2>4
<1>5. ASSUME WakeWorker(w)
      PROVE  TypeOK'
  <2>1. m2w[w] = 0
    BY <1>1, <1>5, MainPlaces DEF WorkerInv, Handshake, WakeWorker
  <2>2. launched[w] + 1 \in 0 .. MaxJobs
    BY <1>1, <1>5, JobsAssumption DEF WorkerInv, Handshake, Preparing, WakeWorker
  <2>3. main' \in Calls
    BY <1>5, CallType DEF WakeWorker
  <2> QED BY <1>1, <1>5, <2>1, <2>2, <2>3 DEF WakeWorker
<1>6. ASSUME ReadAck(w) \/ Waited(w)
      PROVE  TypeOK'
  <2>1. main' \in Calls
    BY <1>6, CallType DEF ReadAck, Waited
  <2>2. CASE ReadAck(w)
    BY <1>1, <2>1, <2>2 DEF ReadAck
  <2>3. CASE Waited(w)
    BY <1>1, <2>1, <2>3 DEF Waited
  <2> QED BY <1>6, <2>2, <2>3
<1>7. ASSUME WaitCommand(w) \/ SetRunning(w)
      PROVE  TypeOK'
  BY <1>1, <1>7 DEF WaitCommand, SetRunning, Goto
<1>8. ASSUME AckCommand(w)
      PROVE  TypeOK'
  <2>1. w2m[w] = 0
    BY <1>1, <1>8 DEF WorkerInv, Handshake, AckCommand, At
  <2>2. w2m' \in [Workers -> 0 .. 1]
    BY <1>1, <1>8, <2>1 DEF AckCommand
  <2>3. pc' \in [Workers -> Places]
    BY <1>1, <1>8 DEF AckCommand, Goto
  <2> QED BY <1>1, <1>8, <2>2, <2>3 DEF AckCommand
<1>9. ASSUME LoadF(w) \/ LoadArg(w)
      PROVE  TypeOK'
  <2>1. pc' \in [Workers -> Places]
    BY <1>1, <1>9 DEF LoadF, LoadArg, Goto
  <2>2. f[w] \in 0 .. MaxJobs /\ arg[w] \in 0 .. MaxJobs
    BY <1>1
  <2>3. CASE LoadF(w)
    <3>1. local' \in [Workers -> [f : 0 .. MaxJobs, arg : 0 .. MaxJobs]]
      BY <1>1, <2>2, <2>3 DEF LoadF
    <3> QED BY <1>1, <2>1, <2>3, <3>1 DEF LoadF
  <2>4. CASE LoadArg(w)
    <3>1. local' \in [Workers -> [f : 0 .. MaxJobs, arg : 0 .. MaxJobs]]
      BY <1>1, <2>2, <2>4 DEF LoadArg
    <3> QED BY <1>1, <2>1, <2>4, <3>1 DEF LoadArg
  <2> QED BY <1>9, <2>3, <2>4
<1>10. ASSUME CallF(w) \/ ClearF(w) \/ ClearArg(w) \/ SetWait(w)
       PROVE  TypeOK'
  <2>1. pc' \in [Workers -> Places]
    BY <1>1, <1>10 DEF CallF, ClearF, ClearArg, SetWait, Goto
  <2>2. CASE CallF(w) \/ ClearF(w)
    BY <1>1, <1>2, <2>1, <2>2 DEF CallF, ClearF
  <2>3. CASE ClearArg(w)
    BY <1>1, <1>2, <2>1, <2>3 DEF ClearArg
  <2>4. CASE SetWait(w)
    BY <1>1, <1>2, <2>1, <2>4 DEF SetWait
  <2> QED BY <1>10, <2>2, <2>3, <2>4
<1> QED BY <1>3, <1>4, <1>5, <1>6, <1>7, <1>8, <1>9, <1>10 DEF MainStep, WorkerStep

\* A step about w leaves what the invariant says of another worker.
LEMMA OtherWorkers ==
  ASSUME IInv, NEW w \in Workers, NEW v \in Workers, v # w,
         RemoteLaunch(w) \/ WaitLcore(w) \/ MainStep(w) \/ WorkerStep(w)
  PROVE  WorkerInv(v)'
<1> USE DEF config, pipes, history
<1>1. TypeOK /\ WorkerInv(v)
  BY DEF IInv
<1>2. /\ pc'[v] = pc[v] /\ state'[v] = state[v] /\ f'[v] = f[v] /\ arg'[v] = arg[v]
      /\ ret'[v] = ret[v] /\ m2w'[v] = m2w[v] /\ w2m'[v] = w2m[v] /\ local'[v] = local[v]
      /\ launched'[v] = launched[v] /\ finished'[v] = finished[v]
  <2>1. CASE RemoteLaunch(w) \/ WaitLcore(w)
    BY <2>1 DEF RemoteLaunch, WaitLcore
  <2>2. CASE MainStep(w)
    BY <2>2, <1>1 DEF MainStep, StoreArg, StoreF, WakeWorker, ReadAck, Waited, TypeOK
  <2>3. CASE WaitCommand(w) \/ SetRunning(w) \/ AckCommand(w) \/ LoadF(w) \/ LoadArg(w)
    BY <2>3, <1>1 DEF WaitCommand, SetRunning, AckCommand, LoadF, LoadArg, Goto, TypeOK
  <2>4. CASE CallF(w) \/ ClearF(w) \/ ClearArg(w) \/ SetWait(w)
    BY <2>4, <1>1 DEF CallF, ClearF, ClearArg, SetWait, Goto, TypeOK
  <2> QED BY <2>1, <2>2, <2>3, <2>4 DEF WorkerStep
<1>3. \A p \in {"arg", "f", "write", "read"} : MainAt(p, v)' <=> MainAt(p, v)
  <2>1. CASE WorkerStep(w)
    <3>1. main' = main
      BY <2>1 DEF WorkerStep, WaitCommand, SetRunning, AckCommand, LoadF, LoadArg, CallF,
                  ClearF, ClearArg, SetWait
    <3> QED BY <3>1 DEF MainAt
  <2>2. CASE RemoteLaunch(w) \/ WaitLcore(w) \/ MainStep(w)
    <3>1. main = NoCall \/ \E q : MainAt(q, w)
      BY <2>2 DEF RemoteLaunch, WaitLcore, MainStep, StoreArg, StoreF, WakeWorker,
                  ReadAck, Waited
    <3>2. Return \/ \E q : MainGoto(q, w)
      BY <2>2 DEF RemoteLaunch, WaitLcore, MainStep, StoreArg, StoreF, WakeWorker,
                  ReadAck, Waited
    <3>3. \A p \in {"arg", "f", "write", "read"} : ~MainAt(p, v)
      BY <3>1, MainPlaces
    <3>4. \A p \in {"arg", "f", "write", "read"} : ~MainAt(p, v)'
      BY <3>2, MainPlaces
    <3> QED BY <3>3, <3>4
  <2> QED BY <2>1, <2>2
<1>4. /\ Preparing(v)' <=> Preparing(v)
      /\ Busy(v)' <=> Busy(v)
      /\ Job(v)' = Job(v)
  BY <1>2, <1>3 DEF Preparing, Busy, Job
<1>5. Handshake(v)'
  BY <1>1, <1>2, <1>3, <1>4 DEF WorkerInv, Handshake
<1>6. WaitMeansFree(v)' /\ Counted(v)'
  BY <1>1, <1>2, <1>4 DEF WorkerInv, WaitMeansFree, Counted
<1>7. Cells(v)'
  BY <1>1, <1>2, <1>3, <1>4 DEF WorkerInv, Cells
<1> QED BY <1>5, <1>6, <1>7 DEF WorkerInv

\* The steps of the main lcore keep the invariant of the worker they are about.
LEMMA MainSteps ==
  ASSUME IInv, NEW w \in Workers, RemoteLaunch(w) \/ WaitLcore(w) \/ MainStep(w)
  PROVE  WorkerInv(w)'
<1>1. TypeOK /\ WorkerInv(w)
  BY DEF IInv
<1> USE JobsAssumption DEF config, pipes, history
<1>2. ASSUME RemoteLaunch(w) \/ WaitLcore(w)
      PROVE  WorkerInv(w)'
  <2>1. \A p \in {"arg", "f", "write", "read"} : ~MainAt(p, w)
    BY <1>2, MainPlaces DEF RemoteLaunch, WaitLcore
  <2>2. CASE MainGoto("arg", w) /\ state[w] = "WAIT" /\ launched[w] < MaxJobs
             /\ UNCHANGED <<pc, config, pipes, local, history>>
    <3>1. \A p \in {"f", "write", "read"} : ~MainAt(p, w)'
      BY <2>2, MainPlaces
    <3>2. pc[w] = "wait_command" /\ m2w[w] # 1 /\ w2m[w] # 1
      BY <1>1, <2>1, <2>2 DEF WorkerInv, Handshake, WaitMeansFree
    <3> QED BY <1>1, <2>1, <2>2, <3>1, <3>2
            DEF WorkerInv, Handshake, WaitMeansFree, Counted, Cells, Busy, Preparing, Job
  <2>3. CASE (Return \/ MainGoto("spin", w)) /\ UNCHANGED <<pc, config, pipes, local, history>>
    <3>1. \A p \in {"arg", "f", "write", "read"} : ~MainAt(p, w)'
      BY <2>3, MainPlaces
    <3> QED BY <1>1, <2>1, <2>3, <3>1
            DEF WorkerInv, Handshake, WaitMeansFree, Counted, Cells, Busy, Preparing, Job
  <2> QED BY <1>2, <2>2, <2>3 DEF RemoteLaunch, WaitLcore
<1>3. ASSUME StoreArg(w)
      PROVE  WorkerInv(w)'
  <2>1. MainAt("arg", w) /\ MainAt("f", w)'
        /\ (\A p \in {"f", "write", "read"} : ~MainAt(p, w))
        /\ (\A p \in {"arg", "write", "read"} : ~MainAt(p, w)')
    BY <1>3, MainPlaces DEF StoreArg
  <2>2. arg'[w] = launched[w] + 1
    BY <1>1, <1>3 DEF StoreArg, TypeOK
  <2> QED BY <1>1, <1>3, <2>1, <2>2
          DEF StoreArg, WorkerInv, Handshake, WaitMeansFree, Counted, Cells, Busy, Preparing, Job
<1>4. ASSUME StoreF(w)
      PROVE  WorkerInv(w)'
  <2>1. MainAt("f", w) /\ MainAt("write", w)'
        /\ (\A p \in {"arg", "write", "read"} : ~MainAt(p, w))
        /\ (\A p \in {"arg", "f", "read"} : ~MainAt(p, w)')
    BY <1>4, MainPlaces DEF StoreF
  <2>2. f'[w] = launched[w] + 1
    BY <1>1, <1>4 DEF StoreF, TypeOK
  <2> QED BY <1>1, <1>4, <2>1, <2>2
          DEF StoreF, WorkerInv, Handshake, WaitMeansFree, Counted, Cells, Busy, Preparing, Job
<1>5. ASSUME WakeWorker(w)
      PROVE  WorkerInv(w)'
  <2>1. MainAt("write", w) /\ MainAt("read", w)'
        /\ (\A p \in {"arg", "f", "read"} : ~MainAt(p, w))
        /\ (\A p \in {"arg", "f", "write"} : ~MainAt(p, w)')
    BY <1>5, MainPlaces DEF WakeWorker
  <2>2. pc[w] = "wait_command" /\ m2w[w] = 0 /\ w2m[w] = 0
    BY <1>1, <2>1 DEF WorkerInv, Handshake, Preparing, TypeOK
  <2>3. m2w'[w] = 1 /\ launched'[w] = launched[w] + 1
    BY <1>1, <1>5, <2>2 DEF WakeWorker, TypeOK
  <2>4. launched[w] \in Nat /\ finished[w] \in Nat
    BY <1>1 DEF TypeOK
  <2> QED BY <1>1, <1>5, <2>1, <2>2, <2>3, <2>4
          DEF WakeWorker, WorkerInv, Handshake, WaitMeansFree, Counted, Cells, Busy,
              Preparing, Job
<1>6. ASSUME ReadAck(w) \/ Waited(w)
      PROVE  WorkerInv(w)'
  <2>1. (\A p \in {"arg", "f", "write"} : ~MainAt(p, w))
        /\ (\A p \in {"arg", "f", "write", "read"} : ~MainAt(p, w)')
    BY <1>6, MainPlaces DEF ReadAck, Waited
  <2>2. /\ m2w'[w] = m2w[w] /\ m2w[w] = 0 /\ w2m'[w] = 0
        /\ pc[w] \notin {"running", "ack"}
    <3>1. CASE ReadAck(w)
      <4>1. w2m[w] = 1
        BY <1>1, <3>1 DEF ReadAck, TypeOK
      <4> QED BY <1>1, <3>1, <4>1 DEF ReadAck, TypeOK, WorkerInv, Handshake
    <3>2. CASE Waited(w)
      <4>1. ~MainAt("read", w)
        BY <3>2, MainPlaces DEF Waited
      <4> QED BY <1>1, <3>2, <4>1 DEF Waited, TypeOK, WorkerInv, Handshake
    <3> QED BY <1>6, <3>1, <3>2
  <2>3. UNCHANGED <<pc, config, local, launched, finished>>
    BY <1>6 DEF ReadAck, Waited
  <2> QED BY <1>1, <2>1, <2>2, <2>3
          DEF WorkerInv, Handshake, WaitMeansFree, Counted, Cells, Busy, Preparing, Job
<1> QED BY <1>2, <1>3, <1>4, <1>5, <1>6 DEF MainStep

\* The steps of the worker keep it too.
LEMMA WorkerSteps ==
  ASSUME IInv, NEW w \in Workers, WorkerStep(w)
  PROVE  WorkerInv(w)'
<1>1. TypeOK /\ WorkerInv(w)
  BY DEF IInv
<1>2. launched[w] \in Nat /\ finished[w] \in Nat /\ m2w[w] \in 0 .. 1 /\ w2m[w] \in 0 .. 1
  BY <1>1 DEF TypeOK
<1>3. main' = main
  BY DEF WorkerStep, WaitCommand, SetRunning, AckCommand, LoadF, LoadArg, CallF, ClearF,
         ClearArg, SetWait
<1>4. (\A p : MainAt(p, w)' <=> MainAt(p, w)) /\ (Preparing(w)' <=> Preparing(w))
  BY <1>3 DEF MainAt, Preparing
<1>5. Preparing(w) => pc[w] = "wait_command" /\ m2w[w] = 0
  <2>1. Preparing(w) => ~MainAt("read", w)
    BY MainPlaces DEF Preparing
  <2> QED BY <1>1, <1>2, <2>1 DEF WorkerInv, Handshake
<1>6. MainAt("write", w) => Preparing(w)
  BY DEF Preparing
<1>7. MainAt("f", w) => Preparing(w)
  BY DEF Preparing
<1> USE DEF config, pipes, history, At, Goto
<1>8. ASSUME WaitCommand(w)
      PROVE  WorkerInv(w)'
  <2>1. pc[w] = "wait_command" /\ m2w[w] = 1 /\ m2w'[w] = 0 /\ pc'[w] = "running"
    BY <1>1, <1>8 DEF WaitCommand, TypeOK
  <2> QED BY <1>1, <1>4, <1>5, <1>8, <2>1
          DEF WaitCommand, WorkerInv, Handshake, WaitMeansFree, Counted, Cells, Busy, Job
<1>9. ASSUME SetRunning(w)
      PROVE  WorkerInv(w)'
  <2>1. pc[w] = "running" /\ pc'[w] = "ack" /\ state'[w] = "RUNNING"
    BY <1>1, <1>9 DEF SetRunning, TypeOK
  <2> QED BY <1>1, <1>4, <1>5, <1>9, <2>1
          DEF SetRunning, WorkerInv, Handshake, WaitMeansFree, Counted, Cells, Busy, Job
<1>10. ASSUME AckCommand(w)
       PROVE  WorkerInv(w)'
  <2>1. pc[w] = "ack" /\ pc'[w] = "load_f" /\ w2m[w] = 0 /\ w2m'[w] = 1
    BY <1>1, <1>2, <1>10 DEF AckCommand, TypeOK, WorkerInv, Handshake
  <2> QED BY <1>1, <1>4, <1>5, <1>10, <2>1
          DEF AckCommand, WorkerInv, Handshake, WaitMeansFree, Counted, Cells, Busy, Job
<1>11. ASSUME LoadF(w)
       PROVE  WorkerInv(w)'
  <2>1. pc[w] = "load_f" /\ pc'[w] = "load_arg" /\ local'[w].f = f[w]
    BY <1>1, <1>11 DEF LoadF, TypeOK
  <2> QED BY <1>1, <1>4, <1>5, <1>11, <2>1
          DEF LoadF, WorkerInv, Handshake, WaitMeansFree, Counted, Cells, Busy, Job
<1>12. ASSUME LoadArg(w)
       PROVE  WorkerInv(w)'
  <2>1. /\ pc[w] = "load_arg" /\ pc'[w] = "call"
        /\ local'[w].f = local[w].f /\ local'[w].arg = arg[w]
    BY <1>1, <1>12 DEF LoadArg, TypeOK
  <2> QED BY <1>1, <1>4, <1>5, <1>12, <2>1
          DEF LoadArg, WorkerInv, Handshake, WaitMeansFree, Counted, Cells, Busy, Job
<1>13. ASSUME CallF(w)
       PROVE  WorkerInv(w)'
  <2>1. pc[w] = "call" /\ pc'[w] = "clear_f" /\ ret'[w] = local[w].f
    BY <1>1, <1>13 DEF CallF, TypeOK
  <2> QED BY <1>1, <1>4, <1>5, <1>13, <2>1
          DEF CallF, WorkerInv, Handshake, WaitMeansFree, Counted, Cells, Busy, Job
<1>14. ASSUME ClearF(w)
       PROVE  WorkerInv(w)'
  <2>1. pc[w] = "clear_f" /\ pc'[w] = "clear_arg" /\ f'[w] = NULL
    BY <1>1, <1>14 DEF ClearF, TypeOK
  <2> QED BY <1>1, <1>4, <1>5, <1>6, <1>14, <2>1
          DEF ClearF, WorkerInv, Handshake, WaitMeansFree, Counted, Cells, Busy, Job
<1>15. ASSUME ClearArg(w)
       PROVE  WorkerInv(w)'
  <2>1. pc[w] = "clear_arg" /\ pc'[w] = "done" /\ arg'[w] = NULL
    BY <1>1, <1>15 DEF ClearArg, TypeOK
  <2> QED BY <1>1, <1>4, <1>5, <1>6, <1>7, <1>15, <2>1
          DEF ClearArg, WorkerInv, Handshake, WaitMeansFree, Counted, Cells, Busy, Job
<1>16. ASSUME SetWait(w)
       PROVE  WorkerInv(w)'
  <2>1. /\ pc[w] = "done" /\ pc'[w] = "wait_command" /\ state'[w] = "WAIT"
        /\ finished'[w] = local[w].f
    BY <1>1, <1>16 DEF SetWait, TypeOK
  <2>2. m2w[w] = 0
    BY <1>1, <1>2, <2>1 DEF WorkerInv, Handshake
  <2> QED BY <1>1, <1>4, <1>5, <1>6, <1>7, <1>16, <2>1, <2>2
          DEF SetWait, WorkerInv, Handshake, WaitMeansFree, Counted, Cells, Busy, Job
<1> QED BY <1>8, <1>9, <1>10, <1>11, <1>12, <1>13, <1>14, <1>15, <1>16 DEF WorkerStep

\* A step of the system, or a stutter, keeps the whole invariant.
LEMMA StepIInv == IInv /\ [Next]_vars => IInv'
<1> SUFFICES ASSUME IInv, [Next]_vars PROVE IInv'
  OBVIOUS
<1>1. CASE UNCHANGED vars
  <2>1. \A p, w : MainAt(p, w)' <=> MainAt(p, w)
    BY <1>1 DEF vars, MainAt
  <2> QED BY <1>1, <2>1
          DEF vars, config, pipes, history, IInv, TypeOK, WorkerInv, Handshake,
              WaitMeansFree, Counted, Cells, Busy, Preparing, Job
<1>2. ASSUME NEW w \in Workers,
             RemoteLaunch(w) \/ WaitLcore(w) \/ MainStep(w) \/ WorkerStep(w)
      PROVE  IInv'
  <2>1. TypeOK'
    BY <1>2, TypeStep
  <2>2. WorkerInv(w)'
    BY <1>2, MainSteps, WorkerSteps
  <2>3. \A v \in Workers : v # w => WorkerInv(v)'
    BY <1>2, OtherWorkers
  <2> QED BY <2>1, <2>2, <2>3 DEF IInv
<1> QED BY <1>1, <1>2 DEF Next

LEMMA IInvAlways == Spec => []IInv
BY InitIInv, StepIInv, PTL DEF Spec

\* Every cell of lcore_config keeps its type, whatever the number of workers.
THEOREM TypeCorrect == Spec => []TypeOK
<1>1. IInv => TypeOK
  BY DEF IInv
<1> QED BY IInvAlways, <1>1, PTL

\* What a worker calls is the function and the argument of the last launch,
\* although f and arg are plain cells the main lcore fills without a lock.
THEOREM LaunchCorrect == Spec => []RunsWhatWasLaunched
<1>1. IInv => RunsWhatWasLaunched
  <2> SUFFICES ASSUME IInv, NEW w \in Workers, pc[w] = "call"
               PROVE  local[w] = [f |-> launched[w], arg |-> launched[w]]
    BY DEF RunsWhatWasLaunched, At
  <2>1. local[w] \in [f : 0 .. MaxJobs, arg : 0 .. MaxJobs]
    BY DEF IInv, TypeOK
  <2>2. local[w].f = launched[w] /\ local[w].arg = launched[w]
    BY DEF IInv, WorkerInv, Cells
  <2> QED BY <2>1, <2>2
<1> QED BY IInvAlways, <1>1, PTL

\* The initial state is one of the promise.
LEMMA LauncherInit == Init => Launching!Init
BY DEF Init, All, Launching!Init

\* A step is a step of the promise, or none of its variables change.
LEMMA LauncherStep == IInv /\ [Next]_vars => [Launching!Next]_(Launching!vars)
<1> SUFFICES ASSUME IInv, [Next]_vars PROVE [Launching!Next]_(Launching!vars)
  OBVIOUS
<1> USE DEF Launching!vars, history
<1>1. CASE UNCHANGED vars
  BY <1>1 DEF vars
<1>2. ASSUME NEW w \in Workers, RemoteLaunch(w) \/ WaitLcore(w) \/ StoreArg(w) \/ StoreF(w)
                                \/ ReadAck(w)
      PROVE  UNCHANGED history
  BY <1>2 DEF RemoteLaunch, WaitLcore, StoreArg, StoreF, ReadAck
<1>3. ASSUME NEW w \in Workers, WaitCommand(w) \/ SetRunning(w) \/ AckCommand(w) \/ LoadF(w)
                                \/ LoadArg(w) \/ CallF(w) \/ ClearF(w) \/ ClearArg(w)
      PROVE  UNCHANGED history
  BY <1>3 DEF WaitCommand, SetRunning, AckCommand, LoadF, LoadArg, CallF, ClearF, ClearArg
<1>4. ASSUME NEW w \in Workers, WakeWorker(w)
      PROVE  Launching!Launch(w)
  <2>1. pc[w] = "wait_command" /\ m2w[w] # 1 /\ launched[w] < MaxJobs
    <3>1. ~MainAt("read", w) /\ Preparing(w)
      BY <1>4, MainPlaces DEF WakeWorker, Preparing
    <3> QED BY <3>1 DEF IInv, WorkerInv, Handshake
  <2>2. launched[w] = finished[w]
    BY <2>1 DEF IInv, WorkerInv, Counted, Busy
  <2> QED BY <1>4, <2>1, <2>2 DEF WakeWorker, Launching!Launch
<1>5. ASSUME NEW w \in Workers, SetWait(w)
      PROVE  Launching!Finish(w)
  <2>1. pc[w] = "done"
    BY <1>5 DEF SetWait, At
  <2>2. launched[w] = finished[w] + 1 /\ local[w].f = launched[w]
    BY <2>1 DEF IInv, WorkerInv, Counted, Cells, Busy
  <2>3. finished[w] \in Nat
    BY DEF IInv, TypeOK
  <2> QED BY <1>5, <2>2, <2>3 DEF SetWait, Launching!Finish
<1>6. ASSUME NEW w \in Workers, Waited(w)
      PROVE  Launching!Wait(w)
  <2>1. ~MainAt("read", w)
    BY <1>6, MainPlaces DEF Waited
  <2>2. pc[w] = "wait_command" /\ m2w[w] # 1
    BY <1>6, <2>1 DEF Waited, IInv, WorkerInv, Handshake, WaitMeansFree
  <2>3. ~Busy(w)
    BY <2>2 DEF Busy
  <2>4. finished[w] = launched[w] /\ ret[w] = launched[w]
    BY <2>3 DEF IInv, WorkerInv, Counted, Cells
  <2> QED BY <1>6, <2>4 DEF Waited, Launching!Wait
<1> QED BY <1>1, <1>2, <1>3, <1>4, <1>5, <1>6
        DEF Next, MainStep, WorkerStep, Launching!Next

\* The handshake keeps the promise of rte_launch.h: a job is not lost, not
\* run twice and not run before the one before it is finished, and
\* rte_eal_wait_lcore returns the result of the last one.
THEOREM LauncherCorrect == Spec => Launching!Init /\ [][Launching!Next]_(Launching!vars)
BY LauncherInit, LauncherStep, IInvAlways, PTL DEF Spec
=============================================================================
