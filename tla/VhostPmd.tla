----------------------------- MODULE VhostPmd -----------------------------
(***************************************************************************)
(* The queues of drivers/net/vhost.  lcores poll them with eth_vhost_rx and*)
(* eth_vhost_tx, which use the guest's device while allow_queuing is set   *)
(* and say so in while_queuing.  The event thread of lib/vhost tells the   *)
(* driver of devices that come and go and of rings that are enabled; the   *)
(* control thread starts and stops the port.  Both then open and close the *)
(* queues in update_queuing_status, and before a device goes away or the   *)
(* port stops they wait for the pollers.                                   *)
(* rte_atomic32_set is a plain store: a later load of the same thread may  *)
(* pass it (StoreBuffer).                                                  *)
(***************************************************************************)
EXTENDS Integers, Sequences

CONSTANTS
  N,            \* queues, receive queues first
  Pollers,      \* threads that poll a queue
  Serves,       \* the queue each of them polls
  Vids,         \* device ids
  StoreBuffer,  \* stores reach the others later than they are made
  Overlap       \* a call of one thread may begin before one of the other ends

NoVid == -1
Queues == 1 .. N
Threads == {"event", "control"}
BufMax == 2     \* bound: stores of while_queuing a poller has under way

ASSUME VhostAssumption ==
  /\ N \in Nat /\ Serves \in [Pollers -> Queues] /\ Vids \subseteq Nat
  /\ StoreBuffer \in BOOLEAN /\ Overlap \in BOOLEAN

VARIABLES
  started, attached,  \* internal->started, ->dev_attached
  vid,                \* internal->vid
  cur,                \* vring_states[port]->cur, by queue
  allow, busy,        \* allow_queuing and while_queuing of each queue
  qvid,               \* vid of each queue
  call,               \* what each thread is doing
  poll,               \* where each poller is, and the device it uses
  stores, marks,      \* stores of allow_queuing and while_queuing under way
  dev,                \* the device lib/vhost has, until destroy_device returns
  alone,              \* history: no call was under way beside the latest one
  apart,              \* history: since a call that waits ran alone, or the start,
                      \* no two calls overlapped
  strayed             \* history: a thread looked before its own store was seen,
                      \* or two pollers had one queue's mark

port == <<started, attached, vid, cur, qvid, dev>>
past == <<alone, apart, strayed>>
vars == <<port, allow, busy, call, poll, stores, marks, past>>

Call(op, pc, i, on, want) == [op |-> op, pc |-> pc, i |-> i, on |-> on, want |-> want]
NoCall == Call("none", "none", 1, FALSE, FALSE)
Idle == [pc |-> "idle", vid |-> NoVid]

\* eth_dev_vhost_create, eth_rx_queue_setup and eth_tx_queue_setup.
Init ==
  /\ started = FALSE /\ attached = FALSE /\ vid = NoVid
  /\ cur = [q \in Queues |-> FALSE] /\ allow = [q \in Queues |-> FALSE]
  /\ busy = [q \in Queues |-> FALSE] /\ qvid = [q \in Queues |-> 0]
  /\ call = [t \in Threads |-> NoCall] /\ poll = [p \in Pollers |-> Idle]
  /\ stores = [t \in Threads |-> <<>>] /\ marks = [p \in Pollers |-> <<>>]
  /\ dev = NoVid
  /\ alone = TRUE /\ apart = TRUE /\ strayed = FALSE
-----------------------------------------------------------------------------
\* rte_atomic32_set, and the moment the others see it.
SetAllow(t, q, v) ==
  IF StoreBuffer
  THEN stores' = [stores EXCEPT ![t] = Append(@, <<q, v>>)] /\ UNCHANGED allow
  ELSE allow' = [allow EXCEPT ![q] = v] /\ UNCHANGED stores
SetBusy(p, v) ==
  IF StoreBuffer
  THEN /\ Len(marks[p]) < BufMax
       /\ marks' = [marks EXCEPT ![p] = Append(@, v)] /\ UNCHANGED busy
  ELSE busy' = [busy EXCEPT ![Serves[p]] = v] /\ UNCHANGED marks
AllowSeen(t) ==
  /\ stores[t] # <<>>
  /\ allow' = [allow EXCEPT ![Head(stores[t])[1]] = Head(stores[t])[2]]
  /\ stores' = [stores EXCEPT ![t] = Tail(@)]
  /\ UNCHANGED <<port, busy, call, poll, marks, past>>
BusySeen(p) ==
  /\ marks[p] # <<>>
  /\ busy' = [busy EXCEPT ![Serves[p]] = Head(marks[p])]
  /\ marks' = [marks EXCEPT ![p] = Tail(@)]
  /\ UNCHANGED <<port, allow, call, poll, stores, past>>
-----------------------------------------------------------------------------
\* eth_vhost_rx and eth_vhost_tx.
In(p, pc) == poll[p].pc = pc
Go(p, pc) == poll' = [poll EXCEPT ![p].pc = pc]
Allowed(p) == allow[Serves[p]]

\* Mutant of PollTest: allow_queuing is only looked at once, after the mark.
PollTestNot(p) ==
  /\ In(p, "idle") /\ Go(p, "mark")
  /\ UNCHANGED <<port, allow, busy, call, stores, marks, past>>
PollTest(p) ==
  /\ In(p, "idle") /\ Allowed(p)
  /\ Go(p, "mark")
  /\ UNCHANGED <<port, allow, busy, call, stores, marks, past>>
Engaged(p) == poll[p].pc \in {"again", "burst", "clear"} \/ marks[p] # <<>>
Sharing(p) == \E r \in Pollers \ {p} : Serves[r] = Serves[p] /\ Engaged(r)
PollMark(p) ==
  /\ In(p, "mark") /\ Go(p, "again")
  /\ SetBusy(p, TRUE)
  /\ strayed' = (strayed \/ Sharing(p))
  /\ UNCHANGED <<port, allow, call, stores, alone, apart>>
\* rte_vhost_dequeue_burst or _enqueue_burst is called with the queue's vid.
UseDevice(p) == poll' = [poll EXCEPT ![p] = [pc |-> "burst", vid |-> qvid[Serves[p]]]]
PollAgain(p) ==
  /\ In(p, "again")
  /\ IF Allowed(p) THEN UseDevice(p) ELSE Go(p, "clear")
  /\ strayed' = (strayed \/ (Allowed(p) /\ marks[p] # <<>>))
  /\ UNCHANGED <<port, allow, busy, call, stores, marks, alone, apart>>
\* A burst of 32 was full: the loop goes round, and loads the vid again.
PollMore(p) ==
  /\ In(p, "burst") /\ UseDevice(p)
  /\ UNCHANGED <<port, allow, busy, call, stores, marks, past>>
PollDone(p) ==
  /\ In(p, "burst") /\ poll' = [poll EXCEPT ![p] = [pc |-> "clear", vid |-> NoVid]]
  /\ UNCHANGED <<port, allow, busy, call, stores, marks, past>>
PollClear(p) ==
  /\ In(p, "clear") /\ Go(p, "idle")
  /\ SetBusy(p, FALSE)
  /\ UNCHANGED <<port, allow, call, stores, past>>
PollStep(p) == PollTest(p) \/ PollMark(p) \/ PollAgain(p) \/ PollDone(p) \/ PollClear(p)
-----------------------------------------------------------------------------
\* The calls.  A call of a thread begins when the one before is over.
At(t, pc) == call[t].pc = pc
Step(t, pc, i, on, want) == call' = [call EXCEPT ![t] = Call(call[t].op, pc, i, on, want)]
Goto(t, pc) == Step(t, pc, call[t].i, call[t].on, call[t].want)
Begin(t, op, pc) ==
  /\ call[t] = NoCall
  /\ Overlap \/ \A s \in Threads : call[s] = NoCall
  /\ call' = [call EXCEPT ![t] = Call(op, pc, 1, FALSE, FALSE)]
  /\ alone' = \A s \in Threads : call[s] = NoCall
  /\ apart' = (apart /\ alone') /\ UNCHANGED strayed

\* queue_setup.
QueueSetup(v) == qvid' = [q \in Queues |-> v]

\* new_device: the ids first, if the port is started.
NewDevice(v) ==
  /\ dev = NoVid /\ Begin("event", "new", "attach")
  /\ dev' = v /\ vid' = v
  /\ IF started THEN QueueSetup(v) ELSE UNCHANGED qvid
  /\ UNCHANGED <<started, attached, cur, allow, busy, poll, stores, marks>>
Attach ==
  /\ At("event", "attach") /\ Goto("event", "started")
  /\ attached' = TRUE
  /\ UNCHANGED <<started, vid, cur, qvid, dev, allow, busy, poll, stores, marks, past>>

DestroyDevice ==
  /\ dev # NoVid /\ Begin("event", "destroy", "started")
  /\ attached' = FALSE
  /\ UNCHANGED <<started, vid, cur, qvid, dev, allow, busy, poll, stores, marks>>

\* Mutant of VringStateChanged: the queues are not updated.
VringStateChangedOnly(q, enable) ==
  /\ cur[q] # enable /\ Begin("event", "vring", "return")
  /\ cur' = [cur EXCEPT ![q] = enable]
  /\ UNCHANGED <<started, attached, vid, qvid, dev, allow, busy, poll, stores, marks>>
\* vring_state_changed; there is nothing to do if the ring is in that state.
VringStateChanged(q, enable) ==
  /\ cur[q] # enable /\ Begin("event", "vring", "started")
  /\ cur' = [cur EXCEPT ![q] = enable]
  /\ UNCHANGED <<started, attached, vid, qvid, dev, allow, busy, poll, stores, marks>>

\* Mutant of DevStart: the queues keep the ids they have.
DevStartOldIds ==
  /\ ~started /\ Begin("control", "start", "start")
  /\ UNCHANGED <<port, allow, busy, poll, stores, marks>>
DevStart ==
  /\ ~started /\ Begin("control", "start", "start")
  /\ QueueSetup(vid)
  /\ UNCHANGED <<started, attached, vid, cur, dev, allow, busy, poll, stores, marks>>
SetStarted ==
  /\ At("control", "start") /\ Goto("control", "started")
  /\ started' = TRUE
  /\ UNCHANGED <<attached, vid, cur, qvid, dev, allow, busy, poll, stores, marks, past>>
DevStop ==
  /\ started /\ Begin("control", "stop", "started")
  /\ started' = FALSE
  /\ UNCHANGED <<attached, vid, cur, qvid, dev, allow, busy, poll, stores, marks>>
-----------------------------------------------------------------------------
\* update_queuing_status(dev, wait_queuing).
Waits(t) == call[t].op \in {"destroy", "stop"}

LoadStarted(t) ==
  /\ At(t, "started") /\ Goto(t, IF started THEN "attached" ELSE "queue")
  /\ UNCHANGED <<port, allow, busy, poll, stores, marks, past>>
LoadAttached(t) ==
  /\ At(t, "attached")
  /\ Step(t, "queue", call[t].i, attached, FALSE)
  /\ UNCHANGED <<port, allow, busy, poll, stores, marks, past>>

\* Each queue in turn.
LoadCur(t) ==
  /\ At(t, "queue") /\ call[t].i <= N
  /\ Step(t, "store", call[t].i, call[t].on, call[t].on /\ cur[call[t].i])
  /\ UNCHANGED <<port, allow, busy, poll, stores, marks, past>>
NextQueue(t) == Step(t, "queue", call[t].i + 1, call[t].on, FALSE)
StoreAllow(t) ==
  /\ At(t, "store")
  /\ SetAllow(t, call[t].i, call[t].want)
  /\ IF Waits(t) THEN Step(t, "wait", call[t].i, call[t].on, FALSE) ELSE NextQueue(t)
  /\ UNCHANGED <<port, busy, poll, marks, past>>
\* Mutant of WaitQueue: the pollers of the queue are not waited for.
WaitQueueNot(t) ==
  /\ At(t, "wait") /\ NextQueue(t)
  /\ strayed' = (strayed \/ stores[t] # <<>>)
  /\ UNCHANGED <<port, allow, busy, poll, stores, marks, alone, apart>>
WaitQueue(t) ==
  /\ At(t, "wait") /\ ~busy[call[t].i] /\ NextQueue(t)
  /\ strayed' = (strayed \/ stores[t] # <<>>)
  /\ UNCHANGED <<port, allow, busy, poll, stores, marks, alone, apart>>
UpdateDone(t) ==
  /\ At(t, "queue") /\ call[t].i > N
  /\ LET pc == IF call[t].op = "destroy" THEN "reset" ELSE "return"
     IN  Step(t, pc, call[t].i, FALSE, FALSE)
  /\ UNCHANGED <<port, allow, busy, poll, stores, marks, past>>

\* The rest of destroy_device.  Taking the lock of vring_states orders the
\* stores before it.
ResetDevice ==
  /\ At("event", "reset") /\ stores["event"] = <<>> /\ Goto("event", "return")
  /\ QueueSetup(NoVid)
  /\ cur' = [q \in Queues |-> FALSE]
  /\ UNCHANGED <<started, attached, vid, dev, allow, busy, poll, stores, marks, past>>

\* Two calls that do not overlap are ordered by something, as the callbacks of
\* the port are by a lock: the stores of the first are seen.
Return(t) ==
  /\ At(t, "return") /\ stores[t] = <<>>
  /\ call' = [call EXCEPT ![t] = NoCall]
  /\ dev' = IF call[t].op = "destroy" THEN NoVid ELSE dev
  /\ apart' = (apart \/ (alone /\ Waits(t)))
  /\ UNCHANGED <<started, attached, vid, cur, qvid, allow, busy, poll, stores, marks,
                 alone, strayed>>

CallStep(t) ==
  \/ t = "event" /\ (Attach \/ ResetDevice)
  \/ t = "control" /\ SetStarted
  \/ LoadStarted(t) \/ LoadAttached(t) \/ LoadCur(t) \/ StoreAllow(t) \/ WaitQueue(t)
  \/ UpdateDone(t) \/ Return(t)
-----------------------------------------------------------------------------
Next ==
  \/ \E p \in Pollers : PollStep(p) \/ PollMore(p) \/ BusySeen(p)
  \/ \E t \in Threads : CallStep(t) \/ AllowSeen(t)
  \/ \E v \in Vids : NewDevice(v)
  \/ \E q \in Queues, enable \in BOOLEAN : VringStateChanged(q, enable)
  \/ DestroyDevice \/ DevStart \/ DevStop

\* A thread goes on as long as it can, or a store of it reaches the others; no
\* more is needed: a burst ends, but new ones may begin for ever.
Fairness ==
  /\ \A p \in Pollers : WF_vars(PollStep(p) \/ BusySeen(p))
  /\ \A t \in Threads : WF_vars(CallStep(t) \/ AllowSeen(t))
Spec == Init /\ [][Next]_vars /\ Fairness
-----------------------------------------------------------------------------
CallType ==
  [op : {"none", "new", "destroy", "vring", "start", "stop"},
   pc : {"none", "attach", "start", "started", "attached", "queue", "store", "wait", "reset",
         "return"},
   i : 1 .. N + 1, on : BOOLEAN, want : BOOLEAN]
PollType ==
  [pc : {"idle", "mark", "again", "burst", "clear"}, vid : Vids \cup {NoVid, 0}]
TypeOK ==
  /\ started \in BOOLEAN /\ attached \in BOOLEAN /\ {vid, dev} \subseteq Vids \cup {NoVid}
  /\ cur \in [Queues -> BOOLEAN] /\ allow \in [Queues -> BOOLEAN]
  /\ busy \in [Queues -> BOOLEAN] /\ qvid \in [Queues -> Vids \cup {NoVid, 0}]
  /\ call \in [Threads -> CallType] /\ poll \in [Pollers -> PollType]
  /\ stores \in [Threads -> Seq(Queues \X BOOLEAN)] /\ marks \in [Pollers -> Seq(BOOLEAN)]
  /\ \A t \in Threads : Len(stores[t]) <= N
  /\ alone \in BOOLEAN /\ apart \in BOOLEAN /\ strayed \in BOOLEAN

\* "destroy_device waits for queues to be inactive, so it is safe"
\* (vhost_user.c): a burst is only ever under way on the device the library
\* has; it is not freed under a poller, and no id of an earlier one is used.
BurstOnDevice == \A p \in Pollers : In(p, "burst") => poll[p].vid = dev /\ dev # NoVid

\* And so it is unless calls overlapped and no call that waits has run alone
\* since, a poller or a waiting call looked at the other's flag before its own
\* store was seen, or two pollers had one while_queuing: nothing else can break
\* the handshake of eth_vhost_rx and update_queuing_status.
BurstUndisturbed == apart /\ ~strayed => BurstOnDevice

\* Whatever overlapped before, one call that runs alone puts every queue right:
\* it is open exactly if the port is started, a device is attached and its ring
\* is enabled.  No update of a call that runs alone is lost or undone later.
AllowedRight ==
  alone /\ (\A t \in Threads : call[t] = NoCall) =>
    \A q \in Queues : allow[q] <=> started /\ attached /\ cur[q]

\* While a queue is open it has the id of the device the library has, however
\* the device came, before or after the port was started.  Overlapping calls
\* may break it, until a stop or a destroy_device runs alone.
OpenOnDevice == apart => \A q \in Queues : allow[q] => qvid[q] = dev /\ dev # NoVid

\* update_queuing_status that waits comes to an end although the pollers go on
\* polling, if no other call overlaps: a closed queue is not marked again.
CallsReturn ==
  (\E t \in Threads : call[t] # NoCall) ~> (\A t \in Threads : call[t] = NoCall) \/ ~alone
=============================================================================
