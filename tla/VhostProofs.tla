----------------------------- MODULE VhostProofs -----------------------------
(***************************************************************************)
(* Theorems of VhostPmd, for any number of queues, pollers and devices,    *)
(* whether calls overlap or not and stores are seen late or at once.       *)
(*                                                                         *)
(* The first part is about update_queuing_status: a call that runs alone   *)
(* leaves every queue right, whatever overlapped before it.  The second    *)
(* part is about the handshake with the pollers: unless it is disturbed in *)
(* one of three ways, no burst is under way on a device that is gone.      *)
(***************************************************************************)
EXTENDS VhostPmd, SequenceTheorems, TLAPS

Idling(t) == call[t] = NoCall
InCall(t, ops) == ~Idling(t) /\ call[t].op \in ops

\* The queues update_queuing_status of t has stored.
Passed(t) == IF At(t, "wait") THEN call[t].i ELSE call[t].i - 1

\* Each call is where its operation can be, and has no more stores under way
\* than it has made: a thread that is in no call has none.
Ops(t) == IF t = "event" THEN {"new", "destroy", "vring"} ELSE {"start", "stop"}
Shape(t) ==
  /\ call[t].op = "none" => Idling(t)
  /\ ~Idling(t) => call[t].op \in Ops(t)
  /\ At(t, "attach") => call[t].op = "new"
  /\ At(t, "start") => call[t].op = "start"
  /\ At(t, "reset") => call[t].op = "destroy"
  /\ At(t, "wait") => Waits(t)
  /\ call[t].pc \in {"store", "wait"} => call[t].i \in Queues
  /\ call[t].pc \in {"none", "attach", "start", "started", "attached"} => call[t].i = 1
  /\ call[t].pc \in {"attach", "start", "started"} => ~call[t].on
  /\ call[t].pc \in {"reset", "return"} => call[t].i > N
  /\ Len(stores[t]) <= Passed(t)

\* The device, which only the event thread changes, and the state of the port,
\* which only the control thread changes.
Devices ==
  /\ attached => dev # NoVid
  /\ dev # NoVid => vid = dev
  /\ InCall("event", {"new"}) => dev # NoVid
  /\ InCall("event", {"destroy"}) => dev # NoVid /\ ~attached
  /\ InCall("control", {"stop"}) => ~started

\* What a queue should be, and that it is so or soon will be.
Right(q) == started /\ attached /\ cur[q]
Settled(t, q) == (allow[q] <=> Right(q)) \/ \E k \in DOMAIN stores[t] : stores[t][k][1] = q

\* A call that runs alone: what it loaded is still so, the queues it has passed
\* are settled, and no store under way is wrong.
LoadedRight(t) ==
  /\ At(t, "attached") => started
  /\ call[t].pc \in {"queue", "store", "wait"} => (call[t].on <=> started /\ attached)
  /\ At(t, "store") => (call[t].want <=> Right(call[t].i))
QueuesSettled(t) == \A q \in Queues : q <= Passed(t) => Settled(t, q)
StoresRight(t) == \A k \in DOMAIN stores[t] : stores[t][k][2] <=> Right(stores[t][k][1])
Passes(t) == LoadedRight(t) /\ QueuesSettled(t) /\ StoresRight(t)
Solo == (Idling("event") \/ Idling("control")) /\ \A t \in Threads : Passes(t)

\* The ids, from the moment on the port is started or starting.
Ids ==
  (started \/ InCall("control", {"start"})) /\ dev # NoVid
    /\ ~(InCall("event", {"destroy"}) /\ At("event", "return"))
  => \A q \in Queues : qvid[q] = dev

Basic == TypeOK /\ (\A t \in Threads : Shape(t)) /\ Devices
Past == (apart => alone) /\ (alone => Solo) /\ (apart => Ids)
Inv == Basic /\ Past /\ AllowedRight /\ OpenOnDevice
-----------------------------------------------------------------------------

LEMMA InitInv == Init => Inv
<1> SUFFICES ASSUME Init PROVE Inv
  OBVIOUS
<1> USE VhostAssumption DEF Init, NoCall, Call, Idle, NoVid
<1>1. TypeOK
  <2>1. NoCall \in CallType /\ Idle \in PollType
    BY DEF CallType, PollType
  <2>2. qvid \in [Queues -> Vids \cup {NoVid, 0}]
    OBVIOUS
  <2>3. call \in [Threads -> CallType] /\ poll \in [Pollers -> PollType]
    BY <2>1
  <2>4. /\ stores \in [Threads -> Seq(Queues \X BOOLEAN)] /\ marks \in [Pollers -> Seq(BOOLEAN)]
        /\ \A t \in Threads : Len(stores[t]) <= N
    OBVIOUS
  <2>5. QED BY <2>2, <2>3, <2>4 DEF TypeOK
<1>2. /\ \A t \in Threads : Idling(t) /\ call[t].pc = "none" /\ call[t].i = 1 /\ stores[t] = <<>>
      /\ \A q \in Queues : ~allow[q]
  BY DEF Idling
<1>3. \A t \in Threads : Shape(t)
  BY <1>2 DEF Shape, Passed, At
<1>4. Devices /\ Ids /\ OpenOnDevice /\ AllowedRight
  BY <1>2 DEF Devices, Ids, OpenOnDevice, AllowedRight, InCall, At, Threads
<1>5. Solo
  BY <1>2 DEF Solo, Passes, LoadedRight, QueuesSettled, StoresRight, Passed, At, Queues, Threads
<1>6. QED BY <1>1, <1>3, <1>4, <1>5 DEF Inv, Basic, Past

\* The place a call goes to.
LEMMA CallMade ==
  ASSUME NEW op \in {"none", "new", "destroy", "vring", "start", "stop"},
         NEW pc \in {"none", "attach", "start", "started", "attached", "queue", "store", "wait",
                     "reset", "return"},
         NEW i \in 1 .. N + 1, NEW on \in BOOLEAN, NEW want \in BOOLEAN
  PROVE  /\ Call(op, pc, i, on, want) \in CallType
         /\ Call(op, pc, i, on, want).op = op /\ Call(op, pc, i, on, want).pc = pc
         /\ Call(op, pc, i, on, want).i = i
         /\ Call(op, pc, i, on, want).on = on /\ Call(op, pc, i, on, want).want = want
<1>1. Call(op, pc, i, on, want) \in CallType
  BY DEF Call, CallType
<1>2. QED BY <1>1, Zenon DEF Call

LEMMA NoCallMade ==
  NoCall \in CallType /\ NoCall.op = "none" /\ NoCall.pc = "none" /\ NoCall.i = 1
    /\ NoCall.on = FALSE /\ NoCall.want = FALSE
<1>1. 1 \in 1 .. N + 1
  BY VhostAssumption
<1>2. QED BY <1>1 DEF NoCall, Call, CallType

\* A thread that is not in a call has nothing under way.
LEMMA IdleEmpty ==
  ASSUME Basic, NEW t \in Threads, Idling(t)
  PROVE  /\ stores[t] = <<>> /\ call[t].pc = "none" /\ call[t].op = "none" /\ call[t].i = 1
<1>1. call[t].pc = "none" /\ call[t].i = 1 /\ call[t].op = "none"
  BY NoCallMade DEF Idling
<1>2. Len(stores[t]) <= 0 /\ stores[t] \in Seq(Queues \X BOOLEAN)
  BY <1>1 DEF Basic, TypeOK, Shape, Passed, At
<1>3. QED BY <1>1, <1>2

\* What a thread that is not in a call has passed.
LEMMA IdlePasses ==
  ASSUME NEW t \in Threads, Idling(t), stores[t] = <<>> PROVE Passes(t)
<1>1. call[t].pc = "none" /\ call[t].i = 1
  BY NoCallMade DEF Idling
<1>2. Passed(t) = 0
  BY <1>1 DEF Passed, At
<1>3. QED BY <1>1, <1>2 DEF Passes, LoadedRight, QueuesSettled, StoresRight, At, Queues

\* A thread that does nothing keeps its shape.
LEMMA SameShape ==
  ASSUME NEW t \in Threads, Shape(t), call'[t] = call[t], stores'[t] = stores[t]
  PROVE  Shape(t)'
BY DEF Shape, Passed, At, Waits, Idling, Ops

\* A call begins.  If it begins alone, no other is under way.
LEMMA Begun ==
  ASSUME Inv, NEW t \in Threads, NEW op \in {"new", "destroy", "vring", "start", "stop"},
         NEW pc \in {"attach", "start", "started"}, Begin(t, op, pc), UNCHANGED stores
  PROVE  /\ Idling(t) /\ ~Idling(t)' /\ call' \in [Threads -> CallType]
         /\ call'[t] \in CallType /\ call'[t].op = op /\ call'[t].pc = pc /\ call'[t].i = 1
         /\ call'[t].on = FALSE /\ call'[t].want = FALSE
         /\ \A s \in Threads : s # t => call'[s] = call[s] /\ (Idling(s)' <=> Idling(s))
         /\ alone' \in BOOLEAN /\ apart' \in BOOLEAN /\ strayed' = strayed
         /\ alone' => \A s \in Threads : Idling(s)
         /\ apart' => alone' /\ apart
         /\ \A s \in Threads : s # t => Shape(s)'
         /\ Len(stores'[t]) <= Passed(t)'
         /\ AllowedRight'
         /\ alone' => Solo'
<1> DEFINE c == Call(op, pc, 1, FALSE, FALSE)
<1>1. 1 \in 1 .. N + 1
  BY VhostAssumption
<1>2. /\ c \in CallType /\ c.op = op /\ c.pc = pc /\ c.i = 1 /\ c.on = FALSE /\ c.want = FALSE
  <2>1. c \in CallType
    BY <1>1 DEF Call, CallType
  <2>2. c.op = op /\ c.pc = pc /\ c.i = 1 /\ c.on = FALSE /\ c.want = FALSE
    BY Zenon DEF Call
  <2>3. QED BY <2>1, <2>2
<1>3. c # NoCall
  BY DEF NoCall, Call
<1>4. /\ call' = [call EXCEPT ![t] = c] /\ call[t] = NoCall
      /\ alone' = (\A s \in Threads : call[s] = NoCall) /\ apart' = (apart /\ alone')
      /\ strayed' = strayed
  BY DEF Begin
<1> HIDE DEF c
<1>5. call' \in [Threads -> CallType] /\ call'[t] = c
      /\ \A s \in Threads : s # t => call'[s] = call[s]
  BY <1>2, <1>4 DEF Inv, Basic, TypeOK
<1>6. /\ Idling(t) /\ ~Idling(t)' /\ \A s \in Threads : s # t => (Idling(s)' <=> Idling(s))
  BY <1>3, <1>4, <1>5 DEF Idling
<1>7. /\ alone' \in BOOLEAN /\ apart' \in BOOLEAN
      /\ alone' => \A s \in Threads : Idling(s)
      /\ apart' => alone' /\ apart
  BY <1>4 DEF Idling
<1>8. \A s \in Threads : s # t => Shape(s)'
  BY <1>5, SameShape DEF Inv, Basic
<1>9. stores'[t] = <<>> /\ Passed(t)' = 0
  BY <1>2, <1>5, <1>6, IdleEmpty DEF Passed, At, Inv
<1>10. AllowedRight'
  BY <1>6 DEF AllowedRight, Idling
<1>11. ASSUME alone' PROVE Solo'
  <2>1. \A s \in Threads : stores'[s] = <<>>
    BY <1>7, <1>11, IdleEmpty DEF Inv
  <2>2. \A s \in Threads : s # t => Idling(s)'
    BY <1>6, <1>7, <1>11
  <2>3. ASSUME NEW s \in Threads PROVE Passes(s)'
    <3>1. CASE s = t
      BY <1>2, <1>5, <1>9, <3>1 DEF Passes, LoadedRight, QueuesSettled, StoresRight, At, Queues
    <3>2. CASE s # t
      <4>1. call'[s].pc = "none" /\ call'[s].i = 1
        BY <2>2, <3>2, NoCallMade DEF Idling
      <4>2. Passed(s)' = 0
        BY <4>1 DEF Passed, At
      <4>3. QED BY <2>1, <4>1, <4>2 DEF Passes, LoadedRight, QueuesSettled, StoresRight, At,
         Queues
    <3>3. QED BY <3>1, <3>2
  <2>4. QED BY <2>2, <2>3 DEF Solo, Threads
<1>12. QED BY <1>2, <1>5, <1>6, <1>7, <1>8, <1>9, <1>10, <1>11, <1>4

LEMMA NewDeviceInv == ASSUME Inv, NEW v \in Vids, NewDevice(v) PROVE Inv'
<1> USE VhostAssumption DEF Inv, Basic, Past
<1>1. /\ dev = NoVid /\ dev' = v /\ vid' = v /\ v # NoVid
      /\ qvid' = IF started THEN [q \in Queues |-> v] ELSE qvid
      /\ UNCHANGED <<started, attached, cur, allow, busy, poll, stores, marks>>
      /\ Begin("event", "new", "attach")
  BY DEF NewDevice, QueueSetup, NoVid
<1>2. /\ Idling("event") /\ ~Idling("event")' /\ call' \in [Threads -> CallType]
      /\ call'["event"].op = "new" /\ call'["event"].pc = "attach" /\ call'["event"].i = 1
      /\ call'["event"].on = FALSE
      /\ call'["control"] = call["control"] /\ (Idling("control")' <=> Idling("control"))
      /\ alone' \in BOOLEAN /\ apart' \in BOOLEAN /\ strayed' = strayed
      /\ alone' => Idling("control") /\ Solo'
      /\ apart' => alone' /\ apart
      /\ Shape("control")' /\ Len(stores'["event"]) <= Passed("event")' /\ AllowedRight'
  BY <1>1, Begun DEF Threads
<1>3. ~attached /\ v \in Vids \cup {NoVid, 0}
  BY <1>1 DEF Devices
<1>4. TypeOK'
  BY <1>1, <1>2, <1>3 DEF TypeOK
<1>5. Shape("event")'
  BY <1>2 DEF Shape, Ops, At, Waits
<1>6. Devices'
  BY <1>1, <1>2, <1>3 DEF Devices, InCall
<1>7. apart' => Ids'
  BY <1>1, <1>2 DEF Ids, InCall, Idling, NoCall, Call
<1>8. OpenOnDevice'
  BY <1>1, <1>2 DEF OpenOnDevice
<1>9. QED BY <1>2, <1>4, <1>5, <1>6, <1>7, <1>8 DEF Threads

LEMMA DestroyDeviceInv == ASSUME Inv, DestroyDevice PROVE Inv'
<1> USE DEF Inv, Basic, Past
<1>1. /\ dev # NoVid /\ attached' = FALSE
      /\ UNCHANGED <<started, vid, cur, qvid, dev, allow, busy, poll, stores, marks>>
      /\ Begin("event", "destroy", "started")
  BY DEF DestroyDevice
<1>2. /\ Idling("event") /\ ~Idling("event")' /\ call' \in [Threads -> CallType]
      /\ call'["event"].op = "destroy" /\ call'["event"].pc = "started" /\ call'["event"].i = 1
      /\ call'["event"].on = FALSE
      /\ call'["control"] = call["control"] /\ (Idling("control")' <=> Idling("control"))
      /\ alone' \in BOOLEAN /\ apart' \in BOOLEAN /\ strayed' = strayed
      /\ alone' => Idling("control") /\ Solo'
      /\ apart' => alone' /\ apart
      /\ Shape("control")' /\ Len(stores'["event"]) <= Passed("event")' /\ AllowedRight'
  BY <1>1, Begun DEF Threads
<1>3. TypeOK' /\ OpenOnDevice'
  BY <1>1, <1>2 DEF TypeOK, OpenOnDevice
<1>4. Shape("event")'
  BY <1>2 DEF Shape, Ops, At, Waits
<1>5. Devices' /\ (apart' => Ids')
  BY <1>1, <1>2 DEF Devices, Ids, InCall, At
<1>6. QED BY <1>2, <1>3, <1>4, <1>5 DEF Threads

LEMMA VringStateChangedInv ==
  ASSUME Inv, NEW q \in Queues, NEW enable \in BOOLEAN, VringStateChanged(q, enable)
  PROVE  Inv'
<1> USE DEF Inv, Basic, Past
<1>1. /\ cur' = [cur EXCEPT ![q] = enable]
      /\ UNCHANGED <<started, attached, vid, qvid, dev, allow, busy, poll, stores, marks>>
      /\ Begin("event", "vring", "started")
  BY DEF VringStateChanged
<1>2. /\ Idling("event") /\ ~Idling("event")' /\ call' \in [Threads -> CallType]
      /\ call'["event"].op = "vring" /\ call'["event"].pc = "started" /\ call'["event"].i = 1
      /\ call'["event"].on = FALSE
      /\ call'["control"] = call["control"] /\ (Idling("control")' <=> Idling("control"))
      /\ alone' \in BOOLEAN /\ apart' \in BOOLEAN /\ strayed' = strayed
      /\ alone' => Idling("control") /\ Solo'
      /\ apart' => alone' /\ apart
      /\ Shape("control")' /\ Len(stores'["event"]) <= Passed("event")' /\ AllowedRight'
  BY <1>1, Begun DEF Threads
<1>3. TypeOK' /\ OpenOnDevice'
  <2>1. cur' \in [Queues -> BOOLEAN]
    <3>1. CASE enable = TRUE BY <1>1, <3>1 DEF TypeOK
    <3>2. CASE enable = FALSE BY <1>1, <3>2 DEF TypeOK
    <3>3. QED BY <3>1, <3>2
  <2>2. QED BY <1>1, <1>2, <2>1 DEF TypeOK, OpenOnDevice
<1>4. Shape("event")'
  BY <1>2 DEF Shape, Ops, At, Waits
<1>5. Devices' /\ (apart' => Ids')
  BY <1>1, <1>2 DEF Devices, Ids, InCall, At
<1>6. QED BY <1>2, <1>3, <1>4, <1>5 DEF Threads

LEMMA DevStartInv == ASSUME Inv, DevStart PROVE Inv'
<1> USE DEF Inv, Basic, Past
<1>1. /\ ~started /\ qvid' = [q \in Queues |-> vid]
      /\ UNCHANGED <<started, attached, vid, cur, dev, allow, busy, poll, stores, marks>>
      /\ Begin("control", "start", "start")
  BY DEF DevStart, QueueSetup
<1>2. /\ Idling("control") /\ ~Idling("control")' /\ call' \in [Threads -> CallType]
      /\ call'["control"].op = "start" /\ call'["control"].pc = "start"
      /\ call'["control"].i = 1 /\ call'["control"].on = FALSE
      /\ call'["event"] = call["event"] /\ (Idling("event")' <=> Idling("event"))
      /\ alone' \in BOOLEAN /\ apart' \in BOOLEAN /\ strayed' = strayed
      /\ alone' => Idling("event") /\ Solo'
      /\ apart' => alone' /\ apart
      /\ Shape("event")' /\ Len(stores'["control"]) <= Passed("control")' /\ AllowedRight'
  BY <1>1, Begun DEF Threads
<1>3. TypeOK'
  BY <1>1, <1>2 DEF TypeOK
<1>4. Shape("control")'
  BY <1>2 DEF Shape, Ops, At, Waits
<1>5. Devices' /\ (apart' => Ids') /\ OpenOnDevice'
  BY <1>1, <1>2 DEF Devices, Ids, OpenOnDevice, InCall, At
<1>6. QED BY <1>2, <1>3, <1>4, <1>5 DEF Threads

LEMMA DevStopInv == ASSUME Inv, DevStop PROVE Inv'
<1> USE DEF Inv, Basic, Past
<1>1. /\ started /\ started' = FALSE
      /\ UNCHANGED <<attached, vid, cur, qvid, dev, allow, busy, poll, stores, marks>>
      /\ Begin("control", "stop", "started")
  BY DEF DevStop
<1>2. /\ Idling("control") /\ ~Idling("control")' /\ call' \in [Threads -> CallType]
      /\ call'["control"].op = "stop" /\ call'["control"].pc = "started"
      /\ call'["control"].i = 1 /\ call'["control"].on = FALSE
      /\ call'["event"] = call["event"] /\ (Idling("event")' <=> Idling("event"))
      /\ alone' \in BOOLEAN /\ apart' \in BOOLEAN /\ strayed' = strayed
      /\ alone' => Idling("event") /\ Solo'
      /\ apart' => alone' /\ apart
      /\ Shape("event")' /\ Len(stores'["control"]) <= Passed("control")' /\ AllowedRight'
  BY <1>1, Begun DEF Threads
<1>3. TypeOK' /\ OpenOnDevice'
  BY <1>1, <1>2 DEF TypeOK, OpenOnDevice
<1>4. Shape("control")'
  BY <1>2 DEF Shape, Ops, At, Waits
<1>5. Devices' /\ (apart' => Ids')
  BY <1>1, <1>2 DEF Devices, Ids, InCall, At
<1>6. QED BY <1>2, <1>3, <1>4, <1>5 DEF Threads

\* What a step of a call is, for the lemmas below.
LEMMA Stepped ==
  ASSUME Inv, NEW t \in Threads, NEW i \in 1 .. N + 1, NEW on \in BOOLEAN, NEW want \in BOOLEAN,
         NEW pc \in {"none", "attach", "start", "started", "attached", "queue", "store", "wait",
                     "reset", "return"},
         Step(t, pc, i, on, want), call[t].pc # "none"
  PROVE  /\ call' \in [Threads -> CallType]
         /\ call'[t] \in CallType /\ call'[t].op = call[t].op /\ call'[t].pc = pc
         /\ call'[t].i = i /\ call'[t].on = on /\ call'[t].want = want
         /\ \A s \in Threads : s # t => call'[s] = call[s]
         /\ \A s \in Threads : (Idling(s)' <=> Idling(s)) /\ call'[s].op = call[s].op
         /\ ~Idling(t) /\ ~Idling(t)'
         /\ alone => \A s \in Threads : s # t => Idling(s) /\ Idling(s)'
<1> USE DEF Inv, Basic, Past
<1> DEFINE c == Call(call[t].op, pc, i, on, want)
<1>1. call[t] \in CallType
  BY DEF TypeOK
<1>2. call[t].op \in {"none", "new", "destroy", "vring", "start", "stop"}
  BY <1>1 DEF CallType
<1>3. /\ c \in CallType /\ c.op = call[t].op /\ c.pc = pc /\ c.i = i /\ c.on = on
      /\ c.want = want
  BY <1>2, CallMade
<1>4. ~Idling(t)
  BY NoCallMade DEF Idling
<1>5. call[t].op # "none"
  BY <1>4 DEF Shape
<1>6. c # NoCall
  BY <1>3, <1>5, NoCallMade
<1>7. call' = [call EXCEPT ![t] = c]
  BY DEF Step
<1> HIDE DEF c
<1>8. /\ call' \in [Threads -> CallType] /\ call'[t] = c
      /\ \A s \in Threads : s # t => call'[s] = call[s]
      /\ \A s \in Threads : call'[s].op = call[s].op
  BY <1>3, <1>7 DEF TypeOK
<1>9. \A s \in Threads : Idling(s)' <=> Idling(s)
  BY <1>4, <1>6, <1>8 DEF Idling
<1>10. alone => \A s \in Threads : s # t => Idling(s)
  BY <1>4 DEF Solo, Threads
<1>11. QED BY <1>3, <1>4, <1>8, <1>9, <1>10

\* What the thread that is not in a call has passed stays so.
LEMMA OtherPasses ==
  ASSUME Basic, NEW t \in Threads,
         \A s \in Threads : s # t => call'[s] = call[s] /\ Idling(s) /\ stores'[s] = stores[s]
  PROVE  \A s \in Threads : s # t => Passes(s)'
<1> SUFFICES ASSUME NEW s \in Threads, s # t PROVE Passes(s)'
  OBVIOUS
<1>1. stores'[s] = <<>>
  BY IdleEmpty
<1>2. call'[s].pc = "none" /\ call'[s].i = 1
  BY NoCallMade DEF Idling
<1>3. Passed(s)' = 0
  BY <1>2 DEF Passed, At
<1>4. QED
  BY <1>1, <1>2, <1>3 DEF Passes, LoadedRight, QueuesSettled, StoresRight, At, Queues

\* What t has passed stays so if neither the queues nor what they should be
\* change and it passes no other.
LEMMA SamePasses ==
  ASSUME NEW t \in Threads, Passes(t), UNCHANGED <<started, attached, cur, allow, stores>>,
         Passed(t)' = Passed(t), LoadedRight(t)'
  PROVE  Passes(t)'
<1>1. QueuesSettled(t)'
  BY DEF Passes, QueuesSettled, Settled, Right
<1>2. StoresRight(t)'
  BY DEF Passes, StoresRight, Right
<1>3. QED BY <1>1, <1>2 DEF Passes

\* A thread in a call.
LEMMA InUpdate ==
  ASSUME Basic, NEW t \in Threads
  PROVE  /\ call[t] \in CallType /\ call[t].i \in 1 .. N + 1 /\ N \in Nat
         /\ call[t].on \in BOOLEAN /\ call[t].want \in BOOLEAN
         /\ call[t].op # "destroy" \/ t = "event"
<1> USE DEF Basic
<1>1. call[t] \in CallType /\ N \in Nat
  BY VhostAssumption DEF TypeOK
<1>2. call[t].i \in 1 .. N + 1 /\ call[t].on \in BOOLEAN /\ call[t].want \in BOOLEAN
  BY <1>1 DEF CallType
<1>3. call[t].op # "destroy" \/ t = "event"
  BY NoCallMade DEF Shape, Ops, Threads, Idling
<1>4. QED BY <1>1, <1>2, <1>3

\* attached and started are stored: the queues have yet to follow.
LEMMA AttachInv == ASSUME Inv, Attach PROVE Inv'
<1> USE DEF Inv, Basic, Past
<1> DEFINE e == call["event"]
<1>1. /\ e.pc = "attach" /\ Step("event", "started", e.i, e.on, e.want) /\ attached' = TRUE
      /\ UNCHANGED <<started, vid, cur, qvid, dev, allow, busy, poll, stores, marks>>
      /\ UNCHANGED <<alone, apart, strayed>>
  BY DEF Attach, Goto, At, past
<1>2. /\ e.op = "new" /\ e.i = 1 /\ ~e.on
      /\ e.i \in 1 .. N + 1 /\ e.on \in BOOLEAN /\ e.want \in BOOLEAN
  BY <1>1, InUpdate DEF Shape, At, Threads
<1>3. /\ call' \in [Threads -> CallType]
      /\ call'["event"].op = "new" /\ call'["event"].pc = "started"
      /\ call'["event"].i = 1 /\ call'["event"].on = e.on
      /\ call'["control"] = call["control"] /\ (Idling("control")' <=> Idling("control"))
      /\ ~Idling("event") /\ ~Idling("event")' /\ (alone => Idling("control"))
  BY <1>1, <1>2, Stepped DEF Threads
<1>4. TypeOK' /\ OpenOnDevice'
  BY <1>1, <1>3 DEF TypeOK, OpenOnDevice
<1>5. stores'["event"] = <<>> /\ Passed("event")' = 0
  <2>1. Passed("event") = 0 /\ Passed("event")' = 0
    BY <1>1, <1>2, <1>3 DEF Passed, At
  <2>2. QED BY <1>1, <2>1 DEF TypeOK, Shape, Threads
<1>6. Shape("event")' /\ Shape("control")'
  <2>1. Shape("event")'
    BY <1>2, <1>3, <1>5 DEF Shape, Ops, At, Waits
  <2>2. QED BY <1>1, <1>3, <2>1, SameShape DEF Threads
<1>7. Devices' /\ (apart' => Ids')
  BY <1>1, <1>2, <1>3 DEF Devices, Ids, InCall, At
<1>8. AllowedRight'
  BY <1>3 DEF AllowedRight, Idling, Threads
<1>9. alone' => Solo'
  <2>1. Passes("event")'
    BY <1>3, <1>5 DEF Passes, LoadedRight, QueuesSettled, StoresRight, At, Queues
  <2>2. alone => Passes("control")'
    BY <1>1, <1>3, OtherPasses DEF Threads
  <2>3. QED BY <1>1, <1>3, <2>1, <2>2 DEF Solo, Threads
<1>10. QED BY <1>1, <1>4, <1>6, <1>7, <1>8, <1>9 DEF Threads

LEMMA SetStartedInv == ASSUME Inv, SetStarted PROVE Inv'
<1> USE DEF Inv, Basic, Past
<1> DEFINE e == call["control"]
<1>1. /\ e.pc = "start" /\ Step("control", "started", e.i, e.on, e.want) /\ started' = TRUE
      /\ UNCHANGED <<attached, vid, cur, qvid, dev, allow, busy, poll, stores, marks>>
      /\ UNCHANGED <<alone, apart, strayed>>
  BY DEF SetStarted, Goto, At, past
<1>2. /\ e.op = "start" /\ e.i = 1 /\ ~e.on
      /\ e.i \in 1 .. N + 1 /\ e.on \in BOOLEAN /\ e.want \in BOOLEAN
  BY <1>1, InUpdate DEF Shape, At, Threads
<1>3. /\ call' \in [Threads -> CallType]
      /\ call'["control"].op = "start" /\ call'["control"].pc = "started"
      /\ call'["control"].i = 1 /\ call'["control"].on = e.on
      /\ call'["event"] = call["event"] /\ (Idling("event")' <=> Idling("event"))
      /\ ~Idling("control") /\ ~Idling("control")' /\ (alone => Idling("event"))
  BY <1>1, <1>2, Stepped DEF Threads
<1>4. TypeOK' /\ OpenOnDevice'
  BY <1>1, <1>3 DEF TypeOK, OpenOnDevice
<1>5. stores'["control"] = <<>> /\ Passed("control")' = 0
  <2>1. Passed("control") = 0 /\ Passed("control")' = 0
    BY <1>1, <1>2, <1>3 DEF Passed, At
  <2>2. QED BY <1>1, <2>1 DEF TypeOK, Shape, Threads
<1>6. Shape("event")' /\ Shape("control")'
  <2>1. Shape("control")'
    BY <1>2, <1>3, <1>5 DEF Shape, Ops, At, Waits
  <2>2. QED BY <1>1, <1>3, <2>1, SameShape DEF Threads
<1>7. Devices' /\ (apart' => Ids')
  BY <1>1, <1>2, <1>3 DEF Devices, Ids, InCall, At
<1>8. AllowedRight'
  BY <1>3 DEF AllowedRight, Idling, Threads
<1>9. alone' => Solo'
  <2>1. Passes("control")'
    BY <1>3, <1>5 DEF Passes, LoadedRight, QueuesSettled, StoresRight, At, Queues
  <2>2. alone => Passes("event")'
    BY <1>1, <1>3, OtherPasses DEF Threads
  <2>3. QED BY <1>1, <1>3, <2>1, <2>2 DEF Solo, Threads
<1>10. QED BY <1>1, <1>4, <1>6, <1>7, <1>8, <1>9 DEF Threads

\* The steps of update_queuing_status that only load, for either thread: t is
\* at c afterwards and has passed the queues it had passed before.
LEMMA Loads ==
  ASSUME Inv, NEW t \in Threads, UNCHANGED <<port, allow, busy, poll, stores, marks>>,
         UNCHANGED <<alone, apart>>, strayed' \in BOOLEAN,
         call' \in [Threads -> CallType], call'[t].op = call[t].op,
         \A s \in Threads : s # t => call'[s] = call[s],
         \A s \in Threads : (Idling(s)' <=> Idling(s)) /\ call'[s].op = call[s].op,
         alone => \A s \in Threads : s # t => Idling(s) /\ Idling(s)',
         ~Idling(t), ~Idling(t)',
         call[t].pc \in {"started", "attached", "queue", "wait"},
         call'[t].pc \in {"attached", "queue", "store", "reset", "return"},
         call'[t].pc = "attached" => call'[t].i = 1 /\ started,
         alone /\ call'[t].pc \in {"queue", "store"} => (call'[t].on <=> started /\ attached),
         call'[t].pc = "store" => call'[t].i \in Queues,
         alone /\ call'[t].pc = "store" => (call'[t].want <=> Right(call'[t].i)),
         call'[t].pc \in {"reset", "return"} => call'[t].i > N,
         call'[t].pc = "reset" => call'[t].op = "destroy",
         Passed(t)' = Passed(t)
  PROVE  Inv'
<1> USE DEF Inv, Basic, Past
<1>1. TypeOK' /\ OpenOnDevice'
  BY DEF TypeOK, OpenOnDevice, port
<1>2. \A s \in Threads : Shape(s)'
  <2>1. Shape(t)'
    BY DEF Shape, Ops, At, Waits
  <2>2. QED BY <2>1, SameShape
<1>3. Devices'
  BY DEF Devices, InCall, Threads, port
<1>4. apart' => Ids'
  BY DEF Ids, InCall, Threads, At, port
<1>5. AllowedRight'
  BY DEF AllowedRight, Idling
<1>6. ASSUME alone PROVE Solo'
  <2>1. LoadedRight(t)'
    BY <1>6 DEF LoadedRight, At, Right, port
  <2>2. Passes(t)'
    BY <1>6, <2>1, SamePasses DEF port, Solo
  <2>3. \A s \in Threads : s # t => Passes(s)'
    BY <1>6, OtherPasses
  <2>4. QED BY <1>6, <2>2, <2>3 DEF Solo, Threads
<1>7. QED BY <1>1, <1>2, <1>3, <1>4, <1>5, <1>6

LEMMA LoadStartedInv == ASSUME Inv, NEW t \in Threads, LoadStarted(t) PROVE Inv'
<1> DEFINE e == call[t]
<1> DEFINE pc == IF started THEN "attached" ELSE "queue"
<1>1. /\ e.pc = "started" /\ Step(t, pc, e.i, e.on, e.want)
      /\ UNCHANGED <<port, allow, busy, poll, stores, marks>> /\ UNCHANGED <<alone, apart, strayed>>
      /\ strayed \in BOOLEAN
  BY DEF LoadStarted, Goto, At, past, Inv, Basic, TypeOK
<1>2. e.i = 1 /\ ~e.on
  BY <1>1 DEF Inv, Basic, Shape
<1>3. pc \in {"attached", "queue"} /\ (pc = "attached" => started) /\ (pc = "queue" => ~started)
  OBVIOUS
<1> HIDE DEF pc
<1>4. /\ call' \in [Threads -> CallType]
      /\ call'[t].op = e.op /\ call'[t].pc = pc
      /\ call'[t].i = e.i /\ call'[t].on = e.on /\ call'[t].want = e.want
      /\ \A s \in Threads : s # t => call'[s] = call[s]
      /\ \A s \in Threads : (Idling(s)' <=> Idling(s)) /\ call'[s].op = call[s].op
      /\ ~Idling(t) /\ ~Idling(t)'
      /\ alone => \A s \in Threads : s # t => Idling(s) /\ Idling(s)'
  BY <1>1, <1>3, InUpdate, Stepped DEF Inv
<1>5. Passed(t)' = Passed(t)
  BY <1>1, <1>3, <1>4 DEF Passed, At
<1>6. QED BY <1>1, <1>2, <1>3, <1>4, <1>5, Loads

LEMMA LoadAttachedInv == ASSUME Inv, NEW t \in Threads, LoadAttached(t) PROVE Inv'
<1> DEFINE e == call[t]
<1> DEFINE on == attached
<1> DEFINE want == FALSE
<1>1. /\ e.pc = "attached" /\ Step(t, "queue", e.i, on, want)
      /\ UNCHANGED <<port, allow, busy, poll, stores, marks>> /\ UNCHANGED <<alone, apart, strayed>>
      /\ strayed \in BOOLEAN
  BY DEF LoadAttached, At, past, Inv, Basic, TypeOK
<1>2. on \in BOOLEAN /\ want \in BOOLEAN /\ (alone => (on <=> started /\ attached))
  <2>1. alone => started
    BY <1>1 DEF Inv, Past, Solo, Passes, LoadedRight, At
  <2>2. QED BY <2>1 DEF Inv, Basic, TypeOK
<1>3. e.i \in 1 .. N + 1
  BY InUpdate DEF Inv
<1> HIDE DEF on, want
<1>4. /\ call' \in [Threads -> CallType]
      /\ call'[t].op = e.op /\ call'[t].pc = "queue"
      /\ call'[t].i = e.i /\ call'[t].on = on /\ call'[t].want = want
      /\ \A s \in Threads : s # t => call'[s] = call[s]
      /\ \A s \in Threads : (Idling(s)' <=> Idling(s)) /\ call'[s].op = call[s].op
      /\ ~Idling(t) /\ ~Idling(t)'
      /\ alone => \A s \in Threads : s # t => Idling(s) /\ Idling(s)'
  BY <1>1, <1>2, <1>3, Stepped
<1>5. Passed(t)' = Passed(t)
  BY <1>1, <1>4 DEF Passed, At
<1>6. QED BY <1>1, <1>2, <1>4, <1>5, Loads

LEMMA LoadCurInv == ASSUME Inv, NEW t \in Threads, LoadCur(t) PROVE Inv'
<1> DEFINE e == call[t]
<1> DEFINE want == e.on /\ cur[e.i]
<1>1. /\ e.pc = "queue" /\ Step(t, "store", e.i, e.on, want)
      /\ UNCHANGED <<port, allow, busy, poll, stores, marks>> /\ UNCHANGED <<alone, apart, strayed>>
      /\ strayed \in BOOLEAN
  BY DEF LoadCur, At, past, Inv, Basic, TypeOK
<1>2. /\ want \in BOOLEAN
      /\ alone => (e.on <=> started /\ attached) /\ (want <=> Right(e.i))
  BY <1>1 DEF Inv, Past, Solo, Passes, LoadedRight, Right
<1>3. e.i \in Queues
  BY InUpdate DEF LoadCur, Queues, Inv
<1> HIDE DEF want
<1>4. /\ call' \in [Threads -> CallType]
      /\ call'[t].op = e.op /\ call'[t].pc = "store"
      /\ call'[t].i = e.i /\ call'[t].on = e.on /\ call'[t].want = want
      /\ \A s \in Threads : s # t => call'[s] = call[s]
      /\ \A s \in Threads : (Idling(s)' <=> Idling(s)) /\ call'[s].op = call[s].op
      /\ ~Idling(t) /\ ~Idling(t)'
      /\ alone => \A s \in Threads : s # t => Idling(s) /\ Idling(s)'
  BY <1>1, <1>2, InUpdate, Stepped DEF Inv
<1>5. Passed(t)' = Passed(t)
  BY <1>1, <1>4 DEF Passed, At
<1>6. QED BY <1>1, <1>2, <1>3, <1>4, <1>5, Loads

LEMMA WaitQueueInv == ASSUME Inv, NEW t \in Threads, WaitQueue(t) PROVE Inv'
<1> DEFINE e == call[t]
<1> DEFINE want == FALSE
<1>1. /\ e.pc = "wait" /\ Step(t, "queue", e.i + 1, e.on, want)
      /\ UNCHANGED <<port, allow, busy, poll, stores, marks>> /\ UNCHANGED <<alone, apart>>
      /\ strayed' \in BOOLEAN
  BY DEF WaitQueue, NextQueue, At, Inv, Basic, TypeOK
<1>2. /\ e.i \in Queues /\ e.i + 1 \in 1 .. N + 1 /\ want \in BOOLEAN
      /\ alone => (e.on <=> started /\ attached)
  <2>1. e.i \in Queues
    BY <1>1 DEF Inv, Basic, Shape
  <2>2. e.i + 1 \in 1 .. N + 1
    BY <2>1, VhostAssumption DEF Queues
  <2>3. alone => (e.on <=> started /\ attached)
    BY <1>1 DEF Inv, Past, Solo, Passes, LoadedRight
  <2>4. QED BY <2>1, <2>2, <2>3
<1> HIDE DEF want
<1>3. /\ call' \in [Threads -> CallType]
      /\ call'[t].op = e.op /\ call'[t].pc = "queue"
      /\ call'[t].i = e.i + 1 /\ call'[t].on = e.on /\ call'[t].want = want
      /\ \A s \in Threads : s # t => call'[s] = call[s]
      /\ \A s \in Threads : (Idling(s)' <=> Idling(s)) /\ call'[s].op = call[s].op
      /\ ~Idling(t) /\ ~Idling(t)'
      /\ alone => \A s \in Threads : s # t => Idling(s) /\ Idling(s)'
  BY <1>1, <1>2, InUpdate, Stepped DEF Inv
<1>4. Passed(t)' = Passed(t)
  BY <1>1, <1>2, <1>3 DEF Passed, At, Queues
<1>5. QED BY <1>1, <1>2, <1>3, <1>4, Loads

LEMMA UpdateDoneInv == ASSUME Inv, NEW t \in Threads, UpdateDone(t) PROVE Inv'
<1> DEFINE e == call[t]
<1> DEFINE pc == IF e.op = "destroy" THEN "reset" ELSE "return"
<1> DEFINE no == FALSE
<1>1. /\ e.pc = "queue" /\ e.i > N /\ Step(t, pc, e.i, no, no)
      /\ UNCHANGED <<port, allow, busy, poll, stores, marks>> /\ UNCHANGED <<alone, apart, strayed>>
      /\ strayed \in BOOLEAN
  BY DEF UpdateDone, At, past, Inv, Basic, TypeOK
<1>2. pc \in {"reset", "return"} /\ (pc = "reset" => e.op = "destroy") /\ no \in BOOLEAN
  OBVIOUS
<1> HIDE DEF pc, no
<1>3. /\ call' \in [Threads -> CallType]
      /\ call'[t].op = e.op /\ call'[t].pc = pc /\ call'[t].i = e.i
      /\ \A s \in Threads : s # t => call'[s] = call[s]
      /\ \A s \in Threads : (Idling(s)' <=> Idling(s)) /\ call'[s].op = call[s].op
      /\ ~Idling(t) /\ ~Idling(t)'
      /\ alone => \A s \in Threads : s # t => Idling(s) /\ Idling(s)'
  BY <1>1, <1>2, InUpdate, Stepped DEF Inv
<1>4. Passed(t)' = Passed(t)
  BY <1>1, <1>2, <1>3 DEF Passed, At
<1>5. QED BY <1>1, <1>2, <1>3, <1>4, Loads

\* The value of a queue is stored, to be seen at once or later.
LEMMA StoreAllowInv == ASSUME Inv, NEW t \in Threads, StoreAllow(t) PROVE Inv'
<1> DEFINE e == call[t]
<1> DEFINE pc == IF Waits(t) THEN "wait" ELSE "queue"
<1> DEFINE i == IF Waits(t) THEN e.i ELSE e.i + 1
<1> DEFINE no == FALSE
<1>1. /\ e.pc = "store" /\ Step(t, pc, i, e.on, no)
      /\ UNCHANGED <<port, busy, poll, marks>> /\ SetAllow(t, e.i, e.want)
      /\ UNCHANGED <<alone, apart, strayed>>
  BY DEF StoreAllow, NextQueue, At, past
<1>2. /\ e.on \in BOOLEAN /\ e.want \in BOOLEAN
      /\ alone => (e.on <=> started /\ attached) /\ (e.want <=> Right(e.i))
  BY <1>1, InUpdate DEF Inv, Past, Solo, Passes, LoadedRight, At
<1>3. e.i \in Queues /\ i \in 1 .. N + 1 /\ N \in Nat
  <2>1. e.i \in Queues
    BY <1>1 DEF Inv, Basic, Shape
  <2>2. QED BY <2>1, VhostAssumption DEF Queues
<1>4. pc \in {"wait", "queue"} /\ (pc = "wait" => Waits(t) /\ i = e.i)
      /\ (pc = "queue" => i = e.i + 1) /\ no \in BOOLEAN
  OBVIOUS
<1> HIDE DEF pc, i, no
<1>5. /\ call' \in [Threads -> CallType]
      /\ call'[t].op = e.op /\ call'[t].pc = pc /\ call'[t].i = i /\ call'[t].on = e.on
      /\ \A s \in Threads : s # t => call'[s] = call[s]
      /\ \A s \in Threads : (Idling(s)' <=> Idling(s)) /\ call'[s].op = call[s].op
      /\ ~Idling(t) /\ ~Idling(t)'
      /\ alone => \A s \in Threads : s # t => Idling(s) /\ Idling(s)'
  BY <1>1, <1>2, <1>3, <1>4, Stepped
<1> USE DEF Inv, Basic, Past
<1>6. Passed(t) = e.i - 1 /\ Passed(t)' = e.i
  BY <1>1, <1>3, <1>4, <1>5 DEF Passed, At, Queues
<1>7. /\ allow \in [Queues -> BOOLEAN] /\ stores \in [Threads -> Seq(Queues \X BOOLEAN)]
      /\ stores[t] \in Seq(Queues \X BOOLEAN)
  BY DEF TypeOK
<1>8. /\ allow' \in [Queues -> BOOLEAN] /\ stores' \in [Threads -> Seq(Queues \X BOOLEAN)]
      /\ \A s \in Threads : s # t => stores'[s] = stores[s]
      /\ \A q \in Queues : (allow'[q] <=> allow[q]) \/ (q = e.i /\ (allow'[q] <=> e.want))
      /\ Len(stores'[t]) <= Len(stores[t]) + 1
      /\ \A k \in DOMAIN stores[t] : k \in DOMAIN stores'[t] /\ stores'[t][k] = stores[t][k]
      /\ \A k \in DOMAIN stores'[t] : k \in DOMAIN stores[t] \/ stores'[t][k] = <<e.i, e.want>>
      /\ (allow'[e.i] <=> e.want) \/ \E k \in DOMAIN stores'[t] : stores'[t][k][1] = e.i
  <2>1. CASE StoreBuffer
    <3> DEFINE s == stores[t]
    <3> DEFINE x == <<e.i, e.want>>
    <3>1. stores' = [stores EXCEPT ![t] = Append(s, x)] /\ UNCHANGED allow
      BY <1>1, <2>1 DEF SetAllow
    <3>2. x \in Queues \X BOOLEAN /\ x[1] = e.i
      BY <1>2, <1>3
    <3> HIDE DEF x
    <3>3. /\ Append(s, x) \in Seq(Queues \X BOOLEAN) /\ Len(Append(s, x)) = Len(s) + 1
          /\ \A k \in DOMAIN s : k \in DOMAIN Append(s, x) /\ Append(s, x)[k] = s[k]
          /\ \A k \in DOMAIN Append(s, x) : k \in DOMAIN s \/ k = Len(s) + 1
          /\ Len(s) + 1 \in DOMAIN Append(s, x) /\ Append(s, x)[Len(s) + 1] = x
      BY <1>7, <3>2
    <3>4. stores'[t] = Append(s, x) /\ \A r \in Threads : r # t => stores'[r] = stores[r]
      BY <1>7, <3>1
    <3>5. stores' \in [Threads -> Seq(Queues \X BOOLEAN)]
      BY <1>7, <3>1, <3>3
    <3>6. Len(stores'[t]) <= Len(s) + 1
      BY <1>7, <3>3, <3>4
    <3>7. \A k \in DOMAIN s : k \in DOMAIN stores'[t] /\ stores'[t][k] = s[k]
      BY <3>3, <3>4
    <3>8. \A k \in DOMAIN stores'[t] : k \in DOMAIN s \/ stores'[t][k] = <<e.i, e.want>>
      BY <3>3, <3>4 DEF x
    <3>9. \E k \in DOMAIN stores'[t] : stores'[t][k][1] = e.i
      BY <3>2, <3>3, <3>4
    <3>10. allow' \in [Queues -> BOOLEAN] /\ \A q \in Queues : allow'[q] <=> allow[q]
      BY <1>7, <3>1
    <3>11. QED BY Zenon, <3>4, <3>5, <3>6, <3>7, <3>8, <3>9, <3>10
  <2>2. CASE ~StoreBuffer
    <3>1. allow' = [allow EXCEPT ![e.i] = e.want] /\ UNCHANGED stores
      BY <1>1, <2>2 DEF SetAllow
    <3>2. /\ allow' \in [Queues -> BOOLEAN] /\ (allow'[e.i] <=> e.want)
          /\ \A q \in Queues : q # e.i => (allow'[q] <=> allow[q])
      <4>1. CASE e.want = TRUE BY <1>3, <1>7, <3>1, <4>1
      <4>2. CASE e.want = FALSE BY <1>3, <1>7, <3>1, <4>2
      <4>3. QED BY <1>2, <4>1, <4>2
    <3>3. Len(stores'[t]) <= Len(stores[t]) + 1
      BY <1>7, <3>1
    <3>4. \A q \in Queues : (allow'[q] <=> allow[q]) \/ (q = e.i /\ (allow'[q] <=> e.want))
      BY <3>2
    <3>5. stores' = stores /\ stores \in [Threads -> Seq(Queues \X BOOLEAN)]
      BY <1>7, <3>1
    <3>6. QED BY Zenon, <3>2, <3>3, <3>4, <3>5
  <2>3. QED BY <2>1, <2>2
<1>9. Len(stores'[t]) <= e.i
  BY <1>3, <1>6, <1>7, <1>8 DEF Shape, Queues
<1>10. \A s \in Threads : Shape(s)'
  <2>1. Shape(t)'
    BY <1>3, <1>4, <1>5, <1>6, <1>9 DEF Shape, Ops, At, Waits
  <2>2. QED BY <1>5, <1>8, <2>1, SameShape
<1>11. ASSUME alone PROVE Solo'
  <2>1. e.want <=> Right(e.i)
    BY <1>2, <1>11
  <2>2. Passes(t)
    BY <1>11 DEF Solo
  <2>3. StoresRight(t)'
    <3> SUFFICES ASSUME NEW k \in DOMAIN stores'[t]
                 PROVE  stores'[t][k][2] <=> Right(stores'[t][k][1])
      BY <1>1 DEF StoresRight, Right, port
    <3>1. CASE k \in DOMAIN stores[t]
      BY <1>8, <2>2, <3>1 DEF Passes, StoresRight
    <3>2. CASE stores'[t][k] = <<e.i, e.want>>
      BY <2>1, <3>2
    <3>3. QED BY <1>8, <3>1, <3>2
  <2>4. QueuesSettled(t)'
    <3> SUFFICES ASSUME NEW q \in Queues, q <= e.i PROVE Settled(t, q)'
      BY <1>6 DEF QueuesSettled
    <3>1. CASE q = e.i
      BY <1>1, <1>8, <2>1, <3>1 DEF Settled, Right, port
    <3>2. CASE q # e.i
      <4>1. Settled(t, q)
        BY <1>3, <1>6, <2>2, <3>2 DEF Passes, QueuesSettled, Queues
      <4>2. QED BY <1>1, <1>8, <3>2, <4>1 DEF Settled, Right, port
    <3>3. QED BY <3>1, <3>2
  <2>5. LoadedRight(t)'
    BY <1>1, <1>2, <1>4, <1>5, <1>11 DEF LoadedRight, At, port
  <2>6. \A s \in Threads : s # t => Passes(s)'
    BY <1>5, <1>8, <1>11, OtherPasses
  <2>7. QED BY <1>5, <1>11, <2>3, <2>4, <2>5, <2>6 DEF Passes, Solo, Threads
<1>12. TypeOK'
  <2>1. \A s \in Threads : Len(stores'[s]) <= N
    <3> SUFFICES ASSUME NEW s \in Threads PROVE Len(stores'[s]) <= N
      OBVIOUS
    <3>1. CASE s = t
      BY <1>3, <1>7, <1>8, <1>9, <3>1 DEF Queues
    <3>2. CASE s # t
      BY <1>8, <3>2 DEF TypeOK
    <3>3. QED BY <3>1, <3>2
  <2>2. QED BY <1>1, <1>5, <1>8, <2>1 DEF TypeOK, port
<1>13. AllowedRight'
  BY <1>5 DEF AllowedRight, Idling
<1>14. Devices' /\ (apart' => Ids')
  BY <1>1, <1>4, <1>5 DEF Devices, Ids, InCall, At, Threads, port
<1>15. ASSUME apart, NEW q \in Queues, allow'[q] PROVE qvid[q] = dev /\ dev # NoVid
  <2>1. CASE allow[q]
    BY <1>15, <2>1 DEF OpenOnDevice
  <2>2. CASE Right(q)
    <3>1. dev # NoVid /\ started
      BY <2>2 DEF Devices, Right
    <3>2. ~InCall("event", {"destroy"})
      BY <2>2 DEF Devices, Right
    <3>3. QED BY <1>15, <3>1, <3>2 DEF Ids
  <2>3. QED BY <1>2, <1>8, <1>15, <2>1, <2>2
<1>16. OpenOnDevice'
  BY <1>1, <1>15 DEF OpenOnDevice, port
<1>17. QED BY <1>1, <1>10, <1>11, <1>12, <1>13, <1>14, <1>16

\* When nothing is under way the queues a call has passed are as they should be.
LEMMA AllPassed ==
  ASSUME Inv, NEW t \in Threads, call[t].pc \in {"reset", "return"}, stores[t] = <<>>, alone
  PROVE  \A q \in Queues : allow[q] <=> Right(q)
<1> SUFFICES ASSUME NEW q \in Queues PROVE allow[q] <=> Right(q)
  OBVIOUS
<1>1. call[t].i > N /\ call[t].i \in Nat /\ N \in Nat
  BY InUpdate DEF Inv, Basic, Shape
<1>2. q <= Passed(t)
  BY <1>1 DEF Passed, At, Queues
<1>3. Settled(t, q)
  BY <1>2 DEF Inv, Past, Solo, Passes, QueuesSettled
<1>4. QED BY <1>3 DEF Settled

LEMMA ResetDeviceInv == ASSUME Inv, ResetDevice PROVE Inv'
<1> USE DEF Inv, Basic, Past
<1> DEFINE e == call["event"]
<1>1. /\ e.pc = "reset" /\ Step("event", "return", e.i, e.on, e.want) /\ stores["event"] = <<>>
      /\ qvid' = [q \in Queues |-> NoVid] /\ cur' = [q \in Queues |-> FALSE]
      /\ UNCHANGED <<started, attached, vid, dev, allow, busy, poll, stores, marks>>
      /\ UNCHANGED <<alone, apart, strayed>>
  BY DEF ResetDevice, QueueSetup, Goto, At, past
<1>2. /\ e.op = "destroy" /\ e.i > N
      /\ e.i \in 1 .. N + 1 /\ e.on \in BOOLEAN /\ e.want \in BOOLEAN
  BY <1>1, InUpdate DEF Shape, At, Threads
<1>3. /\ call' \in [Threads -> CallType]
      /\ call'["event"].op = "destroy" /\ call'["event"].pc = "return"
      /\ call'["event"].i = e.i
      /\ call'["control"] = call["control"] /\ (Idling("control")' <=> Idling("control"))
      /\ ~Idling("event") /\ ~Idling("event")' /\ (alone => Idling("control"))
  BY <1>1, <1>2, Stepped DEF Threads
<1>4. TypeOK'
  BY <1>1, <1>3 DEF TypeOK
<1>5. Passed("event")' = Passed("event")
  BY <1>1, <1>3 DEF Passed, At
<1>6. Shape("event")' /\ Shape("control")'
  <2>1. Shape("event")'
    BY <1>1, <1>2, <1>3, <1>5 DEF Shape, Ops, At, Waits, Threads
  <2>2. QED BY <1>1, <1>3, <2>1, SameShape DEF Threads
<1>7. Devices' /\ AllowedRight' /\ (apart' => Ids')
  BY <1>1, <1>2, <1>3 DEF Devices, Ids, InCall, At, AllowedRight, Idling, Threads
<1>8. alone => ~attached /\ \A q \in Queues : ~allow[q]
  <2>1. ~attached
    BY <1>2, <1>3 DEF Devices, InCall
  <2>2. QED BY <1>1, <2>1, AllPassed DEF Threads, Right
<1>9. OpenOnDevice'
  BY <1>1, <1>8 DEF OpenOnDevice
<1>10. ASSUME alone PROVE Solo'
  <2>1. StoresRight("event")' /\ LoadedRight("event")'
    BY <1>1, <1>3 DEF StoresRight, LoadedRight, At
  <2>2. QueuesSettled("event")'
    BY <1>1, <1>8, <1>10 DEF QueuesSettled, Settled, Right
  <2>3. Passes("control")'
    BY <1>1, <1>3, <1>10, OtherPasses DEF Threads
  <2>4. QED BY <1>3, <1>10, <2>1, <2>2, <2>3 DEF Passes, Solo, Threads
<1>11. QED BY <1>1, <1>4, <1>6, <1>7, <1>9, <1>10 DEF Threads

\* A call returns.  If it ran alone the queues are right, and if it waited they
\* are closed: whatever went wrong before it, nothing is wrong any more.
LEMMA ReturnInv == ASSUME Inv, NEW t \in Threads, Return(t) PROVE Inv'
<1> USE DEF Inv, Basic, Past
<1>1. /\ call[t].pc = "return" /\ call' = [call EXCEPT ![t] = NoCall] /\ stores[t] = <<>>
      /\ dev' = IF call[t].op = "destroy" THEN NoVid ELSE dev
      /\ UNCHANGED <<started, attached, vid, cur, qvid, allow, busy, poll, stores, marks>>
      /\ UNCHANGED <<alone, strayed>> /\ apart' = (apart \/ (alone /\ Waits(t)))
  BY DEF Return, At
<1>2. /\ call' \in [Threads -> CallType] /\ call'[t] = NoCall
      /\ \A s \in Threads : s # t => call'[s] = call[s]
  BY <1>1, NoCallMade DEF TypeOK
<1>3. ~Idling(t) /\ Idling(t)' /\ \A s \in Threads : s # t => (Idling(s)' <=> Idling(s))
  BY <1>1, <1>2, NoCallMade DEF Idling
<1>4. alone => \A s \in Threads : Idling(s)' /\ (s # t => Idling(s))
  BY <1>3 DEF Solo, Threads
<1>5. TypeOK'
  <2>1. apart' \in BOOLEAN
    BY <1>1 DEF TypeOK
  <2>2. QED BY <1>1, <1>2, <2>1 DEF TypeOK
<1>6. \A s \in Threads : Shape(s)'
  <2>1. Passed(t)' = 0
    BY <1>2, NoCallMade DEF Passed, At
  <2>2. Shape(t)'
    BY <1>1, <1>2, <1>3, <2>1, NoCallMade DEF Shape, Ops, At, Waits
  <2>3. QED BY <1>1, <1>2, <2>2, SameShape
<1>7. alone => \A q \in Queues : allow[q] <=> Right(q)
  BY <1>1, AllPassed
<1>8. AllowedRight'
  BY <1>1, <1>7 DEF AllowedRight, Right
<1>9. alone => Solo'
  <2> SUFFICES ASSUME alone PROVE Solo'
    OBVIOUS
  <2>1. \A s \in Threads : stores'[s] = <<>>
    BY <1>1, <1>4, IdleEmpty
  <2>2. \A s \in Threads : call'[s].pc = "none" /\ call'[s].i = 1
    BY <1>4, NoCallMade DEF Idling
  <2>3. \A s \in Threads : Passed(s)' = 0
    BY <2>2 DEF Passed, At
  <2>4. \A s \in Threads : Passes(s)'
    BY <2>1, <2>2, <2>3 DEF Passes, LoadedRight, QueuesSettled, StoresRight, At, Queues
  <2>5. QED BY <1>4, <2>4 DEF Solo, Threads
<1>10. call[t].op = "destroy" => t = "event" /\ InCall("event", {"destroy"}) /\ ~attached
  BY <1>3, InUpdate DEF InCall, Devices
<1>11. call[t].op = "stop" => t = "control" /\ InCall("control", {"stop"}) /\ ~started
  BY <1>3 DEF InCall, Devices, Shape, Ops, Threads
<1>12. Devices'
  BY <1>1, <1>2, <1>3, <1>10 DEF Devices, InCall, Idling, Threads
<1>13. ASSUME alone, Waits(t) PROVE Ids' /\ OpenOnDevice'
  <2>1. \A q \in Queues : ~allow[q]
    BY <1>7, <1>10, <1>11, <1>13 DEF Waits, Right
  <2>2. (dev' = NoVid) \/ ~(started \/ InCall("control", {"start"}))'
    BY <1>1, <1>3, <1>10, <1>11, <1>13 DEF Waits, InCall
  <2>3. QED BY <1>1, <2>1, <2>2 DEF Ids, OpenOnDevice
<1>14. ASSUME apart, ~Waits(t) PROVE Ids' /\ OpenOnDevice'
  <2>1. dev' = dev
    BY <1>1, <1>14 DEF Waits
  <2>2. ~InCall("event", {"destroy"}) /\ ~InCall("event", {"destroy"})'
    BY <1>2, <1>3, <1>4, <1>14 DEF InCall, Waits, Threads
  <2>3. InCall("control", {"start"})' => InCall("control", {"start"})
    BY <1>2, <1>3 DEF InCall, Idling, Threads
  <2>4. QED BY <1>1, <1>14, <2>1, <2>2, <2>3 DEF Ids, OpenOnDevice
<1>15. (apart' => alone' /\ Ids') /\ OpenOnDevice'
  BY <1>1, <1>13, <1>14 DEF OpenOnDevice
<1>16. QED BY <1>1, <1>5, <1>6, <1>8, <1>9, <1>12, <1>15

\* A store of allow_queuing is seen.  If its call runs alone it is the value
\* the queue should have.
LEMMA AllowSeenInv == ASSUME Inv, NEW t \in Threads, AllowSeen(t) PROVE Inv'
<1> USE DEF Inv, Basic, Past
<1> DEFINE s == stores[t]
<1> DEFINE q0 == s[1][1]
<1> DEFINE v == s[1][2]
<1>1. /\ s # <<>> /\ allow' = [allow EXCEPT ![q0] = v]
      /\ stores' = [stores EXCEPT ![t] = Tail(s)]
      /\ UNCHANGED <<port, busy, call, poll, marks>> /\ UNCHANGED <<alone, apart, strayed>>
  BY DEF AllowSeen, past
<1>2. /\ s \in Seq(Queues \X BOOLEAN) /\ allow \in [Queues -> BOOLEAN]
      /\ stores \in [Threads -> Seq(Queues \X BOOLEAN)] /\ Len(s) <= N /\ N \in Nat
  BY VhostAssumption DEF TypeOK
<1>3. /\ 1 \in DOMAIN s /\ Tail(s) \in Seq(Queues \X BOOLEAN) /\ Len(Tail(s)) = Len(s) - 1
      /\ Len(s) \in Nat /\ \A k \in DOMAIN Tail(s) : k + 1 \in DOMAIN s /\ Tail(s)[k] = s[k + 1]
      /\ \A k \in DOMAIN s : k = 1 \/ (k - 1 \in DOMAIN Tail(s) /\ Tail(s)[k - 1] = s[k])
  BY <1>1, <1>2
<1>4. q0 \in Queues /\ v \in BOOLEAN
  <2>1. s[1] \in Queues \X BOOLEAN
    BY <1>2, <1>3
  <2>2. QED BY <2>1
<1>5. alone => (v <=> Right(q0))
  BY <1>3 DEF Solo, Passes, StoresRight
<1> HIDE DEF q0, v
<1>6. /\ allow' \in [Queues -> BOOLEAN] /\ (allow'[q0] <=> v)
      /\ \A q \in Queues : q # q0 => (allow'[q] <=> allow[q])
  <2>1. CASE v = TRUE BY <1>1, <1>2, <1>4, <2>1
  <2>2. CASE v = FALSE BY <1>1, <1>2, <1>4, <2>2
  <2>3. QED BY <1>4, <2>1, <2>2
<1>7. /\ stores' \in [Threads -> Seq(Queues \X BOOLEAN)] /\ stores'[t] = Tail(s)
      /\ \A r \in Threads : r # t => stores'[r] = stores[r]
  BY <1>1, <1>2, <1>3
<1>8. ~Idling(t) /\ (alone => \A r \in Threads : r # t => Idling(r))
  <2>1. ~Idling(t)
    BY <1>1, IdleEmpty
  <2>2. QED BY <2>1 DEF Solo, Threads
<1>9. UNCHANGED <<started, attached, vid, cur, qvid, dev, busy, call, poll, marks>>
  BY <1>1 DEF port
<1>10. TypeOK'
  <2>1. \A r \in Threads : Len(stores'[r]) <= N
    <3> SUFFICES ASSUME NEW r \in Threads PROVE Len(stores'[r]) <= N
      OBVIOUS
    <3>1. CASE r = t BY <1>2, <1>3, <1>7, <3>1
    <3>2. CASE r # t BY <1>7, <3>2 DEF TypeOK
    <3>3. QED BY <3>1, <3>2
  <2>2. QED BY <1>1, <1>6, <1>7, <1>9, <2>1 DEF TypeOK
<1>11. Passed(t)' = Passed(t) /\ Len(stores'[t]) <= Passed(t)
  <2>1. Passed(t)' = Passed(t) /\ Passed(t) \in Int
    BY <1>9, InUpdate DEF Passed, At
  <2>2. Len(s) <= Passed(t)
    BY DEF Shape
  <2>3. QED BY <1>3, <1>7, <2>1, <2>2
<1>12. \A r \in Threads : Shape(r)'
  <2>1. Shape(t)'
    BY <1>9, <1>11 DEF Shape, Ops, At, Waits, Idling
  <2>2. QED BY <1>7, <1>9, <2>1, SameShape
<1>13. Devices' /\ (apart' => Ids') /\ AllowedRight'
  BY <1>1, <1>8, <1>9 DEF Devices, Ids, AllowedRight, InCall, Idling, At
<1>14. OpenOnDevice'
  <2> SUFFICES ASSUME apart, NEW q \in Queues, allow'[q] PROVE qvid[q] = dev /\ dev # NoVid
    BY <1>1, <1>9 DEF OpenOnDevice
  <2>1. CASE q # q0
    BY <1>6, <2>1 DEF OpenOnDevice
  <2>2. CASE q = q0
    <3>1. Right(q)
      BY <1>5, <1>6, <2>2
    <3>2. dev # NoVid /\ started /\ ~InCall("event", {"destroy"})
      BY <3>1 DEF Devices, Right
    <3>3. QED BY <3>2 DEF Ids
  <2>3. QED BY <2>1, <2>2
<1>15. ASSUME alone PROVE Solo'
  <2>1. Passes(t)
    BY <1>15 DEF Solo
  <2>2. LoadedRight(t)'
    BY <1>9, <2>1 DEF Passes, LoadedRight, Right, At
  <2>3. QueuesSettled(t)'
    <3> SUFFICES ASSUME NEW q \in Queues, q <= Passed(t) PROVE Settled(t, q)'
      BY <1>11 DEF QueuesSettled
    <3>1. CASE q = q0
      BY <1>5, <1>6, <1>9, <1>15, <3>1 DEF Settled, Right
    <3>2. CASE q # q0
      <4>1. Settled(t, q)
        BY <2>1 DEF Passes, QueuesSettled
      <4>2. CASE \E k \in DOMAIN s : s[k][1] = q
        <5>1. PICK k \in DOMAIN s : s[k][1] = q
          BY <4>2
        <5>2. k # 1
          BY <3>2, <5>1 DEF q0
        <5>3. k - 1 \in DOMAIN stores'[t] /\ stores'[t][k - 1][1] = q
          BY <1>3, <1>7, <5>1, <5>2
        <5>4. QED BY <5>3 DEF Settled
      <4>3. CASE allow[q] <=> Right(q)
        BY <1>6, <1>9, <3>2, <4>3 DEF Settled, Right
      <4>4. QED BY <4>1, <4>2, <4>3 DEF Settled
    <3>3. QED BY <3>1, <3>2
  <2>4. StoresRight(t)'
    <3>1. \A k \in DOMAIN stores'[t] : stores'[t][k][2] <=> Right(stores'[t][k][1])
      BY <1>3, <1>7, <2>1 DEF Passes, StoresRight
    <3>2. QED BY <1>9, <3>1 DEF StoresRight, Right
  <2>5. \A r \in Threads : r # t => Passes(r)'
    BY <1>7, <1>8, <1>9, <1>15, OtherPasses
  <2>6. (Idling("event") \/ Idling("control"))'
    BY <1>9, <1>15 DEF Solo, Idling
  <2>7. QED BY <2>2, <2>3, <2>4, <2>5, <2>6 DEF Solo, Passes
<1>16. QED BY <1>1, <1>10, <1>12, <1>13, <1>14, <1>15

\* What the pollers do leaves the calls and the device alone.
LEMMA PollInv ==
  ASSUME Inv, NEW p \in Pollers, PollStep(p) \/ PollMore(p) \/ BusySeen(p)
  PROVE  Inv'
<1> USE VhostAssumption DEF Inv, Basic, Past
<1>1. /\ UNCHANGED <<port, allow, call, stores>> /\ UNCHANGED <<alone, apart>>
      /\ poll \in [Pollers -> PollType] /\ busy \in [Queues -> BOOLEAN]
      /\ marks \in [Pollers -> Seq(BOOLEAN)] /\ Serves \in [Pollers -> Queues]
  BY DEF PollStep, PollTest, PollMark, PollAgain, PollDone, PollClear, PollMore, BusySeen, SetBusy,
     TypeOK, past
<1>2. UNCHANGED <<started, attached, vid, cur, qvid, dev, allow, call, stores>>
  BY <1>1 DEF port
<1>3. poll' \in [Pollers -> PollType]
  <2>1. qvid[Serves[p]] \in Vids \cup {NoVid, 0}
    BY <1>1 DEF TypeOK
  <2>2. \/ poll' = poll \/ UseDevice(p) \/ poll' = [poll EXCEPT ![p] = [pc |-> "clear", vid |-> NoVid]]
        \/ \E pc \in {"mark", "again", "clear", "idle"} : poll' = [poll EXCEPT ![p].pc = pc]
    BY DEF PollStep, PollTest, PollMark, PollAgain, PollDone, PollClear, PollMore, BusySeen, Go
  <2>3. CASE poll' = poll BY <1>1, <2>3
  <2>4. CASE UseDevice(p)
    BY <1>1, <2>1, <2>4 DEF PollType, UseDevice
  <2>5. CASE poll' = [poll EXCEPT ![p] = [pc |-> "clear", vid |-> NoVid]]
    BY <1>1, <2>5 DEF PollType
  <2>6. CASE \E pc \in {"mark", "again", "clear", "idle"} : poll' = [poll EXCEPT ![p].pc = pc]
    <3>1. PICK pc \in {"mark", "again", "clear", "idle"} : poll' = [poll EXCEPT ![p].pc = pc]
      BY <2>6
    <3>2. [poll[p] EXCEPT !.pc = pc] \in PollType
      BY <1>1 DEF PollType
    <3>3. QED BY <1>1, <3>1, <3>2
  <2>7. QED BY <2>2, <2>3, <2>4, <2>5, <2>6
<1>4. busy' \in [Queues -> BOOLEAN] /\ marks' \in [Pollers -> Seq(BOOLEAN)]
  <2>1. CASE \E v \in BOOLEAN : SetBusy(p, v)
    <3>1. PICK v \in BOOLEAN : SetBusy(p, v)
      BY <2>1
    <3>2. CASE StoreBuffer
      <4>1. Append(marks[p], v) \in Seq(BOOLEAN)
        BY <1>1
      <4>2. marks' = [marks EXCEPT ![p] = Append(marks[p], v)] /\ UNCHANGED busy
        BY <3>1, <3>2 DEF SetBusy
      <4>3. QED BY <1>1, <4>1, <4>2
    <3>3. CASE ~StoreBuffer
      <4>1. busy' = [busy EXCEPT ![Serves[p]] = v] /\ UNCHANGED marks
        BY <3>1, <3>3 DEF SetBusy
      <4>2. CASE v = TRUE BY <1>1, <4>1, <4>2
      <4>3. CASE v = FALSE BY <1>1, <4>1, <4>3
      <4>4. QED BY <4>2, <4>3
    <3>4. QED BY <3>2, <3>3
  <2>2. CASE BusySeen(p)
    <3> DEFINE v == Head(marks[p])
    <3>1. v \in BOOLEAN /\ Tail(marks[p]) \in Seq(BOOLEAN)
      BY <1>1, <2>2 DEF BusySeen
    <3>2. busy' = [busy EXCEPT ![Serves[p]] = v] /\ marks' = [marks EXCEPT ![p] = Tail(marks[p])]
      BY <2>2 DEF BusySeen
    <3> HIDE DEF v
    <3>3. marks' \in [Pollers -> Seq(BOOLEAN)]
      BY <1>1, <3>1, <3>2
    <3>4. CASE v = TRUE BY <1>1, <3>2, <3>3, <3>4
    <3>5. CASE v = FALSE BY <1>1, <3>2, <3>3, <3>5
    <3>6. QED BY <3>1, <3>4, <3>5
  <2>3. CASE UNCHANGED <<busy, marks>>
    BY <1>1, <2>3
  <2>4. QED BY <2>1, <2>2, <2>3 DEF PollStep, PollTest, PollMark, PollAgain, PollDone,
     PollClear, PollMore
<1>5. strayed' \in BOOLEAN
  <2>1. strayed \in BOOLEAN
    BY DEF TypeOK
  <2>2. CASE PollMark(p) \/ PollAgain(p)
    BY <2>1, <2>2 DEF PollMark, PollAgain
  <2>3. CASE strayed' = strayed
    BY <2>1, <2>3
  <2>4. QED BY <2>2, <2>3 DEF PollStep, PollTest, PollDone, PollClear, PollMore, BusySeen, past
<1>6. TypeOK'
  BY <1>1, <1>2, <1>3, <1>4, <1>5 DEF TypeOK
<1>7. Devices' /\ Ids' = Ids /\ OpenOnDevice' /\ AllowedRight'
  BY <1>1, <1>2 DEF Devices, Ids, OpenOnDevice, AllowedRight, InCall, Idling, At
<1>8. \A t \in Threads : Shape(t)'
  BY <1>2, SameShape
<1>9. Solo' = Solo
  BY <1>2 DEF Solo, Passes, LoadedRight, QueuesSettled, Settled, StoresRight, Passed, Right, At,
     Idling
<1>10. QED BY <1>1, <1>6, <1>7, <1>8, <1>9

LEMMA InvInductive == ASSUME Inv, [Next]_vars PROVE Inv'
<1>1. CASE UNCHANGED vars
  <2>1. /\ UNCHANGED <<started, attached, vid, cur, qvid, dev, allow, busy, call, poll, stores, marks>>
        /\ UNCHANGED <<alone, apart, strayed>>
    BY <1>1 DEF vars, port, past
  <2>2. TypeOK' /\ Devices' /\ Ids' = Ids /\ OpenOnDevice' /\ AllowedRight'
    BY <2>1 DEF Inv, Basic, TypeOK, Devices, Ids, OpenOnDevice, AllowedRight, Idling, InCall, At
  <2>3. \A t \in Threads : Shape(t)'
    BY <2>1, SameShape DEF Inv, Basic
  <2>4. Solo' = Solo
    BY <2>1 DEF Solo, Passes, LoadedRight, QueuesSettled, Settled, StoresRight, Passed, Right, At,
       Idling
  <2>5. QED BY <2>1, <2>2, <2>3, <2>4 DEF Inv, Basic, Past
<1>2. CASE \E p \in Pollers : PollStep(p) \/ PollMore(p) \/ BusySeen(p)
  BY <1>2, PollInv
<1>3. CASE \E t \in Threads : CallStep(t) \/ AllowSeen(t)
  BY <1>3, AttachInv, ResetDeviceInv, SetStartedInv, LoadStartedInv, LoadAttachedInv,
     LoadCurInv, StoreAllowInv, WaitQueueInv, UpdateDoneInv, ReturnInv, AllowSeenInv DEF CallStep
<1>4. CASE \E v \in Vids : NewDevice(v)
  BY <1>4, NewDeviceInv
<1>5. CASE \E q \in Queues, enable \in BOOLEAN : VringStateChanged(q, enable)
  BY <1>5, VringStateChangedInv
<1>6. CASE DestroyDevice \/ DevStart \/ DevStop
  BY <1>6, DestroyDeviceInv, DevStartInv, DevStopInv
<1>7. QED BY <1>1, <1>2, <1>3, <1>4, <1>5, <1>6 DEF Next

LEMMA Always == Spec => []Inv
<1>1. Inv /\ [Next]_vars => Inv'
  BY InvInductive
<1>2. QED BY InitInv, <1>1, PTL DEF Spec

\* The types, and that no more stores are under way than there are queues.
THEOREM TypeCorrect == Spec => []TypeOK
<1>1. Inv => TypeOK
  BY DEF Inv, Basic
<1>2. QED BY <1>1, Always, PTL

\* No update is lost, whatever order devices, rings and the port come and go
\* in, whether stores are seen at once or late, and whatever calls overlapped
\* before: a call of update_queuing_status that runs alone leaves every queue
\* open exactly if the port is started, a device attached and the ring enabled.
THEOREM AllowedCorrect == Spec => []AllowedRight
<1>1. Inv => AllowedRight
  BY DEF Inv
<1>2. QED BY <1>1, Always, PTL

\* An open queue has the id of the device, until calls overlap, and again once
\* a dev_stop or a destroy_device has run alone.
THEOREM OpenCorrect == Spec => []OpenOnDevice
<1>1. Inv => OpenOnDevice
  BY DEF Inv
<1>2. QED BY <1>1, Always, PTL
-----------------------------------------------------------------------------
SeenInTime ==
  StoreBuffer \/ ((\A t \in Threads : stores[t] = <<>>) /\ (\A p \in Pollers : marks[p] = <<>>))

\* A poller between its mark and the end of its use has marked the queue, and
\* before its use all others see so.
Marking(p) ==
  \/ marks[p] = <<>> /\ busy[Serves[p]]
  \/ marks[p] # <<>> /\ marks[p][Len(marks[p])]
Marked ==
  \A p \in Pollers :
    /\ poll[p].pc \in {"again", "clear"} => Marking(p)
    /\ In(p, "burst") => marks[p] = <<>> /\ busy[Serves[p]]
OneEngaged == \A p, r \in Pollers : Engaged(p) /\ Engaged(r) /\ Serves[p] = Serves[r] => p = r

\* A call that waits has no store under way but that of the queue it waits for.
Draining ==
  \A t \in Threads : Waits(t) =>
    \A k \in DOMAIN stores[t] : At(t, "wait") /\ stores[t][k][1] = call[t].i

\* No queue a call that waits and runs alone has passed is in use.
Closing ==
  \A t \in Threads, p \in Pollers : Waits(t) /\ Serves[p] < call[t].i => ~In(p, "burst")

\* A queue in use has the id of the device.
BurstIds == \A p \in Pollers : In(p, "burst") => qvid[Serves[p]] = dev

Burst ==
  /\ SeenInTime
  /\ ~strayed => Marked /\ OneEngaged /\ Draining
  /\ ~strayed /\ alone => Closing
  /\ ~strayed /\ apart => BurstIds /\ BurstOnDevice

LEMMA InitBurst == Init => Burst
<1> SUFFICES ASSUME Init PROVE Burst
  OBVIOUS
<1>1. /\ \A t \in Threads : stores[t] = <<>> /\ call[t].op = "none"
      /\ \A p \in Pollers : marks[p] = <<>> /\ poll[p].pc = "idle"
  BY NoCallMade DEF Init, Idle
<1>2. QED BY <1>1 DEF Burst, SeenInTime, Marked, OneEngaged, Draining, Closing, BurstIds,
   BurstOnDevice, In, Engaged, Waits

\* A queue that a call has passed that waits and runs alone is closed: the port
\* is stopped, or has no device.
LEMMA Shut ==
  ASSUME Inv, Draining, alone, NEW t \in Threads, Waits(t), NEW q \in Queues, q < call[t].i
  PROVE  ~allow[q]
<1>1. q <= Passed(t) /\ q # call[t].i
  BY InUpdate DEF Passed, Queues, Inv
<1>2. allow[q] <=> Right(q)
  BY <1>1 DEF Inv, Past, Solo, Passes, QueuesSettled, Settled, Draining
<1>3. ~Idling(t) /\ call[t].op \in Ops(t)
  BY NoCallMade DEF Inv, Basic, Shape, Waits, Idling
<1>4. ~started \/ ~attached
  BY <1>3 DEF Inv, Basic, Devices, InCall, Waits, Ops, Threads
<1>5. QED BY <1>2, <1>4 DEF Right

\* The last element of a sequence that grows or shrinks.
LEMMA LastOf ==
  ASSUME NEW S, NEW s \in Seq(S), NEW v \in S
  PROVE  /\ Append(s, v) # <<>> /\ Append(s, v)[Len(Append(s, v))] = v
         /\ s # <<>> => \/ Tail(s) = <<>> /\ Head(s) = s[Len(s)]
                        \/ Tail(s) # <<>> /\ Tail(s)[Len(Tail(s))] = s[Len(s)]
<1>1. Append(s, v) # <<>> /\ Append(s, v)[Len(Append(s, v))] = v
  <2>1. Len(s) \in Nat /\ Append(s, v) \in Seq(S) /\ Len(Append(s, v)) = Len(s) + 1
    OBVIOUS
  <2>2. Append(s, v)[Len(s) + 1] = v
    OBVIOUS
  <2>3. QED BY <2>1, <2>2
<1>2. ASSUME s # <<>>
      PROVE  \/ Tail(s) = <<>> /\ Head(s) = s[Len(s)]
             \/ Tail(s) # <<>> /\ Tail(s)[Len(Tail(s))] = s[Len(s)]
  <2>1. Len(s) \in Nat /\ Len(s) >= 1 /\ Tail(s) \in Seq(S) /\ Len(Tail(s)) = Len(s) - 1
    BY <1>2
  <2>2. CASE Len(s) = 1
    <3>1. Head(s) = s[1]
      BY <1>2
    <3>2. Len(Tail(s)) = 0
      BY <2>1, <2>2
    <3>3. Tail(s) = <<>>
      BY <2>1, <3>2, EmptySeq
    <3>4. QED BY <2>2, <3>1, <3>3
  <2>3. CASE Len(s) # 1
    <3>1. \A k \in 1 .. Len(Tail(s)) : Tail(s)[k] = s[k + 1]
      BY <1>2
    <3>2. Len(s) - 1 \in 1 .. Len(Tail(s)) /\ (Len(s) - 1) + 1 = Len(s)
      BY <2>1, <2>3
    <3>3. Tail(s)[Len(s) - 1] = s[Len(s)]
      BY <3>1, <3>2
    <3>4. Len(Tail(s)) # 0
      BY <2>1, <2>3
    <3>5. Tail(s) # <<>>
      BY <2>1, <3>4
    <3>6. Len(Tail(s)) = Len(s) - 1
      BY <2>1
    <3>7. QED BY <3>3, <3>5, <3>6
  <2>4. QED BY <2>2, <2>3
<1>3. QED BY <1>1, <1>2

\* Pollers get to a queue that is open, and say so first.
LEMMA SetBusyMakes ==
  ASSUME Inv, SeenInTime, NEW p \in Pollers, NEW v \in BOOLEAN, SetBusy(p, v)
  PROVE  /\ \A r \in Pollers : r # p => marks'[r] = marks[r]
         /\ \A q \in Queues : q # Serves[p] => busy'[q] = busy[q]
         /\ \/ StoreBuffer /\ marks'[p] # <<>> /\ marks'[p][Len(marks'[p])] = v
            \/ ~StoreBuffer /\ marks'[p] = <<>> /\ busy'[Serves[p]] = v /\ UNCHANGED marks
<1>1. /\ busy \in [Queues -> BOOLEAN] /\ marks \in [Pollers -> Seq(BOOLEAN)]
      /\ Serves[p] \in Queues
  BY VhostAssumption DEF Inv, Basic, TypeOK
<1>2. CASE StoreBuffer
  <2>1. marks' = [marks EXCEPT ![p] = Append(marks[p], v)] /\ UNCHANGED busy
    BY <1>2 DEF SetBusy
  <2>2. /\ Append(marks[p], v) # <<>>
        /\ Append(marks[p], v)[Len(Append(marks[p], v))] = v
    BY <1>1, LastOf
  <2>3. QED BY <1>1, <1>2, <2>1, <2>2
<1>3. CASE ~StoreBuffer
  <2>1. busy' = [busy EXCEPT ![Serves[p]] = v] /\ UNCHANGED marks
    BY <1>3 DEF SetBusy
  <2>2. QED BY <1>1, <1>3, <2>1 DEF SeenInTime
<1>4. QED BY <1>2, <1>3

\* The poller of a queue changes its mark; no other is engaged with the queue.
LEMMA OthersMarked ==
  ASSUME Inv, Marked, NEW p \in Pollers,
         \A r \in Pollers : r # p => poll'[r] = poll[r] /\ marks'[r] = marks[r],
         \A q \in Queues : q # Serves[p] => busy'[q] = busy[q],
         \A r \in Pollers : r # p /\ Serves[r] = Serves[p] => ~Engaged(r)
  PROVE  \A r \in Pollers : r # p =>
           /\ poll'[r].pc \in {"again", "clear"} => Marking(r)'
           /\ In(r, "burst")' => marks'[r] = <<>> /\ busy'[Serves[r]]
<1> SUFFICES ASSUME NEW r \in Pollers, r # p
             PROVE  /\ poll'[r].pc \in {"again", "clear"} => Marking(r)'
                    /\ In(r, "burst")' => marks'[r] = <<>> /\ busy'[Serves[r]]
  OBVIOUS
<1>1. CASE Serves[r] = Serves[p]
  BY <1>1 DEF Engaged, In
<1>2. CASE Serves[r] # Serves[p]
  <2>1. busy'[Serves[r]] = busy[Serves[r]]
    BY <1>2, VhostAssumption
  <2>2. QED BY <2>1 DEF Marked, Marking, In
<1>3. QED BY <1>1, <1>2

\* The marks stay as they should be.
LEMMA MarksKept ==
  ASSUME Inv, SeenInTime, NEW p \in Pollers, PollStep(p) \/ PollMore(p) \/ BusySeen(p),
         ~strayed', Marked, OneEngaged
  PROVE  Marked' /\ OneEngaged'
<1>1. /\ poll \in [Pollers -> PollType] /\ busy \in [Queues -> BOOLEAN]
      /\ marks \in [Pollers -> Seq(BOOLEAN)] /\ Serves \in [Pollers -> Queues]
  BY VhostAssumption DEF Inv, Basic, TypeOK
<1>2. CASE PollTest(p)
  <2>1. /\ poll' = [poll EXCEPT ![p].pc = "mark"] /\ In(p, "idle") /\ UNCHANGED <<busy, marks>>
    BY <1>2 DEF PollTest, Go
  <2>2. \A r \in Pollers : Engaged(r)' <=> Engaged(r)
    BY <1>1, <2>1 DEF Engaged, In, PollType
  <2>3. Marked'
    BY <1>1, <2>1 DEF Marked, Marking, In, PollType
  <2>4. QED BY <2>2, <2>3 DEF OneEngaged
<1>3. CASE PollMark(p)
  <2>1. /\ poll' = [poll EXCEPT ![p].pc = "again"] /\ In(p, "mark") /\ SetBusy(p, TRUE)
        /\ ~Sharing(p)
    BY <1>3 DEF PollMark, Go
  <2>2. \A r \in Pollers : r # p /\ Serves[r] = Serves[p] => ~Engaged(r)
    BY <2>1 DEF Sharing
  <2>3. /\ poll'[p].pc = "again" /\ \A r \in Pollers : r # p => poll'[r] = poll[r]
    BY <1>1, <2>1 DEF PollType
  <2>4. /\ \A r \in Pollers : r # p => marks'[r] = marks[r]
        /\ \A q \in Queues : q # Serves[p] => busy'[q] = busy[q]
        /\ \/ marks'[p] # <<>> /\ marks'[p][Len(marks'[p])] = TRUE
           \/ marks'[p] = <<>> /\ busy'[Serves[p]] = TRUE
    BY <2>1, SetBusyMakes
  <2>5. Marking(p)'
    BY <2>4 DEF Marking
  <2>6. Marked'
    BY <2>2, <2>3, <2>4, <2>5, OthersMarked DEF Marked, In
  <2>7. \A r \in Pollers : r # p => (Engaged(r)' <=> Engaged(r))
    BY <2>3, <2>4 DEF Engaged
  <2>8. QED BY <2>2, <2>6, <2>7 DEF OneEngaged
<1>4. CASE PollAgain(p)
  <2>1. /\ In(p, "again") /\ UNCHANGED <<busy, marks>> /\ ~(Allowed(p) /\ marks[p] # <<>>)
        /\ \/ Allowed(p) /\ poll' = [poll EXCEPT ![p] = [pc |-> "burst", vid |-> qvid[Serves[p]]]]
           \/ poll' = [poll EXCEPT ![p].pc = "clear"]
    BY <1>4 DEF PollAgain, Go, UseDevice
  <2>2. /\ \A r \in Pollers : r # p => poll'[r] = poll[r]
        /\ poll'[p].pc = "clear" \/ (poll'[p].pc = "burst" /\ marks[p] = <<>>)
    BY <1>1, <2>1 DEF PollType
  <2>3. \A r \in Pollers : Engaged(r)' <=> Engaged(r)
    BY <2>1, <2>2 DEF Engaged, In
  <2>4. Marked'
    BY <2>1, <2>2 DEF Marked, Marking, In
  <2>5. QED BY <2>3, <2>4 DEF OneEngaged
<1>5. CASE PollMore(p)
  <2>1. /\ In(p, "burst") /\ UNCHANGED <<busy, marks>>
        /\ poll' = [poll EXCEPT ![p] = [pc |-> "burst", vid |-> qvid[Serves[p]]]]
    BY <1>5 DEF PollMore, UseDevice
  <2>2. /\ \A r \in Pollers : poll'[r].pc = poll[r].pc
    BY <1>1, <2>1 DEF PollType, In
  <2>3. QED BY <2>1, <2>2 DEF OneEngaged, Engaged, Marked, Marking, In
<1>6. CASE PollDone(p)
  <2>1. /\ In(p, "burst") /\ UNCHANGED <<busy, marks>>
        /\ poll' = [poll EXCEPT ![p] = [pc |-> "clear", vid |-> NoVid]]
    BY <1>6 DEF PollDone
  <2>2. /\ poll'[p].pc = "clear" /\ \A r \in Pollers : r # p => poll'[r] = poll[r]
    BY <1>1, <2>1
  <2>3. \A r \in Pollers : Engaged(r)' <=> Engaged(r)
    BY <2>1, <2>2 DEF Engaged, In
  <2>4. Marked'
    BY <2>1, <2>2 DEF Marked, Marking, In
  <2>5. QED BY <2>3, <2>4 DEF OneEngaged
<1>7. CASE PollClear(p)
  <2>1. /\ poll' = [poll EXCEPT ![p].pc = "idle"] /\ In(p, "clear") /\ SetBusy(p, FALSE)
    BY <1>7 DEF PollClear, Go
  <2>2. Engaged(p)
    BY <2>1 DEF Engaged, In
  <2>3. \A r \in Pollers : r # p /\ Serves[r] = Serves[p] => ~Engaged(r)
    BY <2>2 DEF OneEngaged
  <2>4. /\ poll'[p].pc = "idle" /\ \A r \in Pollers : r # p => poll'[r] = poll[r]
    BY <1>1, <2>1 DEF PollType
  <2>5. /\ \A r \in Pollers : r # p => marks'[r] = marks[r]
        /\ \A q \in Queues : q # Serves[p] => busy'[q] = busy[q]
    BY <2>1, SetBusyMakes
  <2>6. Marked'
    BY <2>3, <2>4, <2>5, OthersMarked DEF Marked, In
  <2>7. \A r \in Pollers : r # p => (Engaged(r)' <=> Engaged(r))
    BY <2>4, <2>5 DEF Engaged
  <2>8. QED BY <2>2, <2>6, <2>7 DEF OneEngaged
<1>8. CASE BusySeen(p)
  <2> DEFINE s == marks[p]
  <2>1. /\ s # <<>> /\ busy' = [busy EXCEPT ![Serves[p]] = Head(s)]
        /\ marks' = [marks EXCEPT ![p] = Tail(s)] /\ UNCHANGED poll
    BY <1>8 DEF BusySeen
  <2>2. Engaged(p)
    BY <2>1 DEF Engaged
  <2>3. \A r \in Pollers : r # p /\ Serves[r] = Serves[p] => ~Engaged(r)
    BY <2>2 DEF OneEngaged
  <2>4. /\ marks'[p] = Tail(s) /\ \A r \in Pollers : r # p => marks'[r] = marks[r]
        /\ busy'[Serves[p]] = Head(s)
        /\ \A q \in Queues : q # Serves[p] => busy'[q] = busy[q]
    BY <1>1, <2>1
  <2>5. s \in Seq(BOOLEAN) /\ TRUE \in BOOLEAN
    BY <1>1
  <2>6. Marking(p) => Marking(p)'
    <3>1. \/ Tail(s) = <<>> /\ Head(s) = s[Len(s)]
          \/ Tail(s) # <<>> /\ Tail(s)[Len(Tail(s))] = s[Len(s)]
      BY <2>1, <2>5, LastOf
    <3>2. QED BY <2>1, <2>4, <3>1 DEF Marking
  <2>7. ~In(p, "burst")
    BY <2>1 DEF Marked
  <2>8. \A r \in Pollers : r # p =>
           /\ poll'[r].pc \in {"again", "clear"} => Marking(r)'
           /\ In(r, "burst")' => marks'[r] = <<>> /\ busy'[Serves[r]]
    BY <2>1, <2>3, <2>4, OthersMarked
  <2>9. poll'[p].pc \in {"again", "clear"} => Marking(p)'
    BY <2>1, <2>6 DEF Marked
  <2>10. ~In(p, "burst")'
    BY <2>1, <2>7 DEF In
  <2>11. Marked'
    BY <2>8, <2>9, <2>10 DEF Marked
  <2>12. \A r \in Pollers : Engaged(r)' => Engaged(r)
    BY <2>1, <2>2, <2>4 DEF Engaged
  <2>13. QED BY <2>11, <2>12 DEF OneEngaged
<1>9. QED BY <1>2, <1>3, <1>4, <1>5, <1>6, <1>7, <1>8 DEF PollStep

\* Pollers only get to a queue that is open, and mark it first.
LEMMA PollBurst ==
  ASSUME Inv, Burst, NEW p \in Pollers, PollStep(p) \/ PollMore(p) \/ BusySeen(p)
  PROVE  Burst'
<1>1. /\ UNCHANGED <<started, attached, qvid, dev, allow, call, stores>>
      /\ UNCHANGED <<alone, apart>> /\ (strayed => strayed')
      /\ poll \in [Pollers -> PollType] /\ Serves \in [Pollers -> Queues]
      /\ strayed \in BOOLEAN
  BY VhostAssumption DEF PollStep, PollTest, PollMark, PollAgain, PollDone, PollClear, PollMore,
     BusySeen, SetBusy, Inv, Basic, TypeOK, past, port
<1>2. SeenInTime'
  <2>1. ASSUME ~StoreBuffer PROVE \A r \in Pollers : marks'[r] = <<>>
    BY <2>1 DEF Burst, SeenInTime, PollStep, PollTest, PollMark, PollAgain, PollDone, PollClear,
       PollMore, BusySeen, SetBusy
  <2>2. QED BY <1>1, <2>1 DEF Burst, SeenInTime
<1>3. ~strayed' => Marked' /\ OneEngaged' /\ Draining'
  <2>1. ~strayed' => Marked' /\ OneEngaged'
    BY <1>1, MarksKept DEF Burst
  <2>2. ~strayed' => Draining'
    BY <1>1 DEF Burst, Draining, Waits, At
  <2>3. QED BY <2>1, <2>2
<1>4. \/ UseDevice(p) /\ (In(p, "burst") \/ Allowed(p))
      \/ \A r \in Pollers : In(r, "burst")' => poll'[r] = poll[r]
  <2>1. CASE PollAgain(p) /\ Allowed(p)
    BY <2>1 DEF PollAgain
  <2>2. CASE PollMore(p)
    BY <2>2 DEF PollMore
  <2>3. CASE UNCHANGED poll
    BY <2>3
  <2>4. CASE poll' = [poll EXCEPT ![p] = [pc |-> "clear", vid |-> NoVid]]
    BY <1>1, <2>4 DEF In
  <2>5. CASE \E pc \in {"mark", "again", "clear", "idle"} : Go(p, pc)
    <3>1. PICK pc \in {"mark", "again", "clear", "idle"} : poll' = [poll EXCEPT ![p].pc = pc]
      BY <2>5 DEF Go
    <3>2. poll'[p].pc = pc /\ \A r \in Pollers : r # p => poll'[r] = poll[r]
      BY <1>1, <3>1 DEF PollType
    <3>3. QED BY <3>2 DEF In
  <2>6. QED BY <2>1, <2>2, <2>3, <2>4, <2>5 DEF PollStep, PollTest, PollMark, PollAgain, PollDone,
     PollClear, PollMore, BusySeen
<1>5. \A r \in Pollers : In(r, "burst")' => In(r, "burst") \/ (r = p /\ Allowed(p))
  BY <1>1, <1>4 DEF UseDevice, In
<1>6. ASSUME ~strayed, alone PROVE Closing'
  <2> SUFFICES ASSUME NEW t \in Threads, NEW r \in Pollers, Waits(t), Serves[r] < call[t].i,
                      In(r, "burst")'
               PROVE  FALSE
    BY <1>1 DEF Closing, Waits
  <2>1. ~allow[Serves[r]]
    BY <1>1, <1>6, Shut DEF Burst
  <2>2. ~In(r, "burst")
    BY <1>6 DEF Burst, Closing
  <2>3. QED BY <1>5, <2>1, <2>2 DEF Allowed
<1>7. ASSUME ~strayed, apart PROVE BurstIds' /\ BurstOnDevice'
  <2>1. In(p, "burst") \/ Allowed(p) => qvid[Serves[p]] = dev /\ dev # NoVid
    BY <1>1, <1>7 DEF Inv, OpenOnDevice, Allowed, BurstOnDevice, BurstIds, Burst
  <2>2. BurstOnDevice'
    <3>1. CASE UseDevice(p) /\ (In(p, "burst") \/ Allowed(p))
      BY <1>1, <1>7, <2>1, <3>1 DEF Burst, BurstOnDevice, UseDevice, In
    <3>2. CASE \A r \in Pollers : In(r, "burst")' => poll'[r] = poll[r]
      BY <1>1, <1>7, <3>2 DEF Burst, BurstOnDevice, In
    <3>3. QED BY <1>4, <3>1, <3>2
  <2>3. BurstIds'
    BY <1>1, <1>5, <1>7, <2>1 DEF Burst, BurstIds
  <2>4. QED BY <2>2, <2>3
<1>8. QED BY <1>1, <1>2, <1>3, <1>6, <1>7 DEF Burst

\* Steps of a call that touch neither the marks nor the bursts.
LEMMA KeepsBurst ==
  ASSUME Burst, UNCHANGED <<busy, poll, marks>>, SeenInTime', strayed => strayed',
         strayed' \in BOOLEAN, strayed \in BOOLEAN,
         ~strayed' => Draining', ~strayed' /\ alone' => Closing',
         ~strayed' /\ apart' => BurstIds' /\ BurstOnDevice'
  PROVE  Burst'
<1>1. Marked' = Marked /\ OneEngaged' = OneEngaged
  BY DEF Marked, Marking, OneEngaged, Engaged, In
<1>2. QED BY <1>1 DEF Burst

\* A call begins: a thread that waits has passed no queue.
LEMMA BeginBurst ==
  ASSUME Inv, Burst, NEW t \in Threads, NEW op \in {"new", "destroy", "vring", "start", "stop"},
         NEW pc \in {"attach", "start", "started"}, Begin(t, op, pc),
         UNCHANGED <<busy, poll, stores, marks>>,
         ~strayed /\ apart => BurstIds' /\ BurstOnDevice'
  PROVE  Burst'
<1>1. /\ Idling(t) /\ call'[t].op = op /\ call'[t].pc = pc /\ call'[t].i = 1
      /\ \A s \in Threads : s # t => call'[s] = call[s] /\ (Idling(s)' <=> Idling(s))
      /\ strayed' = strayed
      /\ alone' => \A s \in Threads : Idling(s)
      /\ apart' => alone' /\ apart
  BY Begun
<1>2. SeenInTime'
  BY DEF Burst, SeenInTime
<1>3. ASSUME ~strayed PROVE Draining'
  <2>1. stores[t] = <<>>
    BY <1>1, IdleEmpty DEF Inv
  <2>2. QED BY <1>1, <1>3, <2>1 DEF Burst, Draining, Waits, At
<1>4. ASSUME alone' PROVE Closing'
  <2>1. \A s \in Threads : Waits(s)' => s = t
    BY <1>1, <1>4, NoCallMade DEF Waits, Idling
  <2>2. \A p \in Pollers : ~(Serves[p] < 1)
    BY VhostAssumption DEF Queues
  <2>3. QED BY <1>1, <2>1, <2>2 DEF Closing
<1>5. strayed \in BOOLEAN
  BY DEF Inv, Basic, TypeOK
<1>6. QED BY <1>1, <1>2, <1>3, <1>4, <1>5, KeepsBurst

\* The calls that begin without touching an id or the device.
LEMMA BeginsBurst ==
  ASSUME Inv, Burst,
         DestroyDevice \/ DevStop \/ (\E q \in Queues, enable \in BOOLEAN : VringStateChanged(q, enable))
  PROVE  Burst'
<1>1. UNCHANGED <<qvid, dev, busy, poll, stores, marks>>
  BY DEF DestroyDevice, DevStop, VringStateChanged
<1>2. PICK t \in Threads, op \in {"destroy", "stop", "vring"} : Begin(t, op, "started")
  BY DEF DestroyDevice, DevStop, VringStateChanged, Threads
<1>3. ~strayed /\ apart => BurstIds' /\ BurstOnDevice'
  BY <1>1 DEF Burst, BurstIds, BurstOnDevice, In
<1>4. QED BY <1>1, <1>2, <1>3, BeginBurst

LEMMA NewDeviceBurst == ASSUME Inv, Burst, NEW v \in Vids, NewDevice(v) PROVE Burst'
<1>1. /\ dev = NoVid /\ UNCHANGED <<busy, poll, stores, marks>> /\ Begin("event", "new", "attach")
  BY DEF NewDevice
<1>2. ~strayed /\ apart => \A p \in Pollers : ~In(p, "burst") /\ ~In(p, "burst")'
  BY <1>1 DEF Burst, BurstOnDevice, In
<1>3. ~strayed /\ apart => BurstIds' /\ BurstOnDevice'
  BY <1>2 DEF BurstIds, BurstOnDevice
<1>4. QED BY <1>1, <1>3, BeginBurst DEF Threads

LEMMA DevStartBurst == ASSUME Inv, Burst, DevStart PROVE Burst'
<1>1. /\ qvid' = [q \in Queues |-> vid] /\ UNCHANGED <<dev, busy, poll, stores, marks>>
      /\ Begin("control", "start", "start")
  BY DEF DevStart, QueueSetup
<1>2. ~strayed /\ apart => BurstIds' /\ BurstOnDevice'
  BY <1>1, VhostAssumption DEF Burst, BurstIds, BurstOnDevice, In, Inv, Basic, Devices
<1>3. QED BY <1>1, <1>2, BeginBurst DEF Threads

\* A step of a call that has begun: its operation stays.
LEMMA GoneOn ==
  ASSUME Inv, NEW t \in Threads, NEW pc, NEW i, NEW on, NEW want, Step(t, pc, i, on, want)
  PROVE  /\ \A s \in Threads : Waits(s)' <=> Waits(s)
         /\ call'[t].pc = pc /\ call'[t].i = i
         /\ \A s \in Threads : s # t => call'[s] = call[s]
<1> DEFINE c == Call(call[t].op, pc, i, on, want)
<1>1. c.op = call[t].op /\ c.pc = pc /\ c.i = i
  BY Zenon DEF Call
<1>2. call' = [call EXCEPT ![t] = c] /\ call \in [Threads -> CallType]
  BY DEF Step, Inv, Basic, TypeOK
<1> HIDE DEF c
<1>3. QED BY <1>1, <1>2 DEF Waits

\* A call that waits passes a queue only when no poller has it marked, and its
\* own store is seen.
LEMMA WaitQueueBurst == ASSUME Inv, Burst, NEW t \in Threads, WaitQueue(t) PROVE Burst'
<1> DEFINE e == call[t]
<1>1. /\ e.pc = "wait" /\ ~busy[e.i] /\ Step(t, "queue", e.i + 1, e.on, FALSE)
      /\ UNCHANGED <<qvid, dev, busy, poll, stores, marks>> /\ UNCHANGED <<alone, apart>>
      /\ strayed' = (strayed \/ stores[t] # <<>>)
  BY DEF WaitQueue, NextQueue, At, port
<1>2. strayed \in BOOLEAN /\ strayed' \in BOOLEAN /\ (strayed => strayed')
  BY <1>1 DEF Inv, Basic, TypeOK
<1>3. /\ \A s \in Threads : Waits(s)' <=> Waits(s)
      /\ call'[t].i = e.i + 1 /\ \A s \in Threads : s # t => call'[s] = call[s]
  BY <1>1, GoneOn
<1>4. SeenInTime' /\ (~strayed' /\ apart' => BurstIds' /\ BurstOnDevice')
  BY <1>1, <1>2 DEF Burst, SeenInTime, BurstIds, BurstOnDevice, In
<1>5. ASSUME ~strayed' PROVE Draining'
  <2>1. ~strayed /\ stores'[t] = <<>> /\ UNCHANGED stores
    BY <1>1, <1>2, <1>5
  <2>2. \A s \in Threads : s # t => (At(s, "wait")' <=> At(s, "wait"))
    BY <1>3 DEF At
  <2>3. DOMAIN stores'[t] = {}
    BY <2>1
  <2>4. QED BY <1>3, <2>1, <2>2, <2>3 DEF Burst, Draining
<1>6. ASSUME ~strayed', alone PROVE Closing'
  <2>1. /\ e.i \in Queues /\ Serves \in [Pollers -> Queues]
    BY <1>1, VhostAssumption DEF Inv, Basic, Shape
  <2>2. \A p \in Pollers : Serves[p] < e.i + 1 => Serves[p] < e.i \/ Serves[p] = e.i
    BY <2>1 DEF Queues
  <2>3. \A p \in Pollers : Serves[p] = e.i => ~In(p, "burst")
    BY <1>1, <1>2, <1>6 DEF Burst, Marked, In
  <2>4. QED BY <1>1, <1>2, <1>3, <1>6, <2>2, <2>3 DEF Burst, Closing, In
<1>7. QED BY <1>1, <1>2, <1>4, <1>5, <1>6, KeepsBurst

\* A call that waits has one store under way after it has stored.
LEMMA StoreAllowBurst == ASSUME Inv, Burst, NEW t \in Threads, StoreAllow(t) PROVE Burst'
<1> DEFINE e == call[t]
<1>1. /\ e.pc = "store" /\ SetAllow(t, e.i, e.want)
      /\ IF Waits(t) THEN Step(t, "wait", e.i, e.on, FALSE)
                     ELSE Step(t, "queue", e.i + 1, e.on, FALSE)
      /\ UNCHANGED <<qvid, dev, busy, poll, marks>> /\ UNCHANGED <<alone, apart, strayed>>
  BY DEF StoreAllow, NextQueue, At, port, past
<1>2. strayed \in BOOLEAN /\ stores \in [Threads -> Seq(Queues \X BOOLEAN)]
  BY DEF Inv, Basic, TypeOK
<1>3. /\ \A s \in Threads : Waits(s)' <=> Waits(s)
      /\ Waits(t) => call'[t].pc = "wait" /\ call'[t].i = e.i
      /\ \A s \in Threads : s # t => call'[s] = call[s]
  BY <1>1, GoneOn
<1>4. /\ SeenInTime' /\ (~strayed' /\ apart' => BurstIds' /\ BurstOnDevice')
      /\ (~strayed' /\ alone' => Closing')
  BY <1>1, <1>2, <1>3 DEF Burst, SeenInTime, BurstIds, BurstOnDevice, Closing, In, SetAllow
<1>5. ASSUME ~strayed PROVE Draining'
  <2> SUFFICES ASSUME NEW s \in Threads, Waits(s), NEW k \in DOMAIN stores'[s]
               PROVE  At(s, "wait")' /\ stores'[s][k][1] = call'[s].i
    BY <1>3 DEF Draining
  <2>1. CASE s = t
    <3>1. stores[t] = <<>>
      <4>1. \A j \in DOMAIN stores[t] : FALSE
        BY <1>1, <1>5, <2>1 DEF Burst, Draining, At
      <4>2. stores[t] \in Seq(Queues \X BOOLEAN) /\ 1 \notin DOMAIN stores[t]
        BY <1>2, <4>1
      <4>3. QED BY <4>2, EmptySeq
    <3>2. StoreBuffer /\ stores'[t] = Append(stores[t], <<e.i, e.want>>)
      BY <1>1, <1>2, <2>1, <3>1 DEF SetAllow
    <3>3. stores'[t][k] = <<e.i, e.want>>
      BY <2>1, <3>1, <3>2
    <3>4. QED BY <1>3, <2>1, <3>3 DEF At
  <2>2. CASE s # t
    <3>1. stores'[s] = stores[s]
      BY <1>1, <1>2, <2>2 DEF SetAllow
    <3>2. QED BY <1>3, <1>5, <2>2, <3>1 DEF Burst, Draining, At
  <2>3. QED BY <2>1, <2>2
<1>6. QED BY <1>1, <1>2, <1>4, <1>5, KeepsBurst

\* The other steps of update_queuing_status, and those before it.
LEMMA UpdateBurst ==
  ASSUME Inv, Burst, NEW t \in Threads,
         \/ (t = "event" /\ Attach) \/ (t = "control" /\ SetStarted)
         \/ LoadStarted(t) \/ LoadAttached(t) \/ LoadCur(t) \/ UpdateDone(t)
  PROVE  Burst'
<1>1. /\ UNCHANGED <<qvid, dev, busy, poll, stores, marks>> /\ UNCHANGED <<alone, apart, strayed>>
      /\ call[t].pc # "wait"
  BY DEF Attach, SetStarted, LoadStarted, LoadAttached, LoadCur, UpdateDone, port, past, At
<1>2. \E pc, on, want : Step(t, pc, call[t].i, on, want)
  BY DEF Attach, SetStarted, LoadStarted, LoadAttached, LoadCur, UpdateDone, Goto
<1>3. PICK pc, on, want : Step(t, pc, call[t].i, on, want)
  BY <1>2
<1>4. /\ \A s \in Threads : Waits(s)' <=> Waits(s)
      /\ call'[t].i = call[t].i /\ \A s \in Threads : s # t => call'[s] = call[s]
  BY <1>3, GoneOn
<1>5. /\ SeenInTime' /\ (~strayed' /\ apart' => BurstIds' /\ BurstOnDevice')
      /\ (~strayed' /\ alone' => Closing')
  BY <1>1, <1>4 DEF Burst, SeenInTime, BurstIds, BurstOnDevice, Closing, In
<1>6. ~strayed => Draining'
  BY <1>1, <1>4 DEF Burst, Draining, At
<1>7. strayed \in BOOLEAN
  BY DEF Inv, Basic, TypeOK
<1>8. QED BY <1>1, <1>5, <1>6, <1>7, KeepsBurst

\* When a call that waits and runs alone is through no queue is in use.
LEMMA NoneInUse ==
  ASSUME Inv, Burst, ~strayed, alone, NEW t \in Threads, Waits(t),
         call[t].pc \in {"reset", "return"}
  PROVE  \A p \in Pollers : ~In(p, "burst")
<1>1. call[t].i > N /\ call[t].i \in Nat /\ N \in Nat
  BY InUpdate DEF Inv, Basic, Shape
<1>2. QED BY <1>1, VhostAssumption DEF Burst, Closing, Queues

LEMMA ResetDeviceBurst == ASSUME Inv, Burst, ResetDevice PROVE Burst'
<1> DEFINE e == call["event"]
<1>1. /\ e.pc = "reset" /\ Step("event", "return", e.i, e.on, e.want) /\ stores["event"] = <<>>
      /\ UNCHANGED <<dev, busy, poll, stores, marks>> /\ UNCHANGED <<alone, apart, strayed>>
  BY DEF ResetDevice, At, Goto, past
<1>2. /\ \A s \in Threads : Waits(s)' <=> Waits(s)
      /\ call'["event"].i = e.i /\ \A s \in Threads : s # "event" => call'[s] = call[s]
  BY <1>1, GoneOn DEF Threads
<1>3. Waits("event")
  BY <1>1 DEF Inv, Basic, Shape, At, Waits, Threads
<1>4. ~strayed /\ apart => \A p \in Pollers : ~In(p, "burst") /\ ~In(p, "burst")'
  BY <1>1, <1>3, NoneInUse DEF In, Threads, Inv, Past
<1>5. ~strayed /\ apart => BurstIds' /\ BurstOnDevice'
  BY <1>4 DEF BurstIds, BurstOnDevice
<1>6. SeenInTime' /\ (~strayed /\ alone => Closing')
  BY <1>1, <1>2 DEF Burst, SeenInTime, Closing, In
<1>7. ~strayed => Draining'
  BY <1>1, <1>2 DEF Burst, Draining, At
<1>8. strayed \in BOOLEAN
  BY DEF Inv, Basic, TypeOK
<1>9. QED BY <1>1, <1>5, <1>6, <1>7, <1>8, KeepsBurst

\* Nothing is wrong any more when a call that waits has run alone.
LEMMA ReturnBurst == ASSUME Inv, Burst, NEW t \in Threads, Return(t) PROVE Burst'
<1>1. /\ call[t].pc = "return" /\ call' = [call EXCEPT ![t] = NoCall]
      /\ dev' = IF call[t].op = "destroy" THEN NoVid ELSE dev
      /\ UNCHANGED <<qvid, busy, poll, stores, marks>>
      /\ UNCHANGED <<alone, strayed>> /\ apart' = (apart \/ (alone /\ Waits(t)))
  BY DEF Return, At
<1>2. /\ ~Waits(t)' /\ \A s \in Threads : s # t => call'[s] = call[s]
  BY <1>1, NoCallMade DEF Inv, Basic, TypeOK, Waits
<1>3. SeenInTime' /\ (~strayed /\ alone => Closing') /\ (~strayed => Draining')
  BY <1>1, <1>2 DEF Burst, SeenInTime, Closing, Draining, In, Waits, At
<1>4. ASSUME ~strayed, apart' PROVE BurstIds' /\ BurstOnDevice'
  <2>1. CASE Waits(t)
    <3>1. alone
      BY <1>1, <1>4 DEF Inv, Past
    <3>2. \A p \in Pollers : ~In(p, "burst") /\ ~In(p, "burst")'
      BY <1>1, <1>4, <2>1, <3>1, NoneInUse DEF In
    <3>3. QED BY <3>2 DEF BurstIds, BurstOnDevice
  <2>2. CASE ~Waits(t)
    BY <1>1, <1>4, <2>2 DEF Burst, BurstIds, BurstOnDevice, In, Waits
  <2>3. QED BY <2>1, <2>2
<1>5. strayed \in BOOLEAN
  BY DEF Inv, Basic, TypeOK
<1>6. QED BY <1>1, <1>3, <1>4, <1>5, KeepsBurst

LEMMA AllowSeenBurst == ASSUME Inv, Burst, NEW t \in Threads, AllowSeen(t) PROVE Burst'
<1> DEFINE s == stores[t]
<1>1. /\ s # <<>> /\ stores' = [stores EXCEPT ![t] = Tail(s)]
      /\ UNCHANGED <<qvid, dev, busy, call, poll, marks>> /\ UNCHANGED <<alone, apart, strayed>>
  BY DEF AllowSeen, past, port
<1>2. stores \in [Threads -> Seq(Queues \X BOOLEAN)] /\ strayed \in BOOLEAN
  BY DEF Inv, Basic, TypeOK
<1>3. /\ stores'[t] = Tail(s) /\ \A r \in Threads : r # t => stores'[r] = stores[r]
      /\ \A k \in DOMAIN Tail(s) : k + 1 \in DOMAIN s /\ Tail(s)[k] = s[k + 1]
  BY <1>1, <1>2
<1>4. SeenInTime'
  BY <1>1, <1>3 DEF Burst, SeenInTime
<1>5. /\ ~strayed /\ alone => Closing'
      /\ ~strayed /\ apart => BurstIds' /\ BurstOnDevice'
  BY <1>1 DEF Burst, Closing, BurstIds, BurstOnDevice, In, Waits
<1>6. ASSUME ~strayed PROVE Draining'
  <2> SUFFICES ASSUME NEW r \in Threads, Waits(r), NEW k \in DOMAIN stores'[r]
               PROVE  At(r, "wait") /\ stores'[r][k][1] = call[r].i
    BY <1>1 DEF Draining, Waits, At
  <2>1. CASE r = t
    <3>1. stores'[r][k] = s[k + 1] /\ k + 1 \in DOMAIN s
      BY <1>3, <2>1
    <3>2. At(t, "wait") /\ s[k + 1][1] = call[t].i
      BY <1>6, <2>1, <3>1 DEF Burst, Draining
    <3>3. QED BY <2>1, <3>1, <3>2
  <2>2. CASE r # t
    BY <1>3, <1>6, <2>2 DEF Burst, Draining
  <2>3. QED BY <2>1, <2>2
<1>7. QED BY <1>1, <1>2, <1>4, <1>5, <1>6, KeepsBurst

LEMMA BurstInductive == ASSUME Inv, Burst, [Next]_vars PROVE Burst'
<1>1. CASE UNCHANGED vars
  <2>1. UNCHANGED <<qvid, dev, busy, call, poll, stores, marks, alone, apart, strayed>>
    BY <1>1 DEF vars, port, past
  <2>2. Marked' = Marked /\ OneEngaged' = OneEngaged
    BY <2>1 DEF Marked, Marking, OneEngaged, Engaged, In
  <2>3. Draining' = Draining /\ Closing' = Closing /\ BurstIds' = BurstIds
        /\ BurstOnDevice' = BurstOnDevice
    BY <2>1 DEF Draining, Closing, BurstIds, BurstOnDevice, In, At, Waits
  <2>4. QED BY <2>1, <2>2, <2>3 DEF Burst, SeenInTime
<1>2. CASE \E p \in Pollers : PollStep(p) \/ PollMore(p) \/ BusySeen(p)
  BY <1>2, PollBurst
<1>3. CASE \E t \in Threads : CallStep(t) \/ AllowSeen(t)
  <2>1. PICK t \in Threads : CallStep(t) \/ AllowSeen(t)
    BY <1>3
  <2>2. CASE ResetDevice
    BY <2>2, ResetDeviceBurst
  <2>3. CASE StoreAllow(t) \/ WaitQueue(t) \/ Return(t) \/ AllowSeen(t)
    BY <2>3, StoreAllowBurst, WaitQueueBurst, ReturnBurst, AllowSeenBurst
  <2>4. CASE \/ (t = "event" /\ Attach) \/ (t = "control" /\ SetStarted)
             \/ LoadStarted(t) \/ LoadAttached(t) \/ LoadCur(t) \/ UpdateDone(t)
    BY <2>4, UpdateBurst
  <2>5. QED BY <2>1, <2>2, <2>3, <2>4 DEF CallStep
<1>4. CASE \E v \in Vids : NewDevice(v)
  BY <1>4, NewDeviceBurst
<1>5. CASE \E q \in Queues, enable \in BOOLEAN : VringStateChanged(q, enable)
  BY <1>5, BeginsBurst
<1>6. CASE DestroyDevice \/ DevStart \/ DevStop
  BY <1>6, BeginsBurst, DevStartBurst
<1>7. QED BY <1>1, <1>2, <1>3, <1>4, <1>5, <1>6 DEF Next

\* destroy_device waits for the queues to be inactive, so it is safe: no burst
\* is under way on a device that is gone, or with the id of an earlier one,
\* until calls overlap, a store is seen late enough for a thread to look past
\* it, or two lcores have one while_queuing.
THEOREM BurstCorrect == Spec => []BurstUndisturbed
<1>1. Inv /\ Burst /\ [Next]_vars => (Inv /\ Burst)'
  BY InvInductive, BurstInductive
<1>2. Inv /\ Burst => BurstUndisturbed
  BY DEF Burst, BurstUndisturbed
<1>3. QED BY InitInv, InitBurst, <1>1, <1>2, PTL DEF Spec
==============================================================================
