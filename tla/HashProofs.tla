----------------------------- MODULE HashProofs ------------------------------
(***************************************************************************)
(* Proofs about Qsbr and the hash table that uses it.                      *)
(*                                                                         *)
(* First Qsbr alone: its types, for any number of writers, and, when one   *)
(* writer uses the variable, that a grace period that is over is over.     *)
(* Then the table, which takes only steps of Qsbr with its variables.  The *)
(* invariant HInv has a part for each question: where every key slot is    *)
(* (SlotsApart), where every key is while entries are moved (TableInv),    *)
(* what a reader may hold while slots are reclaimed (PassHolds, LookHolds),*)
(* and what it may answer while keys are moved (LooksRight).  Each part is *)
(* shown to be kept by the writer's steps that add, by those that delete   *)
(* and reclaim, and by the steps of the readers.                           *)
(***************************************************************************)
EXTENDS HashTable, WellFoundedInduction, FiniteSetTheorems, TLAPS
-----------------------------------------------------------------------------
\* The quiescent state variable.

\* The least counter a check has seen is one that was there.
LeastBound == \A v \in Writers : check[v].least = CntMax \/ check[v].least <= token
\* A token to be stored in a counter was given out: it is not Offline.
StoresToken ==
  \A r \in Readers : reader[r].pc \in {"onlining", "reporting"} => reader[r].t >= CntInit
QTypes == QTypeOK /\ LeastBound /\ StoresToken

\* A non-empty set of thread ids has a least element.
LEMMA LeastOf ==
  ASSUME NEW S \in SUBSET Nat, S # {}
  PROVE  \E r \in S : \A s \in S : r <= s
<1> DEFINE R == OpToRel(<, Nat)
<1>1. PICK x \in S : \A y \in S : ~(<<y, x>> \in R)
  BY NatLessThanWellFounded, WFMin
<1>2. \A y \in S : x <= y
  <2> TAKE y \in S
  <2>1. ~(y < x)
    BY <1>1 DEF OpToRel
  <2> QED BY <2>1
<1> QED BY <1>2

\* The first state is of the types.
LEMMA InitTypes == QInit => QTypes
<1> USE QsbrAssumption
<1>1. QInit => QTypeOK
  BY DEF QInit, QTypeOK, CheckType, Readers, Offline, CntInit, Out, NoCheck
<1>2. QInit => LeastBound /\ StoresToken
  BY DEF QInit, LeastBound, StoresToken, NoCheck, Out, CntInit
<1>3. QED BY <1>1, <1>2 DEF QTypes

\* The steps of a reader keep the types,
LEMMA ReaderTypes ==
  ASSUME QTypes, NEW r \in Readers, ReaderStep(r)
  PROVE  QTypes'
<1> USE QsbrAssumption DEF QTypes, QTypeOK, CheckType, LeastBound, StoresToken, CntInit, Offline,
        RAt, RGoto, InSection, Enter, shared
<1>1. CASE Register(r) BY <1>1 DEF Register
<1>2. CASE CountRegistered(r) BY <1>2 DEF CountRegistered
<1>3. CASE Unregister(r) BY <1>3 DEF Unregister
<1>4. CASE CountUnregistered(r) BY <1>4 DEF CountUnregistered
<1>5. CASE OnlineLoad(r) BY <1>5 DEF OnlineLoad
<1>6. CASE OnlineStore(r) BY <1>6 DEF OnlineStore
<1>7. CASE GoOffline(r) BY <1>7 DEF GoOffline
<1>8. CASE QuiescentLoad(r) BY <1>8 DEF QuiescentLoad
<1>9. CASE QuiescentStore(r) BY <1>9 DEF QuiescentStore
<1>10. QED BY <1>1, <1>2, <1>3, <1>4, <1>5, <1>6, <1>7, <1>8, <1>9 DEF ReaderStep

\* The thread CheckThread looks at is one of those left.
LEMMA NextIsLeft ==
  ASSUME NEW v \in Writers, QTypeOK, check[v].left # {}
  PROVE  Next1(v) \in check[v].left
<1>1. check[v].left \in SUBSET Nat
  BY QsbrAssumption DEF QTypeOK, CheckType, Readers
<1>2. \E r \in check[v].left : \A s \in check[v].left : r <= s
  BY <1>1, LeastOf
<1>3. QED BY <1>2 DEF Next1

QWriterStep(v) ==
  \/ Start(v) \/ CheckStep(v) \/ Continue(v)
  \/ \E t \in CntInit + 1 .. token, wait \in BOOLEAN : Check(v, t, wait)

\* The states a check goes through are of the type.
Bounded(c) == c.least = CntMax \/ c.least <= token

\* and so do those of a writer: whatever a check stores is of its type.
LEMMA CheckTypes ==
  ASSUME QTypes, NEW v \in Writers, NEW c \in CheckType, Bounded(c),
         check' = [check EXCEPT ![v] = c],
         UNCHANGED <<token, cnt, bitmap, num, reader, began>>, acked' \in 0 .. token
  PROVE  QTypes'
<1>1. CheckType' = CheckType
  BY DEF CheckType
<1>2. QTypeOK'
  BY <1>1 DEF QTypes, QTypeOK
<1>3. LeastBound' /\ StoresToken'
  BY DEF QTypes, QTypeOK, LeastBound, StoresToken, Bounded
<1>4. QED BY <1>2, <1>3 DEF QTypes

\* The states in which a check begins and ends are of the type.
LEMMA NoCheckType ==
  ASSUME QTypes, NEW pc \in {"idle", "acked", "yes", "no"}, NEW t \in 0 .. token,
         NEW wait \in BOOLEAN
  PROVE  /\ [NoCheck EXCEPT !.pc = pc, !.t = t, !.wait = wait] \in CheckType
         /\ Bounded([NoCheck EXCEPT !.pc = pc, !.t = t, !.wait = wait])
         /\ [NoCheck EXCEPT !.pc = pc] \in CheckType /\ Bounded([NoCheck EXCEPT !.pc = pc])
         /\ NoCheck \in CheckType /\ Bounded(NoCheck)
<1>1. token \in Nat /\ CntMax \in Nat
  BY QsbrAssumption DEF QTypes, QTypeOK, CntInit
<1>2. NoCheck \in CheckType /\ Bounded(NoCheck)
  BY <1>1 DEF NoCheck, CheckType, Bounded
<1>3. [NoCheck EXCEPT !.pc = pc] \in CheckType /\ Bounded([NoCheck EXCEPT !.pc = pc])
  BY <1>2 DEF CheckType, Bounded
<1> DEFINE c == [NoCheck EXCEPT !.pc = pc, !.t = t, !.wait = wait]
<1>4. c \in CheckType /\ Bounded(c)
  <2>1. CASE wait = TRUE BY <1>2, <2>1 DEF CheckType, Bounded
  <2>2. CASE wait = FALSE BY <1>2, <2>2 DEF CheckType, Bounded
  <2>3. QED BY <2>1, <2>2
<1>5. QED BY <1>2, <1>3, <1>4

\* The steps of a writer keep the types.
LEMMA WriterTypes ==
  ASSUME QTypes, NEW v \in Writers, QWriterStep(v)
  PROVE  QTypes'
<1>1. /\ check[v] \in CheckType /\ Bounded(check[v])
      /\ acked \in 0 .. token /\ bitmap \in SUBSET Readers
      /\ check[v].left \in SUBSET Readers
  BY DEF QTypes, QTypeOK, LeastBound, Bounded, CheckType
<1> USE QsbrAssumption DEF WAt, shared
<1>2. CASE Start(v)
  BY <1>2 DEF Start, QTypes, QTypeOK, LeastBound, StoresToken, CheckType, CntInit
<1>3. CASE CheckAcked(v)
  <2>1. CASE Return(v, "yes")
    BY <1>1, <1>3, <2>1, NoCheckType, CheckTypes DEF CheckAcked, Return
  <2>2. CASE WGoto(v, "num")
    <3> DEFINE c == [check[v] EXCEPT !.pc = "num"]
    <3>1. c \in CheckType /\ Bounded(c) BY <1>1 DEF CheckType, Bounded
    <3>2. check' = [check EXCEPT ![v] = c] BY <2>2 DEF WGoto
    <3>3. QED BY <1>1, <1>3, <3>1, <3>2, CheckTypes DEF CheckAcked
  <2>3. QED BY <1>3, <2>1, <2>2 DEF CheckAcked
<1>4. CASE CheckNum(v)
  <2> DEFINE c == [check[v] EXCEPT !.pc = IF num = MaxThreads THEN "scan" ELSE "bitmap",
                     !.all = (num = MaxThreads), !.left = Readers, !.least = CntMax]
  <2>1. c \in CheckType /\ Bounded(c)
    <3> DEFINE d(pc, all) == [check[v] EXCEPT !.pc = pc, !.all = all, !.left = Readers,
                                             !.least = CntMax]
    <3>0. Readers \in SUBSET Readers /\ CntMax \in 0 .. CntMax
      OBVIOUS
    <3>1. CASE num = MaxThreads
      <4>1. d("scan", TRUE) \in CheckType /\ Bounded(d("scan", TRUE))
        BY <1>1, <3>0 DEF CheckType, Bounded
      <4>2. c = d("scan", TRUE) BY <3>1
      <4>3. QED BY <4>1, <4>2
    <3>2. CASE num # MaxThreads
      <4>1. d("bitmap", FALSE) \in CheckType /\ Bounded(d("bitmap", FALSE))
        BY <1>1, <3>0 DEF CheckType, Bounded
      <4>2. c = d("bitmap", FALSE) BY <3>2
      <4>3. QED BY <4>1, <4>2
    <3>3. QED BY <3>1, <3>2
  <2>2. check' = [check EXCEPT ![v] = c] BY <1>4 DEF CheckNum
  <2>3. QED BY <1>1, <1>4, <2>1, <2>2, CheckTypes DEF CheckNum
<1>5. CASE CheckBitmap(v)
  <2> DEFINE c == [check[v] EXCEPT !.pc = "scan", !.left = bitmap]
  <2>1. c \in CheckType /\ Bounded(c) BY <1>1 DEF CheckType, Bounded
  <2>2. check' = [check EXCEPT ![v] = c] BY <1>5 DEF CheckBitmap
  <2>3. QED BY <1>1, <1>5, <2>1, <2>2, CheckTypes DEF CheckBitmap
<1>6. CASE CheckThread(v)
  <2> DEFINE r == Next1(v)
             c1 == [check[v] EXCEPT !.left = check[v].left \ {r},
                      !.least = IF cnt[r] # Offline /\ cnt[r] < check[v].least
                                THEN cnt[r] ELSE check[v].least]
             c2 == [check[v] EXCEPT !.pc = "bitmap"]
  <2>1. cnt[r] \in 0 .. token
    BY <1>1, <1>6, NextIsLeft DEF CheckThread, QTypes, QTypeOK
  <2>2. token <= CntMax /\ token \in Nat
    BY DEF QTypes, QTypeOK, CntInit
  <2>3. c1 \in CheckType /\ Bounded(c1)
    <3>1. CASE cnt[r] # Offline /\ cnt[r] < check[v].least
      <4> DEFINE d == [check[v] EXCEPT !.left = check[v].left \ {r}, !.least = cnt[r]]
      <4>1. cnt[r] \in 0 .. CntMax /\ cnt[r] <= token
        BY <2>1, <2>2
      <4>2. d \in CheckType /\ Bounded(d)
        BY <1>1, <4>1 DEF CheckType, Bounded
      <4>3. c1 = d BY <3>1
      <4>4. QED BY <4>2, <4>3
    <3>2. CASE ~(cnt[r] # Offline /\ cnt[r] < check[v].least)
      BY <1>1, <3>2 DEF CheckType, Bounded
    <3>3. QED BY <3>1, <3>2
  <2>4. c2 \in CheckType /\ Bounded(c2)
    BY <1>1 DEF CheckType, Bounded
  <2>5. UNCHANGED <<shared, reader, began>>
    BY <1>6 DEF CheckThread
  <2>6. \/ check' = [check EXCEPT ![v] = c1]
        \/ Return(v, "no")
        \/ check' = [check EXCEPT ![v] = c2]
    BY <1>6 DEF CheckThread, WGoto
  <2> HIDE DEF c1, c2
  <2>7. CASE Return(v, "no")
    BY <1>1, <2>5, <2>7, NoCheckType, CheckTypes DEF Return
  <2>8. QED BY <1>1, <2>3, <2>4, <2>5, <2>6, <2>7, CheckTypes
<1>7. CASE CheckDone(v)
  <2>1. acked' \in 0 .. token
    BY <1>1, <1>7 DEF CheckDone, CheckType, Bounded, QTypes, QTypeOK
  <2>2. QED BY <1>7, <2>1, NoCheckType, CheckTypes DEF CheckDone, Return
<1>8. CASE Continue(v)
  BY <1>1, <1>8, NoCheckType, CheckTypes DEF Continue
<1>9. ASSUME NEW t \in CntInit + 1 .. token, NEW wait \in BOOLEAN, Check(v, t, wait)
      PROVE  QTypes'
  <2>1. t \in 0 .. token
    BY DEF CntInit, QTypes, QTypeOK
  <2>2. QED BY <1>1, <1>9, <2>1, NoCheckType, CheckTypes DEF Check
<1>10. QED BY <1>2, <1>3, <1>4, <1>5, <1>6, <1>7, <1>8, <1>9 DEF QWriterStep, CheckStep

\* A step in which nothing changes.
LEMMA StutterTypes == QTypes /\ UNCHANGED qvars => QTypes'
BY DEF QTypes, QTypeOK, CheckType, LeastBound, StoresToken, qvars

\* The types are inductive.
LEMMA QTypesInductive == QTypes /\ [QNext]_qvars => QTypes'
BY ReaderTypes, WriterTypes, StutterTypes DEF QNext, QWriterStep

\* The variables keep their types, however many threads read and write: in
\* particular the least acknowledged token is one that was given out.
THEOREM QTypeCorrect == QSpec => []QTypeOK
<1>1. QTypes => QTypeOK BY DEF QTypes
<1>2. QED BY InitTypes, QTypesInductive, <1>1, PTL DEF QSpec
-----------------------------------------------------------------------------
\* What a reader that uses the structure has published is not later than what
\* it may have found, and no token after that was acknowledged.
ReaderHeld(r) ==
  InSection(r) => /\ Offline < cnt[r] /\ cnt[r] <= began[r]
                  /\ acked <= began[r]
\* A reader that is online or about to be is registered.
Registered(r) ==
  reader[r].pc \in {"registering", "offline", "onlining", "in", "reporting"} =>
    r \in bitmap

\* A reader that was passed by a check in progress, or registered too late to
\* be seen, found nothing older than the token of the check, nor older than
\* what the check will acknowledge.
ScanHolds(v) ==
  WAt(v, "scan") => \A r \in Readers \ check[v].left : InSection(r) =>
    /\ check[v].t <= began[r]
    /\ IF check[v].least = CntMax THEN began[r] = token ELSE check[v].least <= began[r]

QInv ==
  /\ QTypes
  /\ \A r \in Readers : ReaderHeld(r) /\ Registered(r)
  /\ \A v \in Writers : ScanHolds(v)

\* At first nobody uses the structure.
LEMMA QInitInv == QInit => QInv
<1>1. QInit => \A r \in Readers : ReaderHeld(r) /\ Registered(r)
  BY DEF QInit, ReaderHeld, Registered, InSection, RAt, Out
<1>2. QInit => \A v \in Writers : ScanHolds(v)
  BY DEF QInit, ScanHolds, WAt, NoCheck
<1>3. QED BY <1>1, <1>2, InitTypes DEF QInv

\* Readers: a check in progress keeps what it knows, since whoever comes online
\* does so at the present token.
LEMMA ReaderInv ==
  ASSUME QInv, NEW r \in Readers, ReaderStep(r)
  PROVE  QInv'
<1>1. QTypes'
  BY ReaderTypes DEF QInv
<1> USE QsbrAssumption DEF QInv, QTypes, QTypeOK, CheckType, StoresToken, CntInit, Offline,
        RAt, RGoto, InSection, Enter, shared
<1>2. \A s \in Readers : ReaderHeld(s)' /\ Registered(s)'
  <2> USE DEF ReaderHeld, Registered
  <2>1. CASE Register(r) BY <2>1 DEF Register
  <2>2. CASE CountRegistered(r) BY <2>2 DEF CountRegistered
  <2>3. CASE Unregister(r) BY <2>3 DEF Unregister
  <2>4. CASE CountUnregistered(r) BY <2>4 DEF CountUnregistered
  <2>5. CASE OnlineLoad(r) BY <2>5 DEF OnlineLoad
  <2>6. CASE OnlineStore(r) BY <2>6 DEF OnlineStore
  <2>7. CASE GoOffline(r) BY <2>7 DEF GoOffline
  <2>8. CASE QuiescentLoad(r) BY <2>8 DEF QuiescentLoad
  <2>9. CASE QuiescentStore(r) BY <2>9 DEF QuiescentStore
  <2>10. QED BY <2>1, <2>2, <2>3, <2>4, <2>5, <2>6, <2>7, <2>8, <2>9 DEF ReaderStep
<1>3. \A v \in Writers : ScanHolds(v)'
  <2> SUFFICES ASSUME NEW v \in Writers PROVE ScanHolds(v)'
    OBVIOUS
  <2> USE DEF ScanHolds, WAt, LeastBound
  <2>1. CASE Register(r) BY <2>1 DEF Register
  <2>2. CASE CountRegistered(r) BY <2>2 DEF CountRegistered
  <2>3. CASE Unregister(r) BY <2>3 DEF Unregister
  <2>4. CASE CountUnregistered(r) BY <2>4 DEF CountUnregistered
  <2>5. CASE OnlineLoad(r) BY <2>5 DEF OnlineLoad
  <2>6. CASE OnlineStore(r) BY <2>6 DEF OnlineStore
  <2>7. CASE GoOffline(r) BY <2>7 DEF GoOffline
  <2>8. CASE QuiescentLoad(r) BY <2>8 DEF QuiescentLoad
  <2>9. CASE QuiescentStore(r) BY <2>9 DEF QuiescentStore
  <2>10. QED BY <2>1, <2>2, <2>3, <2>4, <2>5, <2>6, <2>7, <2>8, <2>9 DEF ReaderStep
<1>4. QED BY <1>1, <1>2, <1>3 DEF QInv

\* The scans, whoever else writes.  A reader that uses the structure has
\* published a token it did not come after, ...
Published(r) == InSection(r) => Offline < cnt[r] /\ cnt[r] <= began[r]

\* ... and one that a check in progress has passed, or that registered too late
\* to be seen, found nothing older than the token of the check.
ScanKept(v) ==
  WAt(v, "scan") => \A r \in Readers \ check[v].left :
                      InSection(r) => check[v].t <= began[r]

ScanInv ==
  /\ QTypes
  /\ \A r \in Readers : Published(r) /\ Registered(r)
  /\ \A v \in Writers : ScanKept(v)

LEMMA ScanInit == QInit => ScanInv
<1>1. QInit => \A r \in Readers : Published(r) /\ Registered(r)
  BY DEF QInit, Published, Registered, InSection, RAt, Out
<1>2. QInit => \A v \in Writers : ScanKept(v)
  BY DEF QInit, ScanKept, WAt, NoCheck
<1> QED BY <1>1, <1>2, InitTypes DEF ScanInv

\* Readers: whoever comes online does so at the present token.
LEMMA ScanReader ==
  ASSUME ScanInv, NEW r \in Readers, ReaderStep(r)
  PROVE  ScanInv'
<1>1. QTypes'
  BY ReaderTypes DEF ScanInv
<1> USE QsbrAssumption DEF ScanInv, QTypes, QTypeOK, CheckType, StoresToken, CntInit, Offline,
        RAt, RGoto, InSection, Enter, shared
<1>2. \A s \in Readers : Published(s)' /\ Registered(s)'
  <2> USE DEF Published, Registered
  <2>1. CASE Register(r) BY <2>1 DEF Register
  <2>2. CASE CountRegistered(r) BY <2>2 DEF CountRegistered
  <2>3. CASE Unregister(r) BY <2>3 DEF Unregister
  <2>4. CASE CountUnregistered(r) BY <2>4 DEF CountUnregistered
  <2>5. CASE OnlineLoad(r) BY <2>5 DEF OnlineLoad
  <2>6. CASE OnlineStore(r) BY <2>6 DEF OnlineStore
  <2>7. CASE GoOffline(r) BY <2>7 DEF GoOffline
  <2>8. CASE QuiescentLoad(r) BY <2>8 DEF QuiescentLoad
  <2>9. CASE QuiescentStore(r) BY <2>9 DEF QuiescentStore
  <2>10. QED BY <2>1, <2>2, <2>3, <2>4, <2>5, <2>6, <2>7, <2>8, <2>9 DEF ReaderStep
<1>3. \A v \in Writers : ScanKept(v)'
  <2> SUFFICES ASSUME NEW v \in Writers PROVE ScanKept(v)'
    OBVIOUS
  <2> USE DEF ScanKept, WAt
  <2>1. CASE Register(r) BY <2>1 DEF Register
  <2>2. CASE CountRegistered(r) BY <2>2 DEF CountRegistered
  <2>3. CASE Unregister(r) BY <2>3 DEF Unregister
  <2>4. CASE CountUnregistered(r) BY <2>4 DEF CountUnregistered
  <2>5. CASE OnlineLoad(r) BY <2>5 DEF OnlineLoad
  <2>6. CASE OnlineStore(r) BY <2>6 DEF OnlineStore
  <2>7. CASE GoOffline(r) BY <2>7 DEF GoOffline
  <2>8. CASE QuiescentLoad(r) BY <2>8 DEF QuiescentLoad
  <2>9. CASE QuiescentStore(r) BY <2>9 DEF QuiescentStore
  <2>10. QED BY <2>1, <2>2, <2>3, <2>4, <2>5, <2>6, <2>7, <2>8, <2>9 DEF ReaderStep
<1>4. QED BY <1>1, <1>2, <1>3 DEF ScanInv

\* A writer moves its own scan; to the scans of others it may only have given
\* out a later token.
LEMMA ScanWriter ==
  ASSUME ScanInv, NEW v \in Writers, QWriterStep(v)
  PROVE  ScanInv'
<1>1. QTypes'
  BY WriterTypes DEF ScanInv
<1>2. UNCHANGED <<cnt, bitmap, reader, began>>
  BY DEF QWriterStep, CheckStep, Start, CheckAcked, CheckNum, CheckBitmap, CheckThread,
         CheckDone, Continue, Check, shared
<1>3. \A r \in Readers : Published(r)' /\ Registered(r)'
  BY <1>2 DEF ScanInv, Published, Registered, InSection, RAt
<1>4. ASSUME NEW u \in Writers, u # v PROVE ScanKept(u)'
  <2>1. check'[u] = check[u]
    BY <1>4 DEF ScanInv, QTypes, QTypeOK, QWriterStep, CheckStep, Start, CheckAcked, CheckNum,
       CheckBitmap, CheckThread, CheckDone, Continue, Check, WGoto, Return
  <2> QED BY <1>2, <2>1 DEF ScanInv, ScanKept, WAt, InSection, RAt
<1>5. ScanKept(v)'
  <2> USE QsbrAssumption DEF ScanInv, QTypes, QTypeOK, CheckType, CntInit, Offline, RAt,
      InSection, Published, Registered, ScanKept, WAt, WGoto, Return, shared, NoCheck
  <2>1. CASE Start(v) BY <2>1 DEF Start
  <2>2. CASE CheckAcked(v) BY <2>2 DEF CheckAcked
  <2>3. CASE CheckNum(v) BY <2>3 DEF CheckNum
  <2>4. CASE CheckBitmap(v) BY <2>4 DEF CheckBitmap
  <2>5. CASE CheckThread(v)
    <3>1. Next1(v) \in check[v].left /\ Next1(v) \in Readers
      BY <2>5, NextIsLeft DEF CheckThread
    <3> QED BY <2>5, <3>1 DEF CheckThread, Quiet
  <2>6. CASE CheckDone(v) BY <2>6 DEF CheckDone
  <2>7. CASE Continue(v) BY <2>7 DEF Continue
  <2>8. CASE \E t \in CntInit + 1 .. token, wait \in BOOLEAN : Check(v, t, wait)
    BY <2>8 DEF Check
  <2> QED BY <2>1, <2>2, <2>3, <2>4, <2>5, <2>6, <2>7, <2>8 DEF QWriterStep, CheckStep
<1> QED BY <1>1, <1>3, <1>4, <1>5 DEF ScanInv

\* However many threads start grace periods and check them, however many
\* readers come, go and register meanwhile, and whichever of the two scans is
\* used: a check that looked at the readers and passes tells the truth
\* (rte_rcu_qsbr.h, __rte_rcu_qsbr_check_selective and _check_all).
THEOREM ScanCorrect == QSpec => ScansOver
<1>1. ScanInv /\ [QNext]_qvars => ScanInv'
  <2>1. ScanInv /\ UNCHANGED qvars => ScanInv'
    BY StutterTypes DEF ScanInv, Published, Registered, ScanKept, InSection, RAt, WAt, qvars
  <2> QED BY <2>1, ScanReader, ScanWriter DEF QNext, QWriterStep
<1>2. ScanInv /\ [QNext]_qvars =>
        [\A v \in Writers : Scanned(v) =>
            \A r \in Readers : InSection(r) => began[r] >= check[v].t]_qvars
  <2> SUFFICES ASSUME ScanInv, [QNext]_qvars, NEW v \in Writers, Scanned(v),
                      NEW r \in Readers, InSection(r)
               PROVE  began[r] >= check[v].t
    OBVIOUS
  <2>1. check[v] \in CheckType /\ began[r] \in Nat /\ check[v].t \in Nat
    BY DEF ScanInv, QTypes, QTypeOK, CntInit, CheckType
  <2>2. check[v].pc = "scan" /\ check'[v].pc = "yes"
    BY DEF Scanned, Passed, WAt
  <2>3. check'[v] # check[v]
    BY <2>2
  <2>4. CheckDone(v)
    <3>1. ~UNCHANGED qvars
      BY <2>3 DEF qvars
    <3>2. ASSUME NEW s \in Readers PROVE ~ReaderStep(s)
      BY <2>3 DEF ReaderStep, Register, CountRegistered, Unregister, CountUnregistered,
         OnlineLoad, OnlineStore, GoOffline, QuiescentLoad, QuiescentStore
    <3>3. PICK u \in Writers : QWriterStep(u)
      BY <3>1, <3>2 DEF QNext, QWriterStep
    <3>4. u = v
      BY <2>3, <3>3 DEF ScanInv, QTypes, QTypeOK, QWriterStep, CheckStep, Start, CheckAcked,
         CheckNum, CheckBitmap, CheckThread, CheckDone, Continue, Check, WGoto, Return
    <3>5. ~CheckThread(v)
      BY <2>2 DEF CheckThread, WGoto, Return, NoCheck, ScanInv, QTypes, QTypeOK, CheckType
    <3>6. ~Start(v) /\ ~CheckAcked(v) /\ ~CheckNum(v) /\ ~CheckBitmap(v) /\ ~Continue(v)
      BY <2>2 DEF Start, CheckAcked, CheckNum, CheckBitmap, Continue, WAt, Answered
    <3>7. ASSUME NEW t \in CntInit + 1 .. token, NEW wait \in BOOLEAN PROVE ~Check(v, t, wait)
      BY <2>2 DEF Check, WAt
    <3> QED BY <3>3, <3>4, <3>5, <3>6, <3>7 DEF QWriterStep, CheckStep
  <2>5. check[v].left = {}
    BY <2>4 DEF CheckDone
  <2> QED BY <2>1, <2>2, <2>5 DEF ScanInv, ScanKept, WAt
<1> QED BY <1>1, <1>2, ScanInit, PTL DEF QSpec, ScansOver
-----------------------------------------------------------------------------
\* One thread uses the variable as a writer.
OneWriter == \A u, v \in Writers : u = v

\* The steps of a writer keep the invariant.
LEMMA WriterInv ==
  ASSUME OneWriter, QInv, NEW v \in Writers, QWriterStep(v)
  PROVE  QInv'
<1>1. QTypes'
  BY WriterTypes DEF QInv
<1> SUFFICES ASSUME TRUE
             PROVE  (\A r \in Readers : ReaderHeld(r)' /\ Registered(r)') /\ ScanHolds(v)'
  BY <1>1 DEF QInv, OneWriter
<1> USE QsbrAssumption DEF QInv, QTypes, QTypeOK, CheckType, LeastBound, CntInit, Offline, RAt,
   InSection,
        ReaderHeld, Registered, ScanHolds, WAt, WGoto, Return, shared, NoCheck
<1>2. CASE Start(v) BY <1>2 DEF Start
<1>3. CASE CheckAcked(v) BY <1>3 DEF CheckAcked
<1>4. CASE CheckNum(v) BY <1>4 DEF CheckNum
<1>5. CASE CheckBitmap(v) BY <1>5 DEF CheckBitmap
<1>6. CASE CheckThread(v)
  <2>1. Next1(v) \in check[v].left /\ Next1(v) \in Readers
    BY <1>6, NextIsLeft DEF CheckThread
  <2>2. \A r \in Readers : ReaderHeld(r)' /\ Registered(r)'
    BY <1>6 DEF CheckThread
  <2>3. ScanHolds(v)'
    BY <1>6, <2>1 DEF CheckThread, Quiet
  <2>4. QED BY <2>2, <2>3
<1>7. CASE CheckDone(v) BY <1>7 DEF CheckDone
<1>8. CASE Continue(v) BY <1>8 DEF Continue
<1>9. CASE \E t \in CntInit + 1 .. token, wait \in BOOLEAN : Check(v, t, wait)
  BY <1>9 DEF Check
<1>10. QED BY <1>2, <1>3, <1>4, <1>5, <1>6, <1>7, <1>8, <1>9 DEF QWriterStep, CheckStep

\* The invariant is inductive.
LEMMA QInvInductive ==
  ASSUME OneWriter
  PROVE  QInv /\ [QNext]_qvars => QInv'
<1>1. QInv /\ UNCHANGED qvars => QInv'
  BY StutterTypes DEF QInv, ReaderHeld, Registered, ScanHolds, InSection, RAt, WAt, qvars
<1>2. QED BY <1>1, ReaderInv, WriterInv DEF QNext, QWriterStep

\* Only two steps answer yes: the acknowledged token covers the one asked for,
\* or every reader was passed.
LEMMA PassedHolds ==
  ASSUME OneWriter, QInv, [QNext]_qvars, NEW v \in Writers, Passed(v),
         NEW r \in Readers, InSection(r)
  PROVE  began[r] >= check[v].t
<1>1. check[v] \in CheckType /\ began[r] \in Nat /\ acked \in Nat
  BY DEF QInv, QTypes, QTypeOK, CntInit
<1>2. CASE \E u \in Writers : QWriterStep(u)
  <2>1. QWriterStep(v)
    BY <1>2 DEF OneWriter
  <2>2. ~WAt(v, "yes") /\ check'[v].pc = "yes"
    BY DEF Passed
  <2>3. CASE CheckAcked(v)
    <3>1. check[v].t <= acked
      <4>1. check[v].t <= acked \/ WGoto(v, "num")
        BY <2>3 DEF CheckAcked
      <4>2. ~WGoto(v, "num")
        BY <2>2 DEF WGoto, QInv, QTypes, QTypeOK, CheckType
      <4>3. QED BY <4>1, <4>2
    <3>2. QED BY <1>1, <3>1 DEF QInv, ReaderHeld, CheckType
  <2>4. CASE CheckDone(v)
    BY <1>1, <2>4 DEF CheckDone, QInv, ScanHolds, CheckType
  <2>5. CASE Start(v) BY <2>2, <2>5 DEF Start, WAt
  <2>6. CASE CheckNum(v)
    BY <2>2, <2>6 DEF CheckNum, QInv, QTypes, QTypeOK, CheckType
  <2>7. CASE CheckBitmap(v)
    BY <2>2, <2>7 DEF CheckBitmap, QInv, QTypes, QTypeOK, CheckType
  <2>8. CASE CheckThread(v)
    BY <2>2, <2>8 DEF CheckThread, WAt, WGoto, Return, NoCheck, QInv, QTypes, QTypeOK, CheckType
  <2>9. CASE Continue(v)
    BY <2>2, <2>9 DEF Continue, NoCheck, QInv, QTypes, QTypeOK
  <2>10. ASSUME NEW t \in CntInit + 1 .. token, NEW wait \in BOOLEAN, Check(v, t, wait)
         PROVE  FALSE
    BY <2>2, <2>10 DEF Check, NoCheck, QInv, QTypes, QTypeOK
  <2>11. QED
    BY <2>1, <2>3, <2>4, <2>5, <2>6, <2>7, <2>8, <2>9, <2>10 DEF QWriterStep, CheckStep
<1>3. CASE UNCHANGED check
  BY <1>3 DEF Passed, WAt
<1>4. CASE \E s \in Readers : ReaderStep(s)
  BY <1>3, <1>4 DEF ReaderStep, Register, CountRegistered, Unregister, CountUnregistered,
     OnlineLoad, OnlineStore, GoOffline, QuiescentLoad, QuiescentStore
<1>5. QED BY <1>2, <1>3, <1>4 DEF QNext, QWriterStep, qvars

\* With one writer, as in the hash table, the shortcut through the acknowledged
\* token is right too.
LEMMA OneWriterGrace ==
  ASSUME OneWriter
  PROVE  QSpec => GracePeriodOver
<1>1. QInv /\ [QNext]_qvars =>
        [\A v \in Writers : Passed(v) =>
            \A r \in Readers : InSection(r) => began[r] >= check[v].t]_qvars
  BY PassedHolds
<1>2. QInv /\ [QNext]_qvars => QInv'
  BY QInvInductive
<1>3. QED BY <1>1, <1>2, QInitInv, PTL DEF QSpec, GracePeriodOver

-----------------------------------------------------------------------------
\* The hash table.  The writer and the readers of the table take only steps of
\* Qsbr with its variables, so that QInv holds of them; the rest is about
\* where key slots and keys are.

\* Where the writer is.  A queue may be reclaimed on its own, for an
\* allocation or before an enqueue.
Reclaiming == w.pc \in {"reclaim", "ask"}
During(pc) == w.pc = pc \/ (Reclaiming /\ w.then = pc)
Adding == w.pc \in {"alloc", "key", "insert", "count", "sig", "idx"} \/ During("retry")
OnWay == w.pc \in {"count", "sig", "idx"}
Deferring == w.pc \in {"check", "wait"} \/ During("enqueue")
\* It has a slot that is not in the table.
Holding == w.pc \in {"key", "insert", "count", "sig", "idx", "start"} \/ Deferring

Pcs == {"rest", "alloc", "retry", "key", "insert", "count", "sig", "idx", "clear", "start",
        "check", "wait", "enqueue", "reclaim", "ask"}
WriterType ==
  [pc : Pcs, k : Keys \cup {NoKey}, slot : Slots \cup {Empty}, path : Seq(Places), n : Nat,
   tok : 0 .. token, then : {"rest", "retry", "enqueue"}]
LookPcs == {"none", "sig", "idx", "key", "found", "end", "again", "missed"}
LookType ==
  [pc : LookPcs, k : Keys \cup {NoKey}, cnt : 0 .. chng, at : 0 .. 2 * Entries,
   slot : Slots \cup {Empty}, was : SUBSET BOOLEAN]
TableTypes ==
  /\ mode \in {"sync", "dq"}
  /\ sig \in [Places -> {NoSig} \cup {Sig[k] : k \in Keys}]
  /\ idx \in [Places -> Slots \cup {Empty}] /\ key \in [Slots -> Keys \cup {NoKey}]
  /\ chng \in Nat /\ stored \in SUBSET Keys
QueueTypes == free \in Seq(Slots) /\ dq \in Seq([t : CntInit + 1 .. token, s : Slots])
HTypes == TableTypes /\ QueueTypes /\ w \in WriterType /\ look \in [Lookers -> LookType]

\* What the writer carries at each place.
WriterHolds ==
  /\ Holding \/ w.pc = "clear" <=> w.slot # Empty
  /\ Adding => w.k \in Keys \ stored
  /\ w.pc \in {"insert", "count", "sig", "idx"} => key[w.slot] = w.k
  /\ Deferring => CntInit < w.tok
  /\ w.pc = "ask" => dq # <<>> /\ w.n # 0
\* It checks the token of what it removed, or the oldest of the queue.
CheckHolds ==
  /\ w.pc \notin {"wait", "ask"} => WAt(writer, "idle")
  /\ w.pc = "wait" /\ ~Answered(writer) => check[writer].t = w.tok
  /\ w.pc = "ask" /\ ~Answered(writer) => check[writer].t = Head(dq).t

\* Where a slot is: in one of four places, and once in each.
Ids(q) == [i \in DOMAIN q |-> q[i].s]
Within(f, s) == \E i \in DOMAIN f : f[i] = s
Once(f) == \A i, j \in DOMAIN f : f[i] = f[j] => i = j
InTable(s) == \E p \in Places : idx[p] = s
WithWriterOnly(s) == Holding /\ w.slot = s
SlotPlaced(s) ==
  /\ Within(free, s) \/ Within(Ids(dq), s) \/ InTable(s) \/ WithWriterOnly(s)
  /\ Within(free, s) => ~Within(Ids(dq), s) /\ ~InTable(s) /\ ~WithWriterOnly(s)
  /\ Within(Ids(dq), s) => ~InTable(s) /\ ~WithWriterOnly(s)
  /\ InTable(s) => ~WithWriterOnly(s)
SlotsApart == Once(free) /\ Once(Ids(dq)) /\ \A s \in Slots : SlotPlaced(s)

\* The way to the free entry.  Behind place n the entries have been moved.
WayHolds == OnWay =>
  /\ w.n \in 1 .. Len(w.path)
  /\ \A i, j \in 1 .. Len(w.path) : w.path[i] = w.path[j] => i = j
  /\ w.path[1][1] \in {Prim[w.k], Sec(w.k)}
  /\ \A i \in 1 .. w.n - 1 :
       idx[w.path[i]] # Empty /\ w.path[i + 1][1] = Alt[<<w.path[i][1], sig[w.path[i]]>>]
  /\ w.n = Len(w.path) => idx[Target] = Empty
  /\ w.n < Len(w.path) => idx[Target] # Empty /\ idx[Target] = idx[w.path[w.n + 1]]
  /\ w.pc = "idx" => sig[Target] = IF w.n = 1 THEN Sig[w.k] ELSE sig[Moved]
\* The place of an entry that was copied and is going to be overwritten.
Copied(p) == OnWay /\ w.n < Len(w.path) /\ p = Target
\* The signature there may not be the one of the key.
Changed(p) == w.pc = "idx" /\ p = Target
\* The entry whose signature was cleared.
Cleared(p) == w.pc = "clear" /\ p = w.path[1]
ClearHolds == w.pc = "clear" =>
  /\ Len(w.path) = 1 /\ w.path[1] \in Places
  /\ idx[w.path[1]] = w.slot /\ sig[w.path[1]] = NoSig
  /\ key[w.slot] = w.k /\ w.k \in Keys \ stored
EntryHolds(p) == idx[p] # Empty =>
  /\ key[idx[p]] \in Keys
  /\ p[1] \in {Prim[key[idx[p]]], Sec(key[idx[p]])}
  /\ ~Cleared(p) => key[idx[p]] \in stored
  /\ ~Cleared(p) /\ ~Changed(p) => sig[p] = Sig[key[idx[p]]]
EntriesApart ==
  /\ \A p, q \in Places : idx[p] # Empty /\ idx[p] = idx[q] /\ ~Copied(p) /\ ~Copied(q) => p = q
  /\ \A p, q \in Places : idx[p] # Empty /\ idx[q] # Empty /\ key[idx[p]] = key[idx[q]]
                            => idx[p] = idx[q]
\* A reader that looks here finds k, until tbl_chng_cnt has changed.
Firm(p, k) ==
  /\ p \in PlacesOf(k)
  /\ ~(w.pc \in {"sig", "idx"} /\ p = Target)
StoredFirm == \A k \in stored : \E p \in Places : Firm(p, k)
TableInv ==
  /\ WayHolds /\ ClearHolds /\ EntriesApart /\ StoredFirm
  /\ \A p \in Places : EntryHolds(p)

\* A slot a reader has loaded is in the table, or was removed after the reader
\* began to use it, and no check of its token has passed.
Removed(r, s) ==
  \/ w.slot = s /\ w.pc = "start"
  \/ w.slot = s /\ Deferring /\ began[r] < w.tok
  \/ \E i \in DOMAIN dq : dq[i].s = s /\ began[r] < dq[i].t
LookHolds(r) ==
  /\ look[r].pc = "none" => look[r] = NoLook
  /\ look[r].pc # "none" => InSection(r) /\ look[r].k \in Keys
  /\ look[r].pc \in {"key", "found"} <=> look[r].slot # Empty
  /\ look[r].pc \in {"sig", "idx", "key"} => look[r].at # 0
  /\ look[r].slot # Empty => InTable(look[r].slot) \/ Removed(r, look[r].slot)
  /\ LAt(r, "found") => key[look[r].slot] = look[r].k
PassHolds ==
  \A r \in Readers : InSection(r) /\ WAt(writer, "yes") =>
    /\ At("wait") => w.tok <= began[r]
    /\ At("ask") => Head(dq).t <= began[r]

\* What a reader may answer.
Was(r) == look[r].pc # "none" => (look[r].k \in stored) \in look[r].was
FoundRight(r) ==
  /\ look[r].slot # Empty /\ key[look[r].slot] = look[r].k => TRUE \in look[r].was
  /\ LAt(r, "idx") /\ Cleared(Here(r)) /\ look[r].k = w.k => TRUE \in look[r].was
\* Where a reader is still going to look.
Ahead(r, n) == n \in 1 .. 2 * Entries /\ Firm(PlaceAt(look[r].k, n), look[r].k)
MissedRight(r) == FALSE \notin look[r].was =>
  /\ ~LAt(r, "missed")
  /\ look[r].cnt = chng =>
       /\ look[r].pc \in {"sig", "idx"} => \E n \in look[r].at .. 2 * Entries : Ahead(r, n)
       /\ LAt(r, "key") => \/ key[look[r].slot] = look[r].k
                           \/ \E n \in look[r].at + 1 .. 2 * Entries : Ahead(r, n)
       /\ ~LAt(r, "end")
LooksRight == \A r \in Lookers : Was(r) /\ FoundRight(r) /\ MissedRight(r)

HInv ==
  /\ HTypes /\ WriterHolds /\ CheckHolds
  /\ SlotsApart /\ TableInv
  /\ PassHolds /\ \A r \in Lookers : LookHolds(r)
  /\ LooksRight

\* The two buckets of a key.
LEMMA Buckets2 ==
  ASSUME NEW k \in Keys
  PROVE  /\ Prim[k] \in Buckets /\ Sec(k) \in Buckets /\ Sig[k] # NoSig
         /\ Alt[<<Prim[k], Sig[k]>>] = Sec(k) /\ Alt[<<Sec(k), Sig[k]>>] = Prim[k]
BY HashAssumption DEF Sec

\* A sequence that is not empty.
LEMMA SeqParts ==
  ASSUME NEW S, NEW f \in Seq(S), f # <<>>
  PROVE  /\ Len(f) \in Nat \ {0} /\ DOMAIN f = 1 .. Len(f)
         /\ Head(f) = f[1] /\ Head(f) \in S
         /\ Tail(f) \in Seq(S) /\ Len(Tail(f)) = Len(f) - 1
         /\ \A i \in 1 .. Len(f) - 1 : Tail(f)[i] = f[i + 1]
<1>1. Len(f) \in Nat /\ DOMAIN f = 1 .. Len(f) /\ Len(f) # 0
  OBVIOUS
<1>2. f[1] \in S /\ Head(f) = f[1]
  BY <1>1
<1>3. QED BY <1>1, <1>2

\* There is one writer.
LEMMA WriterIs == writer \in Writers /\ OneWriter
BY HashAssumption DEF OneWriter

\* Every step is one of Qsbr, or leaves its variables.
LEMMA StepIsQ ==
  ASSUME QInv, HTypes, WriterHolds, [Next]_vars
  PROVE  [QNext]_qvars
<1>1. CASE UNCHANGED vars
  BY <1>1 DEF vars
<1>2. ASSUME NEW k \in Keys, AddKey(k) \/ DelKey(k)
      PROVE  UNCHANGED qvars
  BY <1>2 DEF AddKey, DelKey
<1>3. CASE ReclaimCall
  BY <1>3 DEF ReclaimCall
<1>4. CASE WriterStep
  <2>1. CASE StartGrace
    BY <2>1, WriterIs DEF StartGrace, QNext
  <2>2. CASE Synchronize
    <3>1. w.tok \in CntInit + 1 .. token
      BY <2>2 DEF Synchronize, HTypes, WriterType, WriterHolds, Deferring, At, CntInit,
         QInv, QTypes, QTypeOK
    <3>2. QED BY <2>2, <3>1, WriterIs DEF Synchronize, QNext
  <2>3. CASE Reclaim
    <3>1. CASE UNCHANGED qvars BY <3>1
    <3>2. CASE dq # <<>> /\ Check(writer, Head(dq).t, FALSE)
      <4>1. Head(dq) \in [t : CntInit + 1 .. token, s : Slots]
        BY <3>2, SeqParts DEF HTypes, QueueTypes
      <4>2. QED BY <3>2, <4>1, WriterIs DEF QNext
    <3>3. QED BY <2>3, <3>1, <3>2 DEF Reclaim
  <2>4. CASE FreeSlot \/ Reclaimed
    BY <2>4, WriterIs DEF FreeSlot, Reclaimed, QNext
  <2>5. CASE CheckStep(writer)
    BY <2>5, WriterIs DEF QNext
  <2>6. QED
    BY <1>4, <2>1, <2>2, <2>3, <2>4, <2>5 DEF WriterStep, AllocSlot, WriteKey, Insert, CountChange,
       StoreSig, StoreIdx, ClearIdx, Enqueue
<1>5. ASSUME NEW r \in Lookers,
             Leave(r) \/ Other(r) \/ LookStep(r) \/ \E k \in Sought : LookUp(r, k)
      PROVE  [QNext]_qvars
  <2>1. r \in Readers BY HashAssumption
  <2>2. CASE Leave(r) \/ Other(r)
    BY <2>1, <2>2 DEF Leave, Other, ReaderStep, QNext
  <2>3. CASE LookStep(r) \/ \E k \in Sought : LookUp(r, k)
    BY <2>3 DEF LookStep, LookUp, CompareSig, LoadIdx, CompareKey, LoadChange, Again, ReadOnly
  <2>4. QED BY <1>5, <2>2, <2>3
<1>6. QED BY <1>1, <1>2, <1>3, <1>4, <1>5 DEF Next

\* The invariant holds of an empty table.
LEMMA InitInv == HInit => QInv /\ HInv
<1> SUFFICES ASSUME HInit PROVE QInv /\ HInv
  OBVIOUS
<1>1. QInv /\ QInit
  BY QInitInv DEF HInit
<1>2. w = Resting /\ \A r \in Lookers : look[r] = NoLook
  BY DEF HInit
<1>3. HTypes
  <2> USE HashAssumption
  <2>1. free \in Seq(Slots)
    <3>1. NumKeySlots = 0 \/ NumKeySlots - 1 \in Nat
      OBVIOUS
    <3>2. CASE NumKeySlots - 1 \in Nat
      BY <3>2 DEF HInit, Slots
    <3>3. CASE NumKeySlots = 0
      <4>1. Slots = 1 .. 0 BY <3>3 DEF Slots
      <4>2. QED BY <4>1 DEF HInit
    <3>4. QED BY <3>1, <3>2, <3>3
  <2>2. QueueTypes
    BY <2>1 DEF HInit, QueueTypes
  <2>3. w \in WriterType
    BY <1>1, <1>2 DEF Resting, WriterType, Pcs, Empty, QInv, QTypes, QTypeOK, CntInit
  <2>4. look \in [Lookers -> LookType]
    BY DEF HInit, NoLook, LookType, LookPcs, Empty
  <2>5. TableTypes
    BY DEF HInit, TableTypes
  <2>6. QED BY <2>2, <2>3, <2>4, <2>5 DEF HTypes
<1>4. WriterHolds /\ CheckHolds
  <2>1. w.pc = "rest" /\ w.slot = Empty /\ WAt(writer, "idle")
    BY <1>1, <1>2, WriterIs DEF Resting, QInit, WAt, NoCheck
  <2>2. QED
    BY <2>1 DEF WriterHolds, CheckHolds, Holding, Adding, Deferring, During, Reclaiming
<1>5. SlotsApart
  <2>1. ~Holding
    BY <1>2 DEF Resting, Holding, Deferring, During, Reclaiming
  <2>2. Ids(dq) = <<>> /\ dq = <<>>
    BY DEF HInit, Ids
  <2>3. \A s \in Slots : ~InTable(s)
    BY DEF HInit, InTable, Slots, Empty
  <2>4. Once(free) /\ \A s \in Slots : Within(free, s)
    BY DEF HInit, Once, Within
  <2>5. QED
    BY <2>1, <2>2, <2>3, <2>4 DEF SlotsApart, SlotPlaced, WithWriterOnly, Once, Within
<1>6. TableInv
  <2>1. w.pc = "rest"
    BY <1>2 DEF Resting
  <2>2. \A p \in Places : idx[p] = Empty
    BY DEF HInit
  <2>3. stored = {}
    BY DEF HInit
  <2>4. WayHolds /\ ClearHolds /\ StoredFirm
    BY <2>1, <2>3 DEF WayHolds, OnWay, ClearHolds, StoredFirm
  <2>5. EntriesApart
    BY <2>2 DEF EntriesApart
  <2>6. \A p \in Places : EntryHolds(p)
    BY <2>2 DEF EntryHolds
  <2>7. QED
    BY <2>4, <2>5, <2>6 DEF TableInv
<1>7. PassHolds /\ \A r \in Lookers : LookHolds(r)
  <2>1. ~WAt(writer, "yes")
    BY <1>1, WriterIs DEF QInit, WAt, NoCheck
  <2>2. \A r \in Lookers : look[r] = NoLook /\ look[r].pc = "none" /\ look[r].slot = Empty
    BY <1>2 DEF NoLook
  <2>3. \A r \in Lookers : LookHolds(r)
    BY <2>2 DEF LookHolds, LAt
  <2>4. QED BY <2>1, <2>3 DEF PassHolds
<1>8. LooksRight
  <2>1. w.pc = "rest" BY <1>2 DEF Resting
  <2>2. \A r \in Lookers : look[r].pc = "none" /\ look[r].slot = Empty
    BY <1>2 DEF NoLook
  <2>3. QED
    BY <2>2 DEF LooksRight, Was, FoundRight, MissedRight, LAt
<1>9. QED BY <1>1, <1>3, <1>4, <1>5, <1>6, <1>7, <1>8 DEF HInv

-----------------------------------------------------------------------------
\* Types.

\* A sequence over a set is one over a larger set.
LEMMA SeqGrows ==
  ASSUME NEW S, NEW T, S \subseteq T, NEW f \in Seq(S)
  PROVE  f \in Seq(T)
<1>1. Len(f) \in Nat /\ f \in [1 .. Len(f) -> S]
  OBVIOUS
<1>2. f \in [1 .. Len(f) -> T]
  BY <1>1
<1>3. QED BY <1>1, <1>2

\* What the readers are told when keys are stored or deleted.
LEMMA LookTypes ==
  ASSUME HTypes, chng' \in Nat, chng <= chng', look' = look \/ \E s : SetStored(s)
  PROVE  look' \in [Lookers -> LookType']
<1>1. LookType \subseteq LookType'
  BY DEF LookType, HTypes, TableTypes
<1>2. CASE look' = look
  BY <1>1, <1>2 DEF HTypes
<1>3. ASSUME NEW s, SetStored(s), NEW r \in Lookers
      PROVE  look'[r] \in LookType'
  <2>1. look[r] \in LookType /\ NoLook \in LookType
    BY HashAssumption DEF HTypes, TableTypes, LookType, LookPcs, NoLook, Empty
  <2> DEFINE W == look[r].was \cup {(look[r].k \in s)}
  <2>2. W \in SUBSET BOOLEAN
    <3>1. look[r].was \in SUBSET BOOLEAN
      BY <2>1 DEF LookType
    <3>2. (look[r].k \in s) \in BOOLEAN
      OBVIOUS
    <3>3. QED BY <3>1, <3>2, Zenon
  <2>3. [look[r] EXCEPT !.was = W] \in LookType
    BY <2>1, <2>2 DEF LookType
  <2>4. look'[r] = IF look[r].pc = "none" THEN NoLook ELSE [look[r] EXCEPT !.was = W]
    BY <1>3 DEF SetStored
  <2>5. look'[r] \in LookType
    BY <2>1, <2>3, <2>4
  <2>6. QED BY <1>1, <2>5
<1>4. ASSUME NEW s, SetStored(s)
      PROVE  look' \in [Lookers -> LookType']
  BY <1>3, <1>4 DEF SetStored
<1>5. QED BY <1>2, <1>4

\* The way that is taken passes no place twice: without the part between, it
\* would be a shorter one.
LEMMA ShortestWay ==
  ASSUME NEW b \in Buckets, Lengths(b) # {}, NEW p \in Shortest(b)
  PROVE  /\ p \in Seq(Places) /\ Len(p) \in Nat \ {0} /\ p \in Ways(b, Len(p))
         /\ \A i, j \in 1 .. Len(p) : p[i] = p[j] => i = j
<1> DEFINE n == CHOOSE n \in Lengths(b) : \A m \in Lengths(b) : n <= m
<1>1. n \in Lengths(b) /\ \A m \in Lengths(b) : n <= m
  <2>1. Lengths(b) \in SUBSET Nat
    BY DEF Lengths
  <2>2. \E x \in Lengths(b) : \A m \in Lengths(b) : x <= m
    BY <2>1, LeastOf
  <2>3. QED BY <2>2
<1>2. Cardinality(Buckets) \in Nat
  BY HashAssumption, FS_CardinalityType
<1>3. n \in 1 .. Cardinality(Buckets) /\ p \in Ways(b, n)
  BY <1>1 DEF Lengths, Shortest
<1> HIDE DEF n
<1>4. p \in [1 .. n -> Places] /\ n \in Nat \ {0}
  BY <1>2, <1>3 DEF Ways
<1>5. p \in Seq(Places) /\ Len(p) = n
  BY <1>4
<1>6. ASSUME NEW i \in 1 .. n, NEW j \in 1 .. n, i < j, p[i] = p[j]
      PROVE  FALSE
  <2> DEFINE d == j - i
             m == n - d
             q == [l \in 1 .. m |-> IF l <= i THEN p[l] ELSE p[l + d]]
  <2>1. d \in 1 .. n - 1 /\ i <= m /\ m \in 1 .. n - 1 /\ i + d = j
    BY <1>4, <1>6
  <2> HIDE DEF d, m
  <2>2. \A l \in 1 .. m : l > i => l + d \in 1 .. n
    BY <1>4, <2>1 DEF m
  <2>3. q \in [1 .. m -> Places]
    BY <1>4, <2>1, <2>2
  <2>4. q[1] = p[1]
    BY <2>1
  <2>5. q[m] = p[n]
    <3>1. CASE m = i
      <4>1. n = j BY <1>4, <2>1, <3>1 DEF m
      <4>2. QED BY <1>6, <2>1, <3>1, <4>1
    <3>2. CASE m > i
      <4>1. m + d = n BY <1>4, <2>1 DEF m
      <4>2. QED BY <2>1, <3>2, <4>1
    <3>3. QED BY <2>1, <3>1, <3>2
  <2>6. ASSUME NEW l \in 1 .. m - 1
        PROVE  idx[q[l]] # Empty /\ q[l + 1][1] = Alt[<<q[l][1], sig[q[l]]>>]
    <3>1. \A x \in 1 .. n - 1 :
            idx[p[x]] # Empty /\ p[x + 1][1] = Alt[<<p[x][1], sig[p[x]]>>]
      BY <1>3 DEF Ways
    <3>2. CASE l < i
      <4>1. q[l] = p[l] /\ q[l + 1] = p[l + 1] /\ l \in 1 .. n - 1
        BY <1>4, <2>1, <3>2
      <4>2. QED BY <3>1, <4>1
    <3>3. CASE l = i
      <4>1. q[l] = p[j] /\ q[l + 1] = p[j + 1] /\ j \in 1 .. n - 1
        <5>1. j \in 1 .. n - 1 /\ l + 1 + d = j + 1 /\ l + 1 \in 1 .. m
          BY <1>4, <2>1, <3>3 DEF m
        <5>2. QED BY <1>6, <2>1, <3>3, <5>1
      <4>2. QED BY <3>1, <4>1
    <3>4. CASE l > i
      <4>1. q[l] = p[l + d] /\ q[l + 1] = p[l + d + 1] /\ l + d \in 1 .. n - 1
        <5>1. l + d \in 1 .. n - 1 /\ l + 1 + d = l + d + 1 /\ l + 1 \in 1 .. m
          BY <1>4, <2>1, <3>4 DEF m
        <5>2. QED BY <2>1, <3>4, <5>1
      <4>2. QED BY <3>1, <4>1
    <3>5. QED BY <2>1, <3>2, <3>3, <3>4
  <2>7. q \in Ways(b, m)
    <3>1. p[1][1] = b /\ idx[p[n]] = Empty
      BY <1>3 DEF Ways
    <3>2. QED BY <2>3, <2>4, <2>5, <2>6, <3>1 DEF Ways
  <2>8. m \in Lengths(b)
    <3>1. m \in 1 .. Cardinality(Buckets)
      BY <1>2, <1>3, <2>1
    <3>2. QED BY <2>7, <3>1 DEF Lengths
  <2>9. QED BY <1>1, <1>4, <2>1, <2>8
<1>7. \A i, j \in 1 .. Len(p) : p[i] = p[j] => i = j
  BY <1>4, <1>5, <1>6
<1>8. QED BY <1>3, <1>4, <1>5, <1>7

\* What an insertion does: it finds a way, or gives up and frees the slot.
FoundWay(p) ==
  /\ p \in Seq(Places) /\ Len(p) \in Nat \ {0} /\ p \in Ways(p[1][1], Len(p))
  /\ p[1][1] \in {Prim[w.k], Sec(w.k)}
  /\ \A i, j \in 1 .. Len(p) : p[i] = p[j] => i = j
  /\ \E pc \in {"sig", "count"} :
       /\ pc = "sig" => Len(p) = 1
       /\ w' = [w EXCEPT !.path = p, !.n = Len(p), !.pc = pc]

\* Insert finds a way or gives the slot back.
LEMMA InsertMeans ==
  ASSUME HTypes, WriterHolds, Insert
  PROVE  \/ free' = free /\ \E p \in Seq(Places) : FoundWay(p)
         \/ free' = Append(free, w.slot) /\ w' = Resting
<1> DEFINE b == IF Lengths(Prim[w.k]) # {} THEN Prim[w.k] ELSE Sec(w.k)
<1>1. w.k \in Keys
  BY DEF Insert, At, WriterHolds, Adding
<1>2. b \in Buckets /\ b \in {Prim[w.k], Sec(w.k)}
  BY <1>1, Buckets2
<1>3. CASE Lengths(b) = {}
  BY <1>3 DEF Insert
<1>4. CASE Lengths(b) # {}
  <2>1. PICK p \in Shortest(b) :
          /\ w' = [w EXCEPT !.path = p, !.n = Len(p),
                    !.pc = IF Len(p) = 1 /\ b = Prim[w.k] THEN "sig" ELSE "count"]
          /\ UNCHANGED free
    BY <1>4 DEF Insert
  <2> HIDE DEF b
  <2>2. /\ p \in Seq(Places) /\ Len(p) \in Nat \ {0} /\ p \in Ways(b, Len(p))
        /\ \A i, j \in 1 .. Len(p) : p[i] = p[j] => i = j
    BY <1>2, <1>4, <2>1, ShortestWay
  <2>3. p[1][1] = b
    BY <2>2 DEF Ways
  <2>4. FoundWay(p)
    <3> DEFINE pc == IF Len(p) = 1 /\ b = Prim[w.k] THEN "sig" ELSE "count"
    <3>1. pc \in {"sig", "count"} /\ (pc = "sig" => Len(p) = 1)
          /\ w' = [w EXCEPT !.path = p, !.n = Len(p), !.pc = pc]
      BY <2>1
    <3>2. QED BY <1>2, <2>2, <2>3, <3>1 DEF FoundWay
  <2>5. QED BY <2>1, <2>2, <2>4
<1>5. QED BY <1>3, <1>4

TokenGrows == token \in Nat /\ token' \in Nat /\ token <= token'
TablesSame == UNCHANGED <<mode, sig, idx, key, chng, stored>>

\* Steps that leave the table alone keep its types;
LEMMA TablesKept ==
  ASSUME HTypes, TablesSame
  PROVE  TableTypes'
BY DEF HTypes, TableTypes, TablesSame

\* Tokens of a later time are more.
LEMMA DqTypes ==
  ASSUME TokenGrows, NEW f \in Seq([t : CntInit + 1 .. token, s : Slots])
  PROVE  f \in Seq([t : CntInit + 1 .. token', s : Slots])
<1>1. [t : CntInit + 1 .. token, s : Slots] \subseteq [t : CntInit + 1 .. token', s : Slots]
  BY DEF CntInit, TokenGrows
<1>2. QED BY <1>1, SeqGrows

\* those that leave the queues alone keep theirs.
LEMMA QueuesKept ==
  ASSUME HTypes, TokenGrows, UNCHANGED <<free, dq>>
  PROVE  QueueTypes'
BY DqTypes DEF HTypes, QueueTypes

\* What Append does.
LEMMA AppendIn ==
  ASSUME NEW S, NEW f \in Seq(S), NEW x \in S
  PROVE  /\ Append(f, x) \in Seq(S) /\ Len(Append(f, x)) = Len(f) + 1
         /\ DOMAIN f = 1 .. Len(f) /\ DOMAIN Append(f, x) = 1 .. Len(f) + 1 /\ Len(f) \in Nat
         /\ Append(f, x)[Len(f) + 1] = x
         /\ \A i \in 1 .. Len(f) : Append(f, x)[i] = f[i]
OBVIOUS

\* A larger token keeps the type of the writer.
LEMMA WriterGrows ==
  ASSUME TokenGrows
  PROVE  WriterType \subseteq WriterType' /\ Resting \in WriterType'
BY DEF WriterType, Resting, Pcs, Empty, TokenGrows

\* Steps that leave the table and the lookups alone.
LEMMA LooksKept ==
  ASSUME HTypes, TablesSame, look' = look
  PROVE  look' \in [Lookers -> LookType']
BY LookTypes DEF HTypes, TableTypes, TablesSame

\* The steps of the writer.
LEMMA WayPlaces ==
  ASSUME HTypes, WayHolds, OnWay
  PROVE  /\ w.path \in Seq(Places) /\ w.n \in 1 .. Len(w.path) /\ w.n \in Nat \ {0}
         /\ Len(w.path) \in Nat /\ \A i \in 1 .. Len(w.path) : w.path[i] \in Places
         /\ Target \in Places
         /\ w.n > 1 => Moved \in Places /\ w.n - 1 \in 1 .. Len(w.path)
<1>1. w.path \in Seq(Places) /\ w.n \in Nat
  BY DEF HTypes, WriterType
<1>2. w.n \in 1 .. Len(w.path)
  BY DEF WayHolds
<1>3. Len(w.path) \in Nat /\ \A i \in 1 .. Len(w.path) : w.path[i] \in Places
  BY <1>1
<1>4. Target \in Places
  BY <1>2, <1>3 DEF Target
<1>5. w.n > 1 => Moved \in Places /\ w.n - 1 \in 1 .. Len(w.path)
  BY <1>2, <1>3 DEF Moved
<1>6. QED BY <1>1, <1>2, <1>3, <1>4, <1>5

\* The types, in the steps that add.
LEMMA AddTypes ==
  ASSUME HTypes, WriterHolds, WayHolds, TokenGrows,
         \/ \E k \in Keys : AddKey(k)
         \/ AllocSlot \/ WriteKey \/ Insert \/ CountChange \/ StoreSig \/ StoreIdx
  PROVE  HTypes'
<1>1. /\ w \in WriterType /\ WriterType \subseteq WriterType' /\ Resting \in WriterType'
      /\ Slots' = Slots
  BY WriterGrows DEF HTypes
<1>2. ASSUME NEW k \in Keys, AddKey(k)
      PROVE  HTypes'
  <2>1. w' \in WriterType'
    <3>1. [Resting EXCEPT !.pc = "alloc", !.k = k] \in WriterType'
      BY <1>1 DEF WriterType, Pcs
    <3>2. QED BY <1>2, <3>1 DEF AddKey
  <2>2. QED
    BY <1>2, <2>1, TablesKept, QueuesKept, LooksKept DEF AddKey, HTypes, TablesSame
<1>3. CASE AllocSlot
  <2>1. w' \in WriterType' /\ QueueTypes'
    <3>1. CASE /\ free # <<>> /\ free' = Tail(free)
               /\ w' = [w EXCEPT !.pc = "key", !.slot = Head(free)]
      <4>1. Head(free) \in Slots /\ Tail(free) \in Seq(Slots)
        BY <3>1, SeqParts DEF HTypes, QueueTypes
      <4>2. w' \in WriterType
        BY <1>1, <3>1, <4>1 DEF WriterType, Pcs
      <4>3. QueueTypes'
        BY <1>3, <3>1, <4>1, DqTypes DEF AllocSlot, HTypes, QueueTypes
      <4>4. QED BY <1>1, <4>2, <4>3
    <3>2. CASE free' = free /\ w' = [w EXCEPT !.pc = "reclaim", !.n = MaxReclaim, !.then = "retry"]
      <4>1. w' \in WriterType
        BY <1>1, <3>2, HashAssumption DEF WriterType, Pcs
      <4>2. QED BY <1>1, <1>3, <3>2, <4>1, QueuesKept DEF AllocSlot
    <3>3. CASE free' = free /\ w' = Resting
      BY <1>1, <1>3, <3>3, QueuesKept DEF AllocSlot
    <3>4. QED BY <1>3, <3>1, <3>2, <3>3 DEF AllocSlot
  <2>2. QED
    BY <1>3, <2>1, TablesKept, LooksKept DEF AllocSlot, HTypes, TablesSame
<1>4. CASE WriteKey
  <2>1. w' \in WriterType
    BY <1>1, <1>4 DEF WriteKey, Goto, WriterType, Pcs
  <2>2. key' \in [Slots -> Keys \cup {NoKey}]
    BY <1>1, <1>4 DEF WriteKey, HTypes, TableTypes, WriterType
  <2>3. TableTypes'
    BY <1>4, <2>2 DEF WriteKey, HTypes, TableTypes
  <2>4. look' \in [Lookers -> LookType']
    BY <1>4, LookTypes DEF WriteKey, HTypes, TableTypes
  <2>5. QED BY <1>1, <1>4, <2>1, <2>3, <2>4, QueuesKept DEF WriteKey, HTypes
<1>5. CASE Insert
  <2>1. w' \in WriterType'
    <3>1. ASSUME NEW p \in Seq(Places), FoundWay(p)
          PROVE  w' \in WriterType'
      <4>1. PICK pc \in {"sig", "count"} : w' = [w EXCEPT !.path = p, !.n = Len(p), !.pc = pc]
        BY <3>1 DEF FoundWay
      <4>2. pc \in Pcs /\ Len(p) \in Nat
        BY DEF Pcs
      <4>3. w' \in WriterType
        BY <1>1, <4>1, <4>2 DEF WriterType
      <4>4. QED BY <1>1, <4>3
    <3>2. QED BY <1>1, <1>5, <3>1, InsertMeans
  <2>2. w.slot \in Slots
    BY <1>1, <1>5 DEF Insert, At, WriterHolds, Holding, WriterType
  <2>3. QueueTypes'
    <3>1. free' \in Seq(Slots)
      <4>1. free' = free \/ free' = Append(free, w.slot)
        BY <1>5, InsertMeans
      <4>2. free \in Seq(Slots)
        BY DEF HTypes, QueueTypes
      <4>3. QED BY <2>2, <4>1, <4>2
    <3>2. QED BY <1>5, <3>1, DqTypes DEF Insert, HTypes, QueueTypes
  <2>4. QED BY <1>5, <2>1, <2>3, TablesKept, LooksKept DEF Insert, HTypes, TablesSame
<1>6. CASE CountChange
  <2>1. w' \in WriterType
    BY <1>1, <1>6 DEF CountChange, Goto, WriterType, Pcs
  <2>2. TableTypes'
    BY <1>6 DEF CountChange, HTypes, TableTypes
  <2>3. look' \in [Lookers -> LookType']
    BY <1>6, LookTypes DEF CountChange, HTypes, TableTypes
  <2>4. QED BY <1>1, <1>6, <2>1, <2>2, <2>3, QueuesKept DEF CountChange, HTypes
<1>7. CASE StoreSig
  <2>1. w' \in WriterType
    BY <1>1, <1>7 DEF StoreSig, Goto, WriterType, Pcs
  <2>2. sig' \in [Places -> {NoSig} \cup {Sig[k] : k \in Keys}]
    <3>1. Sig[w.k] \in {Sig[k] : k \in Keys}
      BY <1>7 DEF StoreSig, At, WriterHolds, Adding
    <3>2. w.n > 1 => sig[Moved] \in {NoSig} \cup {Sig[k] : k \in Keys}
      BY <1>7, WayPlaces DEF StoreSig, At, OnWay, HTypes, TableTypes
    <3>3. w.n = 1 \/ w.n > 1
      BY <1>7, WayPlaces DEF StoreSig, At, OnWay
    <3>4. QED BY <1>7, <3>1, <3>2, <3>3 DEF StoreSig, Store, HTypes, TableTypes
  <2>3. TableTypes'
    BY <1>7, <2>2 DEF StoreSig, HTypes, TableTypes
  <2>4. look' \in [Lookers -> LookType']
    BY <1>7, LookTypes DEF StoreSig, HTypes, TableTypes
  <2>5. QED BY <1>1, <1>7, <2>1, <2>3, <2>4, QueuesKept DEF StoreSig, HTypes
<1>8. CASE StoreIdx
  <2>1. w.n \in Nat \ {0} /\ Target \in Places /\ (w.n > 1 => Moved \in Places)
    BY <1>8, WayPlaces DEF StoreIdx, At, OnWay
  <2>2. w.slot \in Slots /\ w.k \in Keys
    BY <1>1, <1>8 DEF StoreIdx, At, WriterHolds, Holding, Adding, WriterType
  <2>3. w' \in WriterType'
    <3>1. w.n - 1 \in Nat
      BY <2>1
    <3>2. [w EXCEPT !.pc = "count", !.n = w.n - 1] \in WriterType
      BY <1>1, <3>1 DEF WriterType, Pcs
    <3>3. QED BY <1>1, <1>8, <3>2 DEF StoreIdx
  <2>4. idx' \in [Places -> Slots \cup {Empty}]
    BY <1>8, <2>1, <2>2 DEF StoreIdx, Store, HTypes, TableTypes
  <2>5. stored' \in SUBSET Keys
    BY <1>8, <2>2 DEF StoreIdx, SetStored, HTypes, TableTypes
  <2>6. TableTypes'
    BY <1>8, <2>4, <2>5 DEF StoreIdx, HTypes, TableTypes
  <2>7. look' \in [Lookers -> LookType']
    <3>1. look' = look \/ \E s : SetStored(s)
      BY <1>8 DEF StoreIdx
    <3>2. QED BY <1>8, <3>1, LookTypes DEF StoreIdx, HTypes, TableTypes
  <2>8. QED BY <1>1, <1>8, <2>3, <2>6, <2>7, QueuesKept DEF StoreIdx, HTypes
<1>9. QED BY <1>2, <1>3, <1>4, <1>5, <1>6, <1>7, <1>8

\* The types, in the steps that delete and reclaim.
LEMMA DeleteTypes ==
  ASSUME HTypes, WriterHolds, ClearHolds, TokenGrows,
         \/ \E k \in Keys : DelKey(k)
         \/ ClearIdx \/ StartGrace \/ Synchronize \/ FreeSlot \/ Enqueue
         \/ ReclaimCall \/ Reclaim \/ Reclaimed
  PROVE  HTypes'
<1>1. /\ w \in WriterType /\ WriterType \subseteq WriterType' /\ Resting \in WriterType'
      /\ Slots' = Slots
  BY WriterGrows DEF HTypes
<1>2. ASSUME NEW k \in Keys, DelKey(k)
      PROVE  HTypes'
  <2>1. PICK p \in PlacesOf(k) :
          /\ sig' = Store(sig, p, NoSig)
          /\ w' = [Resting EXCEPT !.pc = "clear", !.k = k, !.slot = idx[p], !.path = <<p>>]
    BY <1>2 DEF DelKey
  <2>2. p \in Places /\ <<p>> \in Seq(Places) /\ idx[p] \in Slots \cup {Empty}
    BY DEF PlacesOf, HTypes, TableTypes
  <2>3. w' \in WriterType'
    <3>1. [Resting EXCEPT !.pc = "clear", !.k = k, !.slot = idx[p], !.path = <<p>>] \in WriterType'
      BY <1>1, <2>2 DEF WriterType, Pcs
    <3>2. QED BY <2>1, <3>1
  <2>4. TableTypes'
    BY <1>2, <2>1, <2>2 DEF DelKey, SetStored, Store, HTypes, TableTypes
  <2>5. look' \in [Lookers -> LookType']
    <3>1. chng' = chng /\ \E s : SetStored(s)
      BY <1>2 DEF DelKey
    <3>2. QED BY <3>1, LookTypes DEF HTypes, TableTypes
  <2>6. QED BY <1>2, <2>3, <2>4, <2>5, QueuesKept DEF DelKey, HTypes
<1>3. CASE ClearIdx
  <2>1. w' \in WriterType
    BY <1>1, <1>3 DEF ClearIdx, Goto, WriterType, Pcs
  <2>2. TableTypes'
    BY <1>3 DEF ClearIdx, At, ClearHolds, Store, HTypes, TableTypes
  <2>3. look' \in [Lookers -> LookType']
    BY <1>3, LookTypes DEF ClearIdx, HTypes, TableTypes
  <2>4. QED BY <1>1, <1>3, <2>1, <2>2, <2>3, QueuesKept DEF ClearIdx, HTypes
<1>4. CASE StartGrace
  <2>1. w' \in WriterType'
    <3> DEFINE pc == IF mode = "sync" THEN "check"
                     ELSE IF Len(dq) > Trigger THEN "reclaim" ELSE "enqueue"
    <3>1. pc \in Pcs
      BY DEF Pcs
    <3>2. w' = [w EXCEPT !.tok = token', !.n = MaxReclaim, !.then = "enqueue", !.pc = pc]
      BY <1>4 DEF StartGrace
    <3> HIDE DEF pc
    <3>3. token' \in 0 .. token' /\ MaxReclaim \in Nat
      BY HashAssumption DEF TokenGrows
    <3>4. w \in WriterType'
      BY <1>1
    <3>5. QED BY <3>1, <3>2, <3>3, <3>4 DEF WriterType
  <2>2. QED
    BY <1>4, <2>1, TablesKept, QueuesKept, LooksKept DEF StartGrace, HTypes, TablesSame
<1>5. CASE Synchronize
  <2>1. w' \in WriterType
    BY <1>1, <1>5 DEF Synchronize, Goto, WriterType, Pcs
  <2>2. QED
    BY <1>1, <1>5, <2>1, TablesKept, QueuesKept, LooksKept DEF Synchronize, HTypes, TablesSame
<1>6. CASE FreeSlot
  <2>1. free' \in Seq(Slots)
    <3>1. w.slot \in Slots
      BY <1>1, <1>6 DEF FreeSlot, At, WriterHolds, Holding, Deferring, WriterType
    <3>2. QED BY <1>6, <3>1, AppendIn DEF FreeSlot, HTypes, QueueTypes
  <2>2. QueueTypes'
    BY <1>6, <2>1, DqTypes DEF FreeSlot, HTypes, QueueTypes
  <2>3. QED
    BY <1>1, <1>6, <2>2, TablesKept, LooksKept DEF FreeSlot, HTypes, TablesSame
<1>7. CASE Enqueue
  <2>1. [t |-> w.tok, s |-> w.slot] \in [t : CntInit + 1 .. token, s : Slots]
    <3>1. w.slot \in Slots
      BY <1>1, <1>7 DEF Enqueue, At, WriterHolds, Holding, Deferring, During, WriterType
    <3>2. w.tok \in CntInit + 1 .. token
      BY <1>1, <1>7 DEF Enqueue, At, WriterHolds, Deferring, During, WriterType, CntInit, TokenGrows
    <3>3. QED BY <3>1, <3>2
  <2>2. dq' \in Seq([t : CntInit + 1 .. token, s : Slots])
    BY <1>7, <2>1, AppendIn DEF Enqueue, HTypes, QueueTypes
  <2>3. QueueTypes'
    BY <1>7, <2>2, DqTypes DEF Enqueue, HTypes, QueueTypes
  <2>4. QED
    BY <1>1, <1>7, <2>3, TablesKept, LooksKept DEF Enqueue, HTypes, TablesSame
<1>8. CASE ReclaimCall
  <2>1. [Resting EXCEPT !.pc = "reclaim", !.n = MaxReclaim] \in WriterType'
    BY <1>1, HashAssumption DEF WriterType, Pcs
  <2>2. QED
    BY <1>8, <2>1, TablesKept, QueuesKept, LooksKept DEF ReclaimCall, HTypes, TablesSame
<1>9. CASE Reclaim
  <2>1. w' \in WriterType
    BY <1>1, <1>9 DEF Reclaim, Goto, WriterType, Pcs
  <2>2. QED
    BY <1>1, <1>9, <2>1, TablesKept, QueuesKept, LooksKept DEF Reclaim, HTypes, TablesSame
<1>10. CASE Reclaimed
  <2>1. CASE WAt(writer, "yes") /\ dq' = Tail(dq) /\ free' = Append(free, Head(dq).s)
             /\ w' = [w EXCEPT !.pc = "reclaim", !.n = w.n - 1]
    <3>1. dq # <<>> /\ w.n - 1 \in Nat
      BY <1>1, <1>10 DEF Reclaimed, At, WriterHolds, WriterType
    <3>2. /\ Head(dq) \in [t : CntInit + 1 .. token, s : Slots]
          /\ Tail(dq) \in Seq([t : CntInit + 1 .. token, s : Slots])
      BY <3>1, SeqParts DEF HTypes, QueueTypes
    <3>3. free' \in Seq(Slots)
      <4>1. Head(dq).s \in Slots BY <3>2
      <4>2. free \in Seq(Slots) BY DEF HTypes, QueueTypes
      <4>3. QED BY <2>1, <4>1, <4>2, AppendIn
    <3>4. QueueTypes'
      BY <2>1, <3>2, <3>3, DqTypes DEF QueueTypes
    <3>5. w' \in WriterType
      BY <1>1, <2>1, <3>1 DEF WriterType, Pcs
    <3>6. QED
      BY <1>1, <1>10, <3>4, <3>5, TablesKept, LooksKept DEF Reclaimed, HTypes, TablesSame
  <2>2. CASE Goto(w.then) /\ UNCHANGED <<dq, free>>
    <3>1. w' \in WriterType
      BY <1>1, <2>2 DEF Goto, WriterType, Pcs
    <3>2. QED
      BY <1>1, <1>10, <2>2, <3>1, TablesKept, QueuesKept, LooksKept
         DEF Reclaimed, HTypes, TablesSame
  <2>3. QED BY <1>10, <2>1, <2>2 DEF Reclaimed
<1>11. QED BY <1>2, <1>3, <1>4, <1>5, <1>6, <1>7, <1>8, <1>9, <1>10

\* The places where a key may be.
LEMMA PlaceIs ==
  ASSUME NEW k \in Keys, NEW n \in 1 .. 2 * Entries
  PROVE  PlaceAt(k, n) \in Places /\ PlaceAt(k, n)[1] \in {Prim[k], Sec(k)}
<1>1. n \in Int /\ Entries \in Nat
  BY HashAssumption
<1>0. Prim[k] \in Buckets /\ Sec(k) \in Buckets
  BY Buckets2
<1>2. CASE n <= Entries
  <2>1. PlaceAt(k, n) = <<Prim[k], n>> /\ n \in 1 .. Entries
    BY <1>1, <1>2 DEF PlaceAt
  <2>2. QED BY <1>0, <2>1 DEF Places
<1>3. CASE n > Entries
  <2>1. n - Entries \in 1 .. Entries
    BY <1>1, <1>3
  <2>2. PlaceAt(k, n) = <<Sec(k), n - Entries>>
    BY <1>1, <1>3 DEF PlaceAt
  <2>3. QED BY <1>0, <2>1, <2>2 DEF Places
<1>4. QED BY <1>1, <1>2, <1>3

\* A reader looks at places of its key.
LEMMA HereIs ==
  ASSUME HTypes, NEW r \in Lookers, LookHolds(r), look[r].pc \in {"sig", "idx", "key"}
  PROVE  /\ Here(r) \in Places /\ Here(r)[1] \in {Prim[look[r].k], Sec(look[r].k)}
         /\ look[r].at \in 1 .. 2 * Entries /\ look[r].k \in Keys
<1>1. look[r] \in LookType /\ Entries \in Nat
  BY HashAssumption DEF HTypes
<1>2. look[r].at \in 1 .. 2 * Entries /\ look[r].k \in Keys
  BY <1>1 DEF LookHolds, LookType
<1>3. QED BY <1>2, PlaceIs DEF Here

\* The steps of the readers: one reader moves, and the table stays.
Looks(r, rec) == look' = [look EXCEPT ![r] = rec] /\ rec \in LookType

\* The step of one reader leaves the lookups of the others alone.
LEMMA LookMoves ==
  ASSUME HTypes, NEW r \in Lookers, NEW rec, Looks(r, rec)
  PROVE  /\ look' \in [Lookers -> LookType] /\ look'[r] = rec
         /\ \A q \in Lookers : q # r => look'[q] = look[q]
BY DEF HTypes, Looks

\* A lookup that goes on.
AdvanceRec(r) ==
  [look[r] EXCEPT !.slot = Empty,
                  !.at = IF look[r].at < 2 * Entries THEN look[r].at + 1 ELSE look[r].at,
                  !.pc = IF look[r].at < 2 * Entries THEN "sig" ELSE "end"]

\* Advance stores a record of the type;
LEMMA AdvanceMeans ==
  ASSUME HTypes, NEW r \in Lookers, Advance(r)
  PROVE  Looks(r, AdvanceRec(r))
<1> DEFINE at == IF look[r].at < 2 * Entries THEN look[r].at + 1 ELSE look[r].at
           pc == IF look[r].at < 2 * Entries THEN "sig" ELSE "end"
<1>1. look[r] \in LookType /\ Entries \in Nat /\ look \in [Lookers -> LookType]
  BY HashAssumption DEF HTypes
<1>2. at \in 0 .. 2 * Entries /\ pc \in LookPcs
  BY <1>1 DEF LookType, LookPcs
<1>3. AdvanceRec(r) = [look[r] EXCEPT !.slot = Empty, !.at = at, !.pc = pc]
  BY DEF AdvanceRec
<1>4. look' = [look EXCEPT ![r] = AdvanceRec(r)]
  BY <1>1 DEF Advance, AdvanceRec
<1> HIDE DEF at, pc
<1>5. [look[r] EXCEPT !.slot = Empty, !.at = at, !.pc = pc] \in LookType
  BY <1>1, <1>2 DEF LookType
<1>6. QED BY <1>3, <1>4, <1>5 DEF Looks

\* so does LGoto,
LEMMA LGotoMeans ==
  ASSUME HTypes, NEW r \in Lookers, NEW pc \in LookPcs, LGoto(r, pc)
  PROVE  Looks(r, [look[r] EXCEPT !.pc = pc])
<1>1. look[r] \in LookType /\ look \in [Lookers -> LookType]
  BY DEF HTypes
<1>2. QED BY <1>1 DEF LGoto, LookType, Looks

\* What the steps of a lookup do.
LEMMA LookStepMeans ==
  ASSUME HTypes, NEW r \in Lookers, LookHolds(r), LookStep(r)
  PROVE  \/ /\ LAt(r, "sig")
            /\ \/ sig[Here(r)] = Sig[look[r].k] /\ Looks(r, [look[r] EXCEPT !.pc = "idx"])
               \/ sig[Here(r)] # Sig[look[r].k] /\ Looks(r, AdvanceRec(r))
         \/ /\ LAt(r, "idx")
            /\ \/ /\ idx[Here(r)] # Empty
                  /\ Looks(r, [look[r] EXCEPT !.pc = "key", !.slot = idx[Here(r)]])
               \/ idx[Here(r)] = Empty /\ Looks(r, AdvanceRec(r))
         \/ /\ LAt(r, "key")
            /\ \/ key[look[r].slot] = look[r].k /\ Looks(r, [look[r] EXCEPT !.pc = "found"])
               \/ key[look[r].slot] # look[r].k /\ Looks(r, AdvanceRec(r))
         \/ /\ LAt(r, "end")
            /\ \/ look[r].cnt = chng /\ Looks(r, [look[r] EXCEPT !.pc = "missed"])
               \/ look[r].cnt # chng /\ Looks(r, [look[r] EXCEPT !.pc = "again"])
         \/ /\ LAt(r, "again")
            /\ Looks(r, [look[r] EXCEPT !.pc = "sig", !.cnt = chng, !.at = 1])
<1>1. /\ look[r] \in LookType /\ look \in [Lookers -> LookType] /\ chng \in Nat
      /\ Entries \in Nat \ {0}
  BY HashAssumption DEF HTypes, TableTypes
<1>2. \A pc \in {"idx", "key", "found", "missed", "again"} : pc \in LookPcs
  BY DEF LookPcs
<1>3. CASE CompareSig(r)
  BY <1>2, <1>3, AdvanceMeans, LGotoMeans DEF CompareSig
<1>4. CASE LoadIdx(r)
  <2>1. CASE idx[Here(r)] # Empty
    <3>1. idx[Here(r)] \in Slots \cup {Empty}
      <4>1. Here(r) \in Places
        BY <1>4, HereIs DEF LoadIdx, LAt
      <4>2. QED BY <4>1 DEF HTypes, TableTypes
    <3>2. [look[r] EXCEPT !.pc = "key", !.slot = idx[Here(r)]] \in LookType
      BY <1>1, <3>1 DEF LookType, LookPcs
    <3>3. look' = [look EXCEPT ![r] = [look[r] EXCEPT !.pc = "key", !.slot = idx[Here(r)]]]
      BY <1>1, <1>4, <2>1 DEF LoadIdx
    <3>4. QED BY <1>4, <2>1, <3>2, <3>3 DEF LoadIdx, Looks
  <2>2. CASE idx[Here(r)] = Empty
    BY <1>4, <2>2, AdvanceMeans DEF LoadIdx
  <2>3. QED BY <2>1, <2>2
<1>5. CASE CompareKey(r)
  BY <1>2, <1>5, AdvanceMeans, LGotoMeans DEF CompareKey
<1>6. CASE LoadChange(r)
  BY <1>2, <1>6, LGotoMeans DEF LoadChange
<1>7. CASE Again(r)
  <2>1. [look[r] EXCEPT !.pc = "sig", !.cnt = chng, !.at = 1] \in LookType
    <3>1. chng \in 0 .. chng /\ 1 \in 0 .. 2 * Entries
      BY <1>1
    <3>2. QED BY <1>1, <3>1 DEF LookType, LookPcs
  <2>2. look' = [look EXCEPT ![r] = [look[r] EXCEPT !.pc = "sig", !.cnt = chng, !.at = 1]]
    BY <1>1, <1>7 DEF Again
  <2>3. QED BY <1>7, <2>1, <2>2 DEF Again, Looks
<1>8. QED BY <1>3, <1>4, <1>5, <1>6, <1>7 DEF LookStep

NewLook(k) ==
  [NoLook EXCEPT !.pc = "sig", !.k = k, !.cnt = chng, !.at = 1, !.was = {(k \in stored)}]

\* and LookUp.
LEMMA LookUpMeans ==
  ASSUME HTypes, NEW r \in Lookers, NEW k \in Sought, LookUp(r, k)
  PROVE  k \in Keys /\ InSection(r) /\ LAt(r, "none") /\ Looks(r, NewLook(k))
<1>1. look \in [Lookers -> LookType] /\ chng \in Nat /\ Entries \in Nat \ {0} /\ k \in Keys
  BY HashAssumption DEF HTypes, TableTypes
<1>2. {(k \in stored)} \in SUBSET BOOLEAN
  OBVIOUS
<1>3. NewLook(k) \in LookType
  <2> DEFINE W == {(k \in stored)}
  <2> HIDE DEF W
  <2>1. [NoLook EXCEPT !.pc = "sig", !.k = k, !.cnt = chng, !.at = 1, !.was = W] \in LookType
    <3>1. chng \in 0 .. chng /\ 1 \in 0 .. 2 * Entries /\ W \in SUBSET BOOLEAN
      BY <1>1, <1>2 DEF W
    <3>2. QED BY <1>1, <3>1 DEF NoLook, LookType, LookPcs, Empty
  <2>2. QED BY <2>1 DEF NewLook, W
<1>4. QED BY <1>1, <1>3 DEF LookUp, NewLook, Looks

\* A reader that leaves its critical section forgets what it found.
LEMMA LeaveMeans ==
  ASSUME HTypes, NEW r \in Lookers, Leave(r)
  PROVE  Looks(r, NoLook)
BY HashAssumption DEF HTypes, TableTypes, Leave, Looks, NoLook, LookType, LookPcs, Empty

\* The types, in the steps of lookups,
LEMMA ReadTypes ==
  ASSUME HTypes, TokenGrows, NEW r \in Lookers, NEW rec, Looks(r, rec),
         UNCHANGED <<mode, sig, idx, key, free, chng, dq, w, stored>>
  PROVE  HTypes'
<1>1. look' \in [Lookers -> LookType]
  BY LookMoves
<1>2. LookType' = LookType
  BY DEF LookType
<1>3. w' \in WriterType'
  BY WriterGrows DEF HTypes
<1>4. QED BY <1>1, <1>2, <1>3, TablesKept, QueuesKept DEF HTypes, TablesSame

\* and in those that leave the table alone.
LEMMA OtherTypes ==
  ASSUME HTypes, TokenGrows, UNCHANGED hvars
  PROVE  HTypes'
<1>1. w' \in WriterType'
  BY WriterGrows DEF HTypes, hvars
<1>2. QED BY <1>1, TablesKept, QueuesKept, LooksKept DEF HTypes, TablesSame, hvars

-----------------------------------------------------------------------------
\* Slots: each step moves at most one from one place to another.

\* What is in a sequence, and how often, when it grows,
LEMMA AppendWithin ==
  ASSUME NEW S, NEW f \in Seq(S), NEW x \in S
  PROVE  /\ \A s : Within(Append(f, x), s) <=> Within(f, s) \/ s = x
         /\ Once(f) /\ ~Within(f, x) => Once(Append(f, x))
<1> DEFINE g == Append(f, x)
           n == Len(f)
<1>1. /\ n \in Nat /\ DOMAIN f = 1 .. n /\ DOMAIN g = 1 .. n + 1 /\ g[n + 1] = x
      /\ \A i \in 1 .. n : g[i] = f[i]
  BY AppendIn
<1> HIDE DEF g, n
<1>2. \A i \in DOMAIN g : i = n + 1 \/ i \in DOMAIN f
  BY <1>1
<1>3. \A i \in DOMAIN f : i \in DOMAIN g /\ g[i] = f[i]
  BY <1>1
<1>4. n + 1 \in DOMAIN g
  BY <1>1
<1>5. \A s : Within(g, s) <=> Within(f, s) \/ s = x
  BY <1>1, <1>2, <1>3, <1>4 DEF Within
<1>6. Once(f) /\ ~Within(f, x) => Once(g)
  BY <1>1, <1>2, <1>3 DEF Once, Within
<1>7. QED BY <1>5, <1>6 DEF g

\* and when its head is taken.
LEMMA TailWithin ==
  ASSUME NEW S, NEW f \in Seq(S), f # <<>>
  PROVE  /\ \A s : Within(f, s) <=> Within(Tail(f), s) \/ s = Head(f)
         /\ Once(f) => Once(Tail(f)) /\ ~Within(Tail(f), Head(f))
<1> DEFINE g == Tail(f)
           n == Len(f)
<1>1. /\ n \in Nat \ {0} /\ DOMAIN f = 1 .. n /\ DOMAIN g = 1 .. n - 1 /\ Head(f) = f[1]
      /\ \A i \in 1 .. n - 1 : g[i] = f[i + 1]
  BY SeqParts
<1> HIDE DEF g, n
<1>2. \A i \in DOMAIN g : i + 1 \in DOMAIN f /\ g[i] = f[i + 1] /\ i \in Nat /\ i + 1 # 1
  BY <1>1
<1>3. \A i \in DOMAIN f : i = 1 \/ (i - 1 \in DOMAIN g /\ g[i - 1] = f[i])
  BY <1>1
<1>4. 1 \in DOMAIN f
  BY <1>1
<1>5. \A s : Within(f, s) <=> Within(g, s) \/ s = Head(f)
  BY <1>1, <1>2, <1>3, <1>4 DEF Within
<1>6. Once(f) => Once(g)
  <2> SUFFICES ASSUME Once(f), NEW i \in DOMAIN g, NEW j \in DOMAIN g, g[i] = g[j]
               PROVE  i = j
    BY DEF Once
  <2>1. i + 1 = j + 1
    BY <1>2 DEF Once
  <2>2. QED BY <1>2, <2>1
<1>7. Once(f) => ~Within(g, Head(f))
  BY <1>1, <1>2, <1>4 DEF Once, Within
<1>8. QED BY <1>5, <1>6, <1>7 DEF g

\* The slots of the defer queue.
LEMMA IdsAre ==
  ASSUME NEW T, NEW q \in Seq([t : T, s : Slots])
  PROVE  /\ Ids(q) \in Seq(Slots)
         /\ \A e \in [t : T, s : Slots] : Ids(Append(q, e)) = Append(Ids(q), e.s)
         /\ q # <<>> => Ids(q) # <<>> /\ Head(Ids(q)) = Head(q).s /\ Ids(Tail(q)) = Tail(Ids(q))
<1> DEFINE Q == [t : T, s : Slots]
           n == Len(q)
<1>1. n \in Nat /\ DOMAIN q = 1 .. n /\ \A i \in 1 .. n : q[i] \in Q /\ q[i].s \in Slots
  <2>1. \A S : \A f \in Seq(S) :
          Len(f) \in Nat /\ DOMAIN f = 1 .. Len(f) /\ \A i \in 1 .. Len(f) : f[i] \in S
    OBVIOUS
  <2>2. \A e \in Q : e.s \in Slots
    OBVIOUS
  <2>3. q \in Seq(Q) /\ n = Len(q)
    OBVIOUS
  <2> HIDE DEF Q, n
  <2>4. QED BY <2>1, <2>2, <2>3
<1>2. Ids(q) \in Seq(Slots) /\ Len(Ids(q)) = n /\ \A i \in 1 .. n : Ids(q)[i] = q[i].s
  BY <1>1 DEF Ids
<1>3. ASSUME NEW e \in Q
      PROVE  Ids(Append(q, e)) = Append(Ids(q), e.s)
  <2>1. /\ DOMAIN Append(q, e) = 1 .. n + 1 /\ Append(q, e)[n + 1] = e
        /\ \A i \in 1 .. n : Append(q, e)[i] = q[i]
    BY <1>1, AppendIn
  <2>2. /\ DOMAIN Append(Ids(q), e.s) = 1 .. n + 1 /\ Append(Ids(q), e.s)[n + 1] = e.s
        /\ \A i \in 1 .. n : Append(Ids(q), e.s)[i] = q[i].s
        /\ Append(Ids(q), e.s) = [i \in 1 .. n + 1 |-> Append(Ids(q), e.s)[i]]
    BY <1>2, AppendIn
  <2>3. \A i \in 1 .. n + 1 : Append(q, e)[i].s = Append(Ids(q), e.s)[i]
    <3>1. \A i \in 1 .. n + 1 : i = n + 1 \/ i \in 1 .. n
      BY <1>1
    <3>2. QED BY <2>1, <2>2, <3>1
  <2>4. Ids(Append(q, e)) = [i \in 1 .. n + 1 |-> Append(q, e)[i].s]
    BY <2>1 DEF Ids
  <2>5. QED BY <2>2, <2>3, <2>4
<1>4. ASSUME q # <<>>
      PROVE  Ids(q) # <<>> /\ Head(Ids(q)) = Head(q).s /\ Ids(Tail(q)) = Tail(Ids(q))
  <2>1. /\ n \in Nat \ {0} /\ Head(q) = q[1] /\ DOMAIN Tail(q) = 1 .. n - 1
        /\ \A i \in 1 .. n - 1 : Tail(q)[i] = q[i + 1]
    BY <1>4, SeqParts
  <2>2. Ids(q) # <<>> 
    BY <1>2, <2>1
  <2>3. /\ Head(Ids(q)) = Ids(q)[1] /\ DOMAIN Tail(Ids(q)) = 1 .. n - 1
        /\ \A i \in 1 .. n - 1 : Tail(Ids(q))[i] = Ids(q)[i + 1]
        /\ Tail(Ids(q)) = [i \in 1 .. n - 1 |-> Tail(Ids(q))[i]]
    <3>1. /\ Head(Ids(q)) = Ids(q)[1] /\ Tail(Ids(q)) \in Seq(Slots)
          /\ Len(Tail(Ids(q))) = n - 1 /\ \A i \in 1 .. n - 1 : Tail(Ids(q))[i] = Ids(q)[i + 1]
      BY <1>2, <2>2, SeqParts
    <3>2. \A f \in Seq(Slots) : f = [i \in 1 .. Len(f) |-> f[i]] /\ DOMAIN f = 1 .. Len(f)
      OBVIOUS
    <3>3. QED BY <3>1, <3>2
  <2>4. Ids(Tail(q)) = [i \in 1 .. n - 1 |-> Tail(q)[i].s]
    BY <2>1 DEF Ids
  <2>5. \A i \in 1 .. n - 1 : Tail(q)[i].s = Tail(Ids(q))[i]
    BY <1>2, <2>1, <2>3
  <2>6. QED BY <1>2, <2>1, <2>2, <2>3, <2>4, <2>5
<1>5. QED BY <1>2, <1>3, <1>4

\* Only slot x moves, and to one place.
LEMMA SlotMoves ==
  ASSUME SlotsApart, Once(free'), Once(Ids(dq')), NEW x \in Slots,
         \A s \in Slots : s # x =>
           /\ Within(free', s) <=> Within(free, s)
           /\ Within(Ids(dq'), s) <=> Within(Ids(dq), s)
           /\ InTable(s)' <=> InTable(s)
           /\ WithWriterOnly(s)' <=> WithWriterOnly(s),
         SlotPlaced(x)'
  PROVE  SlotsApart'
BY DEF SlotsApart, SlotPlaced
\* None moves.
LEMMA SlotsKept ==
  ASSUME SlotsApart, UNCHANGED <<free, dq>>,
         \A s \in Slots : /\ InTable(s)' <=> InTable(s)
                          /\ WithWriterOnly(s)' <=> WithWriterOnly(s)
  PROVE  SlotsApart'
BY DEF SlotsApart, SlotPlaced

\* Where the writer is, by its program counter.
LEMMA HoldingIs ==
  /\ w.pc \in {"key", "insert", "count", "sig", "idx", "start", "check", "wait", "enqueue"}
       => Holding
  /\ w.pc \in {"rest", "alloc", "retry", "clear"} => ~Holding
  /\ w.pc \in {"reclaim", "ask"} => (Holding <=> w.then = "enqueue")
  /\ w.pc \in {"reclaim", "ask"} => (Adding <=> w.then = "retry")
  /\ w.pc \in {"reclaim", "ask"} => (Deferring <=> w.then = "enqueue")
  /\ w.pc \in {"check", "wait", "enqueue"} => Deferring
  /\ w.pc \notin {"check", "wait", "enqueue", "reclaim", "ask"} => ~Deferring
  /\ w.pc \in {"alloc", "retry", "key", "insert", "count", "sig", "idx"} => Adding
  /\ w.pc \in {"rest", "clear", "start", "check", "wait", "enqueue"} => ~Adding
BY DEF Holding, Deferring, Adding, During, Reclaiming

\* The same of the next state.
LEMMA HoldingIsNext ==
  /\ w'.pc \in {"key", "insert", "count", "sig", "idx", "start", "check", "wait", "enqueue"}
       => Holding'
  /\ w'.pc \in {"rest", "alloc", "retry", "clear"} => ~Holding'
  /\ w'.pc \in {"reclaim", "ask"} => (Holding' <=> w'.then = "enqueue")
  /\ w'.pc \in {"reclaim", "ask"} => (Adding' <=> w'.then = "retry")
  /\ w'.pc \in {"reclaim", "ask"} => (Deferring' <=> w'.then = "enqueue")
  /\ w'.pc \in {"check", "wait", "enqueue"} => Deferring'
  /\ w'.pc \notin {"check", "wait", "enqueue", "reclaim", "ask"} => ~Deferring'
  /\ w'.pc \in {"alloc", "retry", "key", "insert", "count", "sig", "idx"} => Adding'
  /\ w'.pc \in {"rest", "clear", "start", "check", "wait", "enqueue"} => ~Adding'
BY DEF Holding, Deferring, Adding, During, Reclaiming

\* A slot taken from the free ones or given back.
LEMMA SlotTaken ==
  ASSUME HTypes, SlotsApart, free # <<>>, free' = Tail(free), dq' = dq, idx' = idx,
         ~Holding, Holding', w'.slot = Head(free)
  PROVE  SlotsApart'
<1>0. Head(free) \in Slots /\ free \in Seq(Slots)
  BY SeqParts DEF HTypes, QueueTypes
<1>1. PICK x \in Slots : x = Head(free)
  BY <1>0
<1>2. /\ Once(free') /\ ~Within(free', x) /\ Within(free, x)
      /\ \A s \in Slots : s # x => (Within(free', s) <=> Within(free, s))
  BY <1>0, <1>1, TailWithin DEF SlotsApart
<1>3. SlotPlaced(x)'
  BY <1>1, <1>2 DEF SlotsApart, SlotPlaced, WithWriterOnly, InTable
<1>4. QED
  BY <1>1, <1>2, <1>3, SlotMoves DEF SlotsApart, WithWriterOnly, InTable

\* The slot of the writer goes back to the free ones.
LEMMA SlotGivenBack ==
  ASSUME HTypes, SlotsApart, Holding, w.slot \in Slots,
         free' = Append(free, w.slot), dq' = dq, idx' = idx, ~Holding'
  PROVE  SlotsApart'
<1>0. PICK x \in Slots : x = w.slot
  OBVIOUS
<1>1. ~Within(free, x) /\ ~Within(Ids(dq), x) /\ ~InTable(x)
  BY <1>0 DEF SlotsApart, SlotPlaced, WithWriterOnly
<1>2. free \in Seq(Slots)
  BY DEF HTypes, QueueTypes
<1>3. /\ Once(free') /\ Within(free', x)
      /\ \A s \in Slots : s # x => (Within(free', s) <=> Within(free, s))
  BY <1>0, <1>1, <1>2, AppendWithin DEF SlotsApart
<1>4. SlotPlaced(x)'
  BY <1>1, <1>3 DEF SlotPlaced, WithWriterOnly, InTable
<1>5. QED
  BY <1>0, <1>3, <1>4, SlotMoves DEF SlotsApart, WithWriterOnly, InTable

\* The slots, in the steps that add,
LEMMA SlotsAdd ==
  ASSUME HTypes, WriterHolds, WayHolds, SlotsApart,
         \/ \E k \in Keys : AddKey(k)
         \/ AllocSlot \/ WriteKey \/ Insert \/ CountChange \/ StoreSig \/ StoreIdx
  PROVE  SlotsApart'
<1>1. w \in WriterType
  BY DEF HTypes
<1>2. ASSUME NEW k \in Keys, AddKey(k)
      PROVE  SlotsApart'
  <2>1. ~Holding /\ ~Holding'
    BY <1>2, HoldingIs, HoldingIsNext DEF AddKey, At, Resting
  <2>2. QED BY <1>2, <2>1, SlotsKept DEF AddKey, WithWriterOnly, InTable
<1>3. CASE AllocSlot
  <2>1. ~Holding
    BY <1>3, HoldingIs DEF AllocSlot, At
  <2>2. CASE free # <<>> /\ free' = Tail(free) /\ w' = [w EXCEPT !.pc = "key", !.slot = Head(free)]
    <3>1. w'.pc = "key" /\ w'.slot = Head(free)
      BY <1>1, <2>2 DEF WriterType
    <3>2. QED BY <1>3, <2>1, <2>2, <3>1, SlotTaken, HoldingIsNext DEF AllocSlot
  <2>3. CASE free' = free /\ w' = [w EXCEPT !.pc = "reclaim", !.n = MaxReclaim, !.then = "retry"]
    <3>1. w'.pc = "reclaim" /\ w'.then = "retry"
      BY <1>1, <2>3 DEF WriterType
    <3>2. ~Holding'
      BY <3>1, HoldingIsNext
    <3>3. QED BY <1>3, <2>1, <2>3, <3>2, SlotsKept DEF AllocSlot, WithWriterOnly, InTable
  <2>4. CASE free' = free /\ w' = Resting
    <3>1. ~Holding'
      BY <2>4, HoldingIsNext DEF Resting
    <3>2. QED BY <1>3, <2>1, <2>4, <3>1, SlotsKept DEF AllocSlot, WithWriterOnly, InTable
  <2>5. QED BY <1>3, <2>2, <2>3, <2>4 DEF AllocSlot
<1>4. CASE WriteKey \/ CountChange \/ StoreSig
  <2>1. w.pc \in {"key", "count", "sig"} /\ w'.pc \in {"insert", "sig", "idx"} /\ w'.slot = w.slot
    BY <1>1, <1>4 DEF WriteKey, CountChange, StoreSig, At, Goto, WriterType
  <2>2. Holding /\ Holding'
    BY <2>1, HoldingIs, HoldingIsNext
  <2>3. UNCHANGED <<free, dq, idx>>
    BY <1>4 DEF WriteKey, CountChange, StoreSig
  <2>4. QED BY <2>1, <2>2, <2>3, SlotsKept DEF WithWriterOnly, InTable
<1>5. CASE Insert
  <2>1. Holding /\ w.slot \in Slots
    BY <1>1, <1>5, HoldingIs DEF Insert, At, WriterHolds, WriterType
  <2>2. ASSUME NEW p \in Seq(Places), FoundWay(p), free' = free
        PROVE  SlotsApart'
    <3>1. PICK pc \in {"sig", "count"} : w' = [w EXCEPT !.path = p, !.n = Len(p), !.pc = pc]
      BY <2>2 DEF FoundWay
    <3>2. w'.pc = pc /\ w'.slot = w.slot
      BY <1>1, <3>1 DEF WriterType
    <3>3. Holding'
      BY <3>2, HoldingIsNext
    <3>4. QED BY <1>5, <2>1, <2>2, <3>2, <3>3, SlotsKept DEF Insert, WithWriterOnly, InTable
  <2>3. CASE free' = Append(free, w.slot) /\ w' = Resting
    <3>1. ~Holding'
      BY <2>3, HoldingIsNext DEF Resting
    <3>2. QED BY <1>5, <2>1, <2>3, <3>1, SlotGivenBack DEF Insert
  <2>4. QED BY <1>5, <2>2, <2>3, InsertMeans
<1>6. CASE StoreIdx
  <2>1. Holding /\ w.slot \in Slots /\ UNCHANGED <<free, dq>>
    BY <1>1, <1>6, HoldingIs DEF StoreIdx, At, WriterHolds, WriterType
  <2>2. /\ w.n \in 1 .. Len(w.path) /\ Len(w.path) \in Nat /\ Target \in Places
        /\ \A i \in 1 .. Len(w.path) : w.path[i] \in Places
        /\ w.n > 1 => Moved \in Places
    BY <1>6, WayPlaces DEF StoreIdx, At, OnWay
  <2>3. idx \in [Places -> Slots \cup {Empty}]
    BY DEF HTypes, TableTypes
  <2>4. idx[Target] = Empty \/ \E q \in Places : q # Target /\ idx[q] = idx[Target]
    <3>1. CASE w.n = Len(w.path)
      BY <1>6, <3>1 DEF StoreIdx, At, OnWay, WayHolds
    <3>2. CASE w.n < Len(w.path)
      <4>1. w.n + 1 \in 1 .. Len(w.path) /\ w.n + 1 # w.n
        BY <2>2, <3>2
      <4>2. w.path[w.n + 1] # Target /\ idx[Target] = idx[w.path[w.n + 1]]
        BY <1>6, <2>2, <3>2, <4>1 DEF StoreIdx, At, OnWay, WayHolds, Target
      <4>3. QED BY <2>2, <4>1, <4>2
    <3>3. QED BY <2>2, <3>1, <3>2
  <2>5. \A s \in Slots : s # Empty
    BY DEF Slots, Empty
  <2>6. CASE w.n = 1 /\ w' = Resting /\ idx' = Store(idx, Target, w.slot)
    <3>0. PICK x \in Slots : x = w.slot
      BY <2>1
    <3>1. ~Holding'
      BY <2>6, HoldingIsNext DEF Resting
    <3>2. ~Within(free, x) /\ ~Within(Ids(dq), x) /\ ~InTable(x)
      BY <2>1, <3>0 DEF SlotsApart, SlotPlaced, WithWriterOnly
    <3>3. InTable(x)'
      BY <2>2, <2>3, <2>6, <3>0 DEF InTable, Store
    <3>4. \A s \in Slots : s # x => (InTable(s)' <=> InTable(s))
      BY <2>2, <2>3, <2>4, <2>5, <2>6, <3>0 DEF InTable, Store
    <3>5. SlotPlaced(x)'
      BY <2>1, <3>1, <3>2, <3>3 DEF SlotPlaced, WithWriterOnly
    <3>6. QED BY <2>1, <3>0, <3>1, <3>4, <3>5, SlotMoves DEF SlotsApart, WithWriterOnly
  <2>7. CASE /\ w.n > 1 /\ w' = [w EXCEPT !.pc = "count", !.n = @ - 1]
             /\ idx' = Store(idx, Target, idx[Moved])
    <3>1. w'.pc = "count" /\ w'.slot = w.slot
      BY <1>1, <2>7 DEF WriterType
    <3>2. Holding'
      BY <3>1, HoldingIsNext
    <3>3. \A s \in Slots : InTable(s)' <=> InTable(s)
      <4>1. \A q \in Places : q # Target => idx'[q] = idx[q]
        BY <2>2, <2>3, <2>7 DEF Store
      <4>2. idx'[Target] = idx[Moved]
        BY <2>2, <2>3, <2>7 DEF Store
      <4>3. QED BY <2>2, <2>4, <2>5, <2>7, <4>1, <4>2 DEF InTable
    <3>4. QED BY <2>1, <3>1, <3>2, <3>3, SlotsKept DEF WithWriterOnly
  <2>8. QED BY <1>6, <2>6, <2>7 DEF StoreIdx
<1>7. QED BY <1>2, <1>3, <1>4, <1>5, <1>6

\* in those that delete and reclaim,
LEMMA SlotsDelete ==
  ASSUME HTypes, WriterHolds, ClearHolds, EntriesApart, SlotsApart,
         \/ \E k \in Keys : DelKey(k)
         \/ ClearIdx \/ StartGrace \/ Synchronize \/ FreeSlot \/ Enqueue
         \/ ReclaimCall \/ Reclaim \/ Reclaimed
  PROVE  SlotsApart'
<1>1. w \in WriterType
  BY DEF HTypes
<1>2. ASSUME NEW k \in Keys, DelKey(k)
      PROVE  SlotsApart'
  <2>1. ~Holding /\ ~Holding'
    BY <1>2, HoldingIs, HoldingIsNext DEF DelKey, At, Resting
  <2>2. QED BY <1>2, <2>1, SlotsKept DEF DelKey, WithWriterOnly, InTable
<1>3. CASE ClearIdx
  <2>1. /\ w.pc = "clear" /\ w'.pc = "start" /\ w'.slot = w.slot /\ UNCHANGED <<free, dq>>
        /\ idx' = Store(idx, w.path[1], Empty)
    BY <1>1, <1>3 DEF ClearIdx, At, Goto, WriterType
  <2>2. /\ w.path[1] \in Places /\ idx[w.path[1]] = w.slot /\ w.slot # Empty
        /\ idx \in [Places -> Slots \cup {Empty}]
    BY <2>1 DEF ClearHolds, WriterHolds, HTypes, TableTypes
  <2>3. PICK x \in Slots : x = w.slot
    BY <1>1, <2>2 DEF WriterType
  <2>4. ~Holding /\ Holding'
    BY <2>1, HoldingIs, HoldingIsNext
  <2>5. \A q \in Places : idx[q] = x => q = w.path[1]
    <3>1. \A q \in Places : ~Copied(q)
      BY <2>1 DEF Copied, OnWay
    <3>2. QED BY <2>2, <2>3, <3>1 DEF EntriesApart
  <2>6. \A s \in Slots : s # Empty
    BY DEF Slots, Empty
  <2>7. ~InTable(x)'
    BY <2>1, <2>2, <2>5, <2>6 DEF InTable, Store
  <2>8. \A s \in Slots : s # x => (InTable(s)' <=> InTable(s))
    BY <2>1, <2>2, <2>3, <2>6 DEF InTable, Store
  <2>9. InTable(x)
    BY <2>2, <2>3 DEF InTable
  <2>10. SlotPlaced(x)'
    BY <2>1, <2>3, <2>4, <2>7, <2>9 DEF SlotsApart, SlotPlaced, WithWriterOnly
  <2>11. QED
    BY <2>1, <2>3, <2>4, <2>8, <2>10, SlotMoves DEF SlotsApart, WithWriterOnly
<1>4. CASE StartGrace
  <2> DEFINE pc == IF mode = "sync" THEN "check"
                   ELSE IF Len(dq) > Trigger THEN "reclaim" ELSE "enqueue"
  <2>1. w' = [w EXCEPT !.tok = token', !.n = MaxReclaim, !.then = "enqueue", !.pc = pc]
    BY <1>4 DEF StartGrace
  <2>2. pc \in {"check", "reclaim", "enqueue"}
    OBVIOUS
  <2> HIDE DEF pc
  <2>3. w'.pc = pc /\ w'.then = "enqueue" /\ w'.slot = w.slot
    BY <1>1, <2>1 DEF WriterType
  <2>4. Holding /\ Holding'
    BY <1>4, <2>2, <2>3, HoldingIs, HoldingIsNext DEF StartGrace, At
  <2>5. QED BY <1>4, <2>3, <2>4, SlotsKept DEF StartGrace, WithWriterOnly, InTable
<1>5. CASE Synchronize
  <2>1. w.pc = "check" /\ w'.pc = "wait" /\ w'.slot = w.slot
    BY <1>1, <1>5 DEF Synchronize, At, Goto, WriterType
  <2>2. Holding /\ Holding'
    BY <2>1, HoldingIs, HoldingIsNext
  <2>3. QED BY <1>5, <2>1, <2>2, SlotsKept DEF Synchronize, WithWriterOnly, InTable
<1>6. CASE FreeSlot
  <2>1. Holding /\ w.slot \in Slots /\ ~Holding'
    BY <1>1, <1>6, HoldingIs, HoldingIsNext DEF FreeSlot, At, Resting, WriterHolds, WriterType
  <2>2. QED BY <1>6, <2>1, SlotGivenBack DEF FreeSlot
<1>7. CASE Enqueue
  <2>1. Holding /\ w.slot \in Slots /\ ~Holding'
    BY <1>1, <1>7, HoldingIs, HoldingIsNext DEF Enqueue, At, Resting, WriterHolds, WriterType
  <2>2. PICK x \in Slots : x = w.slot
    BY <2>1
  <2>3. ~Within(free, x) /\ ~Within(Ids(dq), x) /\ ~InTable(x)
    BY <2>1, <2>2 DEF SlotsApart, SlotPlaced, WithWriterOnly
  <2>4. Ids(dq) \in Seq(Slots) /\ Ids(dq') = Append(Ids(dq), x)
    <3>1. dq \in Seq([t : Nat, s : Slots])
      <4> DEFINE Q == [t : CntInit + 1 .. token, s : Slots]
                 R == [t : Nat, s : Slots]
      <4>1. Q \subseteq R
        BY DEF CntInit
      <4>2. dq \in Seq(Q)
        BY DEF HTypes, QueueTypes
      <4>3. dq \in Seq(R)
        <5> HIDE DEF Q, R
        <5>1. QED BY <4>1, <4>2, SeqGrows
      <4>4. QED BY <4>3
    <3>2. [t |-> w.tok, s |-> x] \in [t : Nat, s : Slots] /\ [t |-> w.tok, s |-> x].s = x
      BY <1>1 DEF WriterType
    <3>3. dq' = Append(dq, [t |-> w.tok, s |-> x])
      BY <1>7, <2>2 DEF Enqueue
    <3>4. Ids(Append(dq, [t |-> w.tok, s |-> x])) = Append(Ids(dq), x)
      BY <3>1, <3>2, IdsAre
    <3>5. QED BY <3>1, <3>3, <3>4, IdsAre
  <2>5. /\ Once(Ids(dq')) /\ Within(Ids(dq'), x)
        /\ \A s \in Slots : s # x => (Within(Ids(dq'), s) <=> Within(Ids(dq), s))
    BY <2>3, <2>4, AppendWithin DEF SlotsApart
  <2>6. UNCHANGED <<free, idx>>
    BY <1>7 DEF Enqueue
  <2>7. SlotPlaced(x)'
    BY <2>1, <2>3, <2>5, <2>6 DEF SlotPlaced, WithWriterOnly, InTable
  <2>8. QED
    BY <2>1, <2>2, <2>5, <2>6, <2>7, SlotMoves DEF SlotsApart, WithWriterOnly, InTable
<1>8. CASE ReclaimCall
  <2>1. ~Holding /\ ~Holding'
    BY <1>8, HoldingIs, HoldingIsNext DEF ReclaimCall, At, Resting
  <2>2. QED BY <1>8, <2>1, SlotsKept DEF ReclaimCall, WithWriterOnly, InTable
<1>9. ASSUME w.pc \in {"reclaim", "ask"},
             \/ w'.pc \in {"reclaim", "ask"} /\ w'.then = w.then
             \/ w'.pc = w.then,
             w'.slot = w.slot
      PROVE  \A s \in Slots : WithWriterOnly(s)' <=> WithWriterOnly(s)
  <2>1. w.then \in {"rest", "retry", "enqueue"}
    BY <1>1 DEF WriterType
  <2>2. Holding <=> Holding'
    BY <1>9, <2>1, HoldingIs, HoldingIsNext
  <2>3. QED BY <1>9, <2>2 DEF WithWriterOnly
<1>10. CASE Reclaim
  <2>1. /\ w.pc \in {"reclaim", "ask"} /\ w'.slot = w.slot
        /\ \/ w'.pc \in {"reclaim", "ask"} /\ w'.then = w.then
           \/ w'.pc = w.then
    BY <1>1, <1>10 DEF Reclaim, At, Goto, WriterType
  <2>2. QED BY <1>9, <1>10, <2>1, SlotsKept DEF Reclaim, InTable
<1>11. CASE Reclaimed
  <2>1. CASE /\ dq' = Tail(dq) /\ free' = Append(free, Head(dq).s)
             /\ w' = [w EXCEPT !.pc = "reclaim", !.n = w.n - 1]
    <3>1. w.pc = "ask" /\ w'.pc = "reclaim" /\ w'.then = w.then /\ w'.slot = w.slot
      BY <1>1, <1>11, <2>1 DEF Reclaimed, At, WriterType
    <3>2. dq # <<>> /\ idx' = idx
      BY <1>11 DEF Reclaimed, At, WriterHolds
    <3>3. dq \in Seq([t : CntInit + 1 .. token, s : Slots]) /\ free \in Seq(Slots)
      BY DEF HTypes, QueueTypes
    <3>4. /\ Ids(dq) \in Seq(Slots) /\ Ids(dq) # <<>>
          /\ Head(Ids(dq)) = Head(dq).s /\ Ids(dq') = Tail(Ids(dq))
      BY <2>1, <3>2, <3>3, IdsAre
    <3>5. PICK x \in Slots : x = Head(dq).s
      BY <3>4, SeqParts
    <3>6. /\ Once(Ids(dq')) /\ ~Within(Ids(dq'), x) /\ Within(Ids(dq), x)
          /\ \A s \in Slots : s # x => (Within(Ids(dq'), s) <=> Within(Ids(dq), s))
      BY <3>4, <3>5, TailWithin DEF SlotsApart
    <3>7. ~Within(free, x) /\ ~InTable(x) /\ ~WithWriterOnly(x)
      BY <3>6 DEF SlotsApart, SlotPlaced
    <3>8. /\ Once(free') /\ Within(free', x)
          /\ \A s \in Slots : s # x => (Within(free', s) <=> Within(free, s))
      BY <2>1, <3>3, <3>5, <3>7, AppendWithin DEF SlotsApart
    <3>9. \A s \in Slots : WithWriterOnly(s)' <=> WithWriterOnly(s)
      BY <1>9, <3>1
    <3>10. SlotPlaced(x)'
      BY <3>2, <3>6, <3>7, <3>8, <3>9 DEF SlotPlaced, InTable
    <3>11. QED
      BY <3>2, <3>6, <3>8, <3>9, <3>10, SlotMoves DEF InTable
  <2>2. CASE Goto(w.then) /\ UNCHANGED <<dq, free>>
    <3>1. w.pc = "ask" /\ w'.pc = w.then /\ w'.slot = w.slot
      BY <1>1, <1>11, <2>2 DEF Reclaimed, At, Goto, WriterType
    <3>2. QED BY <1>9, <1>11, <2>2, <3>1, SlotsKept DEF Reclaimed, InTable
  <2>3. QED BY <1>11, <2>1, <2>2 DEF Reclaimed
<1>12. QED BY <1>2, <1>3, <1>4, <1>5, <1>6, <1>7, <1>8, <1>10, <1>11

\* and in the others.
LEMMA SlotsOther ==
  ASSUME SlotsApart, UNCHANGED <<idx, free, dq, w>>
  PROVE  SlotsApart'
BY SlotsKept DEF InTable, WithWriterOnly, Holding, Deferring, During, Reclaiming

-----------------------------------------------------------------------------
\* The table.

\* It is not changed, nor is the writer about to.
LEMMA TableKept ==
  ASSUME TableInv, UNCHANGED <<sig, idx, key, stored>>,
         \/ w' = w
         \/ /\ w.pc \notin {"count", "sig", "idx", "clear"}
            /\ w'.pc \notin {"count", "sig", "idx", "clear"}
  PROVE  TableInv'
<1>1. CASE w' = w
  BY <1>1 DEF TableInv, WayHolds, ClearHolds, EntriesApart, StoredFirm, EntryHolds, Firm, PlacesOf,
     Holds, Copied, Changed, Cleared, OnWay, Target, Moved
<1>2. CASE /\ w.pc \notin {"count", "sig", "idx", "clear"}
           /\ w'.pc \notin {"count", "sig", "idx", "clear"}
  <2>1. WayHolds' /\ ClearHolds'
    BY <1>2 DEF WayHolds, ClearHolds, OnWay
  <2>2. EntriesApart' /\ (\A p \in Places : EntryHolds(p)')
    BY <1>2 DEF TableInv, EntriesApart, EntryHolds, Copied, Changed, Cleared, OnWay
  <2>3. StoredFirm'
    BY <1>2 DEF TableInv, StoredFirm, Firm, PlacesOf, Holds
  <2>4. QED BY <2>1, <2>2, <2>3 DEF TableInv
<1>3. QED BY <1>1, <1>2

\* The key of a slot that is not in the table is written.
LEMMA TableWriteKey ==
  ASSUME HTypes, WriterHolds, SlotsApart, TableInv, WriteKey
  PROVE  TableInv'
<1>1. /\ w.pc = "key" /\ w'.pc = "insert" /\ w.slot \in Slots /\ w.k \in Keys
      /\ key' = [key EXCEPT ![w.slot] = w.k] /\ UNCHANGED <<sig, idx, stored>>
      /\ key \in [Slots -> Keys \cup {NoKey}] /\ idx \in [Places -> Slots \cup {Empty}]
  BY HoldingIs DEF WriteKey, At, Goto, HTypes, TableTypes, WriterType, WriterHolds
<1>2. ~InTable(w.slot)
  BY <1>1, HoldingIs DEF SlotsApart, SlotPlaced, WithWriterOnly
<1>3. \A p \in Places : idx[p] # Empty => key'[idx[p]] = key[idx[p]]
  BY <1>1, <1>2 DEF InTable
<1>4. WayHolds' /\ ClearHolds'
  BY <1>1 DEF WayHolds, ClearHolds, OnWay
<1>5. EntriesApart'
  BY <1>1, <1>3 DEF TableInv, EntriesApart, Copied, OnWay
<1>6. \A p \in Places : EntryHolds(p)'
  BY <1>1, <1>3 DEF TableInv, EntryHolds, Changed, Cleared
<1>7. StoredFirm'
  BY <1>1, <1>3 DEF TableInv, StoredFirm, Firm, PlacesOf, Holds
<1>8. QED BY <1>4, <1>5, <1>6, <1>7 DEF TableInv

\* A way is found: none of its entries has moved.
LEMMA TableInsert ==
  ASSUME HTypes, WriterHolds, TableInv, Insert
  PROVE  TableInv'
<1>1. w \in WriterType /\ w.pc = "insert" /\ UNCHANGED <<sig, idx, key, stored>>
  BY DEF Insert, At, HTypes
<1>2. CASE w' = Resting
  BY <1>1, <1>2, TableKept DEF Resting
<1>3. ASSUME NEW p \in Seq(Places), FoundWay(p)
      PROVE  TableInv'
  <2>1. PICK pc \in {"sig", "count"} : w' = [w EXCEPT !.path = p, !.n = Len(p), !.pc = pc]
    BY <1>3 DEF FoundWay
  <2>2. w'.path = p /\ w'.n = Len(p) /\ w'.pc = pc /\ w'.k = w.k
    BY <1>1, <2>1 DEF WriterType
  <2>3. /\ Len(p) \in Nat \ {0} /\ p[1][1] \in {Prim[w.k], Sec(w.k)}
        /\ idx[p[Len(p)]] = Empty
        /\ \A i \in 1 .. Len(p) - 1 :
             idx[p[i]] # Empty /\ p[i + 1][1] = Alt[<<p[i][1], sig[p[i]]>>]
        /\ \A i, j \in 1 .. Len(p) : p[i] = p[j] => i = j
    BY <1>3 DEF FoundWay, Ways
  <2>4. Target' = p[Len(p)]
    BY <2>2 DEF Target
  <2>5. WayHolds'
    BY <1>1, <2>2, <2>3, <2>4 DEF WayHolds, Sec
  <2>6. ClearHolds' /\ \A q \in Places : ~Copied(q)' /\ ~Changed(q)' /\ ~Cleared(q)'
    BY <2>2, <2>3 DEF ClearHolds, Copied, Changed, Cleared
  <2>7. EntriesApart' /\ (\A q \in Places : EntryHolds(q)')
    BY <1>1, <2>6 DEF TableInv, EntriesApart, EntryHolds, Copied, Changed, Cleared, OnWay
  <2>8. StoredFirm'
    BY <1>1, <2>2, <2>3, <2>4 DEF TableInv, StoredFirm, Firm, PlacesOf, Holds
  <2>9. QED BY <2>5, <2>6, <2>7, <2>8 DEF TableInv
<1>4. QED BY <1>2, <1>3, InsertMeans

\* Only the counter changes.
LEMMA TableCount ==
  ASSUME HTypes, TableInv, CountChange
  PROVE  TableInv'
<1>1. /\ w.pc = "count" /\ w'.pc = "sig" /\ w'.path = w.path /\ w'.n = w.n /\ w'.k = w.k
      /\ UNCHANGED <<sig, idx, key, stored>> /\ OnWay /\ OnWay'
  BY DEF CountChange, At, Goto, HTypes, WriterType, OnWay
<1>2. Target' = Target /\ Moved' = Moved
  BY <1>1 DEF Target, Moved
<1>3. WayHolds' /\ ClearHolds'
  BY <1>1, <1>2 DEF TableInv, WayHolds, ClearHolds
<1>4. EntriesApart' /\ (\A p \in Places : EntryHolds(p)')
  BY <1>1, <1>2 DEF TableInv, EntriesApart, EntryHolds, Copied, Changed, Cleared
\* A key whose entry was copied is found at the copy.
<1>5. ASSUME NEW k \in stored, NEW p \in Places, Firm(p, k)
      PROVE  \E q \in Places : Firm(q, k)'
  <2>1. CASE p # Target
    BY <1>1, <1>2, <1>5, <2>1 DEF Firm, PlacesOf, Holds
  <2>2. CASE p = Target
    <3>1. /\ w.path \in Seq(Places) /\ w.n \in 1 .. Len(w.path) /\ Len(w.path) \in Nat
          /\ \A i \in 1 .. Len(w.path) : w.path[i] \in Places
      BY <1>1, WayPlaces DEF TableInv
    <3>2. idx[Target] # Empty /\ key[idx[Target]] = k
      BY <1>5, <2>2 DEF Firm, PlacesOf, Holds
    <3>3. w.n < Len(w.path)
      BY <1>1, <3>1, <3>2 DEF TableInv, WayHolds
    <3>4. w.n + 1 \in 1 .. Len(w.path) /\ w.n + 1 # w.n
      BY <3>1, <3>3
    <3>5. PICK q \in Places : q # Target /\ idx[q] = idx[Target]
      BY <1>1, <3>1, <3>3, <3>4 DEF TableInv, WayHolds, Target
    <3>6. EntryHolds(q) /\ ~Cleared(q) /\ ~Changed(q)
      BY <1>1, <3>5 DEF TableInv, Cleared, Changed
    <3>7. q[1] \in {Prim[k], Sec(k)} /\ sig[q] = Sig[k]
      BY <3>2, <3>5, <3>6 DEF EntryHolds
    <3>8. Firm(q, k)'
      BY <1>1, <1>2, <3>2, <3>5, <3>7 DEF Firm, PlacesOf, Holds
    <3>9. QED BY <3>5, <3>8
  <2>3. QED BY <2>1, <2>2
<1>6. StoredFirm'
  BY <1>1, <1>5 DEF TableInv, StoredFirm
<1>7. QED BY <1>3, <1>4, <1>6 DEF TableInv

\* The signature of the target is overwritten: the entry there was copied.
LEMMA TableStoreSig ==
  ASSUME HTypes, TableInv, StoreSig
  PROVE  TableInv'
<1>1. /\ w.pc = "sig" /\ w'.pc = "idx" /\ w'.path = w.path /\ w'.n = w.n /\ w'.k = w.k
      /\ UNCHANGED <<idx, key, stored>> /\ OnWay /\ OnWay'
      /\ sig' = Store(sig, Target, IF w.n = 1 THEN Sig[w.k] ELSE sig[Moved])
  BY DEF StoreSig, At, Goto, HTypes, WriterType, OnWay
<1>2. Target' = Target
  BY <1>1 DEF Target
<1>3. /\ w.path \in Seq(Places) /\ w.n \in 1 .. Len(w.path) /\ Len(w.path) \in Nat
      /\ \A i \in 1 .. Len(w.path) : w.path[i] \in Places
      /\ Target \in Places /\ w.n \in Nat \ {0}
  BY <1>1, WayPlaces DEF TableInv
<1>4. \A i \in 1 .. Len(w.path) : i # w.n => w.path[i] # Target
  BY <1>1, <1>3 DEF TableInv, WayHolds, Target
<1>5. /\ sig'[Target] = IF w.n = 1 THEN Sig[w.k] ELSE sig[Moved]
      /\ \A p \in Places : p # Target => sig'[p] = sig[p]
  BY <1>1, <1>3 DEF Store, HTypes, TableTypes
<1>6. w.n > 1 => w.n - 1 \in 1 .. Len(w.path) /\ w.n - 1 # w.n
  BY <1>3
<1>7. w.n > 1 => Moved' = Moved /\ Moved # Target /\ Moved \in Places
  BY <1>1, <1>3, <1>4, <1>6 DEF Moved
<1>8. WayHolds'
  <2>1. \A i \in 1 .. w.n - 1 : i \in 1 .. Len(w.path) /\ i # w.n
    BY <1>3
  <2>2. \A i \in 1 .. w.n - 1 : sig'[w.path[i]] = sig[w.path[i]]
    BY <1>3, <1>4, <1>5, <2>1
  <2>3. sig'[Target] = IF w.n = 1 THEN Sig[w.k] ELSE sig'[Moved]
    BY <1>3, <1>5, <1>7
  <2>4. w.n = 1 \/ w.n > 1
    BY <1>3
  <2>5. QED BY <1>1, <1>2, <1>7, <2>2, <2>3, <2>4 DEF TableInv, WayHolds, Sec
<1>9. ClearHolds' /\ \A p \in Places : ~Cleared(p)' /\ ~Cleared(p)
  BY <1>1 DEF ClearHolds, Cleared
<1>10. EntriesApart'
  BY <1>1, <1>2 DEF TableInv, EntriesApart, Copied
<1>11. \A p \in Places : EntryHolds(p)'
  BY <1>1, <1>2, <1>5, <1>9 DEF TableInv, EntryHolds, Changed
<1>12. StoredFirm'
  BY <1>1, <1>2, <1>5 DEF TableInv, StoredFirm, Firm, PlacesOf, Holds
<1>13. QED BY <1>8, <1>9, <1>10, <1>11, <1>12 DEF TableInv

\* An entry is copied over the one behind it.
LEMMA TableMove ==
  ASSUME HTypes, TableInv, At("idx"), w.n > 1,
         idx' = Store(idx, Target, idx[Moved]),
         w' = [w EXCEPT !.pc = "count", !.n = @ - 1],
         UNCHANGED <<sig, key, stored>>
  PROVE  TableInv'
<1>1. /\ w.pc = "idx" /\ w'.pc = "count" /\ w'.path = w.path /\ w'.n = w.n - 1 /\ w'.k = w.k
      /\ OnWay /\ OnWay' /\ w \in WriterType
  BY DEF At, HTypes, WriterType, OnWay
<1>2. /\ w.path \in Seq(Places) /\ w.n \in 1 .. Len(w.path) /\ Len(w.path) \in Nat
      /\ \A i \in 1 .. Len(w.path) : w.path[i] \in Places
      /\ Target \in Places /\ Moved \in Places /\ w.n - 1 \in 1 .. Len(w.path)
  BY <1>1, WayPlaces DEF TableInv
<1>3. WayHolds
  BY DEF TableInv
<1>4. PICK T \in Places : T = Target
  BY <1>2
<1>5. PICK M \in Places : M = Moved
  BY <1>2
<1>6. \A i \in 1 .. Len(w.path) : i # w.n => w.path[i] # T
  BY <1>1, <1>2, <1>3, <1>4 DEF WayHolds, Target
<1>7. M # T /\ T = w.path[w.n] /\ M = w.path[w.n - 1]
  BY <1>2, <1>4, <1>5, <1>6 DEF Target, Moved
<1>8. idx'[T] = idx[M] /\ \A p \in Places : p # T => idx'[p] = idx[p]
  BY <1>2, <1>4, <1>5 DEF Store, HTypes, TableTypes
<1>9. idx[M] # Empty /\ T[1] = Alt[<<M[1], sig[M]>>] /\ sig[T] = sig[M]
  <2>1. w.n - 1 \in 1 .. w.n - 1 /\ w.n - 1 + 1 = w.n
    BY <1>2
  <2>2. QED BY <1>1, <1>3, <1>4, <1>5, <1>7, <2>1 DEF WayHolds
<1>10. Target' = M
  BY <1>1, <1>7 DEF Target
<1>11. WayHolds'
  <2>1. w.n - 1 \in 1 .. Len(w.path) /\ w.n - 1 < Len(w.path) /\ w.n - 1 + 1 = w.n
    BY <1>2
  <2>2. \A i \in 1 .. w.n - 1 - 1 : i \in 1 .. w.n - 1 /\ i \in 1 .. Len(w.path) /\ i # w.n
    BY <1>2
  <2>3. \A i \in 1 .. w.n - 1 - 1 : idx'[w.path[i]] = idx[w.path[i]]
    BY <1>2, <1>6, <1>8, <2>2
  <2>4. idx'[M] = idx'[T] /\ idx'[M] # Empty
    BY <1>7, <1>8, <1>9
  <2>5. \A i \in 1 .. w.n - 1 - 1 : /\ idx'[w.path[i]] # Empty
                                    /\ w.path[i + 1][1] = Alt[<<w.path[i][1], sig[w.path[i]]>>]
    BY <1>1, <1>3, <2>2, <2>3 DEF WayHolds
  <2>6. /\ \A i, j \in 1 .. Len(w.path) : w.path[i] = w.path[j] => i = j
        /\ w.path[1][1] \in {Prim[w.k], Sec(w.k)}
    BY <1>1, <1>3 DEF WayHolds
  <2>7. w'.path[w'.n + 1] = T /\ w'.n # Len(w'.path)
    BY <1>1, <1>7, <2>1
  <2>8. QED
    BY <1>1, <1>10, <2>1, <2>4, <2>5, <2>6, <2>7 DEF WayHolds, Sec
<1>12. ClearHolds' /\ \A p \in Places : ~Cleared(p)' /\ ~Cleared(p) /\ ~Changed(p)'
  BY <1>1 DEF ClearHolds, Cleared, Changed
<1>13. EntriesApart'
  <2>1. \A p \in Places : Copied(p)' <=> p = M
    BY <1>1, <1>2, <1>10 DEF Copied
  <2>2. \A p \in Places : p # T => ~Copied(p)
    BY <1>4 DEF Copied
  <2>3. \A p \in Places : p # T => idx[p] = idx'[p]
    BY <1>8
  <2>4. ASSUME NEW p \in Places, NEW q \in Places, idx'[p] # Empty, idx'[p] = idx'[q],
               p # M, q # M
        PROVE  p = q
    <3>1. \A x \in Places : x # T /\ idx[x] = idx[M] => x = M
      BY <1>7, <1>9, <2>2 DEF TableInv, EntriesApart
    <3>2. \A x, y \in Places : x # T /\ y # T /\ idx[x] # Empty /\ idx[x] = idx[y] => x = y
      BY <2>2 DEF TableInv, EntriesApart
    <3>3. QED BY <1>8, <2>4, <3>1, <3>2
  <2>5. \A p \in Places : \E x \in Places : idx'[p] = idx[x]
    BY <1>8
  <2>6. \A x, y \in Places : idx[x] # Empty /\ idx[y] # Empty /\ key[idx[x]] = key[idx[y]]
          => idx[x] = idx[y]
    BY DEF TableInv, EntriesApart
  <2>7. \A p, q \in Places : idx'[p] # Empty /\ idx'[q] # Empty /\ key'[idx'[p]] = key'[idx'[q]]
          => idx'[p] = idx'[q]
    BY <2>5, <2>6
  <2>8. QED BY <2>1, <2>4, <2>7 DEF EntriesApart
<1>14. \A p \in Places : EntryHolds(p)'
  <2>1. ASSUME NEW p \in Places, p # T
        PROVE  EntryHolds(p)'
    BY <1>4, <1>8, <1>12, <2>1 DEF TableInv, EntryHolds, Changed, Sec
  <2>2. EntryHolds(T)'
    <3>1. /\ key[idx[M]] \in Keys /\ M[1] \in {Prim[key[idx[M]]], Sec(key[idx[M]])}
          /\ key[idx[M]] \in stored /\ sig[M] = Sig[key[idx[M]]]
      BY <1>4, <1>7, <1>9, <1>12 DEF TableInv, EntryHolds, Changed
    <3>2. T[1] \in {Prim[key[idx[M]]], Sec(key[idx[M]])}
      BY <1>9, <3>1, Buckets2
    <3>3. QED BY <1>8, <1>9, <1>12, <3>1, <3>2 DEF EntryHolds, Sec
  <2>3. QED BY <2>1, <2>2
<1>15. StoredFirm'
  BY <1>1, <1>4, <1>8 DEF TableInv, StoredFirm, Firm, PlacesOf, Holds, Sec
<1>16. QED BY <1>11, <1>12, <1>13, <1>14, <1>15 DEF TableInv

\* The new key is stored.
LEMMA TableStored ==
  ASSUME HTypes, WriterHolds, SlotsApart, TableInv, At("idx"), w.n = 1,
         idx' = Store(idx, Target, w.slot), stored' = stored \cup {w.k},
         w' = Resting, UNCHANGED <<sig, key>>
  PROVE  TableInv'
<1>1. /\ w.pc = "idx" /\ w'.pc = "rest" /\ OnWay /\ w \in WriterType /\ w.slot \in Slots
      /\ w.k \in Keys \ stored /\ key[w.slot] = w.k /\ w.slot # Empty
  BY HoldingIs DEF At, HTypes, WriterType, OnWay, Resting, WriterHolds
<1>2. Target \in Places /\ Target = w.path[1]
  BY <1>1, WayPlaces DEF TableInv, Target
<1>3. PICK T \in Places : T = Target
  BY <1>2
<1>4. T[1] \in {Prim[w.k], Sec(w.k)} /\ sig[T] = Sig[w.k]
  BY <1>1, <1>2, <1>3 DEF TableInv, WayHolds
<1>5. idx'[T] = w.slot /\ \A p \in Places : p # T => idx'[p] = idx[p]
  BY <1>2, <1>3 DEF Store, HTypes, TableTypes
<1>6. \A p \in Places : idx[p] # w.slot
  BY <1>1, HoldingIs DEF SlotsApart, SlotPlaced, WithWriterOnly, InTable
<1>7. \A p \in Places : ~Cleared(p) /\ ~Cleared(p)' /\ ~Changed(p)' /\ ~Copied(p)'
  BY <1>1 DEF Cleared, Changed, Copied, OnWay
<1>8. WayHolds' /\ ClearHolds'
  BY <1>1 DEF WayHolds, ClearHolds, OnWay
<1>9. \A p \in Places : p # T => ~Copied(p) /\ ~Changed(p)
  BY <1>3 DEF Copied, Changed
<1>10. \A p \in Places : idx[p] # Empty => key[idx[p]] \in stored
  BY <1>7 DEF TableInv, EntryHolds
<1>11. EntriesApart'
  <2>1. \A p, q \in Places : idx'[p] # Empty /\ idx'[p] = idx'[q] => p = q
    BY <1>5, <1>6, <1>9 DEF TableInv, EntriesApart
  <2>2. \A p, q \in Places : idx'[p] # Empty /\ idx'[q] # Empty /\ key[idx'[p]] = key[idx'[q]]
          => idx'[p] = idx'[q]
    BY <1>1, <1>5, <1>10 DEF TableInv, EntriesApart
  <2>3. QED BY <2>1, <2>2 DEF EntriesApart
<1>12. \A p \in Places : EntryHolds(p)'
  <2>1. EntryHolds(T)'
    BY <1>1, <1>4, <1>5 DEF EntryHolds, Sec
  <2>2. ASSUME NEW p \in Places, p # T
        PROVE  EntryHolds(p)'
    BY <1>5, <1>7, <1>9, <2>2 DEF TableInv, EntryHolds, Sec
  <2>3. QED BY <2>1, <2>2
<1>13. StoredFirm'
  <2>1. PICK k \in Keys : k = w.k
    BY <1>1
  <2>2. Firm(T, k)'
    BY <1>1, <1>4, <1>5, <2>1 DEF Firm, PlacesOf, Holds, Sec
  <2>3. ASSUME NEW x \in stored
        PROVE  \E p \in Places : Firm(p, x)'
    <3>1. PICK p \in Places : Firm(p, x)
      BY DEF TableInv, StoredFirm
    <3>2. p # T
      BY <1>1, <1>3, <3>1 DEF Firm
    <3>3. Firm(p, x)'
      BY <1>1, <1>5, <3>1, <3>2 DEF Firm, PlacesOf, Holds, Sec
    <3>4. QED BY <3>3
  <2>4. QED BY <2>1, <2>2, <2>3 DEF StoredFirm
<1>14. QED BY <1>8, <1>11, <1>12, <1>13 DEF TableInv

\* Both ways to store an index.
LEMMA TableStoreIdx ==
  ASSUME HTypes, WriterHolds, SlotsApart, TableInv, StoreIdx
  PROVE  TableInv'
<1>1. CASE /\ w.n = 1 /\ idx' = Store(idx, Target, w.slot)
           /\ SetStored(stored \cup {w.k}) /\ w' = Resting
  BY <1>1, TableStored DEF StoreIdx, SetStored
<1>2. CASE /\ w.n > 1 /\ idx' = Store(idx, Target, idx[Moved])
           /\ w' = [w EXCEPT !.pc = "count", !.n = @ - 1]
           /\ UNCHANGED <<look, stored>>
  BY <1>2, TableMove DEF StoreIdx
<1>3. QED BY <1>1, <1>2 DEF StoreIdx

\* The signature of a deleted key is cleared: the key is stored no more.
LEMMA TableDelKey ==
  ASSUME HTypes, TableInv, NEW k \in Keys, DelKey(k)
  PROVE  TableInv'
<1>1. PICK p \in PlacesOf(k) :
        /\ sig' = Store(sig, p, NoSig)
        /\ w' = [Resting EXCEPT !.pc = "clear", !.k = k, !.slot = idx[p], !.path = <<p>>]
  BY DEF DelKey
<1>2. /\ w.pc = "rest" /\ w'.pc = "clear" /\ w'.k = k /\ w'.slot = idx[p] /\ w'.path = <<p>>
      /\ UNCHANGED <<idx, key>> /\ stored' = stored \ {k}
  BY <1>1 DEF DelKey, At, Resting, SetStored
<1>3. p \in Places /\ idx[p] # Empty /\ key[idx[p]] = k
  BY DEF PlacesOf, Holds
<1>4. sig'[p] = NoSig /\ \A q \in Places : q # p => sig'[q] = sig[q]
  BY <1>1, <1>3 DEF Store, HTypes, TableTypes
<1>5. \A q \in Places : ~Copied(q) /\ ~Cleared(q) /\ ~Changed(q) /\ ~Copied(q)' /\ ~Changed(q)'
  BY <1>2 DEF Copied, Cleared, Changed, OnWay
<1>6. \A q \in Places : Cleared(q)' <=> q = p
  BY <1>2 DEF Cleared
<1>7. \A q \in Places : idx[q] # Empty /\ key[idx[q]] = k => q = p
  BY <1>3, <1>5 DEF TableInv, EntriesApart
<1>8. WayHolds'
  BY <1>2 DEF WayHolds, OnWay
<1>9. ClearHolds'
  BY <1>2, <1>3, <1>4 DEF ClearHolds
<1>10. EntriesApart'
  BY <1>2, <1>5 DEF TableInv, EntriesApart
<1>11. \A q \in Places : EntryHolds(q)'
  BY <1>2, <1>4, <1>5, <1>6, <1>7 DEF TableInv, EntryHolds, Sec
<1>12. StoredFirm'
  <2> SUFFICES ASSUME NEW x \in stored, x # k
               PROVE  \E q \in Places : Firm(q, x)'
    BY <1>2 DEF StoredFirm
  <2>1. PICK q \in Places : Firm(q, x)
    BY DEF TableInv, StoredFirm
  <2>2. q # p
    BY <1>3, <2>1 DEF Firm, PlacesOf, Holds
  <2>3. Firm(q, x)'
    BY <1>2, <1>4, <2>1, <2>2 DEF Firm, PlacesOf, Holds, Sec
  <2>4. QED BY <2>3
<1>13. QED BY <1>8, <1>9, <1>10, <1>11, <1>12 DEF TableInv

\* Its index is cleared.
LEMMA TableClearIdx ==
  ASSUME HTypes, TableInv, ClearIdx
  PROVE  TableInv'
<1>1. /\ w.pc = "clear" /\ w'.pc = "start" /\ UNCHANGED <<sig, key, stored>>
      /\ idx' = Store(idx, w.path[1], Empty)
  BY DEF ClearIdx, At, Goto, HTypes, WriterType
<1>2. PICK p \in Places : p = w.path[1] /\ sig[p] = NoSig
  BY <1>1 DEF TableInv, ClearHolds
<1>3. idx'[p] = Empty /\ \A q \in Places : q # p => idx'[q] = idx[q]
  BY <1>1, <1>2 DEF Store, HTypes, TableTypes
<1>4. WayHolds' /\ ClearHolds'
  BY <1>1 DEF WayHolds, ClearHolds, OnWay
<1>5. \A q \in Places : /\ ~Copied(q) /\ ~Changed(q) /\ ~Copied(q)' /\ ~Changed(q)' /\ ~Cleared(q)'
                        /\ q # p => ~Cleared(q)
  BY <1>1, <1>2 DEF Copied, Cleared, Changed, OnWay
<1>6. EntriesApart'
  BY <1>1, <1>3, <1>5 DEF TableInv, EntriesApart
<1>7. \A q \in Places : EntryHolds(q)'
  BY <1>1, <1>3, <1>5 DEF TableInv, EntryHolds, Sec
<1>8. StoredFirm'
  <2> SUFFICES ASSUME NEW x \in stored
               PROVE  \E q \in Places : Firm(q, x)'
    BY <1>1 DEF StoredFirm
  <2>1. PICK q \in Places : Firm(q, x)
    BY DEF TableInv, StoredFirm
  <2>2. q # p
    <3>1. Sig[x] # NoSig
      BY Buckets2 DEF HTypes, TableTypes
    <3>2. QED BY <1>2, <2>1, <3>1 DEF Firm, PlacesOf, Holds
  <2>3. Firm(q, x)'
    BY <1>1, <1>3, <2>1, <2>2 DEF Firm, PlacesOf, Holds, Sec
  <2>4. QED BY <2>3
<1>9. QED BY <1>4, <1>6, <1>7, <1>8 DEF TableInv

\* Every step.
LEMMA TableStep ==
  ASSUME HTypes, WriterHolds, SlotsApart, TableInv, [Next]_vars
  PROVE  TableInv'
<1>0. w \in WriterType
  BY DEF HTypes
<1>1. ASSUME NEW k \in Keys, AddKey(k)
      PROVE  TableInv'
  BY <1>1, TableKept DEF AddKey, At, Resting
<1>2. CASE AllocSlot
  <2>1. w'.pc \notin {"count", "sig", "idx", "clear"}
    <3>1. [w EXCEPT !.pc = "key", !.slot = Head(free)].pc = "key"
      BY <1>0 DEF WriterType
    <3>2. [w EXCEPT !.pc = "reclaim", !.n = MaxReclaim, !.then = "retry"].pc = "reclaim"
      BY <1>0 DEF WriterType
    <3>3. Resting.pc = "rest"
      BY DEF Resting
    <3>4. \/ w' = [w EXCEPT !.pc = "key", !.slot = Head(free)]
          \/ w' = [w EXCEPT !.pc = "reclaim", !.n = MaxReclaim, !.then = "retry"]
          \/ w' = Resting
      BY <1>2 DEF AllocSlot
    <3>5. QED BY <3>1, <3>2, <3>3, <3>4
  <2>2. QED BY <1>2, <2>1, TableKept DEF AllocSlot, At
<1>3. CASE StartGrace
  <2>1. w'.pc \notin {"count", "sig", "idx", "clear"}
    BY <1>0, <1>3 DEF StartGrace, WriterType
  <2>2. QED BY <1>3, <2>1, TableKept DEF StartGrace, At
<1>4. CASE Synchronize \/ FreeSlot \/ Enqueue \/ ReclaimCall
  <2>1. w.pc \in {"check", "wait", "enqueue", "rest"} /\ w'.pc \in {"wait", "rest", "reclaim"}
    <3>1. CASE Synchronize BY <1>0, <3>1 DEF Synchronize, At, Goto, WriterType
    <3>2. CASE FreeSlot BY <3>2 DEF FreeSlot, At, Resting
    <3>3. CASE Enqueue BY <3>3 DEF Enqueue, At, Resting
    <3>4. CASE ReclaimCall BY <3>4 DEF ReclaimCall, At, Resting
    <3>5. QED BY <1>4, <3>1, <3>2, <3>3, <3>4
  <2>2. UNCHANGED <<sig, idx, key, stored>>
    BY <1>4 DEF Synchronize, FreeSlot, Enqueue, ReclaimCall
  <2>3. QED BY <2>1, <2>2, TableKept
<1>5. CASE Reclaim \/ Reclaimed
  <2>1. /\ w.pc \in {"reclaim", "ask"} /\ w'.pc \in {"reclaim", "ask", "rest", "retry", "enqueue"}
    BY <1>0, <1>5 DEF Reclaim, Reclaimed, At, Goto, WriterType
  <2>2. UNCHANGED <<sig, idx, key, stored>>
    BY <1>5 DEF Reclaim, Reclaimed
  <2>3. QED BY <2>1, <2>2, TableKept
<1>6. CASE UNCHANGED <<sig, idx, key, stored, w>>
  BY <1>6, TableKept
<1>7. CASE WriterStep
  BY <1>2, <1>3, <1>4, <1>5, <1>6, <1>7, TableWriteKey, TableInsert, TableCount, TableStoreSig,
     TableStoreIdx, TableClearIdx DEF WriterStep, hvars
<1>8. ASSUME NEW r \in Lookers,
             Leave(r) \/ Other(r) \/ LookStep(r) \/ \E k \in Sought : LookUp(r, k)
      PROVE  UNCHANGED <<sig, idx, key, stored, w>>
  BY <1>8 DEF Leave, Other, LookStep, LookUp, CompareSig, LoadIdx, CompareKey, LoadChange, Again,
     ReadOnly, hvars
<1>9. QED
  BY <1>1, <1>4, <1>6, <1>7, <1>8, TableDelKey DEF Next, vars, hvars

-----------------------------------------------------------------------------
\* The writer and its checks.

WriterMoves == WriterStep \/ ReclaimCall \/ \E k \in Keys : AddKey(k) \/ DelKey(k)
ReaderMoves(r) == Leave(r) \/ Other(r) \/ LookStep(r) \/ \E k \in Sought : LookUp(r, k)

\* A step is the writer's or a reader's.
LEMMA StepMeans ==
  ASSUME [Next]_vars
  PROVE  WriterMoves \/ (\E r \in Lookers : ReaderMoves(r)) \/ UNCHANGED vars
BY DEF Next, WriterMoves, ReaderMoves

\* Readers write neither the table nor what the writer uses.
LEMMA ReaderLeaves ==
  ASSUME NEW r \in Lookers, ReaderMoves(r)
  PROVE  UNCHANGED <<mode, sig, idx, key, free, chng, dq, w, stored, check, token>>
BY DEF ReaderMoves, Leave, Other, LookStep, LookUp, CompareSig, LoadIdx, CompareKey, LoadChange,
   Again, ReadOnly, hvars, qvars, shared, QuiescentLoad, GoOffline, Register, CountRegistered,
   Unregister, CountUnregistered, OnlineLoad, OnlineStore, QuiescentStore

\* The writer leaves the readers alone.
LEMMA WriterLeaves ==
  ASSUME WriterMoves
  PROVE  UNCHANGED <<reader, began>>
<1>1. CASE CheckStep(writer)
  BY <1>1 DEF CheckStep, CheckAcked, CheckNum, CheckBitmap, CheckThread, CheckDone
<1>2. CASE StartGrace \/ Synchronize \/ FreeSlot \/ Reclaim \/ Reclaimed
  BY <1>2 DEF StartGrace, Synchronize, FreeSlot, Reclaim, Reclaimed, Start, Check, Continue, qvars
<1>3. CASE ReclaimCall \/ \E k \in Keys : AddKey(k) \/ DelKey(k)
  BY <1>3 DEF ReclaimCall, AddKey, DelKey, qvars
<1>4. CASE \/ AllocSlot \/ WriteKey \/ Insert \/ CountChange \/ StoreSig \/ StoreIdx
           \/ ClearIdx \/ Enqueue
  BY <1>4 DEF AllocSlot, WriteKey, Insert, CountChange, StoreSig, StoreIdx, ClearIdx, Enqueue, qvars
<1>5. QED BY <1>1, <1>2, <1>3, <1>4 DEF WriterMoves, WriterStep

\* A step of the check keeps its token until it returns.
LEMMA CheckSteps ==
  ASSUME QTypeOK, CheckStep(writer)
  PROVE  /\ ~WAt(writer, "idle") /\ ~Answered(writer)
         /\ Answered(writer)' \/ check'[writer].t = check[writer].t
<1>1. check \in [Writers -> CheckType] /\ writer \in Writers
  BY WriterIs DEF QTypeOK
<1>2. ~WAt(writer, "idle") /\ ~Answered(writer)
  BY DEF CheckStep, CheckAcked, CheckNum, CheckBitmap, CheckThread, CheckDone, WAt, Answered
<1>3. (Return(writer, "yes") => Answered(writer)') /\ (Return(writer, "no") => Answered(writer)')
  BY <1>1 DEF Return, Answered, WAt, NoCheck
<1> DEFINE Same == check'[writer].t = check[writer].t
<1>4. (WGoto(writer, "num") => Same) /\ (WGoto(writer, "bitmap") => Same)
  BY <1>1 DEF WGoto, CheckType
<1>5. CASE CheckAcked(writer)
  <2>1. Return(writer, "yes") \/ WGoto(writer, "num")
    BY <1>5 DEF CheckAcked
  <2>2. QED BY <1>2, <1>3, <1>4, <2>1
<1>6. CASE CheckDone(writer)
  BY <1>2, <1>3, <1>6 DEF CheckDone
<1>7. CASE CheckNum(writer)
  BY <1>1, <1>2, <1>7 DEF CheckNum, CheckType
<1>8. CASE CheckBitmap(writer)
  BY <1>1, <1>2, <1>8 DEF CheckBitmap, CheckType
<1>9. CASE CheckThread(writer)
  <2>1. PICK l, m : \/ Return(writer, "no") \/ WGoto(writer, "bitmap")
                    \/ check' = [check EXCEPT ![writer].left = l, ![writer].least = m]
    BY <1>9 DEF CheckThread
  <2>2. CASE check' = [check EXCEPT ![writer].left = l, ![writer].least = m]
    BY <1>1, <1>2, <2>2 DEF CheckType
  <2>3. QED BY <1>2, <1>3, <1>4, <2>1, <2>2
<1>10. QED BY <1>2, <1>5, <1>6, <1>7, <1>8, <1>9 DEF CheckStep

\* The writer checks the token it is about.
LEMMA CheckStepMeans ==
  ASSUME QTypeOK, HTypes, WriterHolds, CheckHolds, [Next]_vars
  PROVE  CheckHolds'
<1>0. check \in [Writers -> CheckType] /\ writer \in Writers /\ w \in WriterType
  BY WriterIs DEF QTypeOK, HTypes
<1>1. CASE UNCHANGED <<check, dq>> /\ w.pc \notin {"wait", "ask"} /\ w'.pc \notin {"wait", "ask"}
  BY <1>1 DEF CheckHolds, WAt
<1>2. CASE UNCHANGED <<check, dq, w>>
  BY <1>2 DEF CheckHolds, WAt, Answered
<1>3. ASSUME NEW k \in Keys, AddKey(k) \/ DelKey(k)
      PROVE  CheckHolds'
  BY <1>1, <1>3 DEF AddKey, DelKey, At, Resting, qvars
<1>4. CASE ReclaimCall
  BY <1>1, <1>4 DEF ReclaimCall, At, Resting, qvars
<1>5. CASE AllocSlot
  <2>1. w.pc \in {"alloc", "retry"} /\ UNCHANGED <<check, dq>>
    BY <1>5 DEF AllocSlot, At, qvars
  <2>2. w'.pc \in {"key", "reclaim", "rest"}
    <3>1. \/ w' = [w EXCEPT !.pc = "key", !.slot = Head(free)]
          \/ w' = [w EXCEPT !.pc = "reclaim", !.n = MaxReclaim, !.then = "retry"]
          \/ w' = Resting
      BY <1>5 DEF AllocSlot
    <3>2. [w EXCEPT !.pc = "key", !.slot = Head(free)].pc = "key"
      BY <1>0 DEF WriterType
    <3>3. [w EXCEPT !.pc = "reclaim", !.n = MaxReclaim, !.then = "retry"].pc = "reclaim"
      BY <1>0 DEF WriterType
    <3>4. Resting.pc = "rest"
      BY DEF Resting
    <3>5. QED BY <3>1, <3>2, <3>3, <3>4
  <2>3. QED BY <1>1, <2>1, <2>2
<1>6. CASE WriteKey \/ CountChange \/ StoreSig \/ ClearIdx
  <2>1. UNCHANGED <<check, dq>> /\ w.pc \in {"key", "count", "sig", "clear"}
    BY <1>6 DEF WriteKey, CountChange, StoreSig, ClearIdx, At, qvars
  <2>2. w'.pc \in {"insert", "sig", "idx", "start"}
    BY <1>0, <1>6 DEF WriteKey, CountChange, StoreSig, ClearIdx, Goto, WriterType
  <2>3. QED BY <1>1, <2>1, <2>2
<1>7. CASE Insert
  <2>1. UNCHANGED <<check, dq>> /\ w.pc = "insert"
    BY <1>7 DEF Insert, At, qvars
  <2>2. ASSUME NEW p \in Seq(Places), FoundWay(p)
        PROVE  w'.pc \in {"sig", "count"}
    BY <1>0, <2>2 DEF FoundWay, WriterType
  <2>3. w'.pc \in {"sig", "count", "rest"}
    BY <1>7, <2>2, InsertMeans DEF Resting
  <2>4. QED BY <1>1, <2>1, <2>3
<1>8. CASE StoreIdx
  <2>1. UNCHANGED <<check, dq>> /\ w.pc = "idx"
    BY <1>8 DEF StoreIdx, At, qvars
  <2>2. w'.pc \in {"rest", "count"}
    <3>1. w' = Resting \/ w' = [w EXCEPT !.pc = "count", !.n = @ - 1]
      BY <1>8 DEF StoreIdx
    <3>2. [w EXCEPT !.pc = "count", !.n = @ - 1].pc = "count" /\ Resting.pc = "rest"
      BY <1>0 DEF Resting, WriterType
    <3>3. QED BY <3>1, <3>2
  <2>3. QED BY <1>1, <2>1, <2>2
<1>9. CASE Enqueue
  <2>1. check' = check /\ w.pc = "enqueue" /\ w'.pc = "rest"
    BY <1>9 DEF Enqueue, At, Resting, qvars
  <2>2. QED BY <2>1 DEF CheckHolds, WAt
<1>10. CASE StartGrace
  <2>1. check' = check /\ dq' = dq /\ w.pc = "start"
    BY <1>10 DEF StartGrace, Start, At
  <2>2. w'.pc \in {"check", "reclaim", "enqueue"}
    BY <1>0, <1>10 DEF StartGrace, WriterType
  <2>3. QED BY <1>1, <2>1, <2>2
<1>11. CASE Synchronize
  <2>1. w'.pc = "wait" /\ w'.tok = w.tok
    BY <1>0, <1>11 DEF Synchronize, Goto, WriterType
  <2>2. check'[writer].t = w.tok
    BY <1>0, <1>11 DEF Synchronize, Check, NoCheck
  <2>3. QED BY <2>1, <2>2 DEF CheckHolds
<1>12. CASE FreeSlot
  <2>1. w'.pc = "rest" /\ check'[writer].pc = "idle"
    BY <1>0, <1>12 DEF FreeSlot, Continue, NoCheck, Resting
  <2>2. QED BY <2>1 DEF CheckHolds, WAt
<1>13. CASE Reclaim
  <2>1. CASE Check(writer, Head(dq).t, FALSE) /\ Goto("ask")
    <3>1. w'.pc = "ask" /\ check'[writer].t = Head(dq).t /\ dq' = dq
      BY <1>0, <1>13, <2>1 DEF Reclaim, Goto, Check, NoCheck, WriterType
    <3>2. QED BY <3>1 DEF CheckHolds
  <2>2. CASE Goto(w.then) /\ UNCHANGED qvars
    <3>1. w.pc = "reclaim" /\ w'.pc \in {"rest", "retry", "enqueue"} /\ UNCHANGED <<check, dq>>
      BY <1>0, <1>13, <2>2 DEF Reclaim, At, Goto, WriterType, qvars
    <3>2. QED BY <1>1, <3>1
  <2>3. QED BY <1>13, <2>1, <2>2 DEF Reclaim
<1>14. CASE Reclaimed
  <2>1. check'[writer].pc = "idle"
    BY <1>0, <1>14 DEF Reclaimed, Continue, NoCheck
  <2>2. w'.pc \in {"reclaim", "rest", "retry", "enqueue"}
    BY <1>0, <1>14 DEF Reclaimed, Goto, WriterType
  <2>3. QED BY <2>1, <2>2 DEF CheckHolds, WAt
<1>15. CASE CheckStep(writer) /\ UNCHANGED hvars
  <2>1. UNCHANGED <<w, dq>>
    BY <1>15 DEF hvars
  <2>2. w.pc \in {"wait", "ask"}
    BY <1>15, CheckSteps DEF CheckHolds
  <2>3. QED BY <1>15, <2>1, <2>2, CheckSteps DEF CheckHolds, WAt, Answered
<1>16. CASE WriterStep
  BY <1>5, <1>6, <1>7, <1>8, <1>9, <1>10, <1>11, <1>12, <1>13, <1>14, <1>15, <1>16 DEF WriterStep
<1>17. QED
  BY <1>2, <1>3, <1>4, <1>16, StepMeans, ReaderLeaves DEF WriterMoves, vars, qvars, hvars

\* What the steps of the writer do to w.
Same == w'.k = w.k /\ w'.slot = w.slot /\ w'.tok = w.tok

\* The steps that add.
LEMMA AddMeans ==
  ASSUME w \in WriterType
  PROVE  /\ \A k \in Keys :
              AddKey(k) => w.pc = "rest" /\ w'.pc = "alloc" /\ w'.k = k /\ w'.slot = Empty
         /\ AllocSlot =>
              /\ w.pc \in {"alloc", "retry"}
              /\ \/ free # <<>> /\ w'.pc = "key" /\ w'.k = w.k /\ w'.slot = Head(free)
                 \/ w'.pc = "reclaim" /\ w'.then = "retry" /\ Same
                 \/ w' = Resting
         /\ WriteKey => w.pc = "key" /\ w'.pc = "insert" /\ Same
         /\ CountChange => w.pc = "count" /\ w'.pc = "sig" /\ Same /\ w'.path = w.path /\ w'.n = w.n
         /\ StoreSig => w.pc = "sig" /\ w'.pc = "idx" /\ Same /\ w'.path = w.path /\ w'.n = w.n
         /\ StoreIdx =>
              /\ w.pc = "idx"
              /\ \/ w.n = 1 /\ w' = Resting
                 \/ w.n > 1 /\ w'.pc = "count" /\ Same /\ w'.path = w.path /\ w'.n = w.n - 1
         /\ \A p : FoundWay(p) => w'.pc \in {"sig", "count"} /\ Same /\ w'.path = p /\ w'.n = Len(p)
<1> USE DEF WriterType, Resting, At, Goto, Same
<1>1. \A k \in Keys : AddKey(k) => w.pc = "rest" /\ w'.pc = "alloc" /\ w'.k = k /\ w'.slot = Empty
  BY DEF AddKey
<1>2. ASSUME AllocSlot
      PROVE  /\ w.pc \in {"alloc", "retry"}
             /\ \/ free # <<>> /\ w'.pc = "key" /\ w'.k = w.k /\ w'.slot = Head(free)
                \/ w'.pc = "reclaim" /\ w'.then = "retry" /\ Same
                \/ w' = Resting
  <2>1. CASE free # <<>> /\ w' = [w EXCEPT !.pc = "key", !.slot = Head(free)]
    BY <1>2, <2>1 DEF AllocSlot
  <2>2. CASE w' = [w EXCEPT !.pc = "reclaim", !.n = MaxReclaim, !.then = "retry"]
    BY <1>2, <2>2 DEF AllocSlot
  <2>3. CASE w' = Resting
    BY <1>2, <2>3 DEF AllocSlot
  <2>4. QED BY <1>2, <2>1, <2>2, <2>3 DEF AllocSlot
<1>3. /\ WriteKey => w.pc = "key" /\ w'.pc = "insert" /\ Same
      /\ CountChange => w.pc = "count" /\ w'.pc = "sig" /\ Same /\ w'.path = w.path /\ w'.n = w.n
      /\ StoreSig => w.pc = "sig" /\ w'.pc = "idx" /\ Same /\ w'.path = w.path /\ w'.n = w.n
  BY DEF WriteKey, CountChange, StoreSig
<1>4. ASSUME StoreIdx
      PROVE  /\ w.pc = "idx"
             /\ \/ w.n = 1 /\ w' = Resting
                \/ w.n > 1 /\ w'.pc = "count" /\ Same /\ w'.path = w.path /\ w'.n = w.n - 1
  <2>1. CASE w.n > 1 /\ w' = [w EXCEPT !.pc = "count", !.n = @ - 1]
    BY <1>4, <2>1 DEF StoreIdx
  <2>2. CASE w.n = 1 /\ w' = Resting
    BY <1>4, <2>2 DEF StoreIdx
  <2>3. QED BY <1>4, <2>1, <2>2 DEF StoreIdx
<1>5. ASSUME NEW p, FoundWay(p)
      PROVE  w'.pc \in {"sig", "count"} /\ Same /\ w'.path = p /\ w'.n = Len(p)
  <2>1. PICK pc \in {"sig", "count"} : w' = [w EXCEPT !.path = p, !.n = Len(p), !.pc = pc]
    BY <1>5 DEF FoundWay
  <2>2. QED BY <2>1
<1>6. QED BY <1>1, <1>2, <1>3, <1>4, <1>5

\* The steps that delete and reclaim.
LEMMA DeleteMeans ==
  ASSUME w \in WriterType
  PROVE  /\ \A k \in Keys : DelKey(k) => w.pc = "rest" /\ w'.pc = "clear"
         /\ ClearIdx => w.pc = "clear" /\ w'.pc = "start" /\ Same
         /\ StartGrace => /\ w.pc = "start" /\ w'.slot = w.slot /\ w'.tok = token'
                          /\ w'.pc \in {"check", "reclaim", "enqueue"} /\ w'.then = "enqueue"
         /\ Synchronize => w.pc = "check" /\ w'.pc = "wait" /\ Same
         /\ FreeSlot => w.pc = "wait" /\ w' = Resting
         /\ Enqueue => w.pc = "enqueue" /\ w' = Resting
         /\ ReclaimCall => w.pc = "rest" /\ w'.pc = "reclaim" /\ w'.then = "rest" /\ w'.slot = Empty
         /\ Reclaim => /\ w.pc = "reclaim" /\ Same
                       /\ \/ w'.pc = "ask" /\ w'.then = w.then /\ dq # <<>> /\ w.n # 0 /\ w'.n = w.n
                          \/ w'.pc = w.then
         /\ Reclaimed => /\ w.pc = "ask" /\ Same
                         /\ \/ w'.pc = "reclaim" /\ w'.then = w.then
                            \/ w'.pc = w.then
<1> USE DEF WriterType, Resting, At, Goto, Same
<1>1. \A k \in Keys : DelKey(k) => w.pc = "rest" /\ w'.pc = "clear"
  BY DEF DelKey
<1>2. /\ ClearIdx => w.pc = "clear" /\ w'.pc = "start" /\ Same
      /\ Synchronize => w.pc = "check" /\ w'.pc = "wait" /\ Same
      /\ FreeSlot => w.pc = "wait" /\ w' = Resting
      /\ Enqueue => w.pc = "enqueue" /\ w' = Resting
      /\ ReclaimCall => w.pc = "rest" /\ w'.pc = "reclaim" /\ w'.then = "rest" /\ w'.slot = Empty
  BY DEF ClearIdx, Synchronize, FreeSlot, Enqueue, ReclaimCall
<1>3. ASSUME StartGrace
      PROVE  /\ w.pc = "start" /\ w'.slot = w.slot /\ w'.tok = token'
             /\ w'.pc \in {"check", "reclaim", "enqueue"} /\ w'.then = "enqueue"
  <2>1. PICK pc \in {"check", "reclaim", "enqueue"} :
          w' = [w EXCEPT !.tok = token', !.n = MaxReclaim, !.then = "enqueue", !.pc = pc]
    BY <1>3 DEF StartGrace
  <2>2. QED BY <1>3, <2>1 DEF StartGrace
<1>4. Reclaim => /\ w.pc = "reclaim" /\ Same
                 /\ \/ w'.pc = "ask" /\ w'.then = w.then /\ dq # <<>> /\ w.n # 0 /\ w'.n = w.n
                    \/ w'.pc = w.then
  BY DEF Reclaim
<1>5. ASSUME Reclaimed
      PROVE  /\ w.pc = "ask" /\ Same
             /\ \/ w'.pc = "reclaim" /\ w'.then = w.then
                \/ w'.pc = w.then
  <2>1. CASE w' = [w EXCEPT !.pc = "reclaim", !.n = @ - 1]
    BY <1>5, <2>1 DEF Reclaimed
  <2>2. CASE Goto(w.then)
    BY <1>5, <2>2 DEF Reclaimed
  <2>3. QED BY <1>5, <2>1, <2>2 DEF Reclaimed
<1>6. QED BY <1>1, <1>2, <1>3, <1>4, <1>5

\* What the writer carries, step by step.
LEMMA HoldsAdd ==
  ASSUME HTypes, WriterHolds, TableInv,
         \/ \E k \in Keys : AddKey(k)
         \/ AllocSlot \/ WriteKey \/ Insert \/ CountChange \/ StoreSig \/ StoreIdx
  PROVE  WriterHolds'
<1>0. w \in WriterType /\ Empty \notin Slots
  BY DEF HTypes, Empty, Slots
<1> USE HoldingIs, HoldingIsNext
<1>1. ASSUME NEW k \in Keys, AddKey(k)
      PROVE  WriterHolds'
  <2>1. w'.pc = "alloc" /\ w'.k = k /\ w'.slot = Empty
    BY <1>0, <1>1, AddMeans
  <2>2. PlacesOf(k) = {} /\ stored' = stored
    BY <1>1 DEF AddKey
  <2>3. k \notin stored
    BY <2>2 DEF TableInv, StoredFirm, Firm
  <2>4. QED BY <2>1, <2>2, <2>3 DEF WriterHolds
<1>2. CASE AllocSlot
  <2>1. /\ w.pc \in {"alloc", "retry"} /\ UNCHANGED <<stored, dq, key>>
        /\ \/ free # <<>> /\ w'.pc = "key" /\ w'.k = w.k /\ w'.slot = Head(free)
           \/ w'.pc = "reclaim" /\ w'.then = "retry" /\ Same
           \/ w' = Resting
    BY <1>0, <1>2, AddMeans DEF AllocSlot
  <2>2. w.k \in Keys \ stored /\ w.slot = Empty
    BY <2>1 DEF WriterHolds
  <2>3. CASE free # <<>> /\ w'.pc = "key" /\ w'.k = w.k /\ w'.slot = Head(free)
    <3>1. Head(free) \in Slots
      BY <2>3, SeqParts DEF HTypes, QueueTypes
    <3>2. QED BY <1>0, <2>1, <2>2, <2>3, <3>1 DEF WriterHolds
  <2>4. CASE w'.pc = "reclaim" /\ w'.then = "retry" /\ Same
    BY <2>1, <2>2, <2>4 DEF WriterHolds, Same
  <2>5. CASE w' = Resting
    <3>1. w'.pc = "rest" /\ w'.slot = Empty
      BY <2>5 DEF Resting
    <3>2. QED BY <3>1 DEF WriterHolds
  <2>6. QED BY <2>1, <2>3, <2>4, <2>5
<1>3. CASE WriteKey
  <2>1. w.pc = "key" /\ w'.pc = "insert" /\ Same /\ stored' = stored
    BY <1>0, <1>3, AddMeans DEF WriteKey
  <2>2. w.slot \in Slots
    BY <1>0, <2>1 DEF WriterHolds, WriterType
  <2>3. key'[w.slot] = w.k
    BY <1>3, <2>2 DEF WriteKey, HTypes, TableTypes
  <2>4. QED BY <2>1, <2>3 DEF WriterHolds, Same
<1>4. CASE Insert
  <2>1. w.pc = "insert" /\ UNCHANGED <<stored, key>>
    BY <1>4 DEF Insert, At
  <2>2. ASSUME NEW p \in Seq(Places), FoundWay(p)
        PROVE  WriterHolds'
    <3>1. w'.pc \in {"sig", "count"} /\ Same
      BY <1>0, <2>2, AddMeans
    <3>2. QED BY <2>1, <3>1 DEF WriterHolds, Same
  <2>3. CASE w' = Resting
    <3>1. w'.pc = "rest" /\ w'.slot = Empty
      BY <2>3 DEF Resting
    <3>2. QED BY <3>1 DEF WriterHolds
  <2>4. QED BY <1>4, <2>2, <2>3, InsertMeans
<1>5. CASE CountChange \/ StoreSig
  <2>1. w.pc \in {"count", "sig"} /\ w'.pc \in {"sig", "idx"} /\ Same /\ UNCHANGED <<stored, key>>
    BY <1>0, <1>5, AddMeans DEF CountChange, StoreSig
  <2>2. QED BY <2>1 DEF WriterHolds, Same
<1>6. CASE StoreIdx
  <2>1. CASE w.n = 1 /\ w' = Resting
    <3>1. w'.pc = "rest" /\ w'.slot = Empty
      BY <2>1 DEF Resting
    <3>2. QED BY <3>1 DEF WriterHolds
  <2>2. CASE w.n > 1
    <3>1. w.pc = "idx" /\ w'.pc = "count" /\ Same /\ UNCHANGED <<stored, key>>
      <4>1. w.n # 1
        BY <2>2
      <4>2. QED BY <1>0, <1>6, <4>1, AddMeans DEF StoreIdx
    <3>2. QED BY <3>1 DEF WriterHolds, Same
  <2>3. QED BY <1>0, <1>6, <2>1, <2>2, AddMeans
<1>7. QED BY <1>1, <1>2, <1>3, <1>4, <1>5, <1>6

\* The same in the steps that delete and reclaim.
LEMMA HoldsDelete ==
  ASSUME QTypeOK, HTypes, WriterHolds, TableInv,
         \/ \E k \in Keys : DelKey(k)
         \/ ClearIdx \/ StartGrace \/ Synchronize \/ FreeSlot \/ Enqueue
         \/ ReclaimCall \/ Reclaim \/ Reclaimed
  PROVE  WriterHolds'
<1>0. w \in WriterType /\ Empty \notin Slots
  BY DEF HTypes, Empty, Slots
<1> USE HoldingIs, HoldingIsNext
<1>1. ASSUME NEW k \in Keys, DelKey(k)
      PROVE  WriterHolds'
  <2>1. PICK p \in PlacesOf(k) :
          w' = [Resting EXCEPT !.pc = "clear", !.k = k, !.slot = idx[p], !.path = <<p>>]
    BY <1>1 DEF DelKey
  <2>2. w'.pc = "clear" /\ w'.slot = idx[p]
    BY <2>1 DEF Resting
  <2>3. idx[p] # Empty
    BY DEF PlacesOf, Holds
  <2>4. QED BY <2>2, <2>3 DEF WriterHolds
<1>2. CASE ClearIdx
  <2>1. w.pc = "clear" /\ w'.pc = "start" /\ Same
    BY <1>0, <1>2, DeleteMeans
  <2>2. QED BY <2>1 DEF WriterHolds, Same
<1>3. CASE StartGrace
  <2>1. /\ w.pc = "start" /\ w'.slot = w.slot /\ w'.tok = token'
        /\ w'.pc \in {"check", "reclaim", "enqueue"} /\ w'.then = "enqueue"
    BY <1>0, <1>3, DeleteMeans
  <2>2. CntInit < token'
    BY <1>3 DEF StartGrace, Start, QTypeOK, CntInit
  <2>3. QED BY <2>1, <2>2 DEF WriterHolds
<1>4. CASE Synchronize
  <2>1. w.pc = "check" /\ w'.pc = "wait" /\ Same
    BY <1>0, <1>4, DeleteMeans
  <2>2. QED BY <2>1 DEF WriterHolds, Same
<1>5. CASE FreeSlot \/ Enqueue
  <2>1. w'.pc = "rest" /\ w'.slot = Empty
    BY <1>0, <1>5, DeleteMeans DEF Resting
  <2>2. QED BY <2>1 DEF WriterHolds
<1>6. CASE ReclaimCall
  <2>1. w'.pc = "reclaim" /\ w'.then = "rest" /\ w'.slot = Empty
    BY <1>0, <1>6, DeleteMeans
  <2>2. QED BY <2>1 DEF WriterHolds
<1>7. CASE Reclaim
  <2>1. /\ w.pc = "reclaim" /\ Same /\ UNCHANGED <<stored, dq>>
        /\ \/ w'.pc = "ask" /\ w'.then = w.then /\ dq # <<>> /\ w.n # 0 /\ w'.n = w.n
           \/ w'.pc = w.then
    BY <1>0, <1>7, DeleteMeans DEF Reclaim
  <2>2. w.then \in {"rest", "retry", "enqueue"}
    BY <1>0 DEF WriterType
  <2>3. CASE w'.pc = "ask" /\ w'.then = w.then /\ dq # <<>> /\ w.n # 0 /\ w'.n = w.n
    BY <2>1, <2>2, <2>3 DEF WriterHolds, Same
  <2>4. CASE w'.pc = w.then
    BY <2>1, <2>2, <2>4 DEF WriterHolds, Same
  <2>5. QED BY <2>1, <2>3, <2>4
<1>8. CASE Reclaimed
  <2>1. /\ w.pc = "ask" /\ Same /\ UNCHANGED stored
        /\ \/ w'.pc = "reclaim" /\ w'.then = w.then
           \/ w'.pc = w.then
    BY <1>0, <1>8, DeleteMeans DEF Reclaimed
  <2>2. w.then \in {"rest", "retry", "enqueue"}
    BY <1>0 DEF WriterType
  <2>3. QED BY <2>1, <2>2 DEF WriterHolds, Same
<1>9. QED BY <1>1, <1>2, <1>3, <1>4, <1>5, <1>6, <1>7, <1>8

\* Steps that leave the writer alone.
LEMMA HoldsOther ==
  ASSUME WriterHolds, UNCHANGED <<key, dq, w, stored>>
  PROVE  WriterHolds'
BY DEF WriterHolds, Holding, Deferring, Adding, During, Reclaiming

AddMoves ==
  \/ \E k \in Keys : AddKey(k)
  \/ AllocSlot \/ WriteKey \/ Insert \/ CountChange \/ StoreSig \/ StoreIdx
DeleteMoves ==
  \/ \E k \in Keys : DelKey(k)
  \/ ClearIdx \/ StartGrace \/ Synchronize \/ FreeSlot \/ Enqueue
  \/ ReclaimCall \/ Reclaim \/ Reclaimed
\* What the steps are, with the readers' as the records they store.
ReadMoves(r) ==
  /\ \E rec : Looks(r, rec)
  /\ UNCHANGED <<mode, sig, idx, key, free, chng, dq, w, stored>>

\* Every step is one of four kinds.
LEMMA MovesAre ==
  ASSUME HTypes, \A r \in Lookers : LookHolds(r), [Next]_vars
  PROVE  \/ AddMoves \/ DeleteMoves \/ UNCHANGED hvars
         \/ \E r \in Lookers : ReadMoves(r)
<1>1. WriterMoves => AddMoves \/ DeleteMoves \/ UNCHANGED hvars
  BY DEF WriterMoves, WriterStep, AddMoves, DeleteMoves
<1>2. ASSUME NEW r \in Lookers, ReaderMoves(r)
      PROVE  ReadMoves(r) \/ UNCHANGED hvars
  <2>1. UNCHANGED <<mode, sig, idx, key, free, chng, dq, w, stored>>
    BY <1>2, ReaderLeaves
  <2>2. CASE Leave(r)
    BY <2>1, <2>2, LeaveMeans DEF ReadMoves
  <2>3. CASE Other(r)
    BY <2>3 DEF Other
  <2>4. CASE LookStep(r)
    BY <2>1, <2>4, LookStepMeans DEF ReadMoves
  <2>5. ASSUME NEW k \in Sought, LookUp(r, k)
        PROVE  ReadMoves(r)
    BY <2>1, <2>5, LookUpMeans DEF ReadMoves
  <2>6. QED BY <1>2, <2>2, <2>3, <2>4, <2>5 DEF ReaderMoves
<1>3. UNCHANGED vars => UNCHANGED hvars
  BY DEF vars
<1>4. QED BY <1>1, <1>2, <1>3, StepMeans

PlaceInv == QInv /\ HTypes /\ WriterHolds /\ CheckHolds /\ SlotsApart /\ TableInv

\* Types, slots and table together are kept by every step.
LEMMA PlaceStep ==
  ASSUME PlaceInv, \A r \in Lookers : LookHolds(r), [Next]_vars
  PROVE  PlaceInv'
<1> USE DEF PlaceInv
<1>1. [QNext]_qvars
  BY StepIsQ
<1>2. QInv' /\ QTypeOK /\ QTypeOK'
  BY <1>1, WriterIs, QInvInductive DEF QInv, QTypes
<1>3. TokenGrows
  <2>1. token' = token \/ token' = token + 1
    BY <1>1 DEF QNext, ReaderStep, Register, CountRegistered, Unregister, CountUnregistered,
         OnlineLoad, OnlineStore, GoOffline, QuiescentLoad, QuiescentStore, Start, Check, Continue,
         CheckStep, CheckAcked, CheckNum, CheckBitmap, CheckThread, CheckDone, shared, qvars
  <2>2. QED BY <1>2, <2>1 DEF QTypeOK, TokenGrows, CntInit
<1>4. TableInv' /\ CheckHolds'
  BY <1>2, TableStep, CheckStepMeans
<1>5. WayHolds /\ ClearHolds /\ EntriesApart
  BY DEF TableInv
<1>6. CASE AddMoves
  BY <1>2, <1>3, <1>4, <1>5, <1>6, AddTypes, SlotsAdd, HoldsAdd DEF AddMoves
<1>7. CASE DeleteMoves
  BY <1>2, <1>3, <1>4, <1>5, <1>7, DeleteTypes, SlotsDelete, HoldsDelete DEF DeleteMoves
<1>8. CASE UNCHANGED hvars
  <2>1. UNCHANGED <<idx, key, free, dq, w, stored>>
    BY <1>8 DEF hvars
  <2>2. QED BY <1>2, <1>3, <1>4, <1>8, <2>1, OtherTypes, SlotsOther, HoldsOther
<1>9. ASSUME NEW r \in Lookers, ReadMoves(r)
      PROVE  PlaceInv'
  <2>1. UNCHANGED <<mode, sig, idx, key, free, chng, dq, w, stored>>
    BY <1>9 DEF ReadMoves
  <2>2. HTypes'
    BY <1>3, <1>9, <2>1, ReadTypes DEF ReadMoves
  <2>3. QED BY <1>2, <1>4, <2>1, <2>2, SlotsOther, HoldsOther
<1>10. QED BY <1>6, <1>7, <1>8, <1>9, MovesAre

\* A reader that uses the table after a step did before, or begins to.
LEMMA ReaderBegins ==
  ASSUME QTypeOK, NEW r \in Lookers, ReaderMoves(r), NEW q \in Readers, InSection(q)'
  PROVE  \/ InSection(q) /\ began'[q] = began[q]
         \/ began'[q] = token
<1>1. /\ r \in Readers /\ began \in [Readers -> 0 .. token] /\ DOMAIN reader = Readers
      /\ \A s \in Readers : reader[s] = [pc |-> reader[s].pc, t |-> reader[s].t]
  BY HashAssumption DEF QTypeOK
<1>2. CASE UNCHANGED <<reader, began>>
  BY <1>2 DEF InSection, RAt
<1>3. CASE Enter(r)
  BY <1>1, <1>3 DEF Enter, InSection, RAt
<1>4. ASSUME NEW rec, rec.pc # "in",
             reader' = [reader EXCEPT ![r] = rec],
             began' = began \/ began' = [began EXCEPT ![r] = 0]
      PROVE  InSection(q) /\ began'[q] = began[q]
  <2>1. q # r
    BY <1>1, <1>4 DEF InSection, RAt
  <2>2. QED BY <1>1, <1>4, <2>1 DEF InSection, RAt
<1>5. ASSUME NEW pc \in {"registering", "offline", "unregistering", "out"}, RGoto(r, pc),
             began' = began \/ began' = [began EXCEPT ![r] = 0]
      PROVE  InSection(q) /\ began'[q] = began[q]
  <2>1. reader' = [reader EXCEPT ![r] = [pc |-> pc, t |-> reader[r].t]]
    <3>1. [reader[r] EXCEPT !.pc = pc] = [pc |-> pc, t |-> reader[r].t]
      <4>1. PICK rec \in [pc : {reader[r].pc}, t : {reader[r].t}] : rec = reader[r]
        BY <1>1
      <4>2. [rec EXCEPT !.pc = pc] = [pc |-> pc, t |-> rec.t]
        OBVIOUS
      <4>3. QED BY <4>1, <4>2
    <3>2. QED BY <1>5, <3>1 DEF RGoto
  <2>2. QED BY <1>4, <1>5, <2>1
<1>6. CASE \/ Register(r) \/ CountRegistered(r) \/ Unregister(r) \/ CountUnregistered(r)
           \/ GoOffline(r)
  BY <1>5, <1>6 DEF Register, CountRegistered, Unregister, CountUnregistered, GoOffline
<1>7. CASE OnlineLoad(r) \/ QuiescentLoad(r)
  <2>1. PICK pc \in {"onlining", "reporting"} :
          reader' = [reader EXCEPT ![r] = [pc |-> pc, t |-> token]]
    BY <1>7 DEF OnlineLoad, QuiescentLoad
  <2>2. began' = began \/ began' = [began EXCEPT ![r] = 0]
    BY <1>7 DEF OnlineLoad, QuiescentLoad
  <2>3. QED BY <1>4, <2>1, <2>2
<1>8. CASE OnlineStore(r) \/ QuiescentStore(r)
  BY <1>3, <1>8 DEF OnlineStore, QuiescentStore
<1>9. CASE LookStep(r) \/ \E k \in Sought : LookUp(r, k)
  BY <1>2, <1>9 DEF LookStep, LookUp, CompareSig, LoadIdx, CompareKey, LoadChange, Again,
     ReadOnly, qvars
<1>10. QED BY <1>6, <1>7, <1>8, <1>9 DEF ReaderMoves, Leave, Other

\* A check that passes leaves no reader that began before its token.
LEMMA PassStep ==
  ASSUME PlaceInv, PlaceInv', PassHolds, [Next]_vars
  PROVE  PassHolds'
<1>0. /\ w \in WriterType /\ QTypeOK /\ QTypes /\ QInv /\ HTypes /\ WriterHolds /\ CheckHolds
      /\ writer \in Writers /\ OneWriter /\ check \in [Writers -> CheckType]
      /\ dq \in Seq([t : CntInit + 1 .. token, s : Slots])
  BY WriterIs DEF PlaceInv, HTypes, QueueTypes, QInv, QTypes, QTypeOK
<1>1. CASE w'.pc \notin {"wait", "ask"}
  BY <1>1 DEF PassHolds, At
<1>2. CASE check'[writer].pc # "yes"
  BY <1>2 DEF PassHolds, WAt
<1>3. ASSUME NEW r \in Lookers, ReaderMoves(r)
      PROVE  PassHolds'
  <2>1. UNCHANGED <<w, dq, check>>
    BY <1>3, ReaderLeaves
  <2>2. ASSUME NEW q \in Readers, InSection(q)', WAt(writer, "yes")'
        PROVE  /\ At("wait")' => w'.tok <= began'[q]
               /\ At("ask")' => Head(dq').t <= began'[q]
    <3>1. WAt(writer, "yes")
      BY <2>1, <2>2 DEF WAt
    <3>2. w.tok <= token
      BY <1>0 DEF WriterType, QTypeOK, CntInit
    <3>3. At("ask") => Head(dq).t <= token
      <4>1. At("ask") => dq # <<>>
        BY <1>0 DEF WriterHolds, At
      <4>2. At("ask") => Head(dq) \in [t : CntInit + 1 .. token, s : Slots]
        BY <1>0, <4>1, SeqParts
      <4>3. QED BY <1>0, <4>2 DEF QTypeOK, CntInit
    <3>4. CASE InSection(q) /\ began'[q] = began[q]
      BY <2>1, <3>1, <3>4 DEF PassHolds, At
    <3>5. CASE began'[q] = token
      BY <2>1, <3>2, <3>3, <3>5 DEF At
    <3>6. QED BY <1>0, <1>3, <2>2, <3>4, <3>5, ReaderBegins
  <2>3. QED BY <2>2 DEF PassHolds
<1>4. CASE CheckStep(writer) /\ UNCHANGED hvars
  <2>1. UNCHANGED <<w, dq>> /\ WriterMoves
    BY <1>4 DEF hvars, WriterMoves, WriterStep
  <2>2. UNCHANGED <<reader, began>>
    BY <2>1, WriterLeaves
  <2>3. ASSUME NEW q \in Readers, InSection(q)', WAt(writer, "yes")'
        PROVE  /\ At("wait")' => w'.tok <= began'[q]
               /\ At("ask")' => Head(dq').t <= began'[q]
    <3>1. InSection(q)
      BY <2>2, <2>3 DEF InSection, RAt
    <3>2. ~Answered(writer)
      BY <1>0, <1>4, CheckSteps
    <3>3. Passed(writer)
      BY <2>3, <3>2 DEF Passed, WAt, Answered
    <3>4. [QNext]_qvars
      BY <1>0, StepIsQ
    <3>5. began[q] >= check[writer].t
      BY <1>0, <3>1, <3>3, <3>4, PassedHolds
    <3>6. began[q] \in Nat /\ token \in Nat
      BY <1>0 DEF QTypeOK, CntInit
    <3>7. At("wait") => check[writer].t = w.tok
      BY <1>0, <3>2 DEF CheckHolds, At
    <3>8. At("ask") => check[writer].t = Head(dq).t
      BY <1>0, <3>2 DEF CheckHolds, At
    <3>9. check[writer].t \in Nat
      BY <1>0, <3>6 DEF CheckType
    <3>10. check[writer].t <= began'[q]
      BY <2>2, <3>5, <3>6, <3>9
    <3>11. QED BY <2>1, <3>7, <3>8, <3>10 DEF At
  <2>4. QED BY <2>3 DEF PassHolds
<1>5. CASE AddMoves
  <2>1. ASSUME NEW p, FoundWay(p)
        PROVE  w'.pc \in {"sig", "count"}
    BY <1>0, <2>1, AddMeans
  <2>2. Resting.pc = "rest"
    BY DEF Resting
  <2>3. Insert => w'.pc \in {"sig", "count", "rest"}
    BY <1>0, <2>1, <2>2, InsertMeans
  <2>4. w'.pc \notin {"wait", "ask"}
    BY <1>0, <1>5, <2>2, <2>3, AddMeans DEF AddMoves
  <2>5. QED BY <1>1, <2>4
<1>6. CASE Synchronize \/ (Reclaim /\ Check(writer, Head(dq).t, FALSE))
  <2>1. PICK t, wait : Check(writer, t, wait)
    BY <1>6 DEF Synchronize
  <2>2. check'[writer].pc = "acked"
    BY <1>0, <2>1 DEF Check, NoCheck
  <2>3. QED BY <1>2, <2>2
<1>7. CASE Reclaim /\ ~Check(writer, Head(dq).t, FALSE)
  <2>1. w'.pc = w.then
    BY <1>0, <1>7 DEF Reclaim, Goto, WriterType
  <2>2. QED BY <1>0, <1>1, <2>1 DEF WriterType
<1>8. CASE DeleteMoves /\ ~Synchronize /\ ~Reclaim
  <2>1. Resting.pc = "rest" /\ w.then \notin {"wait", "ask"}
    BY <1>0 DEF Resting, WriterType
  <2>2. w'.pc \notin {"wait", "ask"}
    BY <1>0, <1>8, <2>1, DeleteMeans DEF DeleteMoves
  <2>3. QED BY <1>1, <2>2
<1>9. CASE UNCHANGED vars
  BY <1>9 DEF vars, qvars, hvars, PassHolds, InSection, RAt, WAt, At
<1>10. QED
  BY <1>3, <1>4, <1>5, <1>6, <1>7, <1>8, <1>9, StepMeans
     DEF WriterMoves, WriterStep, AddMoves, DeleteMoves

-----------------------------------------------------------------------------
\* A slot a reader has loaded stays where the reader may use it.

InDq(r, s) == \E i \in DOMAIN dq : dq[i].s = s /\ began[r] < dq[i].t
WithWriterRemoved(r, s) ==
  w.slot = s /\ (w.pc = "start" \/ (Deferring /\ began[r] < w.tok))
Kept(r, s) == InTable(s) \/ Removed(r, s)

\* The two places of a removed slot.
LEMMA RemovedIs ==
  ASSUME NEW r, NEW s
  PROVE  /\ Removed(r, s) <=> InDq(r, s) \/ WithWriterRemoved(r, s)
         /\ Removed(r, s)' <=> InDq(r, s)' \/ WithWriterRemoved(r, s)'
BY DEF Removed, InDq, WithWriterRemoved

\* The writer has no slot that is kept, but one it has just removed.
LEMMA KeptApart ==
  ASSUME PlaceInv, NEW r, NEW s \in Slots, Kept(r, s), w.slot = s, Holding
  PROVE  w.pc = "start" \/ Deferring
<1>1. CASE InTable(s)
  BY <1>1 DEF PlaceInv, SlotsApart, SlotPlaced, WithWriterOnly
<1>2. CASE InDq(r, s)
  <2>1. Within(Ids(dq), s)
    BY <1>2 DEF InDq, Within, Ids
  <2>2. QED BY <2>1 DEF PlaceInv, SlotsApart, SlotPlaced, WithWriterOnly
<1>3. CASE WithWriterRemoved(r, s)
  BY <1>3 DEF WithWriterRemoved
<1>4. QED BY <1>1, <1>2, <1>3, RemovedIs DEF Kept

\* An index that is overwritten was copied before.
LEMMA StoreKeeps ==
  ASSUME HTypes, WayHolds, StoreIdx, NEW s \in Slots, InTable(s)
  PROVE  InTable(s)'
<1>0. /\ At("idx") /\ OnWay /\ Target \in Places
      /\ idx \in [Places -> Slots \cup {Empty}] /\ Empty \notin Slots
  BY WayPlaces DEF StoreIdx, At, OnWay, HTypes, TableTypes, Empty, Slots
<1>1. PICK v : idx' = Store(idx, Target, v)
  BY DEF StoreIdx
<1>2. \A p \in Places : p # Target => idx'[p] = idx[p]
  BY <1>0, <1>1 DEF Store
<1>3. PICK p \in Places : idx[p] = s
  BY DEF InTable
<1>4. CASE p # Target
  BY <1>2, <1>3, <1>4 DEF InTable
<1>5. CASE p = Target
  <2>1. w.n # Len(w.path) /\ w.n < Len(w.path) /\ w.n + 1 \in 1 .. Len(w.path)
    BY <1>0, <1>3, <1>5, WayPlaces DEF WayHolds
  <2>2. idx[w.path[w.n + 1]] = s
    BY <1>0, <1>3, <1>5, <2>1 DEF WayHolds
  <2>3. w.path[w.n + 1] # w.path[w.n] /\ w.path[w.n + 1] \in Places
    BY <1>0, <2>1, WayPlaces DEF WayHolds
  <2>4. QED BY <1>2, <2>2, <2>3 DEF InTable, Target
<1>6. QED BY <1>4, <1>5

\* A slot that is kept stays so in the steps that add,
LEMMA KeptAdd ==
  ASSUME PlaceInv, NEW r \in Lookers, NEW s \in Slots, Kept(r, s), AddMoves, began' = began
  PROVE  Kept(r, s)' /\ key'[s] = key[s]
<1>0. w \in WriterType /\ HTypes /\ WayHolds /\ WriterHolds /\ Empty \notin Slots
  BY DEF PlaceInv, HTypes, TableInv, Empty, Slots
<1>1. w.pc \in {"rest", "alloc", "retry", "key", "insert", "count", "sig", "idx"}
  <2>1. Insert => w.pc = "insert"
    BY DEF Insert, At
  <2>2. QED BY <1>0, <2>1, AddMeans DEF AddMoves
<1>2. ~WithWriterRemoved(r, s)
  BY <1>1, HoldingIs DEF WithWriterRemoved
<1>3. dq' = dq
  BY DEF AddMoves, AddKey, AllocSlot, WriteKey, Insert, CountChange, StoreSig, StoreIdx
<1>4. InDq(r, s) => InDq(r, s)'
  BY <1>3 DEF InDq
<1>5. InTable(s) => InTable(s)'
  <2>1. CASE StoreIdx
    BY <1>0, <2>1, StoreKeeps
  <2>2. CASE ~StoreIdx
    <3>1. idx' = idx
      BY <2>2 DEF AddMoves, AddKey, AllocSlot, WriteKey, Insert, CountChange, StoreSig
    <3>2. QED BY <3>1 DEF InTable
  <2>3. QED BY <2>1, <2>2
<1>6. key'[s] = key[s]
  <2>1. CASE WriteKey
    <3>1. w.pc = "key" /\ key' = [key EXCEPT ![w.slot] = w.k]
      BY <2>1 DEF WriteKey, At
    <3>2. w.slot # s
      BY <3>1, HoldingIs, KeptApart
    <3>3. QED BY <1>0, <3>1, <3>2 DEF HTypes, TableTypes
  <2>2. CASE ~WriteKey
    BY <2>2 DEF AddMoves, AddKey, AllocSlot, Insert, CountChange, StoreSig, StoreIdx
  <2>3. QED BY <2>1, <2>2
<1>7. QED BY <1>2, <1>4, <1>5, <1>6, RemovedIs DEF Kept

\* What the writer removed stays with it until it is deferred.
LEMMA WithWriterKept ==
  ASSUME NEW r, NEW s, WithWriterRemoved(r, s), began' = began,
         w'.slot = w.slot /\ w'.tok = w.tok, Deferring => Deferring', w.pc # "start"
  PROVE  WithWriterRemoved(r, s)'
BY HoldingIs, HoldingIsNext DEF WithWriterRemoved

\* and in those that delete: no queue entry is reclaimed too early.
LEMMA KeptDelete ==
  ASSUME PlaceInv, PassHolds, TokenGrows, NEW r \in Lookers, NEW s \in Slots, Kept(r, s),
         InSection(r),
         DeleteMoves, began' = began
  PROVE  Kept(r, s)'
<1>0. /\ w \in WriterType /\ HTypes /\ ClearHolds /\ WriterHolds /\ r \in Readers
      /\ dq \in Seq([t : CntInit + 1 .. token, s : Slots])
      /\ began \in [Readers -> 0 .. token] /\ Empty \notin Slots
  BY HashAssumption DEF PlaceInv, HTypes, QueueTypes, TableInv, QInv, QTypes, QTypeOK, Empty, Slots
<1> USE HoldingIs, HoldingIsNext
<1>1. CASE idx' = idx /\ dq' = dq /\ (WithWriterRemoved(r, s) => WithWriterRemoved(r, s)')
  <2>1. (InTable(s) => InTable(s)') /\ (InDq(r, s) => InDq(r, s)')
    BY <1>1 DEF InTable, InDq
  <2>2. QED BY <1>1, <2>1, RemovedIs DEF Kept
<1>2. ASSUME NEW k \in Keys, DelKey(k)
      PROVE  Kept(r, s)'
  <2>1. idx' = idx /\ dq' = dq
    BY <1>2 DEF DelKey
  <2>2. ~WithWriterRemoved(r, s)
    BY <1>0, <1>2, DeleteMeans DEF WithWriterRemoved
  <2>3. QED BY <1>1, <2>1, <2>2
<1>3. CASE ClearIdx
  <2>1. w.pc = "clear" /\ w'.pc = "start" /\ Same /\ idx' = Store(idx, w.path[1], Empty) /\ dq' = dq
    BY <1>0, <1>3, DeleteMeans DEF ClearIdx
  <2>2. ~WithWriterRemoved(r, s)
    BY <2>1 DEF WithWriterRemoved
  <2>3. InDq(r, s) => InDq(r, s)'
    BY <2>1 DEF InDq
  <2>4. ASSUME NEW p \in Places, idx[p] = s
        PROVE  Kept(r, s)'
    <3>1. CASE p = w.path[1]
      <4>1. w.slot = s
        BY <1>0, <2>1, <2>4, <3>1 DEF ClearHolds
      <4>2. WithWriterRemoved(r, s)'
        BY <2>1, <4>1 DEF WithWriterRemoved, Same
      <4>3. QED BY <4>2, RemovedIs DEF Kept
    <3>2. CASE p # w.path[1]
      <4>1. idx'[p] = s
        BY <1>0, <2>1, <2>4, <3>2 DEF Store, HTypes, TableTypes
      <4>2. QED BY <4>1 DEF Kept, InTable
    <3>3. QED BY <3>1, <3>2
  <2>5. QED BY <2>2, <2>3, <2>4, RemovedIs DEF Kept, InTable
<1>4. CASE StartGrace
  <2>1. idx' = idx /\ dq' = dq /\ token' = token + 1
    BY <1>4 DEF StartGrace, Start
  <2>2. /\ w.pc = "start" /\ w'.slot = w.slot /\ w'.tok = token'
        /\ w'.pc \in {"check", "reclaim", "enqueue"} /\ w'.then = "enqueue"
    BY <1>0, <1>4, DeleteMeans
  <2>3. began'[r] < w'.tok
    BY <1>0, <2>1, <2>2 DEF TokenGrows
  <2>4. WithWriterRemoved(r, s) => WithWriterRemoved(r, s)'
    BY <2>2, <2>3 DEF WithWriterRemoved
  <2>5. QED BY <1>1, <2>1, <2>4
<1>5. CASE Synchronize
  <2>1. idx' = idx /\ dq' = dq /\ w.pc = "check" /\ w'.pc = "wait" /\ Same
    BY <1>0, <1>5, DeleteMeans DEF Synchronize
  <2>2. QED BY <1>1, <2>1, WithWriterKept DEF Same
<1>6. CASE FreeSlot
  <2>1. idx' = idx /\ dq' = dq /\ w.pc = "wait" /\ WAt(writer, "yes")
    BY <1>6 DEF FreeSlot, At
  <2>2. w.tok <= began[r]
    BY <1>0, <2>1 DEF PassHolds, At
  <2>3. ~WithWriterRemoved(r, s)
    <3>1. w.tok \in Nat /\ began[r] \in Nat
      BY <1>0 DEF TokenGrows, WriterType
    <3>2. QED BY <2>1, <2>2, <3>1 DEF WithWriterRemoved
  <2>4. QED BY <1>1, <2>1, <2>3
<1>7. CASE Enqueue
  <2>1. PICK e : e = [t |-> w.tok, s |-> w.slot]
    OBVIOUS
  <2>2. idx' = idx /\ w.pc = "enqueue" /\ dq' = Append(dq, e) /\ e.s = w.slot /\ e.t = w.tok
    BY <1>7, <2>1 DEF Enqueue, At
  <2>3. e \in [t : CntInit + 1 .. token, s : Slots]
    <3>1. w.tok \in CntInit + 1 .. token
      BY <1>0, <2>2 DEF WriterHolds, WriterType, CntInit, TokenGrows
    <3>2. w.slot \in Slots
      BY <1>0, <2>2 DEF WriterHolds, WriterType
    <3>3. QED BY <2>1, <3>1, <3>2
  <2>4. /\ DOMAIN dq' = 1 .. Len(dq) + 1 /\ Len(dq) \in Nat /\ DOMAIN dq = 1 .. Len(dq)
        /\ dq'[Len(dq) + 1] = e /\ \A i \in 1 .. Len(dq) : dq'[i] = dq[i]
    BY <1>0, <2>2, <2>3, AppendIn
  <2>5. ASSUME InDq(r, s)
        PROVE  InDq(r, s)'
    <3>1. PICK i \in 1 .. Len(dq) : dq[i].s = s /\ began[r] < dq[i].t
      BY <2>4, <2>5 DEF InDq
    <3>2. i \in DOMAIN dq' /\ dq'[i] = dq[i]
      BY <2>4
    <3>3. QED BY <3>1, <3>2 DEF InDq
  <2>6. WithWriterRemoved(r, s) => InDq(r, s)'
    <3>1. Len(dq) + 1 \in DOMAIN dq'
      BY <2>4
    <3>2. QED BY <2>2, <2>4, <3>1 DEF WithWriterRemoved, InDq
  <2>7. InTable(s) => InTable(s)'
    BY <2>2 DEF InTable
  <2>8. QED BY <2>5, <2>6, <2>7, RemovedIs DEF Kept
<1>8. CASE ReclaimCall
  <2>1. idx' = idx /\ dq' = dq /\ w.pc = "rest"
    BY <1>8 DEF ReclaimCall, At
  <2>2. QED BY <1>1, <2>1 DEF WithWriterRemoved
<1>9. CASE Reclaim
  <2>1. /\ idx' = idx /\ dq' = dq /\ w.pc = "reclaim" /\ Same
        /\ (w'.pc = "ask" /\ w'.then = w.then) \/ w'.pc = w.then
    BY <1>0, <1>9, DeleteMeans DEF Reclaim
  <2>2. Deferring => Deferring'
    BY <2>1
  <2>3. QED BY <1>1, <2>1, <2>2, WithWriterKept DEF Same
<1>10. CASE Reclaimed
  <2>1. /\ idx' = idx /\ w.pc = "ask" /\ Same /\ w'.slot = w.slot /\ w'.tok = w.tok
        /\ (w'.pc = "reclaim" /\ w'.then = w.then) \/ w'.pc = w.then
    BY <1>0, <1>10, DeleteMeans DEF Reclaimed, Same
  <2>2. Deferring => Deferring'
    BY <2>1
  <2>3. WithWriterRemoved(r, s) => WithWriterRemoved(r, s)'
    BY <2>1, <2>2, WithWriterKept
  <2>4. CASE dq' = dq
    BY <1>1, <2>1, <2>3, <2>4
  <2>5. CASE WAt(writer, "yes") /\ dq' = Tail(dq)
    <3>1. dq # <<>> /\ Head(dq).t <= began[r]
      BY <1>0, <2>1, <2>5 DEF WriterHolds, PassHolds, At
    <3>2. /\ Len(dq) \in Nat \ {0} /\ DOMAIN dq = 1 .. Len(dq) /\ Head(dq) = dq[1]
          /\ Len(dq') = Len(dq) - 1 /\ dq' \in Seq([t : CntInit + 1 .. token, s : Slots])
          /\ \A i \in 1 .. Len(dq) - 1 : dq'[i] = dq[i + 1]
      BY <1>0, <2>5, <3>1, SeqParts
    <3>3. ASSUME InDq(r, s)
          PROVE  InDq(r, s)'
      <4>1. PICK i \in 1 .. Len(dq) : dq[i].s = s /\ began[r] < dq[i].t
        BY <3>2, <3>3 DEF InDq
      <4>2. dq[i] \in [t : CntInit + 1 .. token, s : Slots] /\ began[r] \in Nat
        <5>1. began[r] \in Nat
          BY <1>0 DEF TokenGrows
        <5>2. DEFINE T == [t : CntInit + 1 .. token, s : Slots]
        <5>3. dq \in Seq(T)
          BY <1>0
        <5> HIDE DEF T
        <5>4. dq[i] \in T
          BY <4>1, <5>3
        <5>5. QED BY <5>1, <5>4 DEF T
      <4>3. i # 1
        BY <3>1, <3>2, <4>1, <4>2 DEF TokenGrows, CntInit
      <4>4. i - 1 \in 1 .. Len(dq) - 1
        BY <3>2, <4>1, <4>3
      <4>5. i - 1 \in DOMAIN dq' /\ dq'[i - 1] = dq[i]
        BY <3>2, <4>4
      <4>6. QED BY <4>1, <4>5 DEF InDq
    <3>4. InTable(s) => InTable(s)'
      BY <2>1 DEF InTable
    <3>5. QED BY <2>3, <3>3, <3>4, RemovedIs DEF Kept
  <2>6. QED BY <1>10, <2>4, <2>5 DEF Reclaimed
<1>11. QED BY <1>2, <1>3, <1>4, <1>5, <1>6, <1>7, <1>8, <1>9, <1>10 DEF DeleteMoves

\* Deleting writes no key.
LEMMA DeleteLeavesKeys == DeleteMoves => key' = key
BY DEF DeleteMoves, DelKey, ClearIdx, StartGrace, Synchronize, FreeSlot, Enqueue, ReclaimCall,
   Reclaim, Reclaimed

\* The writer leaves a lookup where it is.
LookStays(r) ==
  /\ look'[r].pc = look[r].pc /\ look'[r].k = look[r].k /\ look'[r].cnt = look[r].cnt
  /\ look'[r].at = look[r].at /\ look'[r].slot = look[r].slot
  /\ look[r].was \subseteq look'[r].was

\* Notes about a stored key change nothing else of a lookup.
LEMMA LooksNote ==
  ASSUME HTypes, look' = look \/ \E s : SetStored(s), NEW r \in Lookers, LookHolds(r)
  PROVE  LookStays(r) /\ (look[r] = NoLook => look'[r] = NoLook)
<1>0. look[r] \in LookType
  BY DEF HTypes
<1>1. CASE look' = look
  BY <1>1 DEF LookStays
<1>2. ASSUME NEW s, SetStored(s)
      PROVE  LookStays(r) /\ (look[r] = NoLook => look'[r] = NoLook)
  <2>1. CASE look[r].pc = "none"
    <3>1. look'[r] = NoLook
      BY <1>2, <2>1 DEF SetStored
    <3>2. look[r] = NoLook
      BY <2>1 DEF LookHolds
    <3>3. QED BY <3>1, <3>2 DEF LookStays
  <2>2. CASE look[r].pc # "none"
    <3>1. look'[r] = [look[r] EXCEPT !.was = look[r].was \cup {(look[r].k \in s)}]
      BY <1>2, <2>2 DEF SetStored
    <3>2. look[r] # NoLook
      BY <2>2 DEF NoLook
    <3>3. QED BY <1>0, <3>1, <3>2 DEF LookStays, LookType
  <2>3. QED BY <2>1, <2>2
<1>3. QED BY <1>1, <1>2

\* The writer does no more than that to lookups.
LEMMA WriterNotes == AddMoves \/ DeleteMoves => look' = look \/ \E s : SetStored(s)
BY DEF AddMoves, AddKey, AllocSlot, WriteKey, Insert, CountChange, StoreSig, StoreIdx,
   DeleteMoves, DelKey, ClearIdx, StartGrace, Synchronize, FreeSlot, Enqueue, ReclaimCall,
   Reclaim, Reclaimed

\* Lookups hold what they did when the writer steps.
LEMMA HoldsStays ==
  ASSUME PlaceInv, PassHolds, TokenGrows, NEW r \in Lookers, LookHolds(r),
         AddMoves \/ DeleteMoves
  PROVE  LookHolds(r)'
<1>1. LookStays(r) /\ (look[r] = NoLook => look'[r] = NoLook)
  BY WriterNotes, LooksNote DEF PlaceInv
<1>2. UNCHANGED <<reader, began>>
  BY WriterLeaves DEF AddMoves, DeleteMoves, WriterMoves, WriterStep
<1>3. InSection(r)' <=> InSection(r)
  BY <1>2 DEF InSection, RAt
<1>4. CASE look[r].slot # Empty
  <2>1. look[r].slot \in Slots
    BY <1>4 DEF PlaceInv, HTypes, LookType
  <2>2. PICK s \in Slots : s = look[r].slot
    BY <2>1
  <2>3. Kept(r, s) /\ InSection(r)
    BY <1>4, <2>2 DEF LookHolds, Kept
  <2>4. Kept(r, s)' /\ key'[s] = key[s]
    BY <1>2, <2>3, KeptAdd, KeptDelete, DeleteLeavesKeys
  <2>5. (InTable(s) \/ Removed(r, s))' /\ key'[s] = key[s] /\ look'[r].slot = s /\ look[r].slot = s
    BY <1>1, <2>2, <2>4 DEF Kept, LookStays
  <2>6. QED BY <1>1, <1>3, <2>5 DEF LookHolds, LookStays, LAt
<1>5. CASE look[r].slot = Empty
  BY <1>1, <1>3, <1>5 DEF LookHolds, LookStays, LAt
<1>6. QED BY <1>4, <1>5

\* A reader's step leaves the other readers alone.
LEMMA OthersStay ==
  ASSUME QTypeOK, NEW q \in Lookers, ReaderMoves(q), NEW r \in Lookers, r # q
  PROVE  reader'[r] = reader[r] /\ began'[r] = began[r]
<1>1. q \in Readers /\ r \in Readers /\ began \in [Readers -> 0 .. token] /\ DOMAIN reader = Readers
  BY HashAssumption DEF QTypeOK
<1>2. \/ reader' = reader
      \/ \E rec : reader' = [reader EXCEPT ![q] = rec]
  BY DEF ReaderMoves, Leave, Other, LookStep, LookUp, CompareSig, LoadIdx, CompareKey, LoadChange,
     Again, ReadOnly, qvars, QuiescentLoad, GoOffline, Register, CountRegistered, RGoto, Enter,
     Unregister, CountUnregistered, OnlineLoad, OnlineStore, QuiescentStore
<1>3. \/ began' = began
      \/ \E t : began' = [began EXCEPT ![q] = t]
  BY DEF ReaderMoves, Leave, Other, LookStep, LookUp, CompareSig, LoadIdx, CompareKey, LoadChange,
     Again, ReadOnly, qvars, QuiescentLoad, GoOffline, Register, CountRegistered, RGoto, Enter,
     Unregister, CountUnregistered, OnlineLoad, OnlineStore, QuiescentStore
<1>4. QED BY <1>1, <1>2, <1>3

\* A slot is kept by steps that leave the writer's variables alone.
LEMMA KeptStays ==
  ASSUME NEW r, NEW s, Kept(r, s), UNCHANGED <<idx, dq, w>>, began'[r] = began[r]
  PROVE  Kept(r, s)'
BY DEF Kept, Removed, InTable, Deferring, During, Reclaiming

\* A reader that does not step.
LEMMA HoldsIdle ==
  ASSUME HTypes, NEW r \in Lookers, LookHolds(r), look'[r] = look[r], reader'[r] = reader[r],
         began'[r] = began[r], UNCHANGED <<idx, key, dq, w>>
  PROVE  LookHolds(r)'
<1>1. look[r].slot # Empty => Kept(r, look[r].slot)
  BY DEF LookHolds, Kept
<1>2. PICK s : s = look[r].slot
  OBVIOUS
<1>3. s # Empty => Kept(r, s)'
  BY <1>1, <1>2, KeptStays
<1>4. s # Empty => (InTable(s) \/ Removed(r, s))'
  BY <1>3 DEF Kept
<1>5. QED BY <1>2, <1>4 DEF LookHolds, InSection, RAt, LAt

\* The record a reader stores is what LookHolds says.
RecHolds(r, rec) ==
  /\ rec.pc = "none" => rec = NoLook
  /\ rec.pc # "none" => InSection(r) /\ rec.k \in Keys
  /\ rec.pc \in {"key", "found"} <=> rec.slot # Empty
  /\ rec.pc \in {"sig", "idx", "key"} => rec.at # 0
  /\ rec.slot # Empty => Kept(r, rec.slot)
  /\ rec.pc = "found" => key[rec.slot] = rec.k

\* so that what is stored is right.
LEMMA RecStored ==
  ASSUME HTypes, NEW r \in Lookers, NEW rec, Looks(r, rec), RecHolds(r, rec),
         rec = NoLook \/ (reader' = reader /\ began' = began), UNCHANGED <<idx, key, dq, w>>
  PROVE  LookHolds(r)'
<1>1. look'[r] = rec
  BY LookMoves
<1>2. CASE rec = NoLook
  <2>1. look'[r].pc = "none" /\ look'[r].slot = Empty /\ look'[r] = NoLook
    BY <1>1, <1>2 DEF NoLook
  <2>2. QED BY <2>1 DEF LookHolds, LAt
<1>3. CASE reader' = reader /\ began' = began
  <2>1. PICK s, x : s = rec.slot /\ x = rec
    OBVIOUS
  <2>2. s # Empty => Kept(r, s)'
    BY <1>3, <2>1, KeptStays DEF RecHolds
  <2>3. s # Empty => (InTable(s) \/ Removed(r, s))'
    BY <2>2 DEF Kept
  <2>4. InSection(r)' <=> InSection(r)
    BY <1>3 DEF InSection, RAt
  <2>5. QED BY <1>1, <2>1, <2>3, <2>4 DEF LookHolds, RecHolds, LAt
<1>4. QED BY <1>2, <1>3

\* The steps of a lookup store such records.
LEMMA StepRecs ==
  ASSUME HTypes, NEW r \in Lookers, LookHolds(r), LookStep(r)
  PROVE  \E rec : Looks(r, rec) /\ RecHolds(r, rec)
<1>0. /\ look[r] \in LookType /\ look[r].at \in 0 .. 2 * Entries /\ Entries \in Nat
      /\ idx \in [Places -> Slots \cup {Empty}]
  BY HashAssumption DEF HTypes, TableTypes, LookType
<1>1. look[r].pc # "none" => InSection(r) /\ look[r].k \in Keys
  BY DEF LookHolds
<1>2. look[r].pc \in {"sig", "idx", "key"} => look[r].at # 0
  BY DEF LookHolds
<1>3. look[r].pc \in {"sig", "idx", "key"} => RecHolds(r, AdvanceRec(r))
  <2>1. PICK at, pc : /\ AdvanceRec(r) = [look[r] EXCEPT !.slot = Empty, !.at = at, !.pc = pc]
                      /\ at = (IF look[r].at < 2 * Entries THEN look[r].at + 1 ELSE look[r].at)
                      /\ pc = (IF look[r].at < 2 * Entries THEN "sig" ELSE "end")
    BY DEF AdvanceRec
  <2>2. look[r].pc \in {"sig", "idx", "key"} => at # 0
    BY <1>0, <1>2, <2>1
  <2>3. pc \in {"sig", "end"}
    BY <2>1
  <2>4. AdvanceRec(r).pc = pc /\ AdvanceRec(r).at = at /\ AdvanceRec(r).slot = Empty
        /\ AdvanceRec(r).k = look[r].k
    BY <1>0, <2>1 DEF LookType
  <2>5. QED BY <1>1, <2>2, <2>3, <2>4 DEF RecHolds
<1>4. CASE LAt(r, "sig") /\ Looks(r, [look[r] EXCEPT !.pc = "idx"])
  <2>1. PICK rec : rec = [look[r] EXCEPT !.pc = "idx"]
    OBVIOUS
  <2>2. rec.pc = "idx" /\ rec.k = look[r].k /\ rec.at = look[r].at /\ rec.slot = look[r].slot
    BY <1>0, <2>1 DEF LookType
  <2>3. look[r].slot = Empty
    BY <1>4 DEF LookHolds, LAt
  <2>4. RecHolds(r, rec)
    BY <1>1, <1>2, <1>4, <2>2, <2>3 DEF RecHolds, LAt
  <2>5. QED BY <1>4, <2>1, <2>4
<1>5. CASE /\ LAt(r, "idx") /\ idx[Here(r)] # Empty
           /\ Looks(r, [look[r] EXCEPT !.pc = "key", !.slot = idx[Here(r)]])
  <2>1. PICK rec : rec = [look[r] EXCEPT !.pc = "key", !.slot = idx[Here(r)]]
    OBVIOUS
  <2>2. rec.pc = "key" /\ rec.k = look[r].k /\ rec.at = look[r].at /\ rec.slot = idx[Here(r)]
    BY <1>0, <2>1 DEF LookType
  <2>3. Here(r) \in Places
    BY <1>5, HereIs DEF LAt
  <2>4. InTable(idx[Here(r)])
    BY <2>3 DEF InTable
  <2>5. RecHolds(r, rec)
    BY <1>1, <1>2, <1>5, <2>2, <2>4 DEF RecHolds, LAt, Kept
  <2>6. QED BY <1>5, <2>1, <2>5
<1>6. CASE /\ LAt(r, "key") /\ key[look[r].slot] = look[r].k
           /\ Looks(r, [look[r] EXCEPT !.pc = "found"])
  <2>1. PICK rec : rec = [look[r] EXCEPT !.pc = "found"]
    OBVIOUS
  <2>2. rec.pc = "found" /\ rec.k = look[r].k /\ rec.at = look[r].at /\ rec.slot = look[r].slot
    BY <1>0, <2>1 DEF LookType
  <2>3. look[r].slot # Empty /\ Kept(r, look[r].slot)
    BY <1>6 DEF LookHolds, LAt, Kept
  <2>4. RecHolds(r, rec)
    BY <1>1, <1>6, <2>2, <2>3 DEF RecHolds, LAt
  <2>5. QED BY <1>6, <2>1, <2>4
<1>7. ASSUME NEW pc \in {"missed", "again"}, LAt(r, "end"), Looks(r, [look[r] EXCEPT !.pc = pc])
      PROVE  \E rec : Looks(r, rec) /\ RecHolds(r, rec)
  <2>1. PICK rec : rec = [look[r] EXCEPT !.pc = pc]
    OBVIOUS
  <2>2. rec.pc = pc /\ rec.k = look[r].k /\ rec.at = look[r].at /\ rec.slot = look[r].slot
    BY <1>0, <2>1 DEF LookType
  <2>3. look[r].slot = Empty
    BY <1>7 DEF LookHolds, LAt
  <2>4. RecHolds(r, rec)
    BY <1>1, <1>7, <2>2, <2>3 DEF RecHolds, LAt
  <2>5. QED BY <1>7, <2>1, <2>4
<1>8. CASE LAt(r, "again") /\ Looks(r, [look[r] EXCEPT !.pc = "sig", !.cnt = chng, !.at = 1])
  <2>1. PICK rec : rec = [look[r] EXCEPT !.pc = "sig", !.cnt = chng, !.at = 1]
    OBVIOUS
  <2>2. rec.pc = "sig" /\ rec.k = look[r].k /\ rec.at = 1 /\ rec.slot = look[r].slot
    BY <1>0, <2>1 DEF LookType
  <2>3. look[r].slot = Empty
    BY <1>8 DEF LookHolds, LAt
  <2>4. RecHolds(r, rec)
    BY <1>1, <1>8, <2>2, <2>3 DEF RecHolds, LAt
  <2>5. QED BY <1>8, <2>1, <2>4
<1>9. CASE look[r].pc \in {"sig", "idx", "key"} /\ Looks(r, AdvanceRec(r))
  BY <1>3, <1>9
<1>10. QED BY <1>4, <1>5, <1>6, <1>7, <1>8, <1>9, LookStepMeans DEF LAt

\* Every step keeps what lookups hold.
LEMMA LookHoldsStep ==
  ASSUME PlaceInv, PassHolds, TokenGrows, \A r \in Lookers : LookHolds(r), [Next]_vars
  PROVE  \A r \in Lookers : LookHolds(r)'
<1> SUFFICES ASSUME NEW r \in Lookers
             PROVE  LookHolds(r)'
  OBVIOUS
<1>0. HTypes /\ QTypeOK /\ LookHolds(r) /\ DOMAIN reader = Readers /\ r \in Readers
  BY HashAssumption DEF PlaceInv, QInv, QTypes, QTypeOK
<1>1. CASE AddMoves \/ DeleteMoves
  BY <1>1, HoldsStays
<1>2. CASE UNCHANGED hvars /\ UNCHANGED <<reader, began>>
  BY <1>0, <1>2, HoldsIdle DEF hvars
<1>3. ASSUME NEW q \in Lookers, ReaderMoves(q)
      PROVE  LookHolds(r)'
  <2>1. UNCHANGED <<idx, key, dq, w>>
    BY <1>3, ReaderLeaves
  <2>2. CASE q # r
    <3>1. reader'[r] = reader[r] /\ began'[r] = began[r]
      BY <1>0, <1>3, <2>2, OthersStay
    <3>2. \/ look' = look
          \/ \E rec : Looks(q, rec)
      BY <1>0, <1>3, LeaveMeans, LookStepMeans, LookUpMeans DEF ReaderMoves, Other, hvars
    <3>3. look'[r] = look[r]
      BY <1>0, <2>2, <3>2, LookMoves
    <3>4. QED BY <1>0, <2>1, <3>1, <3>3, HoldsIdle
  <2>3. CASE q = r
    <3>1. CASE Leave(r)
      <4>1. Looks(r, NoLook)
        BY <1>0, <3>1, LeaveMeans
      <4>2. RecHolds(r, NoLook)
        BY DEF RecHolds, NoLook
      <4>3. QED BY <1>0, <2>1, <4>1, <4>2, RecStored
    <3>2. CASE LookStep(r)
      <4>1. reader' = reader /\ began' = began
        BY <3>2 DEF LookStep, CompareSig, LoadIdx, CompareKey, LoadChange, Again, ReadOnly, qvars
      <4>2. QED BY <1>0, <2>1, <3>2, <4>1, StepRecs, RecStored
    <3>3. ASSUME NEW k \in Sought, LookUp(r, k)
          PROVE  LookHolds(r)'
      <4>1. reader' = reader /\ began' = began
        BY <3>3 DEF LookUp, ReadOnly, qvars
      <4>2. k \in Keys /\ InSection(r) /\ Looks(r, NewLook(k))
        BY <1>0, <3>3, LookUpMeans
      <4>3. PICK rec : rec = NewLook(k)
        OBVIOUS
      <4>4. rec.pc = "sig" /\ rec.k = k /\ rec.at = 1 /\ rec.slot = Empty
        BY <4>3 DEF NewLook, NoLook
      <4>5. RecHolds(r, rec)
        BY <4>2, <4>4 DEF RecHolds
      <4>6. QED BY <1>0, <2>1, <4>1, <4>2, <4>3, <4>5, RecStored
    <3>4. CASE Other(r)
      <4>1. ~InSection(r) /\ look' = look
        BY <3>4 DEF Other, hvars, InSection, RAt, Register, CountRegistered, Unregister,
             CountUnregistered, OnlineLoad, OnlineStore, QuiescentStore
      <4>2. look[r] = NoLook
        BY <1>0, <4>1 DEF LookHolds
      <4>3. look'[r].pc = "none" /\ look'[r].slot = Empty /\ look'[r] = NoLook
        BY <4>1, <4>2 DEF NoLook
      <4>4. QED BY <4>3 DEF LookHolds, LAt
    <3>5. QED BY <1>3, <2>3, <3>1, <3>2, <3>3, <3>4 DEF ReaderMoves
  <2>4. QED BY <2>2, <2>3
<1>4. WriterMoves => AddMoves \/ DeleteMoves \/ (UNCHANGED hvars /\ UNCHANGED <<reader, began>>)
  BY WriterLeaves DEF WriterMoves, WriterStep, AddMoves, DeleteMoves
<1>5. UNCHANGED vars => UNCHANGED hvars /\ UNCHANGED <<reader, began>>
  BY DEF vars, qvars
<1>6. QED BY <1>1, <1>2, <1>3, <1>4, <1>5, StepMeans

-----------------------------------------------------------------------------
\* What a reader may answer.

\* A truth value in a set.
LEMMA TruthIn ==
  ASSUME NEW x, NEW s, NEW was, (x \in s) \in was
  PROVE  (x \in s => TRUE \in was) /\ (x \notin s => FALSE \in was)
<1>1. ASSUME x \in s
      PROVE  TRUE \in was
  <2>1. (x \in s) = TRUE
    BY <1>1
  <2>2. QED BY <2>1
<1>2. ASSUME x \notin s
      PROVE  FALSE \in was
  <2>1. (x \in s) = FALSE
    BY <1>2
  <2>2. QED BY <2>1
<1>3. QED BY <1>1, <1>2

\* A place where a reader finds a stored key stays one, as long as the key
\* stays and nothing is moved.
LEMMA FirmAdd ==
  ASSUME PlaceInv, AddMoves, ~CountChange, NEW k \in stored, NEW p \in Places, Firm(p, k)
  PROVE  Firm(p, k)'
<1>0. /\ w \in WriterType /\ HTypes /\ WayHolds /\ WriterHolds /\ Empty \notin Slots /\ k \in Keys
      /\ sig \in [Places -> {NoSig} \cup {Sig[x] : x \in Keys}]
      /\ idx \in [Places -> Slots \cup {Empty}] /\ key \in [Slots -> Keys \cup {NoKey}]
  BY DEF PlaceInv, HTypes, TableTypes, TableInv, Empty, Slots
<1>1. sig[p] = Sig[k] /\ idx[p] # Empty /\ key[idx[p]] = k /\ p[1] \in {Prim[k], Sec(k)}
      /\ ~(w.pc \in {"sig", "idx"} /\ p = Target)
  BY DEF Firm, PlacesOf, Holds
<1>2. ASSUME sig'[p] = sig[p], idx'[p] = idx[p], key'[idx[p]] = key[idx[p]],
             ~(w'.pc \in {"sig", "idx"} /\ p = Target')
      PROVE  Firm(p, k)'
  BY <1>1, <1>2 DEF Firm, PlacesOf, Holds
<1>3. ASSUME NEW x \in Keys, AddKey(x)
      PROVE  Firm(p, k)'
  <2>1. w'.pc = "alloc"
    BY <1>0, <1>3, AddMeans
  <2>2. QED BY <1>2, <1>3, <2>1 DEF AddKey
<1>4. CASE AllocSlot
  <2>1. w'.pc \notin {"sig", "idx"}
    BY <1>0, <1>4, AddMeans DEF Resting
  <2>2. QED BY <1>2, <1>4, <2>1 DEF AllocSlot
<1>5. CASE WriteKey
  <2>1. w.pc = "key" /\ w'.pc = "insert" /\ key' = [key EXCEPT ![w.slot] = w.k]
    BY <1>0, <1>5, AddMeans DEF WriteKey
  <2>2. idx[p] \in Slots /\ InTable(idx[p])
    BY <1>0, <1>1 DEF InTable
  <2>3. idx[p] # w.slot
    BY <2>1, <2>2, HoldingIs DEF PlaceInv, SlotsApart, SlotPlaced, WithWriterOnly
  <2>4. key'[idx[p]] = key[idx[p]]
    BY <1>0, <2>1, <2>2, <2>3
  <2>5. QED BY <1>2, <1>5, <2>1, <2>4 DEF WriteKey
<1>6. CASE Insert
  <2>1. UNCHANGED <<sig, idx, key>>
    BY <1>6 DEF Insert
  <2>2. CASE w' = Resting
    BY <1>2, <2>1, <2>2 DEF Resting
  <2>3. ASSUME NEW f \in Seq(Places), FoundWay(f)
        PROVE  Firm(p, k)'
    <3>1. w'.path = f /\ w'.n = Len(f)
      BY <1>0, <2>3, AddMeans
    <3>2. idx[f[Len(f)]] = Empty
      BY <2>3 DEF FoundWay, Ways
    <3>3. Target' = f[Len(f)]
      BY <3>1 DEF Target
    <3>4. QED BY <1>1, <1>2, <2>1, <3>2, <3>3
  <2>4. QED BY <1>0, <1>6, <2>2, <2>3, InsertMeans
<1>7. CASE StoreSig
  <2>1. w.pc = "sig" /\ w'.pc = "idx" /\ w'.path = w.path /\ w'.n = w.n
    BY <1>0, <1>7, AddMeans
  <2>2. Target' = Target /\ p # Target
    BY <1>1, <2>1 DEF Target
  <2>3. PICK v : sig' = [sig EXCEPT ![Target] = v]
    BY <1>7 DEF StoreSig, Store
  <2>4. sig'[p] = sig[p]
    BY <1>0, <2>2, <2>3
  <2>5. QED BY <1>2, <1>7, <2>2, <2>4 DEF StoreSig
<1>8. CASE StoreIdx
  <2>1. w.pc = "idx" /\ w'.pc \in {"rest", "count"}
    BY <1>0, <1>8, AddMeans DEF Resting
  <2>2. p # Target
    BY <1>1, <2>1
  <2>3. PICK v : idx' = [idx EXCEPT ![Target] = v]
    BY <1>8 DEF StoreIdx, Store
  <2>4. idx'[p] = idx[p]
    BY <1>0, <2>2, <2>3
  <2>5. QED BY <1>2, <1>8, <2>1, <2>4 DEF StoreIdx
<1>9. QED BY <1>3, <1>4, <1>5, <1>6, <1>7, <1>8 DEF AddMoves

\* The same in the steps that delete, for a key that stays.
LEMMA FirmDelete ==
  ASSUME PlaceInv, DeleteMoves, NEW k \in stored, k \in stored', NEW p \in Places, Firm(p, k)
  PROVE  Firm(p, k)'
<1>0. /\ w \in WriterType /\ HTypes /\ ClearHolds /\ Empty \notin Slots /\ k \in Keys
      /\ sig \in [Places -> {NoSig} \cup {Sig[x] : x \in Keys}]
      /\ idx \in [Places -> Slots \cup {Empty}] /\ key \in [Slots -> Keys \cup {NoKey}]
      /\ w.then \in {"rest", "retry", "enqueue"}
  BY DEF PlaceInv, HTypes, TableTypes, TableInv, Empty, Slots, WriterType
<1>1. sig[p] = Sig[k] /\ idx[p] # Empty /\ key[idx[p]] = k /\ p[1] \in {Prim[k], Sec(k)}
  BY DEF Firm, PlacesOf, Holds
<1>2. ASSUME sig'[p] = sig[p], idx'[p] = idx[p], w'.pc \notin {"sig", "idx"}
      PROVE  Firm(p, k)'
  BY <1>1, <1>2, DeleteLeavesKeys DEF Firm, PlacesOf, Holds
<1>3. ASSUME NEW x \in Keys, DelKey(x)
      PROVE  Firm(p, k)'
  <2>1. w'.pc = "clear" /\ idx' = idx /\ k # x
    BY <1>0, <1>3, DeleteMeans DEF DelKey, SetStored
  <2>2. PICK q \in PlacesOf(x) : sig' = [sig EXCEPT ![q] = NoSig]
    BY <1>3 DEF DelKey, Store
  <2>3. key[idx[q]] = x
    BY DEF PlacesOf, Holds
  <2>4. sig'[p] = sig[p]
    BY <1>0, <1>1, <2>1, <2>2, <2>3
  <2>5. QED BY <1>2, <2>1, <2>4
<1>4. CASE ClearIdx
  <2>1. w.pc = "clear" /\ w'.pc = "start" /\ sig' = sig
    BY <1>0, <1>4, DeleteMeans DEF ClearIdx
  <2>2. idx' = [idx EXCEPT ![w.path[1]] = Empty]
    BY <1>4 DEF ClearIdx, Store
  <2>3. p # w.path[1]
    BY <1>0, <1>1, <2>1 DEF ClearHolds
  <2>4. idx'[p] = idx[p]
    BY <1>0, <2>2, <2>3
  <2>5. QED BY <1>2, <2>1, <2>4
<1>5. CASE \/ StartGrace \/ Synchronize \/ FreeSlot \/ Enqueue
           \/ ReclaimCall \/ Reclaim \/ Reclaimed
  <2>1. UNCHANGED <<sig, idx>>
    BY <1>5 DEF StartGrace, Synchronize, FreeSlot, Enqueue, ReclaimCall, Reclaim, Reclaimed
  <2>2. w'.pc \notin {"sig", "idx"}
    BY <1>0, <1>5, DeleteMeans DEF Resting
  <2>3. QED BY <1>2, <2>1, <2>2
<1>6. QED BY <1>3, <1>4, <1>5 DEF DeleteMoves

Right(r) == Was(r) /\ FoundRight(r) /\ MissedRight(r)

\* The history of a lookup has the present, when the writer steps.
LEMMA WasStays ==
  ASSUME HTypes, NEW r \in Lookers, LookHolds(r), Was(r), AddMoves \/ DeleteMoves
  PROVE  Was(r)'
<1>1. (look' = look /\ stored' = stored) \/ \E s : SetStored(s)
  BY DEF AddMoves, AddKey, AllocSlot, WriteKey, Insert, CountChange, StoreSig, StoreIdx,
     DeleteMoves, DelKey, ClearIdx, StartGrace, Synchronize, FreeSlot, Enqueue, ReclaimCall,
     Reclaim, Reclaimed
<1>2. CASE look' = look /\ stored' = stored
  BY <1>2 DEF Was
<1>3. ASSUME NEW s, SetStored(s)
      PROVE  Was(r)'
  <2>1. CASE look[r].pc = "none"
    <3>1. look'[r].pc = "none"
      BY <1>3, <2>1 DEF SetStored, NoLook
    <3>2. QED BY <3>1 DEF Was
  <2>2. CASE look[r].pc # "none"
    <3>1. look[r] \in LookType
      BY DEF HTypes
    <3>2. look'[r] = [look[r] EXCEPT !.was = look[r].was \cup {(look[r].k \in s)}]
      BY <1>3, <2>2 DEF SetStored
    <3>3. look'[r].k = look[r].k /\ look'[r].was = look[r].was \cup {(look[r].k \in s)}
      BY <3>1, <3>2 DEF LookType
    <3>4. stored' = s
      BY <1>3 DEF SetStored
    <3>5. (look'[r].k \in stored') = (look[r].k \in s)
      BY <3>3, <3>4
    <3>6. QED BY <3>3, <3>5 DEF Was
  <2>3. QED BY <2>1, <2>2
<1>4. QED BY <1>1, <1>2, <1>3

\* A key that is deleted was stored.
LEMMA DeletedStored ==
  ASSUME PlaceInv, NEW k \in Keys, DelKey(k)
  PROVE  k \in stored /\ w'.k = k
<1>1. PICK p \in PlacesOf(k) :
        w' = [Resting EXCEPT !.pc = "clear", !.k = k, !.slot = idx[p], !.path = <<p>>]
  BY DEF DelKey
<1>2. w'.k = k
  BY <1>1 DEF Resting
<1>3. p \in Places /\ idx[p] # Empty /\ key[idx[p]] = k
  BY DEF PlacesOf, Holds
<1>4. ~Cleared(p)
  BY DEF DelKey, At, Cleared
<1>5. QED BY <1>2, <1>3, <1>4 DEF PlaceInv, TableInv, EntryHolds

\* What it found was there, and
LEMMA FoundStays ==
  ASSUME PlaceInv, PassHolds, TokenGrows, NEW r \in Lookers, LookHolds(r), Was(r), FoundRight(r),
         AddMoves \/ DeleteMoves
  PROVE  FoundRight(r)'
<1>0. HTypes /\ w \in WriterType
  BY DEF PlaceInv, HTypes
<1>1. LookStays(r)
  BY <1>0, WriterNotes, LooksNote
<1>2. look'[r].slot # Empty /\ key'[look'[r].slot] = look'[r].k => TRUE \in look'[r].was
  <2>1. CASE look[r].slot # Empty
    <3>1. look[r].slot \in Slots
      BY <1>0, <2>1 DEF HTypes, LookType
    <3>2. PICK s \in Slots : s = look[r].slot
      BY <3>1
    <3>3. Kept(r, s) /\ InSection(r)
      BY <2>1, <3>2 DEF LookHolds, Kept
    <3>4. began' = began
      BY WriterLeaves DEF AddMoves, DeleteMoves, WriterMoves, WriterStep
    <3>5. key'[s] = key[s]
      BY <3>3, <3>4, KeptAdd, DeleteLeavesKeys
    <3>6. QED BY <1>1, <2>1, <3>2, <3>5 DEF LookStays, FoundRight
  <2>2. QED BY <1>1, <2>1 DEF LookStays
<1>3. ASSUME LAt(r, "idx")', Cleared(Here(r))', look'[r].k = w'.k
      PROVE  TRUE \in look'[r].was
  <2>1. w'.pc = "clear" /\ LAt(r, "idx")
    BY <1>1, <1>3 DEF Cleared, LookStays, LAt
  <2>2. ~AddMoves
    <3>1. Insert => w'.pc # "clear"
      <4>1. ASSUME NEW f, FoundWay(f)
            PROVE  w'.pc # "clear"
        BY <1>0, <4>1, AddMeans
      <4>2. QED BY <1>0, <4>1, InsertMeans DEF PlaceInv, Resting
    <3>2. QED BY <1>0, <2>1, <3>1, AddMeans DEF AddMoves, Resting
  <2>3. \E k \in Keys : DelKey(k)
    <3>1. w.then # "clear"
      BY <1>0 DEF WriterType
    <3>2. QED BY <1>0, <2>1, <2>2, <3>1, DeleteMeans DEF DeleteMoves, Resting
  <2>4. PICK k \in Keys : DelKey(k)
    BY <2>3
  <2>5. k \in stored /\ k = look[r].k
    BY <1>1, <1>3, <2>4, DeletedStored DEF LookStays
  <2>6. (look[r].k \in stored) \in look[r].was
    BY <2>1 DEF Was, LAt
  <2>7. TRUE \in look[r].was
    BY <2>5, <2>6, TruthIn
  <2>8. QED BY <1>1, <2>7 DEF LookStays
<1>4. QED BY <1>2, <1>3 DEF FoundRight

\* what it misses was not, as long as the counter is the same.
LEMMA MissedStays ==
  ASSUME PlaceInv, NEW r \in Lookers, LookHolds(r), Was(r), Was(r)', MissedRight(r),
         AddMoves \/ DeleteMoves
  PROVE  MissedRight(r)'
<1> SUFFICES ASSUME FALSE \notin look'[r].was
             PROVE  MissedRight(r)'
  BY DEF MissedRight
<1>0. HTypes /\ look[r] \in LookType /\ chng \in Nat /\ Entries \in Nat
  BY HashAssumption DEF PlaceInv, HTypes, TableTypes
<1>1. LookStays(r)
  BY <1>0, WriterNotes, LooksNote
<1>2. FALSE \notin look[r].was
  BY <1>1 DEF LookStays
<1>3. CASE look[r].pc = "none"
  BY <1>1, <1>3 DEF MissedRight, LookStays, LAt
<1>4. CASE look[r].pc # "none" /\ CountChange
  <2>1. chng' = chng + 1 /\ look'[r].cnt # chng'
    BY <1>0, <1>1, <1>4 DEF CountChange, LookStays, LookType
  <2>2. QED BY <1>1, <1>2, <2>1 DEF MissedRight, LookStays, LAt
<1>5. CASE look[r].pc # "none" /\ ~CountChange
  <2>1. chng' = chng
    BY <1>5 DEF AddMoves, AddKey, AllocSlot, WriteKey, Insert, StoreSig, StoreIdx,
     DeleteMoves, DelKey, ClearIdx, StartGrace, Synchronize, FreeSlot, Enqueue, ReclaimCall,
     Reclaim, Reclaimed
  <2>2. PICK k : k = look[r].k
    OBVIOUS
  <2>3. k \in stored /\ k \in stored' /\ k \in Keys /\ look'[r].k = k
    <3>1. (look[r].k \in stored) \in look[r].was
      BY <1>5 DEF Was
    <3>2. (look'[r].k \in stored') \in look'[r].was
      BY <1>1, <1>5 DEF Was, LookStays
    <3>3. look[r].k \in stored /\ look'[r].k \in stored'
      BY <1>2, <3>1, <3>2, TruthIn
    <3>4. QED BY <1>0, <1>1, <2>2, <3>3 DEF HTypes, TableTypes, LookStays
  <2>4. ASSUME NEW n, Ahead(r, n)
        PROVE  Ahead(r, n)'
    <3>1. n \in 1 .. 2 * Entries /\ Firm(PlaceAt(k, n), k)
      BY <2>2, <2>4 DEF Ahead
    <3>2. PlaceAt(k, n) \in Places
      BY <2>3, <3>1, PlaceIs
    <3>3. PICK p \in Places : p = PlaceAt(k, n)
      BY <3>2
    <3>4. Firm(p, k)'
      BY <1>5, <2>3, <3>1, <3>3, FirmAdd, FirmDelete
    <3>5. QED BY <2>3, <3>1, <3>3, <3>4 DEF Ahead
  <2>5. look[r].slot # Empty /\ key[look[r].slot] = look[r].k => key'[look[r].slot] = look[r].k
    <3>1. CASE AddMoves /\ look[r].slot # Empty
      <4>1. look[r].slot \in Slots
        BY <1>0, <3>1 DEF LookType
      <4>2. PICK s \in Slots : s = look[r].slot
        BY <4>1
      <4>3. Kept(r, s) /\ began' = began
        BY <3>1, <4>2, WriterLeaves DEF LookHolds, Kept, AddMoves, WriterMoves, WriterStep
      <4>4. key'[s] = key[s]
        BY <3>1, <4>3, KeptAdd
      <4>5. QED BY <4>2, <4>4
    <3>2. QED BY <3>1, DeleteLeavesKeys
  <2>6. look[r].pc = "key" => look[r].slot # Empty
    BY DEF LookHolds
  <2>7. QED BY <1>1, <1>2, <2>1, <2>4, <2>5, <2>6 DEF MissedRight, LookStays, LAt
<1>6. QED BY <1>3, <1>4, <1>5

\* The record a reader stores is right.
AheadRec(rec, n) == n \in 1 .. 2 * Entries /\ Firm(PlaceAt(rec.k, n), rec.k)
RecRight(rec) ==
  /\ rec.pc # "none" => (rec.k \in stored) \in rec.was
  /\ rec.slot # Empty /\ key[rec.slot] = rec.k => TRUE \in rec.was
  /\ rec.pc = "idx" /\ Cleared(PlaceAt(rec.k, rec.at)) /\ rec.k = w.k => TRUE \in rec.was
  /\ FALSE \notin rec.was =>
       /\ rec.pc # "missed"
       /\ rec.cnt = chng =>
            /\ rec.pc \in {"sig", "idx"} => \E n \in rec.at .. 2 * Entries : AheadRec(rec, n)
            /\ rec.pc = "key" => \/ key[rec.slot] = rec.k
                                 \/ \E n \in rec.at + 1 .. 2 * Entries : AheadRec(rec, n)
            /\ rec.pc # "end"

\* Right, of the record of a reader,
LEMMA RightIs ==
  ASSUME NEW r
  PROVE  Right(r) <=> RecRight(look[r])
BY DEF Right, Was, FoundRight, MissedRight, Ahead, AheadRec, RecRight, LAt, Here

\* and of the one it stores.
LEMMA RightStored ==
  ASSUME NEW r, NEW rec, look'[r] = rec, RecRight(rec),
         UNCHANGED <<sig, idx, key, chng, w, stored>>
  PROVE  Right(r)'
<1>1. \A p, k : Firm(p, k)' <=> Firm(p, k)
  BY DEF Firm, PlacesOf, Holds, Target
<1>2. \A n : Ahead(r, n)' <=> AheadRec(rec, n)
  BY <1>1 DEF Ahead, AheadRec
<1>3. Cleared(Here(r))' <=> Cleared(PlaceAt(rec.k, rec.at))
  BY DEF Cleared, Here
<1>4. Was(r)'
  BY DEF Was, RecRight
<1>5. FoundRight(r)'
  BY <1>3 DEF FoundRight, LAt, RecRight
<1>6. MissedRight(r)'
  BY <1>2 DEF MissedRight, LAt, RecRight
<1>7. QED BY <1>4, <1>5, <1>6 DEF Right

\* On to the next entry, when the key is not at this one.
LEMMA AdvanceRight ==
  ASSUME HTypes, NEW r \in Lookers, Was(r), look[r].pc \in {"sig", "idx", "key"},
         FALSE \notin look[r].was /\ look[r].cnt = chng =>
           \E n \in look[r].at + 1 .. 2 * Entries : Ahead(r, n)
  PROVE  RecRight(AdvanceRec(r))
<1>0. look[r] \in LookType /\ look[r].at \in 0 .. 2 * Entries /\ Entries \in Nat
  BY HashAssumption DEF HTypes, LookType
<1>1. PICK rec, at, pc : /\ rec = AdvanceRec(r)
                         /\ rec = [look[r] EXCEPT !.slot = Empty, !.at = at, !.pc = pc]
                         /\ at = (IF look[r].at < 2 * Entries THEN look[r].at + 1 ELSE look[r].at)
                         /\ pc = (IF look[r].at < 2 * Entries THEN "sig" ELSE "end")
  BY DEF AdvanceRec
<1>2. /\ rec.pc = pc /\ rec.at = at /\ rec.slot = Empty
      /\ rec.k = look[r].k /\ rec.cnt = look[r].cnt /\ rec.was = look[r].was
  BY <1>0, <1>1 DEF LookType
<1>3. (rec.k \in stored) \in rec.was
  BY <1>2 DEF Was
<1>4. \A n : AheadRec(rec, n) <=> Ahead(r, n)
  BY <1>2 DEF AheadRec, Ahead
<1>5. ASSUME FALSE \notin rec.was, rec.cnt = chng
      PROVE  pc = "sig" /\ \E n \in rec.at .. 2 * Entries : AheadRec(rec, n)
  <2>1. PICK n \in look[r].at + 1 .. 2 * Entries : Ahead(r, n)
    BY <1>2, <1>5
  <2>2. look[r].at < 2 * Entries
    BY <1>0, <2>1
  <2>3. QED BY <1>1, <1>2, <1>4, <2>1, <2>2
<1>6. pc \in {"sig", "end"}
  BY <1>1
<1>7. QED BY <1>1, <1>2, <1>3, <1>5, <1>6 DEF RecRight

\* A stored key can be found from the beginning.
LEMMA AheadAll ==
  ASSUME HTypes, StoredFirm, NEW k \in stored
  PROVE  \E n \in 1 .. 2 * Entries : Firm(PlaceAt(k, n), k)
<1>1. k \in Keys /\ Entries \in Nat \ {0}
  BY HashAssumption DEF HTypes, TableTypes
<1>2. PICK p \in Places : Firm(p, k)
  BY DEF StoredFirm
<1>3. PICK b \in Buckets, i \in 1 .. Entries : p = <<b, i>>
  BY DEF Places
<1>4. b \in {Prim[k], Sec(k)}
  BY <1>2, <1>3 DEF Firm, PlacesOf
<1>5. PlaceAt(k, i) = <<Prim[k], i>> /\ i \in 1 .. 2 * Entries
  BY <1>1 DEF PlaceAt
<1>6. PlaceAt(k, i + Entries) = <<Sec(k), i>> /\ i + Entries \in 1 .. 2 * Entries
  <2>1. ~(i + Entries <= Entries) /\ i + Entries - Entries = i /\ i + Entries \in 1 .. 2 * Entries
    BY <1>1
  <2>2. PICK j : j = i + Entries
    OBVIOUS
  <2>3. PlaceAt(k, j) = <<Sec(k), j - Entries>>
    BY <2>1, <2>2 DEF PlaceAt
  <2>4. j - Entries = i
    BY <1>1, <2>2
  <2>5. PlaceAt(k, j) = <<Sec(k), i>>
    BY <2>3, <2>4
  <2>6. QED BY <2>1, <2>2, <2>5
<1>7. QED BY <1>2, <1>3, <1>4, <1>5, <1>6

\* The only truth value of a set.
LEMMA TruthOnly ==
  ASSUME NEW x, NEW y, NEW s, NEW was, x = y, was = {(y \in s)}
  PROVE  (x \in s) \in was
<1>1. \A t : t \in {(y \in s)} <=> t = (y \in s)
  BY Zenon
<1>2. (y \in s) \in was
  BY <1>1, Zenon
<1>3. QED BY <1>2

\* A lookup that begins, or begins again.
LEMMA BeginRight ==
  ASSUME HTypes, StoredFirm, NEW rec, rec.pc = "sig", rec.slot = Empty, rec.at = 1,
         (rec.k \in stored) \in rec.was
  PROVE  RecRight(rec)
<1>1. FALSE \notin rec.was => rec.k \in stored
  BY TruthIn
<1>2. FALSE \notin rec.was => \E n \in 1 .. 2 * Entries : AheadRec(rec, n)
  BY <1>1, AheadAll DEF AheadRec
<1>3. QED BY <1>2 DEF RecRight

\* The steps of a lookup.
LEMMA StepRight ==
  ASSUME PlaceInv, NEW r \in Lookers, LookHolds(r), Right(r), LookStep(r),
         UNCHANGED <<sig, idx, key, chng, w, stored>>
  PROVE  Right(r)'
<1>0. /\ HTypes /\ look[r] \in LookType /\ look[r].at \in 0 .. 2 * Entries /\ Entries \in Nat
      /\ StoredFirm /\ ClearHolds /\ \A p \in Places : EntryHolds(p)
      /\ Was(r) /\ FoundRight(r) /\ MissedRight(r)
  BY HashAssumption DEF PlaceInv, HTypes, LookType, TableInv, Right
<1>1. ASSUME NEW rec, Looks(r, rec), RecRight(rec)
      PROVE  Right(r)'
  <2>1. look'[r] = rec
    BY <1>0, <1>1, LookMoves
  <2>2. QED BY <1>1, <2>1, RightStored
<1>2. look[r].pc \in {"sig", "idx", "key"} =>
        /\ Here(r) \in Places /\ look[r].at \in 1 .. 2 * Entries /\ look[r].k \in Keys
  BY <1>0, HereIs
<1>3. LAt(r, "sig") \/ LAt(r, "idx") \/ LAt(r, "end") \/ LAt(r, "again") => look[r].slot = Empty
  BY DEF LookHolds, LAt
<1>4. look[r].pc # "none" => (look[r].k \in stored) \in look[r].was
  BY <1>0 DEF Was
\* If the key is not here, it is ahead.
<1>5. ASSUME look[r].pc \in {"sig", "idx"}, ~Firm(Here(r), look[r].k), Looks(r, AdvanceRec(r))
      PROVE  Right(r)'
  <2>1. ASSUME FALSE \notin look[r].was, look[r].cnt = chng
        PROVE  \E n \in look[r].at + 1 .. 2 * Entries : Ahead(r, n)
    <3>1. PICK n \in look[r].at .. 2 * Entries : Ahead(r, n)
      BY <1>0, <1>5, <2>1 DEF MissedRight
    <3>2. n # look[r].at
      BY <1>5, <3>1 DEF Ahead, Here
    <3>3. QED BY <1>0, <3>1, <3>2
  <2>2. QED BY <1>0, <1>1, <1>5, <2>1, AdvanceRight
<1>6. CASE LAt(r, "sig") /\ sig[Here(r)] = Sig[look[r].k] /\ Looks(r, [look[r] EXCEPT !.pc = "idx"])
  <2>1. PICK rec : rec = [look[r] EXCEPT !.pc = "idx"]
    OBVIOUS
  <2>2. /\ rec.pc = "idx" /\ rec.k = look[r].k /\ rec.at = look[r].at /\ rec.slot = look[r].slot
        /\ rec.cnt = look[r].cnt /\ rec.was = look[r].was
    BY <1>0, <2>1 DEF LookType
  <2>3. ~Cleared(Here(r))
    <3>1. Sig[look[r].k] # NoSig
      BY <1>2, <1>6, Buckets2 DEF LAt
    <3>2. QED BY <1>0, <1>6, <3>1 DEF Cleared, ClearHolds
  <2>4. ~Cleared(PlaceAt(rec.k, rec.at))
    BY <2>2, <2>3 DEF Here
  <2>5. FALSE \notin rec.was /\ rec.cnt = chng => \E n \in rec.at .. 2 * Entries : AheadRec(rec, n)
    BY <1>0, <1>6, <2>2 DEF MissedRight, Ahead, AheadRec, LAt
  <2>6. RecRight(rec)
    BY <1>3, <1>4, <1>6, <2>2, <2>4, <2>5 DEF RecRight, LAt
  <2>7. QED BY <1>1, <1>6, <2>1, <2>6
<1>7. CASE LAt(r, "sig") /\ sig[Here(r)] # Sig[look[r].k] /\ Looks(r, AdvanceRec(r))
  <2>1. ~Firm(Here(r), look[r].k)
    BY <1>7 DEF Firm, PlacesOf, Holds
  <2>2. QED BY <1>5, <1>7, <2>1 DEF LAt
<1>8. CASE /\ LAt(r, "idx") /\ idx[Here(r)] # Empty
           /\ Looks(r, [look[r] EXCEPT !.pc = "key", !.slot = idx[Here(r)]])
  <2>1. PICK rec : rec = [look[r] EXCEPT !.pc = "key", !.slot = idx[Here(r)]]
    OBVIOUS
  <2>2. /\ rec.pc = "key" /\ rec.k = look[r].k /\ rec.at = look[r].at /\ rec.slot = idx[Here(r)]
        /\ rec.cnt = look[r].cnt /\ rec.was = look[r].was
    BY <1>0, <2>1 DEF LookType
  <2>3. ASSUME key[idx[Here(r)]] = look[r].k
        PROVE  TRUE \in look[r].was
    <3>1. CASE Cleared(Here(r))
      <4>1. look[r].k = w.k
        BY <1>0, <2>3, <3>1 DEF Cleared, ClearHolds
      <4>2. QED BY <1>0, <1>8, <3>1, <4>1 DEF FoundRight
    <3>2. CASE ~Cleared(Here(r))
      <4>1. Here(r) \in Places
        BY <1>2, <1>8 DEF LAt
      <4>2. look[r].k \in stored
        BY <1>0, <1>8, <2>3, <3>2, <4>1 DEF EntryHolds
      <4>3. QED BY <1>4, <1>8, <4>2, TruthIn DEF LAt
    <3>3. QED BY <3>1, <3>2
  <2>4. ASSUME FALSE \notin look[r].was, look[r].cnt = chng, key[idx[Here(r)]] # look[r].k
        PROVE  \E n \in look[r].at + 1 .. 2 * Entries : Ahead(r, n)
    <3>1. PICK n \in look[r].at .. 2 * Entries : Ahead(r, n)
      BY <1>0, <1>8, <2>4 DEF MissedRight, LAt
    <3>2. ~Firm(Here(r), look[r].k)
      BY <2>4 DEF Firm, PlacesOf, Holds
    <3>3. n # look[r].at
      BY <3>1, <3>2 DEF Ahead, Here
    <3>4. QED BY <1>0, <3>1, <3>3
  <2>5. FALSE \notin rec.was /\ rec.cnt = chng =>
          key[rec.slot] = rec.k \/ \E n \in rec.at + 1 .. 2 * Entries : AheadRec(rec, n)
    BY <2>2, <2>4 DEF Ahead, AheadRec
  <2>6. RecRight(rec)
    BY <1>4, <1>8, <2>2, <2>3, <2>5 DEF RecRight, LAt
  <2>7. QED BY <1>1, <1>8, <2>1, <2>6
<1>9. CASE LAt(r, "idx") /\ idx[Here(r)] = Empty /\ Looks(r, AdvanceRec(r))
  <2>1. ~Firm(Here(r), look[r].k)
    BY <1>9 DEF Firm, PlacesOf, Holds
  <2>2. QED BY <1>5, <1>9, <2>1 DEF LAt
<1>10. CASE /\ LAt(r, "key") /\ key[look[r].slot] = look[r].k
            /\ Looks(r, [look[r] EXCEPT !.pc = "found"])
  <2>1. PICK rec : rec = [look[r] EXCEPT !.pc = "found"]
    OBVIOUS
  <2>2. /\ rec.pc = "found" /\ rec.k = look[r].k /\ rec.slot = look[r].slot
        /\ rec.was = look[r].was
    BY <1>0, <2>1 DEF LookType
  <2>3. TRUE \in rec.was
    BY <1>0, <1>10, <2>2 DEF FoundRight, LAt, LookHolds
  <2>4. RecRight(rec)
    BY <1>4, <1>10, <2>2, <2>3 DEF RecRight, LAt
  <2>5. QED BY <1>1, <1>10, <2>1, <2>4
<1>11. CASE LAt(r, "key") /\ key[look[r].slot] # look[r].k /\ Looks(r, AdvanceRec(r))
  <2>1. FALSE \notin look[r].was /\ look[r].cnt = chng =>
          \E n \in look[r].at + 1 .. 2 * Entries : Ahead(r, n)
    BY <1>0, <1>11 DEF MissedRight
  <2>2. look[r].pc \in {"sig", "idx", "key"}
    BY <1>11 DEF LAt
  <2>3. RecRight(AdvanceRec(r))
    BY <1>0, <2>1, <2>2, AdvanceRight
  <2>4. QED BY <1>1, <1>11, <2>3
<1>12. ASSUME NEW pc \in {"missed", "again"}, LAt(r, "end"), Looks(r, [look[r] EXCEPT !.pc = pc]),
              pc = "missed" => look[r].cnt = chng
       PROVE  Right(r)'
  <2>1. PICK rec : rec = [look[r] EXCEPT !.pc = pc]
    OBVIOUS
  <2>2. /\ rec.pc = pc /\ rec.k = look[r].k /\ rec.slot = look[r].slot
        /\ rec.was = look[r].was
    BY <1>0, <2>1 DEF LookType
  <2>3. pc = "missed" => FALSE \in rec.was
    BY <1>0, <1>12, <2>2 DEF MissedRight
  <2>4. RecRight(rec)
    BY <1>3, <1>4, <1>12, <2>2, <2>3 DEF RecRight, LAt
  <2>5. QED BY <1>1, <1>12, <2>1, <2>4
<1>13. CASE LAt(r, "again") /\ Looks(r, [look[r] EXCEPT !.pc = "sig", !.cnt = chng, !.at = 1])
  <2>1. PICK rec : rec = [look[r] EXCEPT !.pc = "sig", !.cnt = chng, !.at = 1]
    OBVIOUS
  <2>2. /\ rec.pc = "sig" /\ rec.k = look[r].k /\ rec.at = 1 /\ rec.slot = look[r].slot
        /\ rec.was = look[r].was
    BY <1>0, <2>1 DEF LookType
  <2>3. (rec.k \in stored) \in rec.was
    BY <1>4, <1>13, <2>2 DEF LAt
  <2>4. RecRight(rec)
    BY <1>0, <1>3, <1>13, <2>2, <2>3, BeginRight
  <2>5. QED BY <1>1, <1>13, <2>1, <2>4
<1>14. \/ LAt(r, "sig") \/ LAt(r, "idx") \/ LAt(r, "key") \/ LAt(r, "end") \/ LAt(r, "again")
  BY DEF LookStep, CompareSig, LoadIdx, CompareKey, LoadChange, Again
<1>15. QED
  BY <1>0, <1>6, <1>7, <1>8, <1>9, <1>10, <1>11, <1>12, <1>13, LookStepMeans

\* Every step keeps the lookups right.
LEMMA LooksRightStep ==
  ASSUME PlaceInv, PassHolds, TokenGrows, \A r \in Lookers : LookHolds(r), LooksRight, [Next]_vars
  PROVE  LooksRight'
<1>1. SUFFICES ASSUME NEW r \in Lookers
               PROVE  Right(r)'
  BY DEF LooksRight, Right
<1>2. HTypes /\ StoredFirm /\ LookHolds(r) /\ Right(r) /\ Was(r) /\ FoundRight(r) /\ MissedRight(r)
  BY DEF PlaceInv, TableInv, LooksRight, Right
<1>3. CASE AddMoves \/ DeleteMoves
  <2>1. Was(r)'
    BY <1>2, <1>3, WasStays
  <2>2. FoundRight(r)'
    BY <1>2, <1>3, FoundStays
  <2>3. MissedRight(r)'
    BY <1>2, <1>3, <2>1, MissedStays
  <2>4. QED BY <2>1, <2>2, <2>3 DEF Right
<1>4. ASSUME look'[r] = look[r], UNCHANGED <<sig, idx, key, chng, w, stored>>
      PROVE  Right(r)'
  <2>1. PICK rec : rec = look[r]
    OBVIOUS
  <2>2. RecRight(rec)
    BY <1>2, <2>1, RightIs
  <2>3. QED BY <1>4, <2>1, <2>2, RightStored
<1>5. CASE UNCHANGED hvars
  BY <1>4, <1>5 DEF hvars
<1>6. ASSUME NEW q \in Lookers, ReaderMoves(q)
      PROVE  Right(r)'
  <2>1. UNCHANGED <<sig, idx, key, chng, w, stored>>
    BY <1>6, ReaderLeaves
  <2>2. CASE q # r
    <3>1. \/ look' = look
          \/ \E rec : Looks(q, rec)
      BY <1>2, <1>6, LeaveMeans, LookStepMeans, LookUpMeans DEF ReaderMoves, Other, hvars
    <3>2. look'[r] = look[r]
      BY <1>2, <2>2, <3>1, LookMoves
    <3>3. QED BY <1>4, <2>1, <3>2
  <2>3. CASE q = r
    <3>1. CASE Leave(r)
      <4>1. look'[r] = NoLook
        BY <1>2, <3>1, LeaveMeans, LookMoves
      <4>2. RecRight(NoLook)
        BY DEF RecRight, NoLook
      <4>3. QED BY <2>1, <4>1, <4>2, RightStored
    <3>2. CASE LookStep(r)
      BY <1>2, <2>1, <3>2, StepRight
    <3>3. ASSUME NEW k \in Sought, LookUp(r, k)
          PROVE  Right(r)'
      <4>1. PICK rec : rec = NewLook(k)
        OBVIOUS
      <4>2. look'[r] = rec
        BY <1>2, <3>3, <4>1, LookUpMeans, LookMoves
      <4>3. /\ rec.pc = "sig" /\ rec.k = k /\ rec.at = 1 /\ rec.slot = Empty
            /\ rec.was = {(k \in stored)}
        BY <4>1 DEF NewLook, NoLook
      <4>4. RecRight(rec)
        <5>1. (rec.k \in stored) \in rec.was
          BY <4>3, TruthOnly
        <5>2. QED BY <1>2, <4>3, <5>1, BeginRight
      <4>5. QED BY <2>1, <4>2, <4>4, RightStored
    <3>4. CASE Other(r)
      BY <1>5, <3>4 DEF Other
    <3>5. QED BY <1>6, <2>3, <3>1, <3>2, <3>3, <3>4 DEF ReaderMoves
  <2>4. QED BY <2>2, <2>3
<1>7. WriterMoves => AddMoves \/ DeleteMoves \/ UNCHANGED hvars
  BY DEF WriterMoves, WriterStep, AddMoves, DeleteMoves
<1>8. UNCHANGED vars => UNCHANGED hvars
  BY DEF vars
<1>9. QED BY <1>3, <1>5, <1>6, <1>7, <1>8, StepMeans

-----------------------------------------------------------------------------
\* The invariants that the runs check.

TableSafe == QInv /\ HInv

\* The whole invariant is inductive,
LEMMA SafeStep == TableSafe /\ [Next]_vars => TableSafe'
<1> SUFFICES ASSUME TableSafe, [Next]_vars
             PROVE  TableSafe'
  OBVIOUS
<1>1. PlaceInv /\ PassHolds /\ LooksRight /\ \A r \in Lookers : LookHolds(r)
  BY DEF TableSafe, HInv, PlaceInv
<1>2. PlaceInv'
  BY <1>1, PlaceStep
<1>3. TokenGrows
  <2>1. [QNext]_qvars /\ QTypeOK /\ QTypeOK'
    BY <1>1, <1>2, StepIsQ DEF PlaceInv, QInv, QTypes
  <2>2. token' = token \/ token' = token + 1
    BY <2>1 DEF QNext, ReaderStep, Register, CountRegistered, Unregister, CountUnregistered,
         OnlineLoad, OnlineStore, GoOffline, QuiescentLoad, QuiescentStore, Start, Check, Continue,
         CheckStep, CheckAcked, CheckNum, CheckBitmap, CheckThread, CheckDone, shared, qvars
  <2>3. QED BY <2>1, <2>2 DEF QTypeOK, TokenGrows, CntInit
<1>4. PassHolds'
  BY <1>1, <1>2, PassStep
<1>5. \A r \in Lookers : LookHolds(r)'
  BY <1>1, <1>3, LookHoldsStep
<1>6. LooksRight'
  BY <1>1, <1>3, LooksRightStep
<1>7. QED BY <1>2, <1>4, <1>5, <1>6 DEF TableSafe, HInv, PlaceInv

\* and holds at every moment.
LEMMA SafeAlways == Spec => []TableSafe
<1>1. HInit => TableSafe
  BY InitInv DEF TableSafe
<1>2. QED BY <1>1, SafeStep, PTL DEF Spec

\* The table uses the quiescent state variable as Qsbr says: one writer that
\* starts, checks and goes on, and readers that report.
THEOREM UsesQsbr == Spec => QSpec
<1>1. HInit => QInit
  BY DEF HInit
<1>2. TableSafe /\ [Next]_vars => [QNext]_qvars
  BY StepIsQ DEF TableSafe, HInv
<1>3. QED BY <1>1, <1>2, SafeAlways, PTL DEF Spec, QSpec

\* so that no check of the table's writer passes too early.
THEOREM TableGraceCorrect == Spec => GracePeriodOver
BY UsesQsbr, OneWriterGrace, WriterIs

\* The state of the table is of its type.
THEOREM HTypeCorrect == Spec => []HTypeOK
<1>1. TableSafe => HTypeOK
  <2> SUFFICES ASSUME TableSafe
               PROVE  HTypeOK
    OBVIOUS
  <2>1. HTypes /\ QTypeOK /\ w \in WriterType /\ token \in Nat
    BY DEF TableSafe, HInv, HTypes, QInv, QTypes, QTypeOK, CntInit
  <2>2. ToSet(free) \subseteq Slots
    BY <2>1 DEF HTypes, QueueTypes, ToSet
  <2>3. ToSet(dq) \subseteq [t : CntInit .. token, s : Slots]
    <3>1. [t : CntInit + 1 .. token, s : Slots] \subseteq [t : CntInit .. token, s : Slots]
      BY <2>1 DEF CntInit
    <3>2. DEFINE T == [t : CntInit + 1 .. token, s : Slots]
    <3>3. dq \in Seq(T)
      BY <2>1 DEF HTypes, QueueTypes
    <3> HIDE DEF T
    <3>4. \A i \in DOMAIN dq : dq[i] \in T
      BY <3>3
    <3>5. ToSet(dq) \subseteq T
      BY <3>4 DEF ToSet
    <3>6. QED BY <3>1, <3>5 DEF T
  <2>4. /\ w.k \in Keys \cup {NoKey} /\ w.slot \in Slots \cup {Empty}
        /\ w.path \in Seq(Places) /\ w.n \in Nat /\ w.tok \in 0 .. token
    BY <2>1 DEF WriterType
  <2>5. look \in [Lookers -> LookType]
    BY <2>1 DEF HTypes
  <2>6. QED BY <2>1, <2>2, <2>3, <2>4, <2>5 DEF HTypeOK, HTypes, TableTypes, LookType, LookPcs
<1>2. QED BY <1>1, SafeAlways, PTL

\* A stored key is in one of its two buckets at every moment.
THEOREM TableCorrect == Spec => []TableHolds
<1>1. TableSafe => TableHolds
  <2> SUFFICES ASSUME TableSafe, NEW k \in Keys
               PROVE  PlacesOf(k) # {} <=> k \in stored
    BY DEF TableHolds
  <2>1. HTypes /\ TableInv
    BY DEF TableSafe, HInv
  <2>2. ASSUME k \in stored
        PROVE  PlacesOf(k) # {}
    BY <2>1, <2>2 DEF TableInv, StoredFirm, Firm
  <2>3. ASSUME NEW p \in PlacesOf(k)
        PROVE  k \in stored
    <3>1. p \in Places /\ idx[p] # Empty /\ key[idx[p]] = k /\ sig[p] = Sig[k] /\ Sig[k] # NoSig
      BY Buckets2 DEF PlacesOf, Holds
    <3>2. ~Cleared(p)
      BY <2>1, <3>1 DEF TableInv, ClearHolds, Cleared
    <3>3. QED BY <2>1, <3>1, <3>2 DEF TableInv, EntryHolds
  <2>4. QED BY <2>2, <2>3
<1>2. QED BY <1>1, SafeAlways, PTL

\* How often a slot is in a sequence that has nothing twice.
LEMMA TimesIs ==
  ASSUME NEW f, Once(f), NEW s
  PROVE  Times(f, s) = IF Within(f, s) THEN 1 ELSE 0
<1> DEFINE I == {i \in DOMAIN f : f[i] = s}
<1>1. CASE Within(f, s)
  <2>1. PICK i \in DOMAIN f : f[i] = s
    BY <1>1 DEF Within
  <2>2. I = {i}
    BY <2>1 DEF Once
  <2>3. QED BY <1>1, <2>2, FS_Singleton DEF Times
<1>2. CASE ~Within(f, s)
  <2>1. I = {}
    BY <1>2 DEF Within
  <2>2. QED BY <1>2, <2>1, FS_EmptySet DEF Times
<1>3. QED BY <1>1, <1>2

\* Every key slot is in one place.
THEOREM SlotsCorrect == Spec => []SlotsConserved
<1>1. TableSafe => SlotsConserved
  <2> SUFFICES ASSUME TableSafe, NEW s \in Slots
               PROVE  Times(free, s) + Times(Ids(dq), s) + Copies(s) + WithWriter(s) = 1
    BY DEF SlotsConserved, Ids
  <2>1. SlotsApart /\ WriterHolds /\ SlotPlaced(s) /\ s # Empty
    BY DEF TableSafe, HInv, SlotsApart, Slots, Empty
  <2>2. Times(free, s) = (IF Within(free, s) THEN 1 ELSE 0)
        /\ Times(Ids(dq), s) = IF Within(Ids(dq), s) THEN 1 ELSE 0
    BY <2>1, TimesIs DEF SlotsApart
  <2>3. Copies(s) = IF InTable(s) THEN 1 ELSE 0
    BY DEF Copies, InTable
  <2>4. WithWriterOnly(s) => ~InTable(s)
    BY <2>1 DEF SlotPlaced
  <2>5. WithWriterOnly(s) <=> w.slot = s /\ w.pc \notin {"rest", "clear"} /\ ~InTable(s)
    <3>1. ASSUME w.slot = s, w.pc \notin {"rest", "clear"}
          PROVE  Holding
      BY <2>1, <3>1 DEF WriterHolds
    <3>2. Holding => w.pc \notin {"rest", "clear"}
      BY HoldingIs
    <3>3. QED BY <2>4, <3>1, <3>2 DEF WithWriterOnly
  <2>6. WithWriter(s) = IF WithWriterOnly(s) THEN 1 ELSE 0
    BY <2>5 DEF WithWriter, InTable
  <2>7. QED BY <2>1, <2>2, <2>3, <2>6 DEF SlotPlaced
<1>2. QED BY <1>1, SafeAlways, PTL

\* A slot that a reader has loaded is neither free nor written.
THEOREM PositionCorrect == Spec => []PositionStable
<1>1. TableSafe => PositionStable
  <2> SUFFICES ASSUME TableSafe, NEW r \in Lookers, look[r].slot # Empty
               PROVE  /\ look[r].slot \notin ToSet(free)
                      /\ ~(w.pc \in {"key", "insert"} /\ w.slot = look[r].slot)
                      /\ LAt(r, "found") => key[look[r].slot] = look[r].k
    BY DEF PositionStable
  <2>1. HTypes /\ LookHolds(r) /\ PlaceInv
    BY DEF TableSafe, HInv, PlaceInv
  <2>2. look[r].slot \in Slots
    BY <2>1 DEF HTypes, LookType
  <2>3. Kept(r, look[r].slot) /\ SlotPlaced(look[r].slot)
    BY <2>1, <2>2 DEF LookHolds, Kept, PlaceInv, SlotsApart
  <2>4. ~(w.pc \in {"key", "insert"} /\ w.slot = look[r].slot)
    BY <2>1, <2>2, <2>3, KeptApart, HoldingIs
  <2>5. ~Within(free, look[r].slot)
    <3>1. CASE InTable(look[r].slot)
      BY <2>3, <3>1 DEF SlotPlaced
    <3>2. CASE InDq(r, look[r].slot)
      <4>1. Within(Ids(dq), look[r].slot)
        BY <3>2 DEF InDq, Within, Ids
      <4>2. QED BY <2>3, <4>1 DEF SlotPlaced
    <3>3. CASE WithWriterRemoved(r, look[r].slot)
      <4>1. WithWriterOnly(look[r].slot)
        BY <3>3, HoldingIs DEF WithWriterRemoved, WithWriterOnly, Holding
      <4>2. QED BY <2>3, <4>1 DEF SlotPlaced
    <3>4. QED BY <2>3, <3>1, <3>2, <3>3, RemovedIs DEF Kept
  <2>6. look[r].slot \notin ToSet(free)
    BY <2>5 DEF ToSet, Within
  <2>7. QED BY <2>1, <2>4, <2>6 DEF LookHolds
<1>2. QED BY <1>1, SafeAlways, PTL

\* The answer of a lookup was right at some moment of it.
THEOREM LookupCorrect == Spec => []LookupRight
<1>1. TableSafe => LookupRight
  <2> SUFFICES ASSUME TableSafe, NEW r \in Lookers
               PROVE  /\ LAt(r, "missed") => FALSE \in look[r].was
                      /\ LAt(r, "found") => TRUE \in look[r].was
    BY DEF LookupRight
  <2>1. LookHolds(r) /\ FoundRight(r) /\ MissedRight(r)
    BY DEF TableSafe, HInv, LooksRight
  <2>2. LAt(r, "missed") => FALSE \in look[r].was
    BY <2>1 DEF MissedRight
  <2>3. LAt(r, "found") => look[r].slot # Empty /\ key[look[r].slot] = look[r].k
    BY <2>1 DEF LookHolds, LAt
  <2>4. QED BY <2>1, <2>2, <2>3 DEF FoundRight
<1>2. QED BY <1>1, SafeAlways, PTL
==============================================================================
