------------------------------ MODULE HashTable ------------------------------
(***************************************************************************)
(* rte_hash with lock-free readers (RTE_HASH_EXTRA_FLAGS_RW_CONCURRENCY_LF)*)
(* and the RCU of rte_hash_rcu_qsbr_add: one writer adds and deletes keys, *)
(* moving others out of the way, while readers compare signatures, load    *)
(* key indexes and compare keys.  A deleted key's slot is used again after *)
(* a grace period of Qsbr.  Each load and store a reader can tell from     *)
(* another is a step.  Without extendable buckets, and up to the position  *)
(* of a key: the data pointer beside it is left out.                       *)
(***************************************************************************)
EXTENDS Qsbr, SequencesExt

CONSTANTS
  writer,      \* the one thread that adds and deletes
  Lookers,     \* the registered readers; max_threads may be more
  Sought,      \* the keys they look up
  Keys, NoKey, \* NoKey: the content of a slot never written
  Buckets,     \* bucket indexes
  Entries,     \* RTE_HASH_BUCKET_ENTRIES
  NumKeySlots, \* num_key_slots: the entries and one
  Prim,        \* get_prim_bucket_index, a function of the key
  Sig,         \* get_short_sig, likewise
  Alt,         \* get_alt_bucket_index, a function of bucket and signature
  MaxReclaim,  \* max_reclaim_size
  Trigger      \* trigger_reclaim_limit

Slots == 1 .. NumKeySlots - 1    \* key indexes; "entry zero is reserved for key misses"
Empty == 0     \* EMPTY_SLOT
NoSig == 0     \* NULL_SIGNATURE

\* The alternative of the alternative bucket is the first one (an exclusive
\* or).  The defer queue holds every slot (params.size = total_entries).
ASSUME HashAssumption ==
  /\ Writers = {writer} /\ Lookers \subseteq Readers /\ Sought \subseteq Keys
  /\ Entries \in Nat \ {0} /\ MaxReclaim \in Nat \ {0} /\ Trigger \in Nat
  /\ NumKeySlots \in Nat /\ IsFiniteSet(Buckets)
  /\ NoKey \notin Keys /\ NoSig \notin {Sig[k] : k \in Keys}
  /\ Prim \in [Keys -> Buckets]
  /\ \A b \in Buckets, k \in Keys :
       Alt[<<b, Sig[k]>>] \in Buckets /\ Alt[<<Alt[<<b, Sig[k]>>], Sig[k]>>] = b

VARIABLES
  mode,      \* RTE_HASH_QSBR_MODE_SYNC or _DQ
  sig,       \* sig_current, by bucket and entry
  idx,       \* key_idx, by bucket and entry
  key,       \* the keys in the key store
  free,      \* the ring of free slots
  chng,      \* *tbl_chng_cnt
  dq,        \* the defer queue: tokens and slots
  w,         \* where the writer is
  look,      \* where each looker is
  stored     \* history: the keys that were added and not deleted since

hvars == <<mode, sig, idx, key, free, chng, dq, w, look, stored>>
vars == <<qvars, hvars>>

Places == Buckets \X (1 .. Entries)
Sec(k) == Alt[<<Prim[k], Sig[k]>>]

Resting == [pc |-> "rest", k |-> NoKey, slot |-> Empty, path |-> <<>>, n |-> 0, tok |-> 0,
            then |-> "rest"]
NoLook == [pc |-> "none", k |-> NoKey, cnt |-> 0, at |-> 0, slot |-> Empty, was |-> {}]

\* rte_hash_create and rte_hash_rcu_qsbr_add.
HInit ==
  /\ QInit
  /\ mode \in {"sync", "dq"}
  /\ sig = [p \in Places |-> NoSig] /\ idx = [p \in Places |-> Empty]
  /\ key = [s \in Slots |-> NoKey]
  /\ free = [s \in Slots |-> s]
  /\ chng = 0 /\ dq = <<>>
  /\ w = Resting /\ look = [r \in Lookers |-> NoLook]
  /\ stored = {}

\* Where k is: search_and_update and search_and_remove.
Holds(p, k) == sig[p] = Sig[k] /\ idx[p] # Empty /\ key[idx[p]] = k
PlacesOf(k) == {p \in Places : p[1] \in {Prim[k], Sec(k)} /\ Holds(p, k)}

At(pc) == w.pc = pc
Goto(pc) == w' = [w EXCEPT !.pc = pc]
Store(f, p, v) == [f EXCEPT ![p] = v]

\* The set of added keys becomes s; readers note what became of their key.
SetStored(s) ==
  /\ stored' = s
  /\ look' = [r \in Lookers |-> IF look[r].pc = "none" THEN NoLook
                ELSE [look[r] EXCEPT !.was = @ \cup {(look[r].k \in s)}]]
-----------------------------------------------------------------------------
\* __rte_hash_add_key_with_hash of a key that is not there: a slot first.
AddKey(k) ==
  /\ At("rest") /\ PlacesOf(k) = {}
  /\ w' = [Resting EXCEPT !.pc = "alloc", !.k = k]
  /\ UNCHANGED <<qvars, mode, sig, idx, key, free, chng, dq, look, stored>>

\* alloc_slot; when there is none, the defer queue is reclaimed and it is
\* tried once more.
AllocSlot ==
  /\ At("alloc") \/ At("retry")
  /\ \/ /\ free # <<>>
        /\ free' = Tail(free)
        /\ w' = [w EXCEPT !.pc = "key", !.slot = Head(free)]
     \/ /\ free = <<>>
        /\ w' = IF mode = "dq" /\ At("alloc")
                THEN [w EXCEPT !.pc = "reclaim", !.n = MaxReclaim, !.then = "retry"]
                ELSE Resting
        /\ UNCHANGED free
  /\ UNCHANGED <<qvars, mode, sig, idx, key, chng, dq, look, stored>>

WriteKey ==
  /\ At("key") /\ Goto("insert")
  /\ key' = [key EXCEPT ![w.slot] = w.k]
  /\ UNCHANGED <<qvars, mode, sig, idx, free, chng, dq, look, stored>>

\* Mutant of Ways: a way may end at an entry that is in use.
WaysAnywhere(b, n) ==
  {p \in [1 .. n -> Places] :
     p[1][1] = b /\ \A i \in 1 .. n - 1 : p[i + 1][1] = Alt[<<p[i][1], sig[p[i]]>>]}
\* A way to make space: places of which each next one is in the alternative
\* bucket of the entry before, up to an empty one.  The breadth-first search
\* of rte_hash_cuckoo_make_space_mw finds a shortest way.
Ways(b, n) ==
  {p \in [1 .. n -> Places] :
     /\ p[1][1] = b /\ idx[p[n]] = Empty
     /\ \A i \in 1 .. n - 1 : idx[p[i]] # Empty /\ p[i + 1][1] = Alt[<<p[i][1], sig[p[i]]>>]}
Lengths(b) == {n \in 1 .. Cardinality(Buckets) : Ways(b, n) # {}}
Shortest(b) == Ways(b, CHOOSE n \in Lengths(b) : \A m \in Lengths(b) : n <= m)

\* Mutant of Insert: a slot that could not be inserted is not given back.
InsertLeaks ==
  /\ At("insert")
  /\ \/ \E p \in Ways(Prim[w.k], 1) : w' = [w EXCEPT !.pc = "sig", !.path = p, !.n = 1]
     \/ Ways(Prim[w.k], 1) = {} /\ w' = Resting
  /\ UNCHANGED <<qvars, mode, sig, idx, key, free, chng, dq, look, stored>>

\* rte_hash_cuckoo_insert_mw: into the primary bucket if it has room.  Else
\* space is made in it, or in the secondary bucket, or the slot is given back.
Insert ==
  /\ At("insert")
  /\ LET b == IF Lengths(Prim[w.k]) # {} THEN Prim[w.k] ELSE Sec(w.k)
     IN IF Lengths(b) # {}
        THEN /\ \E p \in Shortest(b) :
                  w' = [w EXCEPT !.path = p, !.n = Len(p),
                          !.pc = IF Len(p) = 1 /\ b = Prim[w.k] THEN "sig" ELSE "count"]
             /\ UNCHANGED free
        ELSE w' = Resting /\ free' = Append(free, w.slot)
  /\ UNCHANGED <<qvars, mode, sig, idx, key, chng, dq, look, stored>>

\* rte_hash_cuckoo_move_insert_mw, from the end of the way to its beginning.
\* Before the entry of a place is overwritten, readers are told that the one
\* there was moved.
CountChange ==
  /\ At("count") /\ Goto("sig")
  /\ chng' = chng + 1
  /\ UNCHANGED <<qvars, mode, sig, idx, key, free, dq, look, stored>>

\* What is stored at place n of the way: the entry before, or the new one.
Target == w.path[w.n]
Moved == w.path[w.n - 1]
StoreSig ==
  /\ At("sig") /\ Goto("idx")
  /\ sig' = Store(sig, Target, IF w.n = 1 THEN Sig[w.k] ELSE sig[Moved])
  /\ UNCHANGED <<qvars, mode, idx, key, free, chng, dq, look, stored>>
StoreIdx ==
  /\ At("idx")
  /\ \/ /\ w.n = 1
        /\ idx' = Store(idx, Target, w.slot)
        /\ SetStored(stored \cup {w.k})
        /\ w' = Resting
     \/ /\ w.n > 1
        /\ idx' = Store(idx, Target, idx[Moved])
        /\ w' = [w EXCEPT !.pc = "count", !.n = @ - 1]
        /\ UNCHANGED <<look, stored>>
  /\ UNCHANGED <<qvars, mode, sig, key, free, chng, dq>>
-----------------------------------------------------------------------------
\* __rte_hash_del_key_with_hash: search_and_remove clears the signature, then
\* the index; the slot stays taken (no_free_on_del).
DelKey(k) ==
  /\ At("rest")
  /\ \E p \in PlacesOf(k) :
       /\ sig' = Store(sig, p, NoSig)
       /\ w' = [Resting EXCEPT !.pc = "clear", !.k = k, !.slot = idx[p], !.path = <<p>>]
  /\ SetStored(stored \ {k})
  /\ UNCHANGED <<qvars, mode, idx, key, free, chng, dq>>
ClearIdx ==
  /\ At("clear") /\ Goto("start")
  /\ idx' = Store(idx, w.path[1], Empty)
  /\ UNCHANGED <<qvars, mode, sig, key, free, chng, dq, look, stored>>

\* rte_rcu_qsbr_start, by rte_rcu_qsbr_synchronize or rte_rcu_qsbr_dq_enqueue.
\* A queue that is long is reclaimed before the enqueue.
StartGrace ==
  /\ At("start") /\ Start(writer)
  /\ w' = [w EXCEPT !.tok = token', !.n = MaxReclaim, !.then = "enqueue",
             !.pc = IF mode = "sync" THEN "check"
                    ELSE IF Len(dq) > Trigger THEN "reclaim" ELSE "enqueue"]
  /\ UNCHANGED <<mode, sig, idx, key, free, chng, dq, look, stored>>

\* rte_rcu_qsbr_synchronize waits; then the slot is free.
Synchronize ==
  /\ At("check") /\ Goto("wait")
  /\ Check(writer, w.tok, TRUE)
  /\ UNCHANGED <<mode, sig, idx, key, free, chng, dq, look, stored>>
FreeSlot ==
  /\ At("wait") /\ WAt(writer, "yes") /\ Continue(writer)
  /\ free' = Append(free, w.slot)
  /\ w' = Resting
  /\ UNCHANGED <<mode, sig, idx, key, chng, dq, look, stored>>

Enqueue ==
  /\ At("enqueue")
  /\ dq' = Append(dq, [t |-> w.tok, s |-> w.slot])
  /\ w' = Resting
  /\ UNCHANGED <<qvars, mode, sig, idx, key, free, chng, look, stored>>

\* rte_hash_rcu_qsbr_dq_reclaim, by the application.
ReclaimCall ==
  /\ At("rest") /\ mode = "dq"
  /\ w' = [Resting EXCEPT !.pc = "reclaim", !.n = MaxReclaim]
  /\ UNCHANGED <<qvars, mode, sig, idx, key, free, chng, dq, look, stored>>

\* Mutant of Reclaim: the head of the queue is freed without a check.
ReclaimUnchecked ==
  /\ At("reclaim")
  /\ \/ w.n # 0 /\ dq # <<>> /\ dq' = Tail(dq) /\ free' = Append(free, Head(dq).s)
        /\ w' = [w EXCEPT !.n = @ - 1]
     \/ (w.n = 0 \/ dq = <<>>) /\ Goto(w.then) /\ UNCHANGED <<dq, free>>
  /\ UNCHANGED <<qvars, mode, sig, idx, key, chng, look, stored>>

\* rte_rcu_qsbr_dq_reclaim: the oldest entries, as long as the check of their
\* tokens passes, at most n of them.
Reclaim ==
  /\ At("reclaim")
  /\ \/ w.n # 0 /\ dq # <<>> /\ Check(writer, Head(dq).t, FALSE) /\ Goto("ask")
     \/ (w.n = 0 \/ dq = <<>>) /\ Goto(w.then) /\ UNCHANGED qvars
  /\ UNCHANGED <<mode, sig, idx, key, free, chng, dq, look, stored>>
Reclaimed ==
  /\ At("ask") /\ Answered(writer) /\ Continue(writer)
  /\ \/ /\ WAt(writer, "yes")
        /\ dq' = Tail(dq) /\ free' = Append(free, Head(dq).s)
        /\ w' = [w EXCEPT !.pc = "reclaim", !.n = @ - 1]
     \/ /\ WAt(writer, "no")
        /\ Goto(w.then)
        /\ UNCHANGED <<dq, free>>
  /\ UNCHANGED <<mode, sig, idx, key, chng, look, stored>>
-----------------------------------------------------------------------------
\* __rte_hash_lookup_with_hash_lf: the primary bucket, then the secondary.
PlaceAt(k, n) == IF n <= Entries THEN <<Prim[k], n>> ELSE <<Sec(k), n - Entries>>
LAt(r, pc) == look[r].pc = pc
LGoto(r, pc) == look' = [look EXCEPT ![r].pc = pc]
Here(r) == PlaceAt(look[r].k, look[r].at)
Advance(r) ==
  look' = [look EXCEPT ![r].slot = Empty, ![r].at = IF @ < 2 * Entries THEN @ + 1 ELSE @,
             ![r].pc = IF look[r].at < 2 * Entries THEN "sig" ELSE "end"]
ReadOnly == UNCHANGED <<qvars, mode, sig, idx, key, free, chng, dq, w, stored>>

LookUp(r, k) ==
  /\ InSection(r) /\ LAt(r, "none")
  /\ look' = [look EXCEPT ![r] = [NoLook EXCEPT !.pc = "sig", !.k = k, !.cnt = chng, !.at = 1,
                                    !.was = {(k \in stored)}]]
  /\ ReadOnly

\* search_one_bucket_lf: signature, index, key.
CompareSig(r) ==
  /\ LAt(r, "sig")
  /\ IF sig[Here(r)] = Sig[look[r].k] THEN LGoto(r, "idx") ELSE Advance(r)
  /\ ReadOnly
LoadIdx(r) ==
  /\ LAt(r, "idx")
  /\ IF idx[Here(r)] # Empty
     THEN look' = [look EXCEPT ![r].pc = "key", ![r].slot = idx[Here(r)]]
     ELSE Advance(r)
  /\ ReadOnly
CompareKey(r) ==
  /\ LAt(r, "key")
  /\ IF key[look[r].slot] = look[r].k THEN LGoto(r, "found") ELSE Advance(r)
  /\ ReadOnly

\* Mutant of LoadChange: the counter is not looked at again.
LoadChangeNever(r) == LAt(r, "end") /\ LGoto(r, "missed") /\ ReadOnly
\* Nothing found: the answer stands if nothing was moved meanwhile.
LoadChange(r) ==
  /\ LAt(r, "end")
  /\ LGoto(r, IF look[r].cnt = chng THEN "missed" ELSE "again")
  /\ ReadOnly
Again(r) ==
  /\ LAt(r, "again")
  /\ look' = [look EXCEPT ![r].pc = "sig", ![r].cnt = chng, ![r].at = 1]
  /\ ReadOnly
LookStep(r) ==
  CompareSig(r) \/ LoadIdx(r) \/ CompareKey(r) \/ LoadChange(r) \/ Again(r)

\* A reader keeps the position it found until it reports a quiescent state.
Leave(r) ==
  /\ QuiescentLoad(r) \/ GoOffline(r)
  /\ look[r].pc \in {"none", "found", "missed"}
  /\ look' = [look EXCEPT ![r] = NoLook]
  /\ UNCHANGED <<mode, sig, idx, key, free, chng, dq, w, stored>>
Other(r) ==
  /\ \/ Register(r) \/ CountRegistered(r) \/ Unregister(r) \/ CountUnregistered(r)
     \/ OnlineLoad(r) \/ OnlineStore(r) \/ QuiescentStore(r)
  /\ UNCHANGED hvars
-----------------------------------------------------------------------------
WriterStep ==
  \/ AllocSlot \/ WriteKey \/ Insert \/ CountChange \/ StoreSig \/ StoreIdx
  \/ ClearIdx \/ StartGrace \/ Synchronize \/ FreeSlot \/ Enqueue \/ Reclaim \/ Reclaimed
  \/ CheckStep(writer) /\ UNCHANGED hvars

\* Deleting is bounded by the tokens explored.
Next ==
  \/ \E k \in Keys : AddKey(k) \/ (token + 1 < CntMax /\ DelKey(k))
  \/ ReclaimCall \/ WriterStep
  \/ \E r \in Lookers :
       Leave(r) \/ Other(r) \/ LookStep(r) \/ \E k \in Sought : LookUp(r, k)

\* Threads inside a function go on; a reader that is done with what it found
\* reports a quiescent state or goes offline.
GoOn(r) ==
  \/ LookStep(r) \/ Leave(r)
  \/ UNCHANGED hvars /\ (CountRegistered(r) \/ CountUnregistered(r)
                            \/ OnlineStore(r) \/ QuiescentStore(r))
Fairness == WF_vars(WriterStep) /\ \A r \in Lookers : WF_vars(GoOn(r))

Spec == HInit /\ [][Next]_vars /\ Fairness
-----------------------------------------------------------------------------
HTypeOK ==
  /\ QTypeOK
  /\ mode \in {"sync", "dq"}
  /\ sig \in [Places -> {NoSig} \cup {Sig[k] : k \in Keys}]
  /\ idx \in [Places -> Slots \cup {Empty}] /\ key \in [Slots -> Keys \cup {NoKey}]
  /\ ToSet(free) \subseteq Slots /\ ToSet(dq) \subseteq [t : CntInit .. token, s : Slots]
  /\ chng \in Nat /\ stored \subseteq Keys
  /\ w.k \in Keys \cup {NoKey} /\ w.slot \in Slots \cup {Empty}
  /\ w.path \in Seq(Places) /\ w.n \in Nat /\ w.tok \in 0 .. token
  /\ look \in [Lookers ->
       [pc : {"none", "sig", "idx", "key", "found", "end", "again", "missed"},
        k : Keys \cup {NoKey}, cnt : 0 .. chng, at : 0 .. 2 * Entries,
        slot : Slots \cup {Empty}, was : SUBSET BOOLEAN]]

\* At every moment, also while it is moved, a stored key is in one of its two
\* buckets with its signature, and nothing else is (search_and_update,
\* rte_hash_cuckoo_move_insert_mw).
TableHolds == \A k \in Keys : PlacesOf(k) # {} <=> k \in stored

\* The answer of a lookup was right at some moment between its call and its
\* return: a key that was in the table throughout is found however often it
\* is moved from bucket to bucket, one that never was is not.
LookupRight ==
  \A r \in Lookers : /\ LAt(r, "missed") => FALSE \in look[r].was
                     /\ LAt(r, "found") => TRUE \in look[r].was

\* A key slot a reader loaded stays what it was until the reader reports a
\* quiescent state: deleted or not, it is neither free nor written.
PositionStable ==
  \A r \in Lookers : look[r].slot # Empty =>
    /\ look[r].slot \notin ToSet(free)
    /\ ~(w.pc \in {"key", "insert"} /\ w.slot = look[r].slot)
    /\ LAt(r, "found") => key[look[r].slot] = look[r].k

\* Every slot is free, in use, deferred or with the writer, and once only: none
\* leaks when an insertion fails or a queue is reclaimed in parts.
Times(f, s) == Cardinality({i \in DOMAIN f : f[i] = s})
Copies(s) == IF \E p \in Places : idx[p] = s THEN 1 ELSE 0
WithWriter(s) ==
  IF w.slot = s /\ w.pc \notin {"rest", "clear"} /\ ~\E p \in Places : idx[p] = s THEN 1 ELSE 0
SlotsConserved ==
  \A s \in Slots : Times(free, s) + Times([i \in DOMAIN dq |-> dq[i].s], s)
                     + Copies(s) + WithWriter(s) = 1

\* rte_hash_del_key that waits for the readers returns, if they go on reporting
\* quiescent states.
CallsReturn == At("wait") ~> At("rest")
=============================================================================
