------------------------------ MODULE Mempool ------------------------------
(***************************************************************************)
(* Getting from and putting into an rte_mempool: per-lcore caches in front *)
(* of a backend that all lcores share.  The backend is a ring, whose bulk  *)
(* operations take effect at one moment (Ring implements RingFifo); the    *)
(* work on a cache between two of them is seen by its own lcore only.      *)
(* An object in use may be put by another thread than the one that got it. *)
(***************************************************************************)
EXTENDS Integers, FiniteSets, SequencesExt

CONSTANTS
  Objects,      \* the elements of the pool
  Cached,       \* the lcores: threads with a cache
  Others,       \* threads without: LCORE_ID_ANY
  CacheMax,     \* RTE_MEMPOOL_CACHE_MAX_SIZE
  Size,         \* cache->size
  MaxBatch      \* bound on the objects of a call

Threads == Cached \cup Others
Flush == (Size * 3) \div 2     \* cache->flushthresh

\* rte_mempool_create_empty refuses anything else.
ASSUME MempoolAssumption ==
  /\ Cached \cap Others = {} /\ IsFiniteSet(Cached) /\ IsFiniteSet(Others)
  /\ CacheMax \in Nat /\ Size \in 1 .. CacheMax /\ MaxBatch \in Nat
  /\ IsFiniteSet(Objects) /\ Flush <= Cardinality(Objects)

VARIABLES
  backend,  \* the ring that all threads share, first in first out
  objs,     \* cache->objs, up to the last entry that may still be read
  len,      \* cache->len
  pc,       \* where a get is: before a refill of the cache or a direct dequeue
  want,     \* its n
  table,    \* obj_table, as far as it is filled
  held      \* the objects the application has

mvars == <<backend, objs, len, pc, want, table, held>>
call == <<pc, want, table>>

Least(a, b) == IF a <= b THEN a ELSE b
Remaining(t) == want[t] - Len(table[t])
Prefix(s, n) == SubSeq(s, 1, n)
Rest(s, n) == SubSeq(s, n + 1, Len(s))

\* rte_mempool_create and rte_mempool_populate: everything is in the backend.
MInit ==
  /\ backend \in {s \in [1 .. Cardinality(Objects) -> Objects] : ToSet(s) = Objects}
  /\ objs = [t \in Threads |-> <<>>] /\ len = [t \in Threads |-> 0]
  /\ pc = [t \in Threads |-> "idle"] /\ want = [t \in Threads |-> 0]
  /\ table = [t \in Threads |-> <<>>]
  /\ held = {}

\* The cache of t becomes s, all of it in use.
SetCache(t, s) == objs' = [objs EXCEPT ![t] = s] /\ len' = [len EXCEPT ![t] = Len(s)]

\* The call of t ends and gives the application the objects of s.
Return(t, s) ==
  /\ held' = held \cup ToSet(s)
  /\ pc' = [pc EXCEPT ![t] = "idle"] /\ want' = [want EXCEPT ![t] = 0]
  /\ table' = [table EXCEPT ![t] = <<>>]
-----------------------------------------------------------------------------
\* Mutant of Continue: a request larger than a cache is used to fill it, too.
ContinueUnbounded(t, n, taken) ==
  /\ pc' = [pc EXCEPT ![t] = IF t \in Cached THEN "fill" ELSE "direct"]
  /\ want' = [want EXCEPT ![t] = n] /\ table' = [table EXCEPT ![t] = taken]

\* What is left of the request is fetched with a refill, if that fits objs.
Continue(t, n, taken) ==
  /\ pc' = [pc EXCEPT ![t] =
       IF t \in Cached /\ n - Len(taken) <= CacheMax THEN "fill" ELSE "direct"]
  /\ want' = [want EXCEPT ![t] = n] /\ table' = [table EXCEPT ![t] = taken]

\* rte_mempool_do_generic_get up to the first use of the backend.  The cache
\* is a stack; the entries above len stay where they are.
Get(t, n) ==
  LET left == len[t] - Least(n, len[t])
      taken == Reverse(Rest(objs[t], left))
  IN /\ pc[t] = "idle"
     /\ IF Len(taken) = n
        THEN SetCache(t, Prefix(objs[t], left)) /\ Return(t, taken)
        ELSE /\ len' = [len EXCEPT ![t] = left]
             /\ Continue(t, n, taken)
             /\ UNCHANGED <<objs, held>>
     /\ UNCHANGED backend

\* Mutant of Fill: the objects handed out stay in the cache.
FillKeepsAll(t) ==
  LET all == Size + Remaining(t)
      fetched == Prefix(backend, all)
  IN /\ pc[t] = "fill"
     /\ IF all <= Len(backend)
        THEN /\ backend' = Rest(backend, all)
             /\ SetCache(t, fetched)
             /\ Return(t, table[t] \o Reverse(Rest(fetched, Size)))
        ELSE /\ pc' = [pc EXCEPT ![t] = "direct"]
             /\ UNCHANGED <<backend, objs, len, want, table, held>>

\* The refill: size entries for the cache, above them what is still wanted.
Fill(t) ==
  LET all == Size + Remaining(t)
      fetched == Prefix(backend, all)
  IN /\ pc[t] = "fill"
     /\ IF all <= Len(backend)
        THEN /\ backend' = Rest(backend, all)
             /\ SetCache(t, Prefix(fetched, Size))
             /\ Return(t, table[t] \o Reverse(Rest(fetched, Size)))
        ELSE /\ pc' = [pc EXCEPT ![t] = "direct"]
             /\ UNCHANGED <<backend, objs, len, want, table, held>>

\* Mutants of Direct: the whole request once more; no roll-back of the cache.
DirectWhole(t) ==
  LET n == want[t] IN
  /\ pc[t] = "direct"
  /\ IF n <= Len(backend)
     THEN /\ backend' = Rest(backend, n)
          /\ SetCache(t, Prefix(objs[t], len[t]))
          /\ Return(t, table[t] \o Prefix(backend, n))
     ELSE /\ SetCache(t, Prefix(objs[t], want[t] - Remaining(t)))
          /\ Return(t, <<>>)
          /\ UNCHANGED backend
DirectNoRollback(t) ==
  LET n == Remaining(t) IN
  /\ pc[t] = "direct"
  /\ IF n <= Len(backend)
     THEN /\ backend' = Rest(backend, n)
          /\ SetCache(t, Prefix(objs[t], len[t]))
          /\ Return(t, table[t] \o Prefix(backend, n))
     ELSE /\ SetCache(t, Prefix(objs[t], len[t]))
          /\ Return(t, <<>>)
          /\ UNCHANGED backend

\* driver_dequeue: the rest of the request only.  If there is not enough, what
\* was taken from the cache is still in it, and len is set back.
Direct(t) ==
  LET n == Remaining(t) IN
  /\ pc[t] = "direct"
  /\ IF n <= Len(backend)
     THEN /\ backend' = Rest(backend, n)
          /\ SetCache(t, Prefix(objs[t], len[t]))
          /\ Return(t, table[t] \o Prefix(backend, n))
     ELSE /\ SetCache(t, Prefix(objs[t], want[t] - n))
          /\ Return(t, <<>>)
          /\ UNCHANGED backend
-----------------------------------------------------------------------------
\* rte_mempool_do_generic_put of the objects in s: on top of the cache, or in
\* the cache after it was flushed, or past it.
Put(t, s) ==
  /\ pc[t] = "idle"
  /\ held' = held \ ToSet(s)
  /\ IF t \in Cached /\ len[t] + Len(s) <= Flush
     THEN SetCache(t, objs[t] \o s) /\ UNCHANGED backend
     ELSE IF t \in Cached /\ Len(s) <= Flush
     THEN SetCache(t, s) /\ backend' = backend \o objs[t]
     ELSE backend' = backend \o s /\ UNCHANGED <<objs, len>>
  /\ UNCHANGED call

\* rte_mempool_cache_flush.
CacheFlush(t) ==
  /\ pc[t] = "idle" /\ len[t] # 0
  /\ backend' = backend \o objs[t]
  /\ SetCache(t, <<>>)
  /\ UNCHANGED <<call, held>>

Tables == UNION {{s \in [1 .. n -> held] : IsInjective(s)} : n \in 1 .. MaxBatch}

MNext ==
  \E t \in Threads :
    \/ \E n \in 1 .. MaxBatch : Get(t, n)
    \/ Fill(t) \/ Direct(t)
    \/ \E s \in Tables : Put(t, s)
    \/ CacheFlush(t)

MSpec == MInit /\ [][MNext]_mvars
-----------------------------------------------------------------------------
MTypeOK ==
  /\ backend \in Seq(Objects) /\ held \in SUBSET Objects
  /\ objs \in [Threads -> Seq(Objects)] /\ table \in [Threads -> Seq(Objects)]
  /\ len \in [Threads -> 0 .. Flush]
  /\ pc \in [Threads -> {"idle", "fill", "direct"}] /\ want \in [Threads -> 0 .. MaxBatch]

\* Every object is in exactly one place - the backend, a cache, the table of a
\* get under way, or the application: none is lost, none handed out twice, on
\* any path of rte_mempool_do_generic_get and _put, failures included.
Times(s, o) == Cardinality({i \in DOMAIN s : s[i] = o})
Places(o) ==
  Times(backend, o) + (IF o \in held THEN 1 ELSE 0)
  + SumFunction([t \in Threads |-> Times(Prefix(objs[t], len[t]), o) + Times(table[t], o)])
EachObjectOnce == \A o \in Objects : Places(o) = 1

\* objs[] has room for what a refill stores and for what a put may leave
\* (RTE_MEMPOOL_CACHE_MAX_SIZE * 2 entries): the test that a request is not
\* too large comes before the refill, and thresholds before every put.
CacheWithinArray ==
  \A t \in Cached : /\ len[t] <= Flush /\ Len(objs[t]) <= 2 * CacheMax
                    /\ pc[t] = "fill" => Size + Remaining(t) <= 2 * CacheMax

\* A get gives the application all n objects or none, though it collects them
\* from the cache and from the backend.
GetAllOrNothing ==
  [][\A t \in Threads : pc[t] # "idle" /\ pc'[t] = "idle" =>
       held' = held \/ Cardinality(held' \ held) = want[t]]_mvars

\* A get fails only when n objects are not in the backend and the caller's
\* own cache, and leaves that cache as it was ("no object is retrieved").
Fails(t) == pc[t] = "direct" /\ pc'[t] = "idle" /\ held' = held
FailsOnlyWhenShort ==
  [][\A t \in Threads : Fails(t) =>
       /\ Len(backend) + Len(objs[t]) < want[t]
       /\ t \in Cached => objs'[t] = objs[t] /\ len'[t] = Len(objs[t])]_mvars
=============================================================================
