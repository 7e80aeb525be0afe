----------------------------- MODULE QosShared -----------------------------
(***************************************************************************)
(* dp_qos_apply as the lcores of main.c run it: no lock protects a bucket, *)
(* so each load and store of the bucket is a step of its own.  Serves says *)
(* which tenants' packets an lcore receives.  Adjacent loads that follow   *)
(* one another without a store between them are one step.                  *)
(*                                                                         *)
(* The accesses race, which C leaves undefined: where the source reads     *)
(* tokens_bytes again, the build may use the memory or the register it     *)
(* still has.                                                              *)
(***************************************************************************)
EXTENDS Qos

CONSTANTS Lcores, Serves

ASSUME SharedAssumption == Serves \in [Lcores -> SUBSET Tenants]

VARIABLES
  lcore,     \* what each lcore has in its registers, and where it is
  raced,     \* history: the tenants on which two calls have overlapped
  kept       \* history: each of them as it was when that first happened

overlap == <<raced, kept>>
svars == <<vars, lcore, overlap>>

Idle == [pc |-> "idle"]
SInit ==
  /\ Init
  /\ lcore = [l \in Lcores |-> Idle]
  /\ raced = {}
  /\ kept = [t \in Tenants |-> [bucket |-> tenants[t], admitted |-> 0, since |-> 0,
                                handled |-> 0]]

\* The bucket lcore l works on, and a step of l from pc to another.
T(l) == lcore[l].a.tenant_id
Mem(l) == tenants[T(l)]
At(l, pc) == lcore[l].pc = pc
Goto(l, pc) == lcore' = [lcore EXCEPT ![l].pc = pc]
Untouched == UNCHANGED <<policies, policy_count, running, tsc>>
Unfinished == Untouched /\ UNCHANGED history
Store(l, field, value) == tenants' = [tenants EXCEPT ![T(l)][field] = value]

\* A bucket changes when the packet is decided: until then it is as found.
Busy(t) == {l \in Lcores : ~At(l, "idle") /\ T(l) = t}

Settled ==
  [t \in Tenants |-> IF Busy(t) = {} THEN tenants[t]
                     ELSE lcore[CHOOSE l \in Busy(t) : TRUE].before]

\* What is seen of each tenant: nothing new once two calls have overlapped on it.
Seen ==
  [t \in Tenants |->
     IF t \in raced THEN kept[t]
     ELSE [bucket |-> Settled[t], admitted |-> admitted[t], since |-> since[t],
           handled |-> handled[t]]]

\* A call begins on tenant t: does it overlap another?
Begins(t) ==
  IF Busy(t) = {} THEN UNCHANGED overlap
  ELSE raced' = raced \cup {t} /\ kept' = [kept EXCEPT ![t] = Seen[t]]

\* now = rte_rdtsc().  before: the bucket as the packet found it (history).
Stamp(l, a, len) ==
  /\ running /\ At(l, "idle")
  /\ a.tenant_id \in Serves[l]
  /\ handled[a.tenant_id] < MaxPackets
  /\ lcore' = [lcore EXCEPT ![l] =
                 [pc |-> "last", a |-> a, len |-> len, now |-> tsc, last |-> 0,
                  tokens |-> 0, rate |-> 0, before |-> tenants[a.tenant_id]]]
  /\ Begins(a.tenant_id)
  /\ UNCHANGED tenants /\ Unfinished

LoadLast(l) ==
  /\ At(l, "last")
  /\ lcore' = [lcore EXCEPT ![l].last = Mem(l).last_tsc,
                            ![l].tokens = Mem(l).tokens_bytes,
                            ![l].rate = Mem(l).rate_limit_bps,
                            ![l].pc = IF Mem(l).last_tsc # 0 THEN "refill" ELSE "stamp"]
  /\ UNCHANGED tenants /\ Unfinished

\* tokens_bytes += dp_qos_rate_to_tokens(...): the delta is a word, and wraps
\* when another lcore has stored a later stamp.
StoreRefill(l) ==
  /\ At(l, "refill")
  /\ LET new == Refilled([tokens_bytes   |-> lcore[l].tokens,
                          last_tsc       |-> lcore[l].last,
                          rate_limit_bps |-> lcore[l].rate], lcore[l].now)
     IN /\ Store(l, "tokens_bytes", new)
        /\ lcore' = [lcore EXCEPT ![l].tokens = new, ![l].pc = "stamp"]
  /\ Unfinished

\* Mutant of StoreStamp: the stamp stays where it was.
StoreStampLost(l) ==
  /\ At(l, "stamp")
  /\ Goto(l, "rate")
  /\ UNCHANGED tenants /\ Unfinished

StoreStamp(l) ==
  /\ At(l, "stamp")
  /\ Store(l, "last_tsc", lcore[l].now)
  /\ Goto(l, "rate")
  /\ Unfinished

StoreRate(l) ==
  /\ At(l, "rate")
  /\ Store(l, "rate_limit_bps",
           EffectiveRate(lcore[l].a.rate_limit_bps, PolicyRate(lcore[l].a.policy_id),
                         Mem(l).rate_limit_bps))
  /\ Goto(l, "check")
  /\ Unfinished

\* The packet is decided: bytes says how many are let through.
Finish(l, bytes) ==
  /\ lcore' = [lcore EXCEPT ![l] = Idle]
  /\ admitted' = [admitted EXCEPT ![T(l)] = @ + bytes]
  /\ since' = [since EXCEPT ![T(l)] = IF lcore[l].before.last_tsc = 0 /\ @ = 0
                                      THEN lcore[l].now ELSE @]
  /\ handled' = [handled EXCEPT ![T(l)] = @ + 1]
  /\ Untouched

Check(l) ==
  /\ At(l, "check")
  /\ UNCHANGED tenants
  /\ \E tokens \in {Mem(l).tokens_bytes, lcore[l].tokens} :
       \/ tokens < lcore[l].len /\ Finish(l, 0)
       \/ /\ tokens >= lcore[l].len
          /\ lcore' = [lcore EXCEPT ![l].tokens = tokens, ![l].pc = "take"]
          /\ Unfinished

Take(l) ==
  /\ At(l, "take")
  /\ \E tokens \in {Mem(l).tokens_bytes, lcore[l].tokens} :
       Store(l, "tokens_bytes", (tokens - lcore[l].len) % U64)
  /\ Finish(l, lcore[l].len)

Step(l) == LoadLast(l) \/ StoreRefill(l) \/ StoreStamp(l) \/ StoreRate(l) \/ Check(l) \/ Take(l)

SNext ==
  \/ \E l \in Lcores : Step(l) /\ UNCHANGED overlap
  \/ \E l \in Lcores, a \in Actions, len \in Lens : Stamp(l, a, len)
  \/ /\ UNCHANGED <<lcore, overlap>>
     /\ \/ \E a \in Actions : UpdatePolicy(a.policy_id, a.rate_limit_bps)
        \/ Start
        \/ Tick

SSpec == SInit /\ [][SNext]_svars
-----------------------------------------------------------------------------
SeenBuckets == [t \in Tenants |-> Seen[t].bucket]
SeenAdmitted == [t \in Tenants |-> Seen[t].admitted]
SeenSince == [t \in Tenants |-> Seen[t].since]
SeenHandled == [t \in Tenants |-> Seen[t].handled]

Atomic == INSTANCE Qos WITH tenants  <- SeenBuckets, admitted <- SeenAdmitted,
                            since    <- SeenSince,   handled  <- SeenHandled

\* The loads and stores of dp_qos_apply implement the atomic bucket of Qos, for
\* each tenant up to the moment two lcores first work on its bucket at once -
\* lcores may take turns on a bucket as they like.
ImplementsQos == Atomic!Spec

\* "Each tenant maintains a token-bucket with rate in bps" (docs/dataplane.md):
\* what a tenant is let through, by all lcores together, stays within its burst
\* and the highest rate since the counter started (dp_qos_apply on two lcores).
SharedAdmissionBound ==
  \A t \in Tenants : Busy(t) = {} =>
    Hz * admitted[t] <= Hz * (DefaultRate \div 8) + (MaxRate \div 8) * tsc
=============================================================================
