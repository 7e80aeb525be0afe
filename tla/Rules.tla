------------------------------- MODULE Rules -------------------------------
(***************************************************************************)
(* The control plane of tenant-qos and the classifier it fills: the rule   *)
(* file (controlplane/cli.c), the flow table (dataplane/classify.c over    *)
(* rte_hash) and the policy table (dp_qos_update_policy), then the parsing *)
(* and the lookup of a packet.                                             *)
(*                                                                         *)
(* Of rte_hash: a new key takes the slot at the head of the ring of free   *)
(* slots; if no bucket has room for it, the slot goes back to the tail.    *)
(* Which keys collide is left open: any new key may find no room.          *)
(*                                                                         *)
(* ports stands for every number of a rule that is narrowed when the key   *)
(* is built: 16 bits of a port, 8 bits of an address byte or protocol.     *)
(***************************************************************************)
EXTENDS Parse, Sequences, FiniteSets

CONSTANTS
  Lines,         \* the lines rule files consist of
  Packets,       \* the packets received
  MaxRules,      \* config->max_rules, the entries of the hash
  MaxPolicies,   \* DP_MAX_POLICIES
  PortWords,     \* one more than the largest port
  MaxLines,      \* bound on the length of the file
  NoSlot, NoAction, Skipped

Slots == 0 .. MaxRules - 1

ASSUME RulesAssumption ==
  /\ MaxRules \in Nat \ {0} /\ MaxPolicies \in Nat \ {0} /\ PortWords \in Nat \ {0}
  /\ MaxLines \in Nat /\ NoSlot \notin Slots

RuleLines == Lines \ {Skipped}
Key(line) == [addr |-> line.addr, proto |-> line.proto, ports |-> line.ports % PortWords]
Action(line) == [tenant_id |-> line.tenant, policy_id |-> line.policy, rate |-> line.rate]
Keys == {Key(line) : line \in RuleLines}
Nothing == [pkt |-> NoAction, action |-> NoAction]

\* dp_parse_rule_line reads unsigned numbers; lengths are words and the IHL is
\* a nibble.
ASSUME InputAssumption ==
  /\ \A line \in RuleLines : {line.ports, line.policy, line.rate} \subseteq Nat
  /\ \A p \in Packets : p.len \in Nat /\ p.ihl \in 0 .. 15
  /\ NoAction \notin Packets \cup {Action(line) : line \in RuleLines}

VARIABLES
  loading,       \* the file is being read
  lines,         \* lines read
  slot,          \* the hash: a key's slot, NoSlot if absent
  free_slots,    \* the ring of free slots
  actions,       \* classifier->actions[]
  policies, policy_count,
  accepted,      \* history: the rules that were loaded, in order
  verdict        \* the packet received, and what became of it

table == <<slot, free_slots, actions>>
vars == <<loading, lines, table, policies, policy_count, accepted, verdict>>

\* dp_classify_init and dp_qos_init.
Init ==
  /\ loading = TRUE /\ lines = 0
  /\ slot = [k \in Keys |-> NoSlot]
  /\ free_slots = [i \in 1 .. MaxRules |-> i - 1]
  /\ actions = [i \in Slots |-> NoAction]
  /\ policies = [i \in 0 .. MaxPolicies - 1 |-> 0] /\ policy_count = 0
  /\ accepted = <<>>
  /\ verdict = Nothing

\* Mutants of UpdatePolicy: the id is not tested; the first rate of a policy stays.
UpdatePolicyNoBound(id, rate) ==
  /\ policies' = [policies EXCEPT ![id] = rate]
  /\ policy_count' = IF id >= policy_count THEN id + 1 ELSE policy_count
UpdatePolicyOnce(id, rate) ==
  /\ policies' = IF id < MaxPolicies /\ id >= policy_count THEN [policies EXCEPT ![id] = rate]
                 ELSE policies
  /\ policy_count' = IF id < MaxPolicies /\ id >= policy_count THEN id + 1 ELSE policy_count

\* dp_qos_update_policy.
UpdatePolicy(id, rate) ==
  IF id < MaxPolicies
  THEN /\ policies' = [policies EXCEPT ![id] = rate]
       /\ policy_count' = IF id >= policy_count THEN id + 1 ELSE policy_count
  ELSE UNCHANGED <<policies, policy_count>>

ReadLine == loading /\ lines < MaxLines /\ lines' = lines + 1

\* A comment, an empty line, or one dp_parse_rule_line does not understand.
SkipLine ==
  /\ ReadLine
  /\ Skipped \in Lines
  /\ UNCHANGED <<loading, table, policies, policy_count, accepted, verdict>>

\* Mutant of AddToSlot: the action of a key that is already there stays.
AddIfAbsent(line, i) ==
  /\ actions' = [actions EXCEPT ![i] = IF @ = NoAction THEN Action(line) ELSE @]
  /\ UpdatePolicy(line.policy, line.rate)
  /\ accepted' = Append(accepted, line)
  /\ UNCHANGED <<loading, verdict>>

\* dp_classify_add with the index i of the hash, and the loop body after it.
AddToSlot(line, i) ==
  /\ actions' = [actions EXCEPT ![i] = Action(line)]
  /\ UpdatePolicy(line.policy, line.rate)
  /\ accepted' = Append(accepted, line)
  /\ UNCHANGED <<loading, verdict>>

AddKnown(line) ==
  /\ ReadLine
  /\ slot[Key(line)] # NoSlot
  /\ AddToSlot(line, slot[Key(line)])
  /\ UNCHANGED <<slot, free_slots>>

\* Mutant of AddNew: the slot stays in the ring.
AddNewKeepsSlot(line) ==
  /\ ReadLine
  /\ slot[Key(line)] = NoSlot
  /\ free_slots # <<>>
  /\ slot' = [slot EXCEPT ![Key(line)] = Head(free_slots)]
  /\ AddToSlot(line, Head(free_slots))
  /\ UNCHANGED free_slots

AddNew(line) ==
  /\ ReadLine
  /\ slot[Key(line)] = NoSlot
  /\ free_slots # <<>>
  /\ slot' = [slot EXCEPT ![Key(line)] = Head(free_slots)]
  /\ free_slots' = Tail(free_slots)
  /\ AddToSlot(line, Head(free_slots))

\* The table is full, or the buckets of the key are: loading ends, with success.
AddFails(line) ==
  /\ ReadLine
  /\ slot[Key(line)] = NoSlot
  /\ free_slots' = IF free_slots = <<>> THEN free_slots
                   ELSE Append(Tail(free_slots), Head(free_slots))
  /\ loading' = FALSE
  /\ UNCHANGED <<slot, actions, policies, policy_count, accepted, verdict>>

EndOfFile ==
  /\ loading
  /\ loading' = FALSE
  /\ UNCHANGED <<lines, table, policies, policy_count, accepted, verdict>>

\* dp_classify_lookup.
Lookup(key) ==
  IF key \in DOMAIN slot /\ slot[key] # NoSlot THEN actions[slot[key]] ELSE NoAction

\* dp_lcore_main: parse, then look up.  A packet changes no table, so one
\* packet per file is explored.
Receive(p) ==
  /\ ~loading /\ verdict = Nothing
  /\ verdict' = [pkt |-> p, action |-> IF Parses(p) THEN Lookup(KeyOfPacket(p)) ELSE NoAction]
  /\ UNCHANGED <<loading, lines, table, policies, policy_count, accepted>>

Next ==
  \/ SkipLine
  \/ \E line \in RuleLines : AddKnown(line) \/ AddNew(line) \/ AddFails(line)
  \/ EndOfFile
  \/ \E p \in Packets : Receive(p)

Spec == Init /\ [][Next]_vars
-----------------------------------------------------------------------------
FreeSet == {free_slots[i] : i \in DOMAIN free_slots}
Used == {k \in Keys : slot[k] # NoSlot}
ActionType == {Action(line) : line \in RuleLines} \cup {NoAction}

TypeOK ==
  /\ loading \in BOOLEAN /\ lines \in 0 .. MaxLines
  /\ slot \in [Keys -> Slots \cup {NoSlot}]
  /\ free_slots \in Seq(Slots)
  /\ actions \in [Slots -> ActionType]
  /\ policies \in [0 .. MaxPolicies - 1 -> Nat] /\ policy_count \in 0 .. MaxPolicies
  /\ accepted \in Seq(RuleLines)
  /\ verdict.action \in ActionType

\* Every slot is free once, or the slot of one key: no two flows ever share an
\* action (rte_hash_add_key returns the index classifier->actions is indexed by).
SlotsDisjoint ==
  /\ \A k, l \in Keys : slot[k] = slot[l] /\ slot[k] # NoSlot => k = l
  /\ \A i, j \in DOMAIN free_slots : free_slots[i] = free_slots[j] => i = j
  /\ \A k \in Keys : slot[k] \notin FreeSet
  /\ Len(free_slots) + Cardinality(Used) = MaxRules

\* The last loaded rule with property P, or NoAction.
LastAction(P(_)) ==
  LET hits == {i \in DOMAIN accepted : P(accepted[i])}
  IN IF hits = {} THEN NoAction
     ELSE Action(accepted[CHOOSE i \in hits : \A j \in hits : j <= i])

\* The packets dp_parse_5tuple is meant for: complete UDP or TCP over IPv4.
Complete(p) ==
  /\ p.ether = "ipv4" /\ p.ihl \in 5 .. 15 /\ p.proto \in {"udp", "tcp"}
  /\ p.len >= 14 + 4 * p.ihl + (IF p.proto = "udp" THEN 8 ELSE 20)

\* A complete packet meets the last loaded rule whose narrowed 5-tuple is its
\* own, and nothing else meets any (dp_parse_5tuple, dp_classify_lookup).
PacketGetsItsRule ==
  verdict # Nothing =>
    LET p == verdict.pkt
        same(line) == Key(line) = [addr |-> p.addr, proto |-> p.proto, ports |-> p.ports]
    IN verdict.action = IF Complete(p) THEN LastAction(same) ELSE NoAction

\* No byte behind the packet is read, on any path through dp_parse_5tuple.
ParseInBounds == verdict # Nothing => ReadEnd(verdict.pkt) <= verdict.pkt.len

\* A policy has the rate of the last rule that names it; rules that were
\* rejected or not reached leave no trace (dp_cli_load_rules).
PoliciesFromRules ==
  \A id \in 0 .. MaxPolicies - 1 :
    LET names(line) == line.policy = id
    IN policies[id] = IF LastAction(names) = NoAction THEN 0 ELSE LastAction(names).rate
=============================================================================
