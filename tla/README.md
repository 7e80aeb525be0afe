# Verification of tenant-qos

`projects/tenant-qos` is a DPDK data plane: the lcores of a program poll a port, classify every
packet by its 5-tuple to a tenant, shape the tenant with a token bucket, count what happened and
free the packet. It runs on the DPDK that is vendored in `dpdk-25.11`. This directory models the
program, function by function, and the parts of DPDK its correctness rests on; TLC checks the
models on small instances and TLAPS proves the main theorems for every value of the constants.
Line numbers of the code each definition stands for are in `PROJECT.json` (`map`).

## Inventory

| Part | Code | State | Operations |
|---|---|---|---|
| Command line | `controlplane/config.c` | `dp_config` | `dp_config_parse`, once |
| Context, port | `dataplane/context.c`, `dp_port_init` | `dp_context`, the port | set-up, once, before the lcores start |
| Rule loader | `controlplane/cli.c` | position in the rule file | `dp_cli_load_rules`: per line parse, insert, update a policy |
| Parser | `dataplane/parse.c` | none | `dp_parse_5tuple` |
| Classifier | `dataplane/classify.c` | `rte_hash`, `actions[]` | `dp_classify_add`, `dp_classify_lookup` |
| Shaper | `dataplane/qos.c` | `tenants[]` (tokens, stamp, rate), `policies[]` | `dp_qos_update_policy`, `dp_qos_apply` |
| Statistics | `dataplane/stats.c` | lock, `drops[]`, `tenants[]`, two top-K tables, `last_report_tsc` | record, drop, interval and final report |
| Main, loop | `main.c` | `dp_force_quit`, one stack per lcore | launch, poll, decide, count, free, report, exit |
| EAL launch | `eal_common_launch.c`, `eal_common_thread.c`, `eal_unix_thread.c` | `lcore_config[]`, two pipes per worker | `rte_eal_remote_launch`, `rte_eal_wait_lcore`, `eal_thread_loop` |
| Spinlock | `generic/rte_spinlock.h` | one word | lock, unlock |
| Hash table | `lib/hash` | buckets of signatures and key indexes, key store, ring of free slots, `tbl_chng_cnt`, defer queue | add with displacement, delete, lock-free lookup, slots back after a grace period |
| Read-copy-update | `lib/rcu` | `token`, `acked_token`, a counter per reader, bitmap of readers | register, online, offline, quiescent; start, check, synchronize |
| Ring | `lib/ring` | `prod` and `cons` head and tail, table | enqueue and dequeue, bulk and burst, SP/MP, SC/MC |
| Mempool | `lib/mempool` | a ring and a cache per lcore (`objs[]`, `len`) | get, put, flush of a cache |
| vhost PMD | `drivers/net/vhost` | `started`, `dev_attached`, `vid`, ring states; `allow_queuing`, `while_queuing` and `vid` per queue | receive and transmit bursts; device and ring events; start, stop |

How they interact. The rule loader fills the classifier and the policies before any lcore runs.
Then every lcore executes the same loop on the *same* context: buckets, statistics and port are
shared. The statistics are locked, the buckets and `last_report_tsc` are not. The main lcore starts
the workers through the EAL handshake, runs the loop itself, waits for the workers and prints the
final report. The signal handler sets a flag the loops read. Mbufs come from a mempool, that is a
ring and per-lcore caches; the hash takes its slots from a ring and asks the RCU variable when the
slot of a deleted key may be used again. `scripts/run.sh` runs the program on a vhost port: there a
poll is a burst on a guest's device, which the event thread of `lib/vhost` may take away at any time.

What is hard. The unlocked read-modify-writes of a bucket; reads of one word that are used after
another thread moved it (ring heads, stamps); the order of the stores of a handshake; rounding and
wrapping of 64-bit products; what a table does when it is full; a rule file that fails half way;
the end of the program while packets go on arriving; a lookup while keys move from bucket to bucket;
the moment at which nobody uses a deleted key any more; a device that is torn down under the pollers. The hazards, each at its line and with the
properties that would catch it, are in `PROJECT.json`.

What makes each part correct. Shaper: a tenant is never admitted more than its burst and rate allow
and loses little of what it earned. Classifier and loader: a packet gets the action of the last
accepted rule of its flow, and policies are those of the accepted rules. Parser: no read beyond the
packet. Statistics: counts are exact and the tables show heavy hitters. Loop: nothing is counted
twice or not at all, no mbuf leaks, the final report is complete, the program ends. Launch: each
accepted job runs once, with its own argument. Ring: a FIFO queue for any number of threads. Mempool:
no object is lost or handed out twice, and a get gives everything it was asked for or nothing. Hash
table: a lookup is right at some moment of its call, no slot is lost or used again too early. RCU: a
token that passes the check has been acknowledged by every reader that was there before it. vhost:
queues end up open exactly when they should, no burst is under way on a device that is gone, and who
waits for the pollers gets through.

## Modules

- `QosArith`, `Qos`: the shaper with `dp_qos_apply` as one step, which is what it is while a tenant's
  packets are handled one at a time. `Apply(a, len, now)` takes any stamp up to the present because
  packets of one tenant may be handled on different lcores with stamps read earlier.
- `QosShared` extends `Qos` with the loads and stores of `dp_qos_apply`, for lcores that run
  concurrently; `Serves` says which tenants' packets an lcore gets. Where the source reads
  `tokens_bytes` again after the refill, the build may use the register or the memory. Nothing
  keeps lcores apart: two histories record the tenants on which calls have overlapped (`raced`) and
  what each of them was when that first happened (`kept`).
- `Parse`, `Rules`: the parser over header lengths, and the loader with the classifier behind it.
  The hash is what `dp_classify_add` sees of it: the slot it chose for a key, a ring of free slots,
  an insertion that may fail. Then one packet is parsed and looked up.
- `Stats`: `dp_stats_record` and `dp_stats_update_topk`, one step because they hold the lock.
- `DataPlane`: `main` and `dp_lcore_main` on every lcore, the lock, the counters, the reports, the
  mbufs, the signal. What parser, classifier and shaper say of a packet is any of four outcomes.
- `Launcher`, `EalLaunch`: what `rte_launch.h` promises, and the handshake with the worker thread
  down to the stores of `state`, `f` and `arg` and the bytes in the pipes. A worker copies the
  function before the argument; each load and store is a step.
- `RingFifo`, `Ring`: the queue a user of `rte_ring` sees, and the ring with one step per load,
  compare-exchange, element copy and store. `Call` is the beginning of an enqueue or dequeue up to
  the load of the head; `LoadTail`, `MoveHead` and `MoveHeadFails` are the loop of
  `__rte_ring_headtail_move_head`; `UpdateTail` waits for the earlier claims and publishes.
  Positions count entries from the start; all the code computes is computed from their words.
- `Mempool`: the caches of the lcores over a backend that is the atomic queue `Ring` implements.
  `rte_mempool_do_generic_get` is three steps, since other threads run between its uses of the
  backend: `Get` takes from the cache, `Fill` refills it, `Direct` dequeues the rest. `objs` keeps
  the entries above `len` because the roll-back of a failed get relies on them. `backend` is the ring,
  `Cached` the lcores, `Others` the threads without a cache. A put uses the
  backend once and is one step. Threads without a cache use the backend only.
- `Qsbr`: the quiescent-state variable, one step per load and store. A reader that goes online loads
  the token and stores it later; a check loads the number of readers, then scans all counters
  (`__rte_rcu_qsbr_check_all`) or those of the bitmap, one counter per step. `began` remembers which
  token was current when a reader's use of the structure began: this is what a grace period is
  about. A check may look at the readers (`ScansOver`) or find its token acknowledged by an earlier
  check; `GracePeriodOver` is about both.
- `HashTable` extends `Qsbr` with the table it protects: one writer, lock-free readers. `Ways` are the
  chains of entries along which `rte_hash_cuckoo_make_space_mw` may shift; `CountChange`, `StoreSig`
  and `StoreIdx` shift one entry. A lookup is the loop of `__rte_hash_lookup_with_hash_lf`, with
  signature, index and key as steps of their own. Deleting either waits for the readers
  (`Synchronize`) or defers (`Enqueue`, `Reclaim`), as `mode` says. The shared variable and its
  functions are those of `Qsbr`; `Check(writer, ...)` and `CheckStep(writer)` are its calls.
- `VhostPmd`: the pollers, the event thread and the control thread around `update_queuing_status`.
  `PollTest`, `PollMark`, `PollAgain`, `UseDevice`, `PollClear` are the lines of `eth_vhost_rx`, which
  `eth_vhost_tx` repeats. `StoreBuffer` lets the stores of `rte_atomic32_set` be seen late, as an x86
  processor does; `Overlap` lets calls of the two threads overlap. `dev` is the device `lib/vhost` has. Three
  histories say what may have disturbed the queues: `alone` (no call ran beside the latest one), `apart`
  (no two calls overlapped since a call that waits last ran alone) and `strayed` (a thread looked at a
  flag before its own store was seen, or two pollers had one queue's mark).
- `QosProofs`, `RingProofs`, `EalLaunchProofs`, `StatsProofs`, `DataPlaneProofs`, `HashProofs`,
  `RulesProofs`, `VhostProofs`: theorems. `MC*`: constants of the runs.

Some definitions have variants marked as mutants. They are never used by a specification: each is a
plausible slip in the function it stands beside, and shows which property would notice it.

## Runs

| Run | Question | Bounds |
|---|---|---|
| `qos` | Is a tenant ever admitted too much, or does it lose more than a token per packet? | two tenants, rates from flow, policy and bucket, a tenant id and a policy id out of range, five ticks, three packets each |
| `qos_lcores` | Do the loads and stores implement the atomic bucket of a tenant, until two calls on it overlap? | two lcores: one gets packets of both tenants, the other of one; two packets of two bytes per tenant, a burst of three |
| `qos_race` | Does a tenant stay within its rate also when calls overlap? **Violated**: both pass the test on the same tokens, and the counter wraps | two lcores with packets of one tenant, two packets of one or two bytes |
| `rules` | Does a packet get the action of its rule, whatever the file? | every file of four lines from four rules and a comment, a table of two, ports that are narrowed; packets of every length at which the parser decides |
| `stats` | Are the reported counts exact, and no key split over two slots? | five flows, four tenants, tables of two slots |
| `dataplane` | Is everything counted once, freed, reported, and does the program end? | two lcores (`run.sh` uses `-l 0-1`), three packets, bursts of two, an interval of one tick |
| `eal_launch` | Does every accepted job run once, with its argument, and does every call return? | two workers, two jobs each: the second launch meets what the first left |
| `ring` | Is the ring a FIFO queue, in any mix of modes? | two lcores, each enqueuing and dequeuing batches of up to two, a ring of three in a table of four, positions that wrap at eight |
| `mempool` | Is every object in one place, and does a get give all or nothing, at any filling of the caches? | two lcores with caches, a thread without one, six objects, requests of up to four |
| `hash_rcu` | Is no lookup wrong, no slot lost or used too early, while keys are moved, deleted and added? | two buckets of one entry, four keys, two slots, one reader of two thread ids, two grace periods, both modes |
| `vhost` | Are queues open exactly when they should be, on the right device, and bursts undisturbed, however calls overlapped before, and does every call return? | one queue and its poller, two device ids that come back, stores seen late, calls that overlap |
| `vhost_shared` | Is a burst only ever on a device that is there, when two lcores poll one queue? **Violated**: each clears the other's mark | one queue, two pollers, two device ids, stores seen at once |

Why the bounds are enough. In `ring` the positions start at 6, so that both the word and the table
wrap inside the run; a slot is reused by a second producer; a thread can be left behind by the whole
ring between its two loads. `Start` stands for entries that went through before, a state reached
from `rte_ring_init` one entry at a time. Two lcores give two producers, two consumers, or one of
each at a time; the theorems of `RingProofs` cover any number. `NoFullLap` excludes that a thread
sleeps between two loads while nearly 2^32 entries pass. In `dataplane` three packets suffice for an
lcore to hold a burst while the other counts one. `Qos` explores packets with every stamp up to the
present. In `mempool` a cache has size 2 (flush threshold 3), so requests of four exceed both the
cache and the threshold, and six objects are too few for two full caches and a request: every branch
of get and put is taken, roll-back included. Objects and lcores are symmetric there; no liveness is
checked in that run. In `hash_rcu` k2 and k4 have bucket 1 only, k1 either, k3 moves k1 back: a key is
moved under a lookup in both directions, an insertion fails for want of a way, and the ring of free
slots is empty while the defer queue is not (two slots, four keys, one entry reclaimed at a time). With
two thread ids and one reader the number of readers is below the maximum, so checks go through the
bitmap; `ScanCorrect` covers both scans, and any number of writers. Two tokens are given out, so that a slot is
deferred while an older one waits in the queue or is reclaimed. In `qos_lcores` the lcores take turns on
the bucket of tenant 0 or collide there, while one of them may be at tenant 1; the first packet of a
tenant is admitted and the second as soon as the refill has given a byte. In `vhost` a device may come
with the id of the one before it, the case in which a stale id looks right, or with another; a poller has
up to two marks under way, one setting and one clearing. One queue suffices because
`update_queuing_status` handles queue after queue and only the calls connect them; the theorems of
`VhostProofs` have any number of queues and pollers. `qos_race` and `vhost_shared` are disagreements between code and documentation and are
described in `PROJECT.json` (`findings`).

Deadlock is checked for the ring, the mempool, the hash table and the vhost driver, whose threads can always call again. The other programs come to an
end (the file is loaded, the packets are used up, `main` has returned), so it is not checked there.

Fairness. Threads that are inside a function keep executing: each lcore is a pinned thread of its
own, so every step of `EalLaunch`, `DataPlane`, `Ring`, `HashTable` and `VhostPmd` is weakly fair *per
thread*. In `HashTable` that includes that a reader which has its answer reports a quiescent state or
goes offline, the duty `rcu_lib.rst` gives readers: without it `rte_rcu_qsbr_synchronize` waits for
ever. In `VhostPmd` a thread goes on, or one of its
stores reaches the others, and a burst ends: `PollMore`, another round of a
full burst, is not fair, since a burst is at most `nb_pkts` long. Nothing is
assumed of calls, packets or signals, nor of who wins a lock or a compare-exchange. `Terminates`
holds because an lcore that saw the flag contends for the lock at most once more per packet of its
burst; `ClaimsPublished` because the claims of a side form a queue; that a compare-exchange succeeds
eventually is not claimed, since the ring is not wait-free. The documentation of the ring says it is
not preemptible: `ClaimsPublished` is exactly what fails when a thread stops inside a call.

## Proofs

The type invariants of `Stats`, `DataPlane`, `EalLaunch`, `Mempool` and `VhostPmd` are proved for every
instance, and no run repeats them. The inductive invariants are conjunctions of named parts, and the proof that a
step keeps one has a step per action.

`QosProofs`, for every number of tenants, rate, frequency and word width:
- `TypeCorrect` and `AdmissionCorrect` (no tenant is admitted more than its burst plus the highest
  rate allow). The inductive invariant is the conjunction of the two; the arithmetic lemmas show that
  a wrapped or rounded refill is never more than the exact product, so the bound survives overflow.
- `LossCorrect`: a packet costs its tenant less than one token of what the elapsed time earned at the
  least configured rate. It assumes that no refill wraps (`NoWrap`, a condition on steps): a wrapped
  product does lose more, see "Observations". The invariant adds that every bucket has a rate that
  was configured (`RatesConfigured`), which takes the default rate to be positive, as it is in the code.
- `RefinesQos`: whatever packets the lcores get, their loads and stores implement the bucket
  of `Qos` for every tenant until two calls on that tenant first overlap, however the lcores took turns
  before; from then on the refinement shows the tenant as it was (`kept`), and `qos_race` shows what
  becomes of it. The overlap is something a behaviour does, not an assumption about who gets which
  packets, and a race on one tenant leaves the refinement of the others as it is. A bucket that is
  worked on is mapped to what it was when its lcore began; the decision about the packet is the abstract
  step and every other load or store is a stutter. `SharedInv` says of the tenants not raced what an
  lcore inside the function finds in memory (`Stored`) and has in registers (`Registers`) at each point,
  a function of the bucket it began with, and that two lcores on one bucket are on record (`RacesKnown`).

`RingProofs`, for every set of threads, size, capacity, word range and batch, from
`RingAssumption` (capacity below size, size divides the word range):
- `TypeCorrect`;
- `PositionsCorrect`: consumers never pass producers and producers never exceed the capacity;
- `SlotsCorrect`: no two threads copy to or from one slot;
- `FailureCorrect`: a call gives up only when there is too little room at that very moment;
- `RefinesFifo`: the ring implements `RingFifo`.

`PositionsOrdered` is not inductive: a compare-exchange may claim a range that was computed from a
head and a tail loaded at different times. The invariant adds what a thread may rely on meanwhile:
its head is behind but not by a lap (`HeadsLoaded`), so an equal word means an equal position
(`WordEqual`) and the unsigned subtraction is exact (`WordDifference`, `EntriesExact`); what it is
about to claim fits, since tails only advance (`MoveFits`); claimed ranges lie between tail and head
and do not overlap (`ClaimsInside`, `ClaimsDisjoint`), so the tail advances over one claim at a time
and never past another; a single-mode side has one call with an up-to-date head (`SingleAlone`).
Slots differ because positions less than a table apart have different indexes (`IndexDistinct`).

For the refinement, the queue is the part of the table between the consumers' head and the producers'
tail (`Window`). The move of the consumers' head cuts a batch off it, the update of the
producers' tail appends one, and the update of the consumers' tail ends a call (`MoveHeadFifo`,
`UpdateTailFifo`); all other steps are stutters. That the copies are stutters is the point: a producer
stores behind the tail and less than a table from any slot still to be read (`SlotApart`), and what a
consumer has copied and is about to copy is together always the batch it claimed (`WindowAdvances`). A
side in single mode does not wait for the tail; `SingleExact` says why it need not.

`EalLaunchProofs`, for every set of workers and number of jobs: `TypeCorrect`, `LaunchCorrect` (a
worker calls the last launched function with its argument) and `LauncherCorrect`: every behaviour of
the handshake is one of `Launcher`, up to fairness. The invariant says of each worker which thread
has the byte of the handshake (`Handshake`), that WAIT means free except while the launching lcore
still waits for the answer (`WaitMeansFree`), and what each cell holds meanwhile (`Cells`).

`StatsProofs`, for every number of slots, flows and tenants and every assignment of flows to
tenants: `TypeCorrect`, `TablesCorrect`, `TopKCorrect`. Exactness alone is not inductive: a key put
into an empty slot must have no history, which holds because a key once recorded stays in the table
unless the table was full when it came (`Remembered`). The lemma `UpdateKeeps` says so of one call
of `dp_stats_update_topk` and is used for both tables. `LeastNatural` gives the first slot of a
search from the well-foundedness of the naturals.

`DataPlaneProofs`, for every finite set of lcores, burst size and traffic:
- `TypeCorrect`, `LockCorrect` (the statistics belong to one lcore at a time, exactly while the lock
  is taken) and `ReportLast` (when `main` prints the final report every lcore has left its loop).
  `HoldsPacket` and `Phases` are what the two properties lack to be inductive.
- `MbufsCorrect`, `CountCorrect`, `ReportCorrect`: no mbuf leaks, every packet is counted under one
  outcome, and the final report has them all. These are sums over the lcores and the outcomes. The
  library defines such a sum by recursion over a set, whose induction theorems no installed prover
  can use; but the well-foundedness of the naturals gives what is needed one sum at a time:
  `SubsetInduction` and `SumExists`, then `SumSteps`, `SumChanges` (one term changes, and the
  sum by as much) and `SumOfZeros`. `Accounts` adds to the properties that the value an lcore has loaded
  is still the counter's when it stores it, which is what the lock is for.

The same module proves the five properties of `Mempool`, whose accounts are sums as well, for every
finite set of threads with and without a cache, every cache size and every batch: `PoolTypeCorrect`,
`EachOnceCorrect`, `WithinArrayCorrect`, `AllOrNothingCorrect`, `FailsWhenShortCorrect`. The invariant
takes the table of a get and the entries above `len` for one store: while a get is under way the table
is the emptied cache in reverse (`Stocked`), which is why a failed get can put `len` back and lose
nothing. Then every object is in one of the backend, the stores and the application (`InOnePlace`),
and a step only deals out anew what the backend, one store and the application had (`Dealt`).

`RulesProofs`, for every rule file, table size and set of packets: `TypeCorrect`, `SlotsCorrect`,
`PoliciesCorrect`, `ParseCorrect` and `PacketCorrect`, which are all the run `rules` checks, without its
bound on lines and numbers. The invariant names for every key in the table, and for every policy, the
last accepted rule that wrote it (`TableRight`, `PolicyRight`); an index no two keys share makes the
store of one action leave the others alone (`AddRight`), and a slot that goes from the head of the ring
to its tail is still there once (`Rotated`). `ParsesComplete` shows that the tests of the parser accept
exactly the complete packets. Assumed of the input (`InputAssumption`): numbers are unsigned, the IHL
is a nibble.

`HashProofs` has two parts. `Qsbr` alone, for every number of readers and writers: `QTypeCorrect`, and
`ScanCorrect`: when a check has looked at the readers, by bitmap or all of them, and passes, no reader that
began before the token was given out still uses the structure. A check has seen some counters and not
others, and readers register, leave and come online behind its back, and other writers start and check
tokens of their own; the invariant (`ScanKept`) says of every reader the scan has passed that it began
after the token was given out or does not use the structure. What several writers break is the shortcut
through `acked_token` (see "Observations"). With one writer, as in the hash table, it is right as well: no
later token exists when the minimum is stored, so it is the token that was checked (`OneWriterGrace`).

Then `HashTable`, for every number of readers, keys, buckets and slots and both ways of deleting:
- `UsesQsbr`: writer and readers take only steps of `Qsbr`, whence `TableGraceCorrect`;
- `HTypeCorrect`;
- `TableCorrect`: a stored key is in the table at every moment, also while entries are shifted;
- `SlotsCorrect`: every key slot is free, deferred, in the table or with the writer, and in one of them;
- `PositionCorrect`: a slot a reader has loaded is not given out again before the reader is done;
- `LookupCorrect`: what a lookup answers was so at some moment of the call.

The invariant `HInv` has a part for each: `SlotsApart` for the slots; `TableInv` for the table while a
way is followed (an entry is there twice between the stores that copy it, and there is always a
`Firm` one, with signature and index of its key); `PassHolds` and `LookHolds` for what readers may
hold, where the grace periods of `Qsbr` enter; `LooksRight` for the answers: a reader that has
not found a key that is there all the time has it still ahead, or `tbl_chng_cnt` has moved and it will
look again. Each is shown to be kept by the steps that add, by those that delete and reclaim,
and by those of the readers.

`VhostProofs`, for every number of queues, pollers, pollers of one queue and devices, with calls that
overlap or not and stores seen late or at once: `TypeCorrect`; `AllowedCorrect`, after a call that runs
alone a queue is open exactly when the port is started, a device attached and the ring enabled, whatever
overlapped before; `OpenCorrect`, an open queue has the id of the device until calls overlap, and again
once a stop or `destroy_device` has run alone; `BurstCorrect`, no burst is under way on a device that is
gone, unless calls overlapped, a thread looked past its own store, or two pollers had one mark. The first
three need an invariant of the calls: how far each has come (`Shape`), what the event thread alone and the
control thread alone decide (`Devices`), and, of a call that runs alone, that what it loaded is still so
(`LoadedRight`) and that the queues it has passed are right or will be once its stores are seen
(`QueuesSettled`, `StoresRight`). `Ids` relates `dev`, `vid` and the ids of the queues. A call that waits
and runs alone leaves all of this true even where it was not before. For the bursts, `Marked` says that
a poller behind its first test has set its mark and that the others see it, `OneEngaged` that it is the only
one with the mark, and `Closing` that a queue the waiting call has gone past is closed and not in a burst.
None of the three exceptions can be dropped: see "Observations" and `vhost_shared`.

Every safety property and every refinement that the passing runs check is proved. Model-checked
only: everything under fairness, which the prover does not reach (nor does it reach ENABLED or
induction over data): `Terminates`, `ClaimsPublished`,
`EveryCallReturns`, `CallsReturn` and the fairness of `Launcher`.

## Observations

What the models show beyond the runs, and what was noticed while writing them. Each item says how to
see it.

- *Two writers of one RCU variable* (`Qsbr` with two threads, two writers, `CntMax` 4). `rcu_lib.rst:156`
  says that start and check "can be called concurrently from multiple writers". A reader loads token 1
  to go online; a writer starts token 2 and scans past the reader, which is offline; the reader
  stores 1 and is online, having begun after 2. A second writer starts token 3, another reader comes online with 3,
  and the first writer, going on with its scan, takes 3 for the minimum and stores it in `acked_token`
  (`rte_rcu_qsbr.h:575`). The second writer's check of 3 passes at once, while the first reader, whose
  counter is 1, uses what was removed before 3. `GracePeriodOver` fails after 19 steps. It takes the
  minimum to exceed the token that was checked, which one writer excludes; the hash has one writer. The
  scan itself is right for any number of writers (`ScanCorrect`): only the shortcut is not.
- *vhost, one poller per queue, stores seen late* (`Overlap` FALSE). `rte_atomic32_set` is a plain store
  (`rte_atomic.h:558`): the second test of `allow_queuing` may be done before the others see
  `while_queuing`, so `update_queuing_status` finds it clear. `BurstOnDevice` fails after 37 steps.
- *vhost, start or stop during new_device or destroy_device* (`Overlap`). `update_queuing_status` loads
  `started` and `dev_attached` (`rte_eth_vhost.c:759`) and acts on them later: a queue may be opened
  after the other thread has closed it and waited. `dev_start` loads `vid` for the queues before it stores
  `started`, so a device that comes in between finds the port not started and the queues keep the old id.
  `OpenOnDevice` without its `apart` fails after 14 steps. `BurstUndisturbed` says that these two, and two
  pollers of one queue (`vhost_shared`), are the only ways to disturb a burst, and `AllowedRight` and
  `OpenOnDevice` that what an overlap leaves behind is gone after a call that runs alone.
- *Statistics.* A full top-K table never changes (`stats.c:35`), because packets are recorded one
  at a time and one is not more than the least count in the table:
  `dataplane.md:17` speaks of the heaviest flows.
- *Policies.* A rule without a rate sets the rate of its policy to 0 (`cli.c:69`), which undoes an
  earlier rule's; `dataplane.md:11` speaks of a rate per policy.
- *Hash, several writers.* A way to make space that became invalid is reverted by clearing an entry
  without a change of `tbl_chng_cnt` (`rte_cuckoo_hash.c:908`): a lookup may miss a key. With extendable
  buckets a failed insertion for want of a bucket goes to `failure` and keeps the key slot
  (`rte_cuckoo_hash.c:1232`). A defer queue smaller than the table may refuse an entry
  (`rte_cuckoo_hash.c:1866`); it is logged and the slot is lost. None of this is in the model, which
  has one writer, no extendable buckets and a queue that holds every slot, as the defaults have.
- *Loop.* Two lcores may find the same report interval over and print twice (`last_report_tsc` has no
  lock). The remainder of every refill is discarded, so closely spaced packets are never
  replenished (`LossPerPacket` bounds it at a token per packet); the product of rate and idle time wraps
  after 49 s at 1 Gbit/s and 3 GHz; a bucket keeps the rate of the last flow that used it; `--tenants`
  beyond 4096 is not capped; the loader stops at the first rule that does not fit and reports success;
  the parser tests `pkt_len` although only the first segment is mapped.
- *Ring.* The comment in `__rte_ring_headtail_move_head` that `entries` is at most the capacity holds
  only for a head that is still current: with an outdated one it may be larger, and the
  compare-exchange then fails. Nothing depends on it.

## What the models leave out

- Memory ordering weaker than the C11 acquire and release operations give: a step sees every earlier
  store, but for the marks of `VhostPmd`. The ring is the C11 variant (`rte_ring_c11_pvt.h`), not
  `rte_ring_generic_pvt.h`.
- `Qsbr`: more than one word of the bitmap, the lock counters of the debug build, `dq_delete`.
  `HashTable`: several writers, extendable buckets, the local caches of free slots, the data pointer
  beside a key, bulk lookup, iteration, reset, and the search's limit of 1000 nodes (a way longer than
  the table has buckets is not explored either). `VhostPmd`: interrupts, statistics, the close of the
  port. The program uses the hash without concurrent writes and without RCU: there `Rules` is the model.
- `HashTable` has no key whose short signature is 0 (`HashAssumption`): `get_short_sig`
  (`rte_cuckoo_hash.c:140-144`) can return it, and the signature of an empty entry is the same. A lookup
  goes by the index and the key then, and a deletion takes effect at the store of the index.
- `DataPlane`: a receive burst is one step, although the lcores share a queue, which `rte_ethdev.h:26-31`
  does not allow: the polling of one queue by two lcores is in `VhostPmd` only. The four places where
  `main.c:126-146` frees a packet are one action, so a leak on one of those paths alone cannot be told from
  one on all. The accesses to `last_report_tsc` (`stats.c:97-104`), which no lock protects, are one step.
- `VhostPmd`: the second test of `allow_queuing` (`rte_eth_vhost.c:414`) and the load of `vid` after it
  (`:423`) are one step; the ids of all queues are stored, and their ring states cleared, in one step; the
  plain stores of `started`, `dev_attached` and the ids are seen at once.
- Packet contents, addresses, formats of numbers and of reports, logging, command line and port
  set-up; the sleep of an idle lcore.
- The rest of DPDK: drivers, other libraries, tests and applications; `tenant-qos-legacy`; scripts.

## Plan

Done first, because everything a user relies on is in it: shaper, loader and classifier, statistics,
loop, launch; then the ring, on which mempool and hash stand, and the mempool; then the vhost driver the
program runs on, the hash table and its RCU. Left:

1. The hash with several writers and extendable buckets.
2. Variants of the ring (relaxed tail, head/tail sync), sequence lock, timer.
