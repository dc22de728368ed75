# Verification of rmw_unix_socket_cpp

TLA+ models of the protocols of `rmw_unix_socket_cpp`, a ROS 2 middleware that
uses only a shared-memory registry, `AF_UNIX` datagrams and shared-memory
payload segments. There is no daemon and no broker: every process maps the same
registry and changes it without a lock, so nearly all of the correctness of this
program lies in the order of a few atomic accesses in different processes. Paths
below are relative to `src/rmw_unix_socket_cpp/src/`.

## The system

| component | state | operations | hard behaviour |
|---|---|---|---|
| registry (`registry.cpp`) | slots (state, seq, payload), `high_water_slot`, `generation` | add, remove, sweep of dead owners, query, ring | lock-free slot reuse, seqlocks, crashes inside a mutation, ABA |
| registry creation (`registry_open`) | the shm name, the file's size, its version | create, truncate, map, initialise, reclaim | simultaneous starts, a creator that dies or is slow |
| graph doorbell (`rmw_wait.cpp`, `registry.cpp`) | doorbell socket, `last_registry_generation`, graph guard conditions | register lazily, drain, check, block, wake | lost wakeups, several threads on one context, full buffers |
| wait sets (`rmw_wait.cpp`) and guard conditions | the armed map, the kernel's epoll set, queues, eventfds | arm, check, poll or block, dispatch, withdraw, report | what was armed outlives its entity; descriptor numbers are reused; a trigger can be consumed by the wrong wait set |
| transient-local (`rmw_publisher.cpp`, `rmw_subscription.cpp`, `tl_ring_*`) | ring of latched samples, durable segments, watermark per publisher | latch, fan out, pull, dedup, drain, take | a late joiner races the publisher in both directions |
| payload ring (`shm_transport.cpp`) | ring segment, cursor, index; receiver's cache of mappings | reserve, write, commit, abort, grow; map, fetch | lapping, records of different sizes, growth |
| services and clients | caches keyed by the generation, message queues | send request, take, respond, availability | endpoints that come and go between a load and a query |
| subscriptions (`rmw_subscription.cpp`, `recv_from`) | socket, message queue, listener | drain, filter, trim, take, set the listener | takes and waits drain one socket at once; the buffer is sized by a peek |
| contexts and orphan sweeps (`rmw_init.cpp`) | the doorbell, socket and shm files named by PID | init, shutdown, fini, sweep of dead PIDs' files | start-up while others start and die, PIDs given out again, init that fails half-way |
| nodes (`rmw_node.cpp`) | registry entry, graph guard condition, place in `graph_gcs` | create, destroy | the trigger loop of `rmw_wait` runs beside both; partial failures |
| graph queries (`rmw_graph.cpp`) | `last_cleanup_ns` | walk and group entries, sometimes sweep | the registry changes during a walk; threads race for the sweep |
| serialization | none | CDR conversion | - |

How they interact. Every endpoint is an entry of the registry; a mutation bumps
the **generation** and then rings the doorbells. Publishers, clients and
services keep caches of socket paths keyed by the generation they loaded
*before* the query that filled the cache. A subscription created with
TRANSIENT_LOCAL registers first and scans the publishers' rings afterwards; a
publisher latches first and queries afterwards. Payloads of 64 KiB or more go
through a shared ring, the datagram carrying a descriptor only.

What makes it correct: a reader never acts on half of an entry, a live entry is
never removed by another process, an announced entry is always found, dead
entries go away; a waiting thread never sleeps through a graph change; a late
joiner gets its history and the live samples once and in order; a payload is
delivered as sent or not at all; a request is answered to whoever asked; a wait
reports what is there and touches only what it was given; a query's answer is true
of some time during the call; start-up sweeps remove only what the dead left.
`PROJECT.json` lists the hazards line by line, each with the properties about it.

## Modules

Each step of a model is one atomic access, one system call, or one run of plain
accesses that no other process can overlap. Memory is sequentially consistent.
Names of actions follow the functions of the code; `PROJECT.json` maps every
definition to its lines. Definitions commented "Mutant of X" are plausible bugs
of X, each paired in `PROJECT.json` with the property that must catch it; they are
not part of any specification.

**Registry** (`registry_add`, `registry_remove`, `registry_cleanup_stale`,
`registry_query`, `ring_doorbells`, `refresh_sub_paths`). The payload of a slot
is two words, the owner's pid and everything else, enough to tell a torn copy.
Each process runs one call at a time (`pc`, `loc`); `stage` and `index` are the
handles the owners keep, `files` the socket files, `committed` the generation that
announced an entry. A process may die at any step (`Crash`) or only between calls
(`CrashMidMutation = FALSE`). `ReuseInWindow = FALSE` leaves out the schedules in
which a claim lands on a slot that another process has emptied but not finished
tearing down; `RegistryLateTeardown` shows what they do. A claim may land anywhere
else, also between the look at seq that a sweep takes (its ABA guard) and its CAS. The
history variable `overtaken` says that such a CAS succeeded although the slot had been
rewritten since that look; the properties hold until then. The first two theorems
about `Registry` depend on neither constant, the other five on both (`Quiet`).

**RegistryOpen** (`registry_open`, `initialize_header`). A file has an identity of
its own besides its name. `Found` says what may be on disk at first: nothing, a file
of another size, or one of another version. Everything the code allows is in: a file
may be opened and judged between its creation and its `ftruncate`, the name unlinked
when it refers to another file by then, and the init spin may run out on a creator that
is only slow. `slips` records these three turns ("early", "stray", "race"), and the
properties say which of them excuses what.

**Doorbell** (`rmw_wait`, `registry_remove`, `ring_doorbells`,
`rmw_trigger_guard_condition`). One context, several threads in `rmw_wait`, several
mutating processes. `Enter`, the lazy registration under its mutex, the generation
check (`DrainBell`, `LoadGeneration`, `CompareLast`, `StoreLast`,
`TriggerGraphGcs`), the ready check, the block, the wake and the output pass.

**TransientLocal** (`transient_local_publish`, `tl_ring_latch`, `tl_ring_pull`,
`rmw_create_subscription`, `drain_subscription`, `rmw_take`). One publisher, since
every structure is keyed by its GID, and late joiners. Samples are embedded,
staged in a durable segment, or staged and sent as a descriptor (`KindOf`).
`owed`, `delivered`, `overlapped` and `refused` (the samples that were not latched)
are history. A sample above the threshold that was not latched is sent inline; an
oversize one then fits no datagram. The registry is its visible entries and its generation.

**ShmRing** (`shm_stage_reserve`, `_payload`, `_commit`, `_abort`,
`create_segment`, `map_segment`, `shm_fetch_payload`, the send and receive around
them). The record area is cells; each cell remembers the message whose bytes it
holds. The stores of a payload become visible in any order (no language rule says
otherwise). A payload never happens to contain the seq value a descriptor expects. An aborted reservation keeps the wrap of the cursor, as in
the code; what a failed serialization has stored is a front part of the record, visible
by the time the mutex is released. The model follows the code where a failed growth keeps the old ring;
the comment above `create_segment` ("with the writer left closed") does not hold
then.

**LossyChannel** is what the payload path promises a receiver: order, at most
once, possibly lost, and whole, except that a delivery may be mixed with pieces of
the message that the sender is staging at that moment (`staging`, `Deliver`).
`ShmRing` implements it under the mapping at its end (`ImplementsChannel`).

**ServiceClient** (`rmw_client.cpp`, `rmw_service.cpp`, the drains of `rmw_wait`).
Endpoints are visible, announced, unlisted, unlinked, closed, one step each.
`upAtLoad` and `goneAtLoad` remember the servers at the moment a client loads the
generation. A refresh of a cache is one step: the walk of the slots inside it is in
`Registry` and `GraphQuery`.

**WaitSet** (`rmw_wait` on the caller's entities, `rmw_create_wait_set`,
`rmw_destroy_wait_set`, guard conditions). An entity is a socket or a guard condition;
created once and destroyed once, it stands for its uid and its open file description.
`armed` is the map of the code, `interest` the kernel's epoll set, keyed by number and
description: they differ when an entity is destroyed, when a forked child keeps its
description (`Fork`), and when a number is reused. One call is `Arm`, `CheckReady`,
then rounds of `EpollWait` or `Elapse`, one event of the batch per step (`Withdraw`,
`DispatchSock`, `DispatchGc`), `EndBatch`, and `Output`. `owed` and `due` are history.
Subscriptions, services and clients go through the same code and are all sockets. The
rmw contract is in the guards: nobody destroys an entity that a wait holds, and with
`ConcurrentTake = FALSE` nobody takes from it either. The doorbell is one more
descriptor of the same loop; its part is `Doorbell`.

**Subscription** (`recv_from`, `drain_subscription`, `rmw_take*`, `drain_socket`,
`rmw_subscription_set_on_new_message_callback`). One subscription and any number of
threads that take or wait. `Peek` sizes the thread's buffer, the receive comes later
and may find another datagram; each keeps its own `grown` buffer. A datagram is a
message, a big one, a corrupt one, or junk. A datagram whose header states another
payload size is kept shortened by `recv_from` and rejected later; it is among the
corrupt ones. The transient-local filter is in
`TransientLocal`.

**Lifecycle** (`rmw_init`, `cleanup_orphan_socket_files`,
`shm_cleanup_orphan_segments`, `make_socket_path`, `create_bound_socket`,
`rmw_context_fini`). A process is an incarnation with a PID from a small set that is
given out again. A name is PID, counter and time, the last two with their modulus; the
time is chosen anew at each name, so two names may agree in all three (`clash`). A
sweep lists the directory, then per entry looks for the PID and later unlinks by name.

**GraphQuery** (`rmw_graph.cpp`, `rmw_node.cpp`, the trigger loop of `rmw_wait`). A
query is the types it walks for and its filters; it walks slot by slot while entries
come and go, and before each walk may win the race for the throttled sweep (`LoadLast`,
`Cas`, `Sweep`). Clock values are ages, so the clock never ends. Nodes are created and
destroyed one step at a time, with every failure path; `todo` is the loop that holds
`graph_gcs_mutex`. One slot of a walk is a single step here and several in `Registry`.

The `MC*` modules give the constants values that a configuration cannot write.
The theorems are in `RegistryProofs`, `ContextProofs` (about `Lifecycle`,
`RegistryOpen` and `Doorbell`), `WaitSetProofs`, `SubscriptionProofs`, `ShmRingProofs`,
`GraphQueryProofs`, `ServiceClientProofs` and `TransientLocalProofs`.

## Runs that pass

| run | bounds | what it shows |
|---|---|---|
| RegistrySlots | 3 processes, 3 entries, **1 slot**, 2 snapshot attempts, a crash between calls | snapshots are whole (`NoTornSnapshot`); a live entry keeps its slot, payload and socket (`LiveEntryIntact`); a cache labelled with a generation has all that it announced (`CacheCoversGeneration`); a sweep only takes from the dead (`SweepsOnlyTheDead`); all of this until a sweep's CAS takes a slot that was rewritten since its guard (`overtaken`), which the run reaches |
| RegistryReclaim | 2 processes, 2 slots, a doorbell, fair, a crash between calls | every announced entry is below the scan limit (`HighWaterCovers`); only doorbells are rung (`RingHitsOnlyDoorbells`); dead owners' slots become empty (`OrphansReclaimed`) |
| RegistryOpen | 3 processes; nothing, a file of another size or of another version found; one may die anywhere; fair | no process maps a file that is too short (`NeverMapsShort`); one file is shared (`OneRegistry`) unless one was judged before it was sized or the wrong one unlinked; nobody's entry is zeroed (`NoEntryWiped`) unless a spin ran out on a live creator; every survivor registers (`EverybodyRegisters`) |
| Doorbell | 2 listeners of one context (one timed), 2 mutators that may die before their ring, buffer of 1 octet, registry possibly full, fair | no listener blocks on a change nobody will tell it of (`NoLostWakeup`); a listener that is behind catches up (`GraphChangeNoticed`); a change whose mutator died before its ring is the exception, and the next change heals it |
| TransientLocal | 4 samples, one of each kind (embedded, staged, descriptor, oversize), 3 slots, queue of 2, one joiner, both sides may go, all samples but the first may fail to latch, fair | order and no duplicate (`InOrderNoDuplicates`), no torn sample (`NoTornSample`), the watermark swallows no sample the ring took inside the range the joiner pulled (`WatermarkCoversPulledRange`), the history is complete when no latch overlapped the scan and no replay was cut short (`LateJoinerHistory`), live samples arrive (`LiveDelivery`) |
| ShmRing | 1 thread, 5 records of sizes 1 and 3, slack 2, stores in any order, growth, failed growth, aborted reservations, a crowded mapping cache, a socket buffer of 1 | the last records stay readable (`RecentRecordsIntact`); the path is a `LossyChannel`: a payload is delivered in order and once or not at all, and with nothing in it but itself and pieces of the message being staged (`ImplementsChannel`) |
| ServiceClient | 2 clients, a server, a request each, queue depth 1, failing calls, a client and the server may go | a request reaches a server that was up when the client loaded the generation (`RequestRouted`); a client takes only answers to its own requests, once (`OwnResponsesOnce`) |
| WaitSet | 2 wait sets (one timed), 2 sockets, 1 guard condition both may wait on, 2 descriptor numbers, batches of 2, a socket `epoll_ctl` may refuse, one with filtered datagrams, one a forked child keeps, fair | an event is dispatched only to an entity the call waits on (`DispatchesOnlyWaited`); the armed map is true of the kernel (`ArmedIsWatched`); no trigger is lost (`TriggerNeverLost`); what was there when the call began is reported (`NothingHeldBack`); an untimed wait returns with something (`NoIdleReturn`); a wait with data ends (`ReadyWaitReturns`) |
| Subscription | a taker and a waiter, 3 datagrams in four mixes of kinds, queue of 1, takes of 1 or 2, a listener set or cleared twice | no prefix is delivered (`NoPrefixDelivered`); messages are lost only to depth, junk, corruption or a raced peek of a big one, and none is delivered twice (`LostOnlyByRule`); a drain strands nothing (`NothingStranded`); the listener hears of what takes queued (`ListenerKeepsUp`) |
| Lifecycle | 3 processes on 2 PIDs (symmetric), 3 names each, counter and time moduli 2 and 2, so that counters wrap and times coincide | a living process keeps its files under their names unless two names were made from the same PID, counter and time (`LiveFilesStay`); an orderly or failed end leaves none (`CleanExit`); a sweep removes every file whose PID stayed free (`SweepComplete`) |
| GraphQuery | 2 threads, 2 slots, a node, a publisher and a subscription of other processes (one may die), interval 2 ticks, a clock reading up to 1 tick old, fair | an answer has all that was registered throughout and nothing that never was (`AnswerBetween`); sweeps are an interval apart (`SweepsSpaced`); entries of the dead go away (`DeadForgotten`); no freed guard condition is triggered (`NoFreedTrigger`); a node is whole or absent (`NodeWhole`) |

Every module also states its types (`TypeOK`, or `OpenTypeOK` and `BellTypeOK`); TLC
confirms them on the same instances when they are added to a configuration. The
inductive invariants of the proofs contain them, or the part of them that they need.

Why the bounds are enough. One slot is the worst case for reuse: every claim
collides. Two slots are enough for a scan with a limit and for a mark that two
adders widen. Four samples in three slots lap the ring while a joiner scans
it, and a queue of two makes it trim what it pulled. Five records of two sizes lap a ring of four cells, overwrite its first record
and force it to grow. A queue or buffer of one or two is full as soon as it is
interesting. Two descriptor numbers for three entities force reuse; batches of two
with two watched sockets are full. Two PIDs for three processes give a sweeper, a dead
owner and the process that inherits its PID. Seven files are what three processes can
create with a retry each, besides the one found. Three entries for two
slots fill the registry and make a node sweep it; two slots let an entry reappear
behind a walk. Generations, sequence numbers and files are bounded by the number of
operations, and the constants that bound them say so (`MaxSamples`,
`MaxMessages`, `MaxRequests`, `MaxMutations`, `MaxFiles`, `MaxProcs`, `MaxNames`,
`MaxSets`, `MaxLag`); seq words keep their
modulus (`SeqMod`), far above what a run reaches. Because of these bounds, and
because a process may simply wait in epoll for ever, a run may stop: deadlock is
not checked.

What the constants leave out of the passing runs. `ReuseInWindow`,
`CrashMidMutation` and `ConcurrentTake` close a window that the code leaves open, so
that the rest can be seen to hold; the next two sections say what each lets in.
Windows whose effect can be told from its cause are not closed: they are in the runs,
a history variable records the moment they are hit, and the property excepts exactly
that. The table also says what TLC reports when an exception is taken out.

Fairness. A call that has begun goes on: no call of the registry, the rings or the
caches waits for another process, all loops are bounded. Beyond that the liveness
properties assume that a sweeping process goes on asking graph queries
(`OrphansReclaimed`), that rclcpp's graph listener calls `rmw_wait` again
(`GraphChangeNoticed`), and that an executor goes on draining and taking
(`LiveDelivery`, with a socket buffer that holds the run's samples).
`ReadyWaitReturns` assumes nothing of callers or senders, only that a call to
`rmw_wait` that has begun goes on. `DeadForgotten` assumes that time passes and that one
thread goes on asking, as often as it likes. Nothing is
claimed of a request being answered: a response whose send fails is dropped by the
code, and the client is not told.

## A run that shows a disagreement

`RegistryLateTeardown` checks `LiveEntryIntact` with `ReuseInWindow = TRUE`: a slot is
EMPTY before its teardown, so a new entry claimed in between is wiped by the old
owner's teardown and its socket is unlinked. `findings` in `PROJECT.json` quotes the
comment that says otherwise.

## What opening the other windows, and removing the exceptions, shows

These are not runs of their own: change what is named here in the run that
checks the property, and TLC reports the behaviour.

| change | property | what happens |
|---|---|---|
| `CrashMidMutation = TRUE` | `OrphansReclaimed` | a process that dies with a RESERVED slot leaks it: snapshots treat it as empty, claims do not |
| `CrashMidMutation = TRUE` | `CacheCoversGeneration` | a death inside a seqlock write inverts the slot's parity; later entries there are invisible |
| `ConcurrentTake = TRUE` | `NothingHeldBack`, `NoIdleReturn`, `ReadyWaitReturns` | another thread takes what ended the wait, or what its `epoll_wait` was to report |
| without `overtaken'` | `SweepsOnlyTheDead` | two sweepers: between the seq check of one and its CAS (`registry.cpp` 517-523) the other empties the slot and a living process fills it with the same type; the CAS takes it. The comment at 513-518 and `DESIGN.md` 451 ("The seqlock counter closes the gap") say that this cannot be |
| without `Misjudged` | `OneRegistry`, `EverybodyRegisters` | a file is seen between create and truncate, taken for one of "an incompatible build" (`registry.cpp` 110-111) and unlinked: two registries. Or: two processes judge one stale file, and the second unlinks the file with which the first has replaced it |
| without `"race"` | `NoEntryWiped` | the spin ends before a slow creator has finished, and one of the two memsets erases an entry; `DESIGN.md` 365 says that re-running `initialize_header` "is safe to repeat" since only bytes "never validly published" are at risk |
| `Deliver` in `LossyChannel` without `pieces` | `ImplementsChannel` | the sender laps a record with one of another size: its payload is overwritten before its seq word, and the re-check at `shm_transport.cpp` 514 passes, contrary to `shm_transport.hpp` 45-46 ("never delivered corrupt") and `DESIGN.md` 206 ("never a torn payload") |
| without `clash` | `LiveFilesStay` | a process whose counter has wrapped (65,536 names in the code) makes a name that it has open and unlinks its own file; or the late unlink of a sweep meets a name that a process with the dead one's PID made at a time with the same low bits |
| without `refused` | `WatermarkCoversPulledRange` | a sample that was not latched is under the watermark of a newer record, and its datagram is dropped, though `rmw_publisher.cpp` 263-264 says that after a staging failure "the live path is unaffected" |
| without `call[w].full` | `ReadyWaitReturns` | a poll whose every batch is full goes on as long as senders refill it; `rmw_wait.cpp` 631-632 says that it terminates |

Properties name the exceptions that the code has. Besides those of the table:

* `LateJoinerHistory`: a scan overlapped by a latch gives up samples whose datagrams
  were never sent to the joiner, and a replay that meets an evicted record stops
  (`loc.cut`), although the records after it do not "arrive as datagrams".
* `WatermarkCoversPulledRange` speaks of the samples that the ring took; a replay that
  was cut short also excuses those a queue of full depth would have pushed out by now
  (`Excusable`). And it speaks of the pulled range only: a sample that the scan
  missed below the oldest record it pulled is under the watermark too and its datagram
  is dropped, though `rmw_subscription.cpp` 64-66 says that anything under the
  watermark was pulled or lapped.
* `NoLostWakeup`: a mutator that dies between bump and ring leaves a blocked listener
  asleep until the next change (`unrung`).
* `NothingHeldBack`: a blocking wait that ends on a full batch leaves the rest to the
  next call.
* `ListenerKeepsUp`: what `rmw_wait` drains is queued without a word to the listener
  (`silent`), while DESIGN.md describes the callback as part of the drain.
* `AnswerBetween` speaks of entries, not of topics: publishers and subscriptions are
  two walks, so a topic that always has some endpoint can still be missing when its
  only endpoint changes from one kind to the other in between.
* A forked child that keeps the description of a destroyed entity leaves it in the
  epoll set, where `EPOLL_CTL_DEL` by number no longer finds it; while it is readable
  an untimed wait goes round its loop, in spite of `rmw_wait.cpp` 561-562.

## Theorems

All are proved by TLAPS for every value of the constants allowed by the modules'
assumptions and by the hypotheses named here. The assumptions say little: sets that a
run of the program can only make finite are finite (`Entities`, `Fds`, `Threads`), a
process may make a name (`MaxNames > 0`), there is a largest payload, a query asks for
something. A hypothesis is a constant that closes a window, described above with what
the window lets in, or says that a seq word does not come round. Each inductive invariant was an invariant of a run before it was
proved.

**RegistryProofs**, for any number of processes, entries and slots.

* `TypeCorrect` and `UnderScanImpossible` (`HighWaterCovers`): crashes anywhere, claims
  in any window. `HighWaterCovers` is not inductive: the bump that announces an entry
  takes the slot from the adder's locals. The invariant adds that the locals of a call
  are in range and belong to the call (`LocalsInv`), that a registered entry's handle
  is a slot (`HandleInv`), and that between `Widen` and `AddBump` the mark already
  covers the slot (`WidenedInv`). The mark never falls, which carries it over every
  other step. Most of the actions only move one process on within its call; lemma
  `MoveWrites` and its special cases treat them together.
* `SnapshotsWhole` (`NoTornSnapshot`), `LiveEntriesIntact` (`LiveEntryIntact`),
  `CacheComplete` (`CacheCoversGeneration`), `RingsOnlyDoorbells`
  (`RingHitsOnlyDoorbells`) and `SweepsTakeOnlyTheDead` (`SweepsOnlyTheDead`), under
  `Quiet`: no process dies inside a mutation and no claim precedes the end of a
  teardown. Claims between a sweep's guard and its CAS are in; the invariant holds
  until such a CAS takes a rewritten slot (`overtaken`, in `XInv`), and until then any
  slot that a sweep's CAS takes is the one its snapshot was of. They share one invariant, because each needs the others. A process that
  fills, holds or tears down a slot has it alone (`ExclInv`) and finds in it what it
  left there (`OwnInv`); a slot with a type holds one whole entry and its seq is odd
  only under a writer (`SlotInv`); hence **what a reader has read is true of the slot
  for as long as seq stands** (`ReadInv`), which is the seqlock, the ABA guard of the
  sweep and the guard of the ring in one formula. What is torn down is *doomed*: its
  owner is dead or has given it up, and neither is undone. So a registered entry of a
  living process stays in its slot (`LiveInv`), no snapshot of it fails, and a scan
  labelled with a generation has taken, or has still before it, every entry that this
  generation announced (`CoverInv`), from which the cache is complete.

**ContextProofs** on `RegistryOpen`, for any number of processes and any file found.

* `NeverMapsShortFile` (`NeverMapsShort`): crashes anywhere. The invariant adds that a
  process past `shm_open` holds a file (`FdInv`).
* `OnlyMisjudgementSplits` (`OneRegistry`) and `OnlyRacedInitWipes` (`NoEntryWiped`),
  without a hypothesis: they name the only ways in which things go wrong. A file is
  *condemned* when nothing brings it back: another size or version, and no creator
  about to size it. Until a file is misjudged, only condemned files are about to be
  unlinked (`JudgeInv`), so whoever holds a file that is not condemned holds the one the
  name refers to (`HoldInv`), and users hold such files (`CreatorInv`). Until a
  spin runs out on a live initialiser, a file has one initialiser, and entries come only
  after its version (`WipeInv`), in the files of a split domain too.

**ContextProofs** on `Doorbell`, for any number of threads, listeners and mutators,
deaths before the ring included.

* `BellTypeCorrect` and `NeverLosesWakeup` (`NoLostWakeup`). The argument splits on whether
  the stored generation is the current one. If it is (`StoredInv`), whoever stored it
  triggers the guard conditions, so every listener has noticed or has a trigger
  pending. If it is not (`StaleInv`) and no mutator died since the last bump, a
  listener that has passed the check, or blocks, has a ring, an octet or a check of
  another thread on its way; this is the pair "bump before ring, drain before load".
  `RegInv` gives that a listener that blocks unbounded is registered and below the
  high-water mark, `GotInv` that a consumed trigger is reported, `GenInv` that
  generations only grow.

**WaitSetProofs**, for any number of wait sets, entities, descriptors and batch sizes.

* `DispatchSafe` (`DispatchesOnlyWaited`), `ArmedWatched` (`ArmedIsWatched`) and
  `TriggersKept` (`TriggerNeverLost`). Open entities have descriptor numbers of their
  own (`FdInv`), a wait is on open entities that no other wait holds (`CallInv`), and
  the numbers a call has armed are armed for the very entities it waits on, whatever
  was armed under these numbers before (`GateInv`).
* `CallsReportWhatWasThere` (`NothingHeldBack`) and `UntimedWaitsEarnTheirReturn`
  (`NoIdleReturn`), under `~ConcurrentTake`. `Due` follows what was there when the call
  began from the socket or the eventfd through the batch to the queue or the call's
  hands; `Earned` says that a call polls, sees progress or leaves without a timeout
  only with something in one of these.

**SubscriptionProofs**, for any number of threads, datagrams and any depth.

* `NothingIsStranded` (`NothingStranded`): the socket holds the last ids sent, in order
  (`SocketInv`), and a drain that ended left none of those it began with (`SinceInv`).
* `ListenerHearsOfAll` (`ListenerKeepsUp`), inductive given the types.
* `DeliversWholeMessages` (`NoPrefixDelivered`): what is about to be pushed, what is
  queued and what was delivered is whole (`WholeInv`).
* `LosesOnlyByRule` (`LostOnlyByRule`): a thread that peeked and was not overtaken has
  room for the head of the socket (`RoomInv`), so only a raced peek loses a big message
  (`RuleInv`); a datagram that left the socket is in one place, a thread's hand, the
  queue, the deliveries or the losses (`HandInv`, `QueuedInv`, `GoneInv`). The model
  numbers deliveries (`pops`, `taken`) so that a second delivery of one message would
  be seen.

**ShmRingProofs**, for any number of threads, messages and sizes.

* `NewestRecordsIntact` (`RecentRecordsIntact`): each of the two newest records of the
  open ring ends where the next one, or the cursor, begins, or the cursor went back to
  0 from the last quarter of the ring (`RecentInv`); a record is at most a quarter of
  the ring (`RingInv`), so the one being written meets neither.
* `RingIsLossyChannel`: `Spec` implements `LossyChannel!Spec` under the mapping at the
  end of `ShmRing`, for seq words wide enough for the messages (`SeqWide`; the code's
  have 32 bits) and stores in any order. As long as the header a descriptor names
  carries its seq, each cell of the payload is its own or has been overwritten by the
  record being written, which has not yet come to its header word (`GoodInv`); a record
  that is given up has stored a front part, so that it reached a header before the
  payload behind it (`FrontSpares`), and one that is committed has stored all. So what a receiver has copied, if seq
  still stands, is of its message or of the one being staged (`FetchInv`, `Staged`). A
  send maps to a send or a stutter, a step of the receiver to a delivery, a loss or a
  stutter, a reservation or commit to a stage or a stutter (`StageMaps`).

**ContextProofs** on `Lifecycle`, for any number of processes, PIDs and names.

* `TypeCorrect`, `ExitsClean` (`CleanExit`) and `SweepsComplete` (`SweepComplete`):
  what a process has at each control point (`PhaseInv`), that a file belongs to a
  process that has it open or was killed (`OwnerInv`), and that names free since a
  sweep began are gone or ahead of it (`DoomedInv`).
* `LivingKeepTheirFiles` (`LiveFilesStay`), without a hypothesis. Every name there is,
  in a directory, in use or about to be unlinked, was made from a recorded PID, counter
  and time (`UsedInv`); so unless those clash, a new name is none of them, no two open
  sockets or segments share one (`OpenApart`), none is the target of a late unlink
  (`OpenSpared`), and each has its file (`OpenLinked`).

**GraphQueryProofs**, for any number of nodes, entries of other processes, slots and
threads.

* `NeverTriggersFreed` (`NoFreedTrigger`) and `NodeWholeOrAbsent` (`NodeWhole`). The
  invariant says for each control point of a node what exists: its guard condition from
  the first step of creation to the last of destruction, its place in `graph_gcs` in a
  part of that time (`GcInv`), its entry between `registry_add` and its removal
  (`EntryInv`). `todo`, what the loop of `rmw_wait` still has to trigger, stays within
  the list because the list changes only under the mutex. All that other processes and
  sweeps do to the registry leaves the entries of this context's nodes alone
  (`RemoteOnly`): a sweep takes from the dead.
* `AnswersBetween` (`AnswerBetween`): a walk has found, or has still before it, every
  entry that was there since the call began (`WalkInv`).
* `SweepsAreSpaced` (`SweepsSpaced`): who won the CAS on `last_cleanup_ns` read a clock
  that was an interval ahead of the value it replaced (`AgeInv`).

**ServiceClientProofs**, for any number of clients, servers, requests and any depth.

* `RequestsRouted` (`RequestRouted`): a cache filled for the current generation serves
  a load made now (`FreshInv`). Servers do not come back (`LoadInv`) and generations
  only grow (`GenInv`), so that a cache filled for the generation a request has loaded
  serves that request, whichever thread filled it and however long ago (`PendingInv`).
* `ResponsesOwn` (`OwnResponsesOnce`): what reaches a client answers that client
  (`AddrInv`), and a request or its answer is in one place at a time, a socket, a queue,
  a server's hand or the application's (`Unique`, `DistinctInv`). A number not yet given
  out is nowhere (`NumberInv`), which carries this over the send of a new request.

**TransientLocalProofs**, for any number of joiners, samples, slots and retries and any
depth, for seq words wide enough for the samples (`NoWrap`; the code's have 32 bits).
Four invariants, each resting on those before it.

* `SamplesWhole` (`NoTornSample`). A slot is unused, holds a whole record or is the one
  being written (`SlotInv`), and its word never returns to an old value. So what a
  joiner has copied is what the slot holds for as long as the word it first saw stands
  (`ReadInv`), and the records it kept are whole (`RecInv`).
* `SamplesInOrder` (`InOrderNoDuplicates`). A socket holds samples in order, the one
  being published last (`SockInv`); what a joiner has yet to replay or drain is newer
  than all it queued, or at most the watermark, which drops it (`QueuedInv`).
* `HistoryComplete` (`LateJoinerHistory`) and `WatermarkSound`
  (`WatermarkCoversPulledRange`). The ring has taken or refused every sample up to the
  current one, or to the one before it, and there is no newer record (`DoneInv`); a
  sample a joiner is owed is in the ring or has been lapped (`HeldInv`), and only a
  publisher that has stopped is not listed (`ListInv`). `HistInv` follows an owed sample
  from the ring through the records pulled to the queue: a slot the scan is done with,
  if its word has not moved, was pulled (`ScanInv`), and after an overlapped scan
  nothing is missing between the oldest record and the watermark.

The proofs of the last two found a case that the runs with a queue as large as the ring
did not meet: a replay cut short fills less than the queue, and then the older samples
that the trim dropped before it are missing although nothing displaced them.

All safety properties of the runs are proved. Only model-checked is liveness, since
fairness and ENABLED are outside the prover's reach: `OrphansReclaimed`,
`EverybodyRegisters`, `GraphChangeNoticed`, `LiveDelivery`, `ReadyWaitReturns` and
`DeadForgotten`.

## Not modelled

* Weak memory orders. `snapshot_slot` re-reads seq with an acquire load and no
  fence, unlike the two readers of `shm_transport.cpp`; on a weakly ordered CPU the
  copy may sink below the re-check.
* The composition of the wait set with the doorbell in one model: `WaitSet` and
  `Doorbell` are two views of `rmw_wait`, joined by the order of its phases.
* Order between messages that two threads drain at once: the code does not keep it.
* Payload loans (borrow and return of a message), QoS queries, `rmw_shutdown` and the
  option structures of `rmw_init`: they copy or set one field.
* Serialization, and the layout of the arrays a graph query returns, which are pure
  data; event, feature and
  unsupported stubs.
* Failures of `mmap` and `ftruncate` in `registry_open`.
* The wrap of a ring slot's 32-bit seq (`shm_transport.cpp` 770): it would take 2^31
  publishes during one copy.
* Bounds on the queues that `rmw_take_request` and `rmw_take_response` fill
  (`rmw_client.cpp` 278): that path has no depth trim, unlike the drain of `rmw_wait`,
  and the code states no bound for it. A response whose `send_to` fails is modelled as
  lost (`rmw_service.cpp` 306).

## What could come next

1. Liveness of services with sockets that do not overflow.
2. A composition of `Registry` and `Doorbell` in which the real slot scan rings.
