--------------------------- MODULE TransientLocal ---------------------------
(***************************************************************************)
(* TRANSIENT_LOCAL durability: one latched publisher and its subscribers.  *)
(* The publisher writes every sample to a shared-memory ring of slots      *)
(* (seqlock per slot), then sends it as a datagram to the subscribers its  *)
(* registry query returns.  A late joiner registers, scans the ring by     *)
(* itself, and remembers in a watermark which datagrams it must drop as    *)
(* already delivered.  Sources: transient_local_publish, tl_ring_latch,    *)
(* tl_ring_pull, rmw_create_subscription, drain_subscription.              *)
(*                                                                         *)
(* Publishers are told apart by their GID in every structure here, so one  *)
(* of them is enough.  cache_mutex makes a publish one critical section.   *)
(* The registry is seen as its visible entries and its generation; module  *)
(* Registry models how those come about.                                   *)
(***************************************************************************)
EXTENDS Integers, FiniteSets, Sequences

CONSTANTS
  Subs,            \* late joiners
  MaxSamples,      \* bound: samples the publisher publishes
  KindOf,          \* [1 .. MaxSamples -> Kinds]: size class of each sample
  Unlatchable,     \* samples whose staging or slot allocation may fail
  Slots,           \* tl_ring slots = the publisher's history depth
  QueueDepth,      \* the subscriptions' queue_depth
  SockCap,         \* datagrams a socket buffer holds
  MaxPullRetries,  \* attempts per slot in tl_ring_pull (16)
  SeqMod,          \* modulus of a slot's seq word (2^32)
  Destroyable,     \* subscriptions that may be destroyed
  PubMayStop       \* may the publisher crash or be destroyed?

(* Payload sizes: up to TL_EMBED_CAP in the slot itself; above it in a      *)
(* durable segment the slot points to; from SHM_PAYLOAD_THRESHOLD on the    *)
(* datagram carries the descriptor too; an oversize one fits no datagram.   *)
Kinds   == {"embed", "staged", "descriptor", "oversize"}
Samples == 1 .. MaxSamples
Ring    == 0 .. Slots - 1

ASSUME TransientLocalAssumption ==
  /\ MaxSamples \in Nat /\ KindOf \in [Samples -> Kinds]
  /\ Unlatchable \subseteq Samples
  /\ Slots \in Nat \ {0} /\ QueueDepth \in Nat \ {0} /\ SockCap \in Nat
  /\ MaxPullRetries \in Nat \ {0} /\ SeqMod \in Nat \ {0}
  /\ Destroyable \subseteq Subs /\ PubMayStop \in BOOLEAN

VARIABLES
  visible, generation,               \* registry: subscriptions seen by a query
  listed, linked, refused,           \* publisher's registry slot, its ring's shm name;
                                     \* history: samples the ring did not take
  pub, next_seq, next_index,         \* publisher: control point, counters
  latched, evicted,                  \* result of the latch in progress
  gen, cached_generation, paths, targets,
  rseq, whdr, wpay, segs,            \* the ring's slots, the durable segments
  spc, loc, sock, queue, watermark,  \* the subscriptions
  delivered, overlapped, owed        \* history: what was queued, and what was due

registry == <<visible, generation>>
pubMem   == <<listed, linked, refused>>
pubVars  == <<pub, next_seq, next_index, latched, evicted, gen, cached_generation, paths, targets>>
ringVars == <<rseq, whdr, wpay, segs>>
subVars  == <<spc, loc, sock, queue, watermark, delivered, overlapped, owed>>
vars     == <<registry, pubMem, pubVars, ringVars, subVars>>

NoSample    == 0
NoWatermark == -1
NoLocals    == [i |-> 0, s1 |-> 0, hdr |-> NoSample, pay |-> NoSample, tries |-> 0,
                obs |-> [k \in Ring |-> 0], recs |-> {}, max |-> 0, cut |-> FALSE]

Init ==
  /\ visible = {} /\ generation = 0 /\ listed = TRUE /\ linked = TRUE
  /\ refused = {}
  /\ pub = "idle" /\ next_seq = 1 /\ next_index = 1
  /\ latched = FALSE /\ evicted = NoSample
  /\ gen = 0 /\ cached_generation = 0 /\ paths = {} /\ targets = {}
  /\ rseq = [k \in Ring |-> 0]
  /\ whdr = [k \in Ring |-> NoSample] /\ wpay = [k \in Ring |-> NoSample]
  /\ segs = {}
  /\ spc = [s \in Subs |-> "none"] /\ loc = [s \in Subs |-> NoLocals]
  /\ sock = [s \in Subs |-> <<>>] /\ queue = [s \in Subs |-> <<>>]
  /\ watermark = [s \in Subs |-> NoWatermark]
  /\ delivered = [s \in Subs |-> <<>>]
  /\ overlapped = [s \in Subs |-> FALSE] /\ owed = [s \in Subs |-> {}]

-----------------------------------------------------------------------------
(* The publisher.                                                           *)

cur  == next_seq - 1                \* sample being published
slot == (next_index - 1) % Slots    \* slot of the next latch

(* shm_stage_durable: a payload that does not fit the slot gets a segment.  *)
Staged(n) == IF KindOf[n] = "embed" THEN segs ELSE segs \cup {n}

(* transient_local_publish: stage an over-cap payload, lock cache_mutex,    *)
(* take the sequence number.  The latch is refused when staging failed or   *)
(* the slot's pages cannot be allocated; the number is spent all the same.  *)
PubBegin ==
  /\ pub = "idle" /\ next_seq <= MaxSamples
  /\ next_seq' = next_seq + 1
  /\ \/ /\ pub' = "odd"
        /\ segs' = Staged(next_seq)
        /\ UNCHANGED refused
     \/ /\ next_seq \in Unlatchable
        /\ pub' = "load"
        /\ refused' = refused \cup {next_seq}
        /\ UNCHANGED segs
  /\ latched' = FALSE /\ evicted' = NoSample
  /\ UNCHANGED <<registry, listed, linked, next_index, gen, cached_generation, paths, targets,
                 rseq, whdr, wpay, subVars>>

(* tl_ring_latch: seq odd, header, payload, seq even.                       *)
LatchOdd ==
  /\ pub = "odd" /\ pub' = "hdr"
  /\ rseq' = [rseq EXCEPT ![slot] = (2 * next_index - 1) % SeqMod]
  /\ UNCHANGED <<registry, pubMem, next_seq, next_index, latched, evicted, gen,
                 cached_generation, paths, targets, whdr, wpay, segs, subVars>>

LatchHeader ==
  /\ pub = "hdr" /\ pub' = "pay"
  /\ whdr' = [whdr EXCEPT ![slot] = cur]
  /\ UNCHANGED <<registry, pubMem, next_seq, next_index, latched, evicted, gen,
                 cached_generation, paths, targets, rseq, wpay, segs, subVars>>

(* The overwritten record's segment is handed over for a later unlink.      *)
LatchPayload ==
  /\ pub = "pay" /\ pub' = "even"
  /\ evicted' = wpay[slot]
  /\ wpay' = [wpay EXCEPT ![slot] = cur]
  /\ UNCHANGED <<registry, pubMem, next_seq, next_index, latched, gen,
                 cached_generation, paths, targets, rseq, whdr, segs, subVars>>

LatchEven ==
  /\ pub = "even" /\ pub' = "load"
  /\ rseq' = [rseq EXCEPT ![slot] = (2 * next_index) % SeqMod]
  /\ next_index' = next_index + 1
  /\ latched' = TRUE
  /\ UNCHANGED <<registry, pubMem, next_seq, evicted, gen, cached_generation, paths,
                 targets, whdr, wpay, segs, subVars>>

(* After the fence: load the generation, then refresh_sub_paths.            *)
LoadGeneration ==
  /\ pub = "load" /\ pub' = "refresh"
  /\ gen' = generation
  /\ UNCHANGED <<registry, pubMem, next_seq, next_index, latched, evicted,
                 cached_generation, paths, targets, ringVars, subVars>>

RefreshSubPaths ==
  /\ pub = "refresh" /\ pub' = "send"
  /\ \/ /\ gen > cached_generation
        /\ paths' = visible /\ targets' = visible /\ cached_generation' = gen
     \/ /\ gen <= cached_generation
        /\ targets' = paths /\ UNCHANGED <<paths, cached_generation>>
  /\ UNCHANGED <<registry, pubMem, next_seq, next_index, latched, evicted, gen,
                 ringVars, subVars>>

(* send_to one subscriber.  A payload above the datagram threshold that was *)
(* not latched goes inline, and an oversize one fails (EMSGSIZE); a full    *)
(* buffer or a closed socket drops the datagram.                            *)
ByDescriptor(n) == KindOf[n] \in {"descriptor", "oversize"}
Datagram  == [n |-> cur, desc |-> ByDescriptor(cur) /\ latched]
Sendable(s) ==
  /\ KindOf[cur] = "oversize" => latched
  /\ spc[s] # "gone" /\ Len(sock[s]) < SockCap

Send(s) ==
  /\ pub = "send" /\ s \in targets
  /\ targets' = targets \ {s}
  /\ sock' = IF Sendable(s) THEN [sock EXCEPT ![s] = Append(@, Datagram)] ELSE sock
  /\ UNCHANGED <<registry, pubMem, pub, next_seq, next_index, latched, evicted, gen,
                 cached_generation, paths, ringVars, spc, loc, queue, watermark,
                 delivered, overlapped, owed>>

(* Unlock, then the evicted segment is unmapped and unlinked.               *)
PubEnd ==
  /\ pub = "send" /\ targets = {} /\ pub' = "idle"
  /\ segs' = segs \ {evicted}
  /\ latched' = FALSE /\ evicted' = NoSample
  /\ UNCHANGED <<registry, pubMem, next_seq, next_index, gen, cached_generation, paths,
                 targets, rseq, whdr, wpay, subVars>>

(* rmw_destroy_publisher: registry_remove takes the slot away, then unlinks *)
(* the ring and bumps the generation; the durable segments follow.          *)
PubUnlist ==
  /\ PubMayStop /\ pub = "idle" /\ pub' = "closing"
  /\ listed' = FALSE
  /\ UNCHANGED <<registry, linked, refused, next_seq, next_index, latched, evicted, gen,
                 cached_generation, paths, targets, ringVars, subVars>>

PubClose ==
  /\ pub = "closing" /\ pub' = "gone"
  /\ linked' = FALSE /\ segs' = {} /\ generation' = generation + 1
  /\ UNCHANGED <<visible, listed, refused, next_seq, next_index, latched, evicted, gen,
                 cached_generation, paths, targets, rseq, whdr, wpay, subVars>>

(* The publisher's process dies at any point; a later sweep of the registry *)
(* takes its slot and unlinks its ring.                                     *)
PubCrash ==
  /\ PubMayStop /\ pub \notin {"gone", "dead"} /\ pub' = "dead" /\ targets' = {}
  /\ UNCHANGED <<registry, pubMem, next_seq, next_index, latched, evicted, gen,
                 cached_generation, paths, ringVars, subVars>>

Reap ==
  /\ pub = "dead" /\ listed
  /\ listed' = FALSE /\ linked' = FALSE /\ generation' = generation + 1
  /\ UNCHANGED <<visible, refused, pubVars, ringVars, subVars>>

-----------------------------------------------------------------------------
(* rmw_create_subscription.                                                 *)

Sub(s, from, to) == spc[s] = from /\ spc' = [spc EXCEPT ![s] = to]
SetLoc(s, r)     == loc' = [loc EXCEPT ![s] = r]

(* The samples a joiner is due when it registers: the newest the ring holds *)
(* that fit its own queue.                                                  *)
Latched == {whdr[k] : k \in {j \in Ring : rseq[j] # 0 /\ rseq[j] % 2 = 0}}
Newest(S, k) == {n \in S : Cardinality({m \in S : m > n}) < k}

(* registry_add: the slot becomes visible (the socket is bound), then the   *)
(* generation is bumped.                                                    *)
SubVisible(s) ==
  /\ Sub(s, "none", "visible")
  /\ visible' = visible \cup {s}
  /\ owed' = [owed EXCEPT ![s] = Newest(Latched, QueueDepth)]
  /\ UNCHANGED <<generation, pubMem, pubVars, ringVars, loc, sock, queue, watermark,
                 delivered, overlapped>>

(* Mutant of SubBump: the registration is not announced.                    *)
SubBumpNone(s) ==
  /\ Sub(s, "visible", "query")
  /\ UNCHANGED <<generation, visible, pubMem, pubVars, ringVars, loc, sock, queue, watermark,
                 delivered, overlapped, owed>>

SubBump(s) ==
  /\ Sub(s, "visible", "query")
  /\ generation' = generation + 1
  /\ UNCHANGED <<visible, pubMem, pubVars, ringVars, loc, sock, queue, watermark,
                 delivered, overlapped, owed>>

(* After the fence: query the publishers.                                   *)
SubQuery(s) ==
  /\ Sub(s, "query", IF listed THEN "open" ELSE "ready")
  /\ UNCHANGED <<registry, pubMem, pubVars, ringVars, loc, sock, queue, watermark,
                 delivered, overlapped, owed>>

(* tl_ring_pull: open and map the ring, then scan slot by slot.             *)
PullOpen(s) ==
  /\ Sub(s, "open", IF linked THEN "seq" ELSE "ready")
  /\ UNCHANGED <<registry, pubMem, pubVars, ringVars, loc, sock, queue, watermark,
                 delivered, overlapped, owed>>

NextSlot(l)  == [l EXCEPT !.i = @ + 1, !.s1 = 0, !.hdr = NoSample, !.pay = NoSample, !.tries = 0]
RetrySlot(l) == IF l.tries + 1 < MaxPullRetries
                THEN [l EXCEPT !.s1 = 0, !.hdr = NoSample, !.pay = NoSample, !.tries = @ + 1]
                ELSE NextSlot(l)

PullSeq(s) ==
  LET l == loc[s]
      q == rseq[l.i]
      o == [l EXCEPT !.obs[l.i] = q]
  IN /\ l.i < Slots
     /\ \/ q = 0 /\ Sub(s, "seq", "seq") /\ SetLoc(s, NextSlot(o))
        \/ q % 2 = 1 /\ Sub(s, "seq", "seq") /\ SetLoc(s, RetrySlot(o))
        \/ q # 0 /\ q % 2 = 0 /\ Sub(s, "seq", "hdr") /\ SetLoc(s, [o EXCEPT !.s1 = q])
     /\ UNCHANGED <<registry, pubMem, pubVars, ringVars, sock, queue, watermark,
                    delivered, overlapped, owed>>

PullHeader(s) ==
  /\ Sub(s, "hdr", "pay")
  /\ SetLoc(s, [loc[s] EXCEPT !.hdr = whdr[loc[s].i]])
  /\ UNCHANGED <<registry, pubMem, pubVars, ringVars, sock, queue, watermark,
                 delivered, overlapped, owed>>

PullPayload(s) ==
  /\ Sub(s, "pay", "check")
  /\ SetLoc(s, [loc[s] EXCEPT !.pay = wpay[loc[s].i]])
  /\ UNCHANGED <<registry, pubMem, pubVars, ringVars, sock, queue, watermark,
                 delivered, overlapped, owed>>

(* Mutant of PullCheck: seq is not compared again.                          *)
PullCheckBlind(s) ==
  LET l == loc[s] IN
  /\ Sub(s, "check", "seq")
  /\ SetLoc(s, NextSlot([l EXCEPT !.recs = @ \cup {[n |-> l.hdr, pay |-> l.pay]},
                                  !.max = IF l.hdr > @ THEN l.hdr ELSE @]))
  /\ UNCHANGED <<registry, pubMem, pubVars, ringVars, sock, queue, watermark,
                 delivered, overlapped, owed>>

PullCheck(s) ==
  LET l == loc[s] IN
  /\ Sub(s, "check", "seq")
  /\ \/ /\ rseq[l.i] = l.s1
        /\ SetLoc(s, NextSlot([l EXCEPT !.recs = @ \cup {[n |-> l.hdr, pay |-> l.pay]},
                                        !.max = IF l.hdr > @ THEN l.hdr ELSE @]))
     \/ rseq[l.i] # l.s1 /\ SetLoc(s, RetrySlot(l))
  /\ UNCHANGED <<registry, pubMem, pubVars, ringVars, sock, queue, watermark,
                 delivered, overlapped, owed>>

(* Every slot is compared with what the scan observed in it.                *)
PullScanned(s) ==
  /\ loc[s].i >= Slots /\ Sub(s, "seq", "recheck")
  /\ SetLoc(s, [loc[s] EXCEPT !.i = 0])
  /\ UNCHANGED <<registry, pubMem, pubVars, ringVars, sock, queue, watermark,
                 delivered, overlapped, owed>>

PullRecheck(s) ==
  LET l == loc[s]
      moved == rseq[l.i] # l.obs[l.i]
  IN /\ l.i < Slots
     /\ overlapped' = [overlapped EXCEPT ![s] = moved]
     /\ SetLoc(s, [l EXCEPT !.i = @ + 1])
     /\ Sub(s, "recheck", IF moved \/ l.i + 1 = Slots THEN "trim" ELSE "recheck")
     /\ UNCHANGED <<registry, pubMem, pubVars, ringVars, sock, queue, watermark,
                    delivered, owed>>

Numbers(recs) == {r.n : r \in recs}

(* Mutant of NewestRecs: off by one.                                        *)
NewestRecsShort(recs) == {r \in recs : r.n \in Newest(Numbers(recs), QueueDepth - 1)}

NewestRecs(recs) == {r \in recs : r.n \in Newest(Numbers(recs), QueueDepth)}

Prefix(recs) == {r \in recs : \A m \in Numbers(recs) : m < r.n => m + 1 \in Numbers(recs)}
MaxOf(S) == CHOOSE m \in S : \A n \in S : n <= m
MinOf(S) == CHOOSE m \in S : \A n \in S : m <= n

(* Mutant of PullTrim: an overlapped scan keeps its gaps.                   *)
PullTrimNoPrefix(s) ==
  LET l    == loc[s]
      kept == NewestRecs(l.recs)
  IN /\ \/ l.recs = {} /\ Sub(s, "trim", "ready") /\ SetLoc(s, NoLocals)
        \/ /\ l.recs # {} /\ Sub(s, "trim", "enqueue")
           /\ SetLoc(s, [NoLocals EXCEPT !.recs = kept,
                           !.max = IF overlapped[s] THEN MaxOf(Numbers(kept)) ELSE l.max])
     /\ UNCHANGED <<registry, pubMem, pubVars, ringVars, sock, queue, watermark,
                    delivered, overlapped, owed>>

(* Keep the newest QueueDepth records; after an overlapped scan only their  *)
(* contiguous prefix, and the watermark stops with it.  An empty pull sets  *)
(* no watermark.                                                            *)
PullTrim(s) ==
  LET l    == loc[s]
      kept == IF overlapped[s] THEN Prefix(NewestRecs(l.recs)) ELSE NewestRecs(l.recs)
  IN /\ \/ l.recs = {} /\ Sub(s, "trim", "ready") /\ SetLoc(s, NoLocals)
        \/ /\ l.recs # {} /\ Sub(s, "trim", "enqueue")
           /\ SetLoc(s, [NoLocals EXCEPT !.recs = kept,
                           !.max = IF overlapped[s] THEN MaxOf(Numbers(kept)) ELSE l.max])
     /\ UNCHANGED <<registry, pubMem, pubVars, ringVars, sock, queue, watermark,
                    delivered, overlapped, owed>>

(* message_queue.push_back and the depth trim.                              *)
Push(q, m) == LET r == Append(q, m) IN IF Len(r) > QueueDepth THEN Tail(r) ELSE r

(* A durable segment that was unlinked meanwhile cannot be resolved.        *)
Resolvable(r) == KindOf[r.n] # "embed" => r.n \in segs

(* The records in order; the first one that cannot be resolved ends the     *)
(* replay with the watermark just below it.                                 *)
PullEnqueue(s) ==
  LET l == loc[s]
      r == CHOOSE x \in l.recs : x.n = MinOf(Numbers(l.recs))
  IN /\ l.recs # {} /\ Sub(s, "enqueue", "enqueue")
     /\ \/ /\ Resolvable(r)
           /\ SetLoc(s, [l EXCEPT !.recs = @ \ {r}])
           /\ queue' = [queue EXCEPT ![s] = Push(@, r)]
           /\ delivered' = [delivered EXCEPT ![s] = Append(@, r)]
        \/ /\ ~Resolvable(r)
           /\ SetLoc(s, [l EXCEPT !.recs = {}, !.max = r.n - 1, !.cut = TRUE])
           /\ UNCHANGED <<queue, delivered>>
     /\ UNCHANGED <<registry, pubMem, pubVars, ringVars, sock, watermark, overlapped, owed>>

(* Mutant of PullWatermark: no watermark is recorded.                       *)
PullWatermarkNone(s) ==
  /\ loc[s].recs = {} /\ Sub(s, "enqueue", "ready")
  /\ UNCHANGED watermark
  /\ SetLoc(s, [NoLocals EXCEPT !.cut = loc[s].cut])
  /\ UNCHANGED <<registry, pubMem, pubVars, ringVars, sock, queue, delivered, overlapped, owed>>

PullWatermark(s) ==
  /\ loc[s].recs = {} /\ Sub(s, "enqueue", "ready")
  /\ watermark' = [watermark EXCEPT ![s] = loc[s].max]
  /\ SetLoc(s, [NoLocals EXCEPT !.cut = loc[s].cut])
  /\ UNCHANGED <<registry, pubMem, pubVars, ringVars, sock, queue, delivered, overlapped, owed>>

-----------------------------------------------------------------------------
(* drain_subscription, one datagram: drop what the pull delivered, drop a   *)
(* descriptor whose segment is gone, queue the rest.                        *)
Drain(s) ==
  LET m == Head(sock[s])
      r == [n |-> m.n, pay |-> m.n]
  IN /\ spc[s] = "ready" /\ sock[s] # <<>>
     /\ sock' = [sock EXCEPT ![s] = Tail(@)]
     /\ \/ m.n <= watermark[s] /\ UNCHANGED <<queue, delivered>>
        \/ /\ m.n > watermark[s] /\ m.desc /\ m.n \notin segs
           /\ UNCHANGED <<queue, delivered>>
        \/ /\ m.n > watermark[s] /\ (m.desc => m.n \in segs)
           /\ queue' = [queue EXCEPT ![s] = Push(@, r)]
           /\ delivered' = [delivered EXCEPT ![s] = Append(@, r)]
     /\ UNCHANGED <<registry, pubMem, pubVars, ringVars, spc, loc, watermark, overlapped, owed>>

(* rmw_take.                                                                *)
Take(s) ==
  /\ spc[s] = "ready" /\ queue[s] # <<>>
  /\ queue' = [queue EXCEPT ![s] = Tail(@)]
  /\ UNCHANGED <<registry, pubMem, pubVars, ringVars, spc, loc, sock, watermark,
                 delivered, overlapped, owed>>

(* rmw_destroy_subscription: registry_remove takes the slot away, unlinks   *)
(* the socket and bumps the generation; then the socket is closed.          *)
SubUnlist(s) ==
  /\ s \in Destroyable /\ Sub(s, "ready", "closing")
  /\ visible' = visible \ {s}
  /\ UNCHANGED <<generation, pubMem, pubVars, ringVars, loc, sock, queue, watermark, delivered,
                 overlapped, owed>>

SubClose(s) ==
  /\ Sub(s, "closing", "gone")
  /\ generation' = generation + 1
  /\ sock' = [sock EXCEPT ![s] = <<>>] /\ queue' = [queue EXCEPT ![s] = <<>>]
  /\ UNCHANGED <<visible, pubMem, pubVars, ringVars, loc, watermark, delivered,
                 overlapped, owed>>

(* A publish, a creation and a destruction, once begun, run to their end:   *)
(* none waits for another.                                                  *)
PublishStep ==
  \/ LatchOdd \/ LatchHeader \/ LatchPayload \/ LatchEven \/ LoadGeneration
  \/ RefreshSubPaths \/ PubEnd \/ PubClose \/ \E s \in Subs : Send(s)
SubStep(s) ==
  \/ SubBump(s) \/ SubQuery(s) \/ PullOpen(s) \/ PullSeq(s) \/ PullHeader(s)
  \/ PullPayload(s) \/ PullCheck(s) \/ PullScanned(s) \/ PullRecheck(s) \/ PullTrim(s)
  \/ PullEnqueue(s) \/ PullWatermark(s) \/ SubClose(s)

Next == \/ PubBegin \/ PublishStep \/ PubUnlist \/ PubCrash \/ Reap
        \/ \E s \in Subs : SubVisible(s) \/ SubStep(s) \/ Drain(s) \/ Take(s) \/ SubUnlist(s)

Spec == Init /\ [][Next]_vars

(* The executor goes on waiting, so a socket that holds a datagram is       *)
(* drained.                                                                 *)
FairSpec == /\ Spec /\ WF_vars(PublishStep)
            /\ \A s \in Subs : WF_vars(SubStep(s)) /\ WF_vars(Drain(s))

-----------------------------------------------------------------------------
(* Properties.                                                              *)

Rec   == [n : Samples, pay : Samples]
Dgram == [n : Samples, desc : BOOLEAN]

(* Every variable has its type.                                             *)
TypeOK ==
  /\ visible \subseteq Subs /\ generation \in Nat /\ listed \in BOOLEAN /\ linked \in BOOLEAN
  /\ refused \subseteq Samples
  /\ pub \in {"idle", "odd", "hdr", "pay", "even", "load", "refresh", "send",
              "closing", "gone", "dead"}
  /\ next_seq \in 1 .. MaxSamples + 1 /\ next_index \in 1 .. next_seq
  /\ latched \in BOOLEAN /\ evicted \in Samples \cup {NoSample}
  /\ gen \in Nat /\ cached_generation \in Nat /\ paths \subseteq Subs /\ targets \subseteq Subs
  /\ rseq \in [Ring -> Nat] /\ segs \subseteq Samples
  /\ whdr \in [Ring -> Samples \cup {NoSample}] /\ wpay \in [Ring -> Samples \cup {NoSample}]
  /\ spc \in [Subs -> {"none", "visible", "query", "open", "seq", "hdr", "pay", "check",
                       "recheck", "trim", "enqueue", "ready", "closing", "gone"}]
  /\ sock \in [Subs -> Seq(Dgram)] /\ queue \in [Subs -> Seq(Rec)]
  /\ delivered \in [Subs -> Seq(Rec)] /\ watermark \in [Subs -> Int]
  /\ overlapped \in [Subs -> BOOLEAN] /\ owed \in [Subs -> SUBSET Samples]

DeliveredTo(s) == {delivered[s][k].n : k \in 1 .. Len(delivered[s])}

(* A subscription queues the samples of one publisher in sequence order and *)
(* each at most once, replayed history before live samples, although a      *)
(* sample may reach it both through the ring and as a datagram.             *)
InOrderNoDuplicates ==
  \A s \in Subs : \A j, k \in 1 .. Len(delivered[s]) :
    j < k => delivered[s][j].n < delivered[s][k].n

(* No queued sample mixes the header of one record with the payload of      *)
(* another, however the writer laps the scan.                               *)
NoTornSample ==
  \A s \in Subs : \A k \in 1 .. Len(delivered[s]) : delivered[s][k].n = delivered[s][k].pay

(* Overwritten in the ring, or about to be: Slots newer samples exist.      *)
Lapped(n) == n <= cur - Slots

(* What the dedup may drop: a datagram at or below the watermark that was   *)
(* delivered by the pull, is older than a full queue of delivered samples,  *)
(* or has been lapped; and, when the replay met a removed segment after     *)
(* older records were trimmed, one that is older than a full queue.         *)
Swallowed(s) == {n \in Samples : n <= watermark[s] /\ \E k \in 1 .. Len(sock[s]) : sock[s][k].n = n}
Excusable(s, n) ==
  \/ n \in DeliveredTo(s)
  \/ Cardinality({m \in DeliveredTo(s) : m > n}) >= QueueDepth
  \/ Lapped(n)
  \/ loc[s].cut /\ n <= cur - QueueDepth

(* The watermark of a finished pull swallows no sample the ring took and    *)
(* the joiner lacks: always after a scan that no latch overlapped and,      *)
(* after one that was, above the oldest pulled sample, where the code looks *)
(* for gaps.  (A sample the ring refused has a number below the watermark   *)
(* of a newer record, and its datagram is dropped with the others.)         *)
WatermarkCoversPulledRange ==
  \A s \in Subs : spc[s] = "ready" =>
    \A n \in Swallowed(s) \ refused :
      (~overlapped[s] \/ \E m \in DeliveredTo(s) : m < n) => Excusable(s, n)

(* A late joiner whose scan no latch overlapped and whose replay met no     *)
(* evicted segment has every sample it was due when it registered, except   *)
(* those the ring has overwritten and those a full queue has displaced      *)
(* since.                                                                   *)
Pulled(s) == spc[s] = "ready" /\ ~overlapped[s] /\ ~loc[s].cut
LateJoinerHistory ==
  \A s \in Subs : Pulled(s) /\ pub \notin {"closing", "gone", "dead"} =>
    \A n \in owed[s] : Excusable(s, n)

(* "Every latched sample is either in a cache this pull observes, or its    *)
(* publisher observed our registration": a sample whose number is taken     *)
(* after a subscription's registration is announced is queued there in the  *)
(* end, unless the pull's watermark already stands for it, one of the two   *)
(* goes, or its segment was evicted before its descriptor was drained.      *)
(* Stated for sockets that never overflow.                                  *)
LiveDelivery ==
  \A s \in Subs, n \in Samples :
    (spc[s] \notin {"none", "visible"} /\ pub = "odd" /\ cur = n)
      ~> \/ n \in DeliveredTo(s) \/ (spc[s] = "ready" /\ n <= watermark[s])
         \/ spc[s] \in {"closing", "gone"} \/ pub \in {"closing", "gone", "dead"}
         \/ ByDescriptor(n) /\ Lapped(n)

=============================================================================
