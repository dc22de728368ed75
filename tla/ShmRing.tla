------------------------------ MODULE ShmRing -------------------------------
(***************************************************************************)
(* The shared-memory payload ring of one sender and the cache of mappings  *)
(* of one receiver.  A payload of SHM_PAYLOAD_THRESHOLD bytes or more is   *)
(* written once into a ring record under shm_mutex; the datagram carries a *)
(* descriptor (segment, offset, seq, size), and the receiver copies the    *)
(* record out, comparing its seq before and after the copy.                *)
(*                                                                         *)
(* The record area is divided into cells (SHM_RECORD_ALIGN bytes each in   *)
(* the code).  A record of k cells has its header in its first cell, next  *)
(* to the first piece of the payload.  A cell remembers which message its  *)
(* payload bytes came from.  Payload bytes that land on an old header      *)
(* leave a word there that no descriptor expects (Raw).                    *)
(***************************************************************************)
EXTENDS Integers, FiniteSets, Sequences

CONSTANTS
  Threads,       \* threads of the sender that publish through this ring
  NoThread,      \* shm_mutex is free
  MaxMessages,   \* bound: messages published
  Sizes,         \* record sizes a size walk may estimate, in cells
  Slack,         \* cells by which an estimate may exceed the actual size
  MinCells,      \* SHM_RING_MIN_BYTES, in cells
  SeqMod,        \* modulus of the seq word (2^32)
  SockCap,       \* datagrams the receiver's socket buffer holds
  MayFail,       \* may create_segment or the serializer fail?
  CrowdedCache   \* do other senders' mappings make the cache sweep itself?

Messages == 1 .. MaxMessages
Segments == 1 .. MaxMessages
Largest  == CHOOSE k \in Sizes : \A j \in Sizes : j <= k
Area(k)  == IF 4 * k > MinCells THEN 4 * k ELSE MinCells
Cells    == 0 .. Area(Largest) - 1

ASSUME ShmRingAssumption ==
  /\ NoThread \notin Threads /\ IsFiniteSet(Threads) /\ MaxMessages \in Nat
  /\ Sizes \subseteq Nat \ {0} /\ \E k \in Sizes : \A j \in Sizes : j <= k
  /\ Slack \in Nat /\ MinCells \in Nat /\ SeqMod \in Nat \ {0} /\ SockCap \in Nat
  /\ MayFail \in BOOLEAN /\ CrowdedCache \in BOOLEAN

VARIABLES
  tpc, tmsg, tdesc,                   \* the publishing threads
  nmsg,                               \* sequence_number
  holder, todo, size,                 \* shm_mutex; the staging in progress
  segment_id, ring_cells,             \* ShmRingWriter; ring_cells = 0: closed
  next_offset, next_index,
  linked,                             \* segments that still have their shm name
  seqw, lenw, tag,                    \* the cells of every segment
  sock, sent,                         \* the receiver's socket; history: what entered it
  rpc, rd, rtodo, rtags, mappings,    \* the receiver
  delivered, last, prev   \* history

threadVars == <<tpc, tmsg, tdesc, nmsg>>
stageVars  == <<holder, todo, size>>
ringVars   == <<segment_id, ring_cells, next_offset, next_index, linked>>
memVars    == <<seqw, lenw, tag>>
sockVars   == <<sock, sent>>
recvVars   == <<rpc, rd, rtodo, rtags, mappings, delivered>>
histVars   == <<last, prev>>
vars == <<threadVars, stageVars, ringVars, memVars, sockVars, recvVars, histVars>>

Raw      == -1                        \* payload bytes where a header was
NoDesc   == [n |-> 0, shm |-> FALSE, seg |-> 0, off |-> 0, seq |-> 0, size |-> 0]
Desc(n)  == [n |-> n, shm |-> TRUE, seg |-> segment_id, off |-> next_offset,
             seq |-> (2 * next_index) % SeqMod, size |-> size]
Inline(n) == [NoDesc EXCEPT !.n = n]
Span(off, k) == off .. off + k - 1

Init ==
  /\ tpc = [t \in Threads |-> "idle"] /\ tmsg = [t \in Threads |-> 0]
  /\ tdesc = [t \in Threads |-> NoDesc] /\ nmsg = 0
  /\ holder = NoThread /\ todo = {} /\ size = 0
  /\ segment_id = 0 /\ ring_cells = 0 /\ next_offset = 0 /\ next_index = 1 /\ linked = {}
  /\ seqw = [g \in Segments |-> [c \in Cells |-> 0]]
  /\ lenw = [g \in Segments |-> [c \in Cells |-> 0]]
  /\ tag = [g \in Segments |-> [c \in Cells |-> 0]]
  /\ sock = <<>> /\ sent = {}
  /\ rpc = "idle" /\ rd = NoDesc /\ rtodo = {} /\ rtags = {} /\ mappings = {}
  /\ delivered = <<>> /\ last = NoDesc /\ prev = NoDesc

-----------------------------------------------------------------------------
(* The sender.                                                              *)

Thread(t, from, to) == tpc[t] = from /\ tpc' = [tpc EXCEPT ![t] = to]

(* rmw_publish returns.                                                     *)
Return(t) ==
  /\ tpc' = [tpc EXCEPT ![t] = "idle"]
  /\ tmsg' = [tmsg EXCEPT ![t] = 0] /\ tdesc' = [tdesc EXCEPT ![t] = NoDesc]

(* rmw_publish takes a sequence number before it takes shm_mutex.           *)
Publish(t) ==
  /\ Thread(t, "idle", "stage") /\ nmsg < MaxMessages
  /\ nmsg' = nmsg + 1 /\ tmsg' = [tmsg EXCEPT ![t] = nmsg + 1]
  /\ UNCHANGED <<tdesc, stageVars, ringVars, memVars, sockVars, recvVars, histVars>>

(* shm_stage_reserve.  The ring is created, or replaced by a bigger one     *)
(* whose cursor starts at 0 while the old name is unlinked; the cursor      *)
(* wraps when the record does not fit before the end; the header it points  *)
(* at turns odd.  The estimate k reserves; the actual size is written.      *)
NeedsSegment(k) == ring_cells = 0 \/ 4 * k > ring_cells

ReserveAt(t, act, seg, off) ==
  /\ holder' = t /\ size' = act /\ todo' = Span(off, act)
  /\ seqw' = [seqw EXCEPT ![seg][off] = (2 * next_index - 1) % SeqMod]
  /\ next_offset' = off
  /\ UNCHANGED <<tmsg, tdesc, nmsg, next_index, lenw, tag, sockVars, recvVars, histVars>>

Wrapped(k) == IF next_offset + k > ring_cells THEN 0 ELSE next_offset

Actual(k) == {k} \cup ({k - Slack} \cap (Nat \ {0}))

Reserve(t, k) ==
  /\ Thread(t, "stage", "write") /\ holder = NoThread /\ ~NeedsSegment(k)
  /\ \E act \in Actual(k) : ReserveAt(t, act, segment_id, Wrapped(k))
  /\ UNCHANGED <<segment_id, ring_cells, linked>>

(* create_segment: the new segment is ready before the old name goes.       *)
GrowReserve(t, k) ==
  /\ Thread(t, "stage", "write") /\ holder = NoThread /\ NeedsSegment(k)
  /\ segment_id' = segment_id + 1 /\ ring_cells' = Area(k)
  /\ linked' = {segment_id + 1}
  /\ \E act \in Actual(k) : ReserveAt(t, act, segment_id + 1, 0)

(* create_segment fails and leaves the writer as it was; the payload goes   *)
(* inline, and is refused by the socket when it is too big for a datagram.  *)
GrowFail(t, k) ==
  /\ MayFail /\ tpc[t] = "stage" /\ holder = NoThread /\ NeedsSegment(k)
  /\ \/ /\ tpc' = [tpc EXCEPT ![t] = "send"]
        /\ tdesc' = [tdesc EXCEPT ![t] = Inline(tmsg[t])]
        /\ UNCHANGED tmsg
     \/ Return(t)
  /\ UNCHANGED <<nmsg, stageVars, ringVars, memVars, sockVars, recvVars, histVars>>

(* One piece of the payload becomes visible: the stores between reserve and *)
(* commit are plain ones, which a receiver may see in any order.            *)
WriteCell(t, c) ==
  /\ tpc[t] = "write" /\ c \in todo
  /\ todo' = todo \ {c}
  /\ tag' = [tag EXCEPT ![segment_id][c] = tmsg[t]]
  /\ IF c = next_offset THEN UNCHANGED <<seqw, lenw>>
     ELSE /\ seqw' = [seqw EXCEPT ![segment_id][c] = Raw]
          /\ lenw' = [lenw EXCEPT ![segment_id][c] = Raw]
  /\ UNCHANGED <<threadVars, holder, size, ringVars, sockVars, recvVars, histVars>>

(* Mutant of Commit: the cursor stops one cell short.                       *)
CommitShort(t) ==
  /\ Thread(t, "write", "send") /\ todo = {}
  /\ tdesc' = [tdesc EXCEPT ![t] = Desc(tmsg[t])]
  /\ lenw' = [lenw EXCEPT ![segment_id][next_offset] = size]
  /\ seqw' = [seqw EXCEPT ![segment_id][next_offset] = (2 * next_index) % SeqMod]
  /\ next_offset' = next_offset + size - 1 /\ next_index' = next_index + 1
  /\ holder' = NoThread /\ size' = 0
  /\ prev' = last /\ last' = Desc(tmsg[t])
  /\ UNCHANGED <<tmsg, nmsg, todo, segment_id, ring_cells, linked, tag, sockVars, recvVars>>

(* shm_stage_commit: length, even seq, cursor past the actual size; then    *)
(* the mutex is released.                                                   *)
Commit(t) ==
  /\ Thread(t, "write", "send") /\ todo = {}
  /\ tdesc' = [tdesc EXCEPT ![t] = Desc(tmsg[t])]
  /\ lenw' = [lenw EXCEPT ![segment_id][next_offset] = size]
  /\ seqw' = [seqw EXCEPT ![segment_id][next_offset] = (2 * next_index) % SeqMod]
  /\ next_offset' = next_offset + size /\ next_index' = next_index + 1
  /\ holder' = NoThread /\ size' = 0
  /\ prev' = last /\ last' = Desc(tmsg[t])
  /\ UNCHANGED <<tmsg, nmsg, todo, segment_id, ring_cells, linked, tag, sockVars, recvVars>>

(* The serializer fails, having written from the front up to some cell:     *)
(* shm_stage_abort leaves the header odd and the cursor where the           *)
(* reservation put it; the inline retry fails as well.                      *)
FrontWritten == \A c \in Span(next_offset, size) \ todo, d \in todo : c < d

Abort(t) ==
  /\ MayFail /\ tpc[t] = "write" /\ FrontWritten /\ Return(t)
  /\ holder' = NoThread /\ todo' = {} /\ size' = 0
  /\ UNCHANGED <<nmsg, ringVars, memVars, sockVars, recvVars, histVars>>

(* send_to, after the mutex was released; a full socket drops the datagram. *)
Send(t) ==
  /\ tpc[t] = "send" /\ Return(t)
  /\ IF Len(sock) < SockCap
     THEN sock' = Append(sock, tdesc[t]) /\ sent' = sent \cup {tdesc[t].n}
     ELSE UNCHANGED sockVars
  /\ UNCHANGED <<nmsg, stageVars, ringVars, memVars, recvVars, histVars>>

(* rmw_destroy_publisher: shm_writer_close.                                 *)
Close ==
  /\ \A t \in Threads : tpc[t] = "idle"
  /\ tpc' = [t \in Threads |-> "gone"]
  /\ ring_cells' = 0 /\ next_offset' = 0 /\ linked' = {}
  /\ UNCHANGED <<tmsg, tdesc, nmsg, stageVars, segment_id, next_index, memVars, sockVars,
                 recvVars, histVars>>

-----------------------------------------------------------------------------
(* The receiver: recv_from, shm_resolve_incoming, shm_fetch_payload.        *)

Receiver(from, to) == rpc = from /\ rpc' = to

Recv ==
  /\ Receiver("idle", "map") /\ sock # <<>>
  /\ sock' = Tail(sock) /\ rd' = Head(sock)
  /\ UNCHANGED <<threadVars, stageVars, ringVars, memVars, rtodo, rtags, mappings,
                 delivered, sent, histVars>>

Finish(outcome) ==
  /\ delivered' = delivered \o outcome
  /\ rd' = NoDesc /\ rtodo' = {} /\ rtags' = {}

(* An inline payload needs no resolving.                                    *)
TakeInline ==
  /\ Receiver("map", "idle") /\ ~rd.shm
  /\ Finish(<<[n |-> rd.n, from |-> {rd.n}]>>)
  /\ UNCHANGED <<threadVars, stageVars, ringVars, memVars, sockVars, mappings,
                 histVars>>

(* map_segment: a cached mapping; a segment whose name still exists, which  *)
(* replaces every other mapping of this ring; or a dropped message.         *)
MapCached ==
  /\ Receiver("map", "seq") /\ rd.shm /\ rd.seg \in mappings
  /\ UNCHANGED <<threadVars, stageVars, ringVars, memVars, sockVars, rd, rtodo, rtags,
                 mappings, delivered, histVars>>

MapOpen ==
  /\ Receiver("map", "seq") /\ rd.shm /\ rd.seg \notin mappings /\ rd.seg \in linked
  /\ mappings' = {rd.seg}
  /\ UNCHANGED <<threadVars, stageVars, ringVars, memVars, sockVars, rd, rtodo, rtags,
                 delivered, histVars>>

MapGone ==
  /\ Receiver("map", "idle") /\ rd.shm /\ rd.seg \notin mappings /\ rd.seg \notin linked
  /\ Finish(<<>>)
  /\ UNCHANGED <<threadVars, stageVars, ringVars, memVars, sockVars, mappings,
                 histVars>>

(* With eight senders cached, a miss for yet another one drops the mappings *)
(* whose name is gone.                                                      *)
SweepCache ==
  /\ CrowdedCache /\ rpc = "idle"
  /\ mappings' = mappings \cap linked
  /\ UNCHANGED <<threadVars, stageVars, ringVars, memVars, sockVars, rpc, rd, rtodo, rtags,
                 delivered, histVars>>

(* The record must carry the expected seq and length before the copy ...    *)
FetchSeq ==
  /\ \/ /\ Receiver("seq", "copy")
        /\ seqw[rd.seg][rd.off] = rd.seq /\ lenw[rd.seg][rd.off] = rd.size
        /\ rtodo' = Span(rd.off, rd.size)
        /\ UNCHANGED <<rd, rtags, delivered>>
     \/ /\ Receiver("seq", "idle")
        /\ seqw[rd.seg][rd.off] # rd.seq \/ lenw[rd.seg][rd.off] # rd.size
        /\ Finish(<<>>)
  /\ UNCHANGED <<threadVars, stageVars, ringVars, memVars, sockVars, mappings,
                 histVars>>

(* ... the payload is copied in no particular order ...                     *)
CopyCell(c) ==
  /\ rpc = "copy" /\ c \in rtodo
  /\ rtodo' = rtodo \ {c} /\ rtags' = rtags \cup {tag[rd.seg][c]}
  /\ UNCHANGED <<threadVars, stageVars, ringVars, memVars, sockVars, rpc, rd, mappings,
                 delivered, histVars>>

(* Mutant of Recheck: the seq is not compared again.                        *)
RecheckBlind ==
  /\ Receiver("copy", "idle") /\ rtodo = {}
  /\ Finish(<<[n |-> rd.n, from |-> rtags]>>)
  /\ UNCHANGED <<threadVars, stageVars, ringVars, memVars, sockVars, mappings,
                 histVars>>

(* ... and the seq must still be there after it.                            *)
Recheck ==
  /\ Receiver("copy", "idle") /\ rtodo = {}
  /\ \/ /\ seqw[rd.seg][rd.off] = rd.seq
        /\ Finish(<<[n |-> rd.n, from |-> rtags]>>)
     \/ seqw[rd.seg][rd.off] # rd.seq /\ Finish(<<>>)
  /\ UNCHANGED <<threadVars, stageVars, ringVars, memVars, sockVars, mappings,
                 histVars>>

Next ==
  \/ \E t \in Threads : \/ Publish(t)
                        \/ \E k \in Sizes : Reserve(t, k)
                        \/ \E k \in Sizes : GrowReserve(t, k)
                        \/ \E k \in Sizes : GrowFail(t, k)
                        \/ \E c \in Cells : WriteCell(t, c)
                        \/ Commit(t)
                        \/ Abort(t)
                        \/ Send(t)
  \/ Close
  \/ Recv \/ TakeInline \/ MapCached \/ MapOpen \/ MapGone \/ SweepCache
  \/ FetchSeq \/ (\E c \in Cells : CopyCell(c)) \/ Recheck

Spec == Init /\ [][Next]_vars

-----------------------------------------------------------------------------
Descs == [n : 0 .. MaxMessages, shm : BOOLEAN, seg : {0} \cup Segments,
          off : Cells, seq : 0 .. SeqMod - 1, size : {0} \cup 1 .. Largest]
Words == {Raw} \cup Nat

(* Type invariant.  It includes that a reservation ends inside the ring.    *)
TypeOK ==
  /\ tpc \in [Threads -> {"idle", "stage", "write", "send", "gone"}]
  /\ tmsg \in [Threads -> 0 .. MaxMessages] /\ tdesc \in [Threads -> Descs]
  /\ nmsg \in 0 .. MaxMessages
  /\ holder \in Threads \cup {NoThread} /\ todo \subseteq Cells
  /\ size \in 0 .. Largest /\ segment_id \in {0} \cup Segments
  /\ ring_cells \in 0 .. Area(Largest) /\ next_offset \in 0 .. ring_cells
  /\ next_offset + size <= ring_cells
  /\ next_index \in 1 .. MaxMessages + 1 /\ linked \subseteq Segments
  /\ seqw \in [Segments -> [Cells -> Words]]
  /\ lenw \in [Segments -> [Cells -> Words]]
  /\ tag \in [Segments -> [Cells -> 0 .. MaxMessages]]
  /\ sock \in Seq(Descs) /\ Len(sock) <= SockCap /\ sent \subseteq Messages
  /\ rpc \in {"idle", "map", "seq", "copy"} /\ rd \in Descs
  /\ rtodo \subseteq Cells /\ rtags \subseteq 0 .. MaxMessages
  /\ mappings \subseteq Segments
  /\ delivered \in Seq([n : Messages, from : SUBSET (0 .. MaxMessages)])
  /\ last \in Descs /\ prev \in Descs

(* A receiver that is a record behind finds it intact: the two newest       *)
(* committed records of the open ring are whole, whatever is being written  *)
(* (the four-records sizing of shm_stage_reserve).                          *)
Intact(r) ==
  /\ seqw[r.seg][r.off] = r.seq /\ lenw[r.seg][r.off] = r.size
  /\ \A c \in Span(r.off, r.size) : tag[r.seg][c] = r.n

RecentRecordsIntact ==
  \A r \in {last, prev} : r.shm /\ ring_cells # 0 /\ r.seg = segment_id => Intact(r)

(* The payload path is a lossy channel: the receiver takes what was handed  *)
(* to its socket, in that order, each message at most once, and no payload  *)
(* holds anything of another message, except of the one that the sender is  *)
(* writing over it at that very moment.                                     *)
Channel == INSTANCE LossyChannel WITH
  inflight <- [i \in 1 .. Len(sock) + (IF rpc = "idle" THEN 0 ELSE 1) |->
                 IF rpc = "idle" THEN sock[i].n
                 ELSE IF i = 1 THEN rd.n ELSE sock[i - 1].n],
  received <- delivered,
  staging <- IF holder = NoThread THEN {} ELSE {tmsg[holder]}

ImplementsChannel == Channel!Spec
=============================================================================
