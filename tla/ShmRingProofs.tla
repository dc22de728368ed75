---------------------------- MODULE ShmRingProofs ----------------------------
(***************************************************************************)
(* The shared-memory payload ring, for any number of publishing threads,   *)
(* any record sizes and any number of messages: the two newest records of  *)
(* the open ring are whole, and the payload path implements a lossy        *)
(* channel.                                                                *)
(***************************************************************************)
EXTENDS ShmRing, FiniteSetTheorems, SequenceTheorems, TLAPS

(* The seq word does not come round: the code's has 32 bits.                *)
SeqWide == 2 * (MaxMessages + 1) < SeqMod

DescT == [n : Nat, shm : BOOLEAN, seg : Nat, off : Nat, seq : Nat, size : Nat]
Item  == [n : Nat, from : SUBSET Nat]

(* Types, as far as the proofs need them.                                   *)
TypesInv ==
  /\ tpc \in [Threads -> {"idle", "stage", "write", "send", "gone"}]
  /\ tmsg \in [Threads -> Nat] /\ tdesc \in [Threads -> DescT]
  /\ nmsg \in Nat /\ nmsg <= MaxMessages
  /\ holder \in Threads \cup {NoThread} /\ todo \subseteq Nat /\ size \in Nat
  /\ segment_id \in Nat /\ ring_cells \in Nat /\ next_offset \in Nat /\ next_index \in Nat
  /\ seqw \in [Segments -> [Cells -> Int]] /\ lenw \in [Segments -> [Cells -> Int]]
  /\ tag \in [Segments -> [Cells -> Nat]]
  /\ sock \in Seq(DescT) /\ sent \subseteq Nat
  /\ rpc \in {"idle", "map", "seq", "copy"} /\ rd \in DescT
  /\ rtodo \subseteq Nat /\ rtags \subseteq Nat /\ delivered \in Seq(Item)
  /\ last \in DescT /\ prev \in DescT

(* Every message has one thread that works on it, until it is sent.         *)
AtWork(t) == tpc[t] \in {"stage", "write", "send"}

ThreadInv ==
  /\ sent \subseteq 1 .. nmsg
  /\ \A t \in Threads :
       /\ tpc[t] = "write" <=> holder = t
       /\ AtWork(t) => tmsg[t] \in 1 .. nmsg /\ tmsg[t] \notin sent
       /\ AtWork(t) => \A u \in Threads : AtWork(u) /\ tmsg[u] = tmsg[t] => u = t
       /\ tpc[t] = "send" => tdesc[t].n = tmsg[t]

(* Segments and record numbers are spent by messages that were staged.      *)
Staging == {t \in Threads : tpc[t] = "stage"}
Writing == IF holder = NoThread THEN 0 ELSE 1

BoundInv ==
  /\ segment_id + Cardinality(Staging) <= nmsg
  /\ next_index > 0 /\ next_index + Cardinality(Staging) + Writing <= nmsg + 1

(* The record being written: a quarter of the ring at most, inside it, and  *)
(* what is written of it is of the message of the thread with the mutex.    *)
RingInv ==
  /\ ring_cells <= Area(Largest) /\ next_offset + size <= ring_cells
  /\ ring_cells # 0 => segment_id > 0
  /\ holder = NoThread => size = 0 /\ todo = {}
  /\ holder # NoThread =>
       /\ size > 0 /\ 4 * size <= ring_cells /\ todo \subseteq Span(next_offset, size)
       /\ \A c \in Span(next_offset, size) \ todo : tag[segment_id][c] = tmsg[holder]

(* Where the records of descriptors are.                                    *)
PlacedIn(d, g) ==
  d.shm => /\ d.seg > 0 /\ d.seg <= g /\ d.size > 0
           /\ d.off + d.size <= Area(Largest)

Placed(d) == PlacedIn(d, segment_id)

PlacedInv ==
  /\ \A t \in Threads : Placed(tdesc[t])
  /\ \A i \in 1 .. Len(sock) : Placed(sock[i])
  /\ Placed(rd) /\ Placed(last) /\ Placed(prev)

(* The receiver goes to the ring for descriptors only.                      *)
ResolveInv == rpc \in {"seq", "copy"} => rd.shm

IInv == TypesInv /\ ThreadInv /\ BoundInv /\ RingInv /\ PlacedInv /\ ResolveInv

(* The two newest records of the open ring: either each ends where the next *)
(* one, or the cursor, begins, or the cursor went back to 0 from the last   *)
(* quarter of the ring.                                                     *)
InOpen(r) == r.shm /\ ring_cells # 0 /\ r.seg = segment_id

Follows(r, pos, cells) ==
  /\ 4 * r.size <= cells
  /\ r.off + r.size = pos \/ (pos = 0 /\ 4 * (r.off + r.size) > 3 * cells)

RecentInv ==
  /\ prev.shm => last.shm /\ prev.seg <= last.seg
  /\ InOpen(last) => Follows(last, next_offset, ring_cells)
  /\ InOpen(prev) => Follows(prev, last.off, ring_cells)
  /\ RecentRecordsIntact

(* What a descriptor promises as long as its header carries its seq: its    *)
(* payload is there but for the cells of the record being written, and that *)
(* record has not come to its header.                                       *)
Live(d) == seqw[d.seg][d.off] = d.seq
Written == Span(next_offset, size) \ todo

Clear(d) ==
  \/ d.off + d.size <= next_offset
  \/ /\ d.off >= next_offset /\ (size > 0 => d.off # next_offset)
     /\ d.off \notin Written

Good(d) ==
  d.shm => /\ \E i \in 1 .. next_index - 1 : d.seq = 2 * i
           /\ Live(d) => /\ \A c \in Span(d.off, d.size) :
                              tag[d.seg][c] = d.n \/ (d.seg = segment_id /\ c \in Written)
                         /\ d.seg = segment_id => Clear(d)

GoodInv ==
  /\ \A t \in Threads : Good(tdesc[t])
  /\ \A i \in 1 .. Len(sock) : Good(sock[i])
  /\ Good(rd)

(* The record being written reaches into that of the descriptor.            *)
Touched(d) == d.seg = segment_id /\ \E c \in Span(d.off, d.size) : c \in Written

(* The receiver's copy so far.                                              *)
FetchInv ==
  /\ rpc # "copy" => rtags = {}
  /\ rpc = "copy" =>
       /\ rtodo \subseteq Span(rd.off, rd.size)
       /\ Live(rd) => /\ rd.off \in rtodo \/ rd.n \in rtags
                      /\ \A m \in rtags : m = rd.n \/ (Touched(rd) /\ m = tmsg[holder])

-----------------------------------------------------------------------------
(* Constants, cells, and what the actions do.                               *)

(* The areas that create_segment makes, and the constants.                  *)
LEMMA AreaFacts ==
  /\ Largest \in Sizes /\ Area(Largest) \in Nat /\ Cells = 0 .. Area(Largest) - 1
  /\ Segments = 1 .. MaxMessages /\ MaxMessages \in Nat /\ SeqMod \in Nat /\ SeqMod > 0
  /\ \A k \in Sizes : /\ k \in Nat /\ k > 0 /\ Area(k) \in Nat /\ Area(k) > 0
                       /\ 4 * k <= Area(k) /\ Area(k) <= Area(Largest)
<1>1. Largest \in Sizes /\ \A j \in Sizes : j <= Largest
  BY ShmRingAssumption DEF Largest
<1>2. \A k \in Sizes : k \in Nat /\ k > 0
  <2>1. Sizes \subseteq Nat \ {0}
    BY ShmRingAssumption
  <2>2. QED BY <2>1
<1>3. MinCells \in Nat
  BY ShmRingAssumption
<1>4. \A k \in Sizes : /\ Area(k) \in Nat /\ Area(k) > 0 /\ 4 * k <= Area(k)
                       /\ Area(k) <= Area(Largest)
  BY <1>1, <1>2, <1>3 DEF Area
<1>5. QED BY <1>1, <1>2, <1>4, ShmRingAssumption DEF Cells, Segments

(* One word of the shared memory is stored.                                 *)
LEMMA PutWord ==
  ASSUME NEW S, NEW f \in [Segments -> [Cells -> S]], NEW g \in Segments, NEW c \in Cells,
         NEW v \in S
  PROVE  /\ [f EXCEPT ![g][c] = v] \in [Segments -> [Cells -> S]]
         /\ \A h \in Segments, x \in Cells :
              [f EXCEPT ![g][c] = v][h][x] = IF h = g /\ x = c THEN v ELSE f[h][x]
  OBVIOUS

(* shm_stage_reserve, with or without a new segment.                        *)
Reserved(t, act, seg, off) ==
  /\ tpc[t] = "stage" /\ tpc' = [tpc EXCEPT ![t] = "write"]
  /\ holder = NoThread /\ holder' = t /\ size' = act /\ act > 0
  /\ todo' = Span(off, act) /\ next_offset' = off /\ segment_id' = seg
  /\ seg \in Segments /\ off \in Cells /\ off + act <= ring_cells' /\ 4 * act <= ring_cells'
  /\ ring_cells' \in Nat /\ ring_cells' # 0 /\ ring_cells' <= Area(Largest)
  /\ seqw' = [seqw EXCEPT ![seg][off] = (2 * next_index - 1) % SeqMod]
  /\ \/ seg = segment_id + 1
     \/ /\ seg = segment_id /\ ring_cells' = ring_cells
        /\ off = next_offset \/ (off = 0 /\ 4 * next_offset > 3 * ring_cells)
  /\ UNCHANGED <<tmsg, tdesc, nmsg, next_index, lenw, tag, sockVars, recvVars, histVars>>

(* Finitely many threads stage.                                             *)
LEMMA StagingFinite == IsFiniteSet(Staging) /\ Cardinality(Staging) \in Nat
<1>1. IsFiniteSet(Staging)
  BY ShmRingAssumption, FS_Subset DEF Staging
<1>2. QED BY <1>1, FS_CardinalityType

(* A thread that begins to stage makes them one more.                       *)
LEMMA StagingAdd ==
  ASSUME NEW t \in Threads, tpc[t] # "stage", TypesInv, tpc' = [tpc EXCEPT ![t] = "stage"]
  PROVE  Cardinality(Staging') = Cardinality(Staging) + 1
<1>1. t \notin Staging /\ Staging' = Staging \cup {t}
  BY DEF Staging, TypesInv
<1>2. QED BY <1>1, StagingFinite, FS_AddElement

(* One that goes on makes them one less.                                    *)
LEMMA StagingRemove ==
  ASSUME NEW t \in Threads, tpc[t] = "stage", TypesInv, NEW pc, pc # "stage",
         tpc' = [tpc EXCEPT ![t] = pc]
  PROVE  Cardinality(Staging') = Cardinality(Staging) - 1 /\ Cardinality(Staging) > 0
<1>1. t \in Staging /\ Staging' = Staging \ {t}
  BY DEF Staging, TypesInv
<1>2. Cardinality(Staging') = Cardinality(Staging) - 1
  BY <1>1, StagingFinite, FS_RemoveElement
<1>3. Cardinality(Staging') \in Nat
  BY <1>1, StagingFinite, FS_Subset, FS_CardinalityType
<1>4. QED BY <1>2, <1>3, StagingFinite

(* While a message is staged there is a segment and a record for it.        *)
LEMMA RoomToStage ==
  ASSUME TypesInv, BoundInv, NEW t \in Threads, tpc[t] = "stage"
  PROVE  segment_id + 1 \in Segments /\ next_index <= MaxMessages
<1>1. t \in Staging
  BY DEF Staging
<1>2. Cardinality(Staging) > 0
  BY <1>1, StagingFinite, FS_EmptySet
<1>3. Writing \in {0, 1}
  BY DEF Writing
<1>4. /\ segment_id \in Nat /\ next_index \in Nat /\ nmsg \in Nat /\ nmsg <= MaxMessages
      /\ segment_id + Cardinality(Staging) <= nmsg
      /\ next_index + Cardinality(Staging) + Writing <= nmsg + 1
  BY DEF BoundInv, TypesInv
<1>5. Cardinality(Staging) \in Nat /\ Segments = 1 .. MaxMessages /\ MaxMessages \in Nat
  BY StagingFinite, AreaFacts
<1>6. QED BY <1>2, <1>3, <1>4, <1>5

(* shm_stage_reserve, in the open ring or in a new one, reserves a place.   *)
LEMMA ReserveEffect ==
  ASSUME TypesInv, BoundInv, RingInv, NEW t \in Threads, NEW k \in Sizes,
         Reserve(t, k) \/ GrowReserve(t, k)
  PROVE  \E act, seg, off \in Nat : Reserved(t, act, seg, off)
<1>0. /\ k \in Nat /\ k > 0 /\ Area(k) \in Nat /\ Area(k) > 0 /\ 4 * k <= Area(k)
      /\ Area(k) <= Area(Largest) /\ Area(Largest) \in Nat /\ Cells = 0 .. Area(Largest) - 1
      /\ MaxMessages \in Nat /\ Segments = 1 .. MaxMessages
      /\ ring_cells \in Nat /\ next_offset \in Nat /\ segment_id \in Nat
  BY AreaFacts DEF TypesInv
<1>1. \A act \in Actual(k) : act \in Nat /\ act > 0 /\ act <= k
  BY <1>0, ShmRingAssumption DEF Actual
<1>2. CASE Reserve(t, k)
  <2>1. PICK act \in Actual(k) : ReserveAt(t, act, segment_id, Wrapped(k))
    BY <1>2 DEF Reserve
  <2> DEFINE off == Wrapped(k)
  <2>2. ring_cells # 0 /\ 4 * k <= ring_cells /\ ring_cells <= Area(Largest) /\ segment_id > 0
    BY <1>0, <1>2 DEF Reserve, NeedsSegment, RingInv
  <2>3. /\ off \in Nat /\ off + k <= ring_cells
        /\ off = next_offset \/ (off = 0 /\ 4 * next_offset > 3 * ring_cells)
    BY <1>0, <2>2 DEF Wrapped
  <2>4. tpc[t] = "stage"
    BY <1>2 DEF Reserve, Thread
  <2>5. segment_id \in Segments
    BY <1>0, <2>2, <2>4, RoomToStage
  <2> HIDE DEF off
  <2>6. act \in Nat /\ act > 0 /\ off + act <= ring_cells /\ 4 * act <= ring_cells /\ off \in Cells
    BY <1>0, <1>1, <2>2, <2>3
  <2>7. Reserved(t, act, segment_id, off)
    BY <1>0, <1>2, <2>1, <2>2, <2>3, <2>5, <2>6 DEF Reserved, Reserve, ReserveAt, Thread, off
  <2>8. QED BY <1>0, <2>3, <2>6, <2>7
<1>3. CASE GrowReserve(t, k)
  <2>1. PICK act \in Actual(k) : ReserveAt(t, act, segment_id + 1, 0)
    BY <1>3 DEF GrowReserve
  <2>2. tpc[t] = "stage" /\ ring_cells' = Area(k) /\ segment_id' = segment_id + 1
    BY <1>3 DEF GrowReserve, Thread
  <2>3. segment_id + 1 \in Segments /\ segment_id + 1 \in Nat
    BY <1>0, <2>2, RoomToStage
  <2>4. act \in Nat /\ act > 0 /\ 0 + act <= Area(k) /\ 4 * act <= Area(k) /\ 0 \in Cells
    BY <1>0, <1>1
  <2>5. Reserved(t, act, segment_id + 1, 0)
    BY <1>0, <1>3, <2>1, <2>2, <2>3, <2>4 DEF Reserved, GrowReserve, ReserveAt, Thread
  <2>6. QED BY <2>3, <2>4, <2>5
<1>4. QED BY <1>2, <1>3

(* The descriptor of a record, typed.                                       *)
LEMMA DescTyped ==
  ASSUME TypesInv, NEW m \in Nat
  PROVE  /\ Desc(m) \in DescT /\ Desc(m).n = m /\ Desc(m).shm /\ Desc(m).seg = segment_id
         /\ Desc(m).off = next_offset /\ Desc(m).size = size
         /\ Desc(m).seq = (2 * next_index) % SeqMod
<1>1. (2 * next_index) % SeqMod \in Nat
  BY AreaFacts DEF TypesInv
<1>2. QED BY <1>1 DEF Desc, DescT, TypesInv

(* The descriptors that name no record are typed.                           *)
LEMMA NoDescTyped ==
  /\ NoDesc \in DescT /\ ~NoDesc.shm
  /\ \A m \in Nat : Inline(m) \in DescT /\ ~Inline(m).shm /\ Inline(m).n = m
<1>1. NoDesc \in DescT /\ ~NoDesc.shm
  BY DEF NoDesc, DescT
<1>2. ASSUME NEW m \in Nat PROVE Inline(m) \in DescT /\ ~Inline(m).shm /\ Inline(m).n = m
  BY DEF Inline, NoDesc, DescT
<1>3. QED BY <1>1, <1>2

(* The groups of variables that a step leaves alone.                        *)
Receives ==
  \/ Recv \/ TakeInline \/ MapCached \/ MapOpen \/ MapGone \/ SweepCache
  \/ FetchSeq \/ (\E c \in Cells : CopyCell(c)) \/ Recheck

SenderSame == UNCHANGED <<threadVars, stageVars, ringVars, memVars, sent, histVars>>

(* A step of the receiver leaves the sender alone.                          *)
LEMMA ReceiverOnly == ASSUME Receives PROVE SenderSame
  BY DEF Receives, SenderSame, Recv, TakeInline, MapCached, MapOpen, MapGone, SweepCache,
         FetchSeq, CopyCell, Recheck, sockVars

SenderTypes ==
  /\ tpc \in [Threads -> {"idle", "stage", "write", "send", "gone"}]
  /\ tmsg \in [Threads -> Nat] /\ tdesc \in [Threads -> DescT]
  /\ nmsg \in Nat /\ nmsg <= MaxMessages
  /\ holder \in Threads \cup {NoThread} /\ todo \subseteq Nat /\ size \in Nat
  /\ segment_id \in Nat /\ ring_cells \in Nat /\ next_offset \in Nat /\ next_index \in Nat
  /\ last \in DescT /\ prev \in DescT
MemTypes ==
  /\ seqw \in [Segments -> [Cells -> Int]] /\ lenw \in [Segments -> [Cells -> Int]]
  /\ tag \in [Segments -> [Cells -> Nat]]
SockTypes == sock \in Seq(DescT) /\ sent \subseteq Nat
RecvTypes ==
  /\ rpc \in {"idle", "map", "seq", "copy"} /\ rd \in DescT
  /\ rtodo \subseteq Nat /\ rtags \subseteq Nat /\ delivered \in Seq(Item)

(* The types, by the side that writes the variables.                        *)
LEMMA TypesParts == TypesInv <=> SenderTypes /\ MemTypes /\ SockTypes /\ RecvTypes
  BY DEF TypesInv, SenderTypes, MemTypes, SockTypes, RecvTypes

(* The same of the next state.                                              *)
LEMMA TypesNext == SenderTypes' /\ MemTypes' /\ SockTypes' /\ RecvTypes' => TypesInv'
  BY DEF TypesInv, SenderTypes, MemTypes, SockTypes, RecvTypes

(* The cells of a record are numbers.                                       *)
LEMMA SpanTyped == ASSUME NEW a \in Nat, NEW b \in Nat PROVE Span(a, b) \subseteq Nat
  BY DEF Span

(* What a thread that writes may rely on.                                   *)
LEMMA WriterFacts ==
  ASSUME TypesInv, ThreadInv, BoundInv, RingInv, NEW t \in Threads, tpc[t] = "write"
  PROVE  /\ holder = t /\ holder # NoThread /\ size > 0 /\ 4 * size <= ring_cells
         /\ ring_cells # 0 /\ next_offset + size <= ring_cells /\ ring_cells <= Area(Largest)
         /\ segment_id \in Segments /\ next_offset \in Cells
         /\ Span(next_offset, size) \subseteq Cells /\ todo \subseteq Span(next_offset, size)
         /\ \A c \in Written : tag[segment_id][c] = tmsg[t]
         /\ next_index <= MaxMessages
<1>1. holder = t /\ holder # NoThread
  BY ShmRingAssumption DEF ThreadInv
<1>2. /\ size > 0 /\ 4 * size <= ring_cells /\ next_offset + size <= ring_cells
      /\ ring_cells <= Area(Largest) /\ todo \subseteq Span(next_offset, size)
      /\ \A c \in Span(next_offset, size) \ todo : tag[segment_id][c] = tmsg[holder]
      /\ ring_cells # 0 => segment_id > 0
  BY <1>1 DEF RingInv
<1>3. size \in Nat /\ next_offset \in Nat /\ ring_cells \in Nat /\ segment_id \in Nat
      /\ nmsg \in Nat /\ nmsg <= MaxMessages /\ next_index \in Nat
  BY DEF TypesInv
<1>4. ring_cells # 0 /\ segment_id > 0
  BY <1>2, <1>3
<1>5. segment_id <= nmsg /\ next_index <= nmsg
  BY <1>1, <1>3, StagingFinite DEF BoundInv, Writing
<1>6. segment_id \in Segments /\ next_offset \in Cells /\ Span(next_offset, size) \subseteq Cells
  BY <1>2, <1>3, <1>4, <1>5, AreaFacts DEF Span
<1>7. next_index <= MaxMessages
  BY <1>3, <1>5, AreaFacts
<1>8. QED BY <1>1, <1>2, <1>4, <1>6, <1>7 DEF Written

(* A descriptor points at cells of a segment.                               *)
LEMMA PlacedWhere ==
  ASSUME TypesInv, BoundInv, NEW d \in DescT, Placed(d), d.shm
  PROVE  /\ d.seg \in Segments /\ d.off \in Cells /\ Span(d.off, d.size) \subseteq Cells
         /\ d.off \in Span(d.off, d.size)
<1>1. d.seg \in Nat /\ d.off \in Nat /\ d.size \in Nat
  BY DEF DescT
<1>2. d.seg > 0 /\ d.seg <= segment_id /\ d.size > 0 /\ d.off + d.size <= Area(Largest)
  BY DEF Placed, PlacedIn
<1>3. segment_id \in Nat /\ nmsg \in Nat /\ nmsg <= MaxMessages /\ segment_id <= nmsg
  BY StagingFinite DEF TypesInv, BoundInv
<1>4. d.seg \in Segments
  BY <1>1, <1>2, <1>3, AreaFacts
<1>a. Cells = 0 .. Area(Largest) - 1 /\ Area(Largest) \in Nat
  BY AreaFacts
<1>5. d.off \in Cells /\ Span(d.off, d.size) \subseteq Cells /\ d.off \in Span(d.off, d.size)
  BY <1>1, <1>2, <1>a DEF Span
<1>6. QED BY <1>4, <1>5

(* Types after a step of the receiver.                                      *)
LEMMA RecvTypesStep ==
  ASSUME TypesInv, BoundInv, PlacedInv, ResolveInv, Receives
  PROVE  TypesInv'
<1>1. SenderTypes' /\ MemTypes'
  BY ReceiverOnly, TypesParts
  DEF SenderSame, SenderTypes, MemTypes, threadVars, stageVars, ringVars, memVars, histVars
<1>2. SockTypes'
  <2>1. sent' = sent /\ (sock' = sock \/ (sock # <<>> /\ sock' = Tail(sock)))
    BY DEF Receives, Recv, TakeInline, MapCached, MapOpen, MapGone, SweepCache, FetchSeq,
           CopyCell, Recheck, sockVars
  <2>2. QED BY <2>1, TypesParts DEF SockTypes
<1>3. RecvTypes'
  <2>0. /\ RecvTypes /\ sock \in Seq(DescT) /\ NoDesc \in DescT
        /\ MemTypes
    BY TypesParts, NoDescTyped DEF SockTypes
  <2>1. CASE Recv
    BY <2>0, <2>1 DEF Recv, Receiver, RecvTypes
  <2>2. ASSUME NEW out \in Seq(Item), Finish(out), rpc' \in {"idle", "map", "seq", "copy"}
        PROVE  RecvTypes'
    BY <2>0, <2>2 DEF Finish, RecvTypes
  <2>3. <<>> \in Seq(Item)
    OBVIOUS
  <2>4. CASE TakeInline
    <3>1. rd.n \in Nat
      BY <2>0 DEF RecvTypes, DescT
    <3>2. [n |-> rd.n, from |-> {rd.n}] \in Item
      BY <3>1 DEF Item
    <3>3. <<[n |-> rd.n, from |-> {rd.n}]>> \in Seq(Item)
      BY <3>2
    <3>4. QED BY <2>2, <2>4, <3>3 DEF TakeInline, Receiver
  <2>5. CASE MapCached \/ MapOpen \/ SweepCache
    BY <2>0, <2>5 DEF MapCached, MapOpen, SweepCache, Receiver, RecvTypes
  <2>6. CASE MapGone
    BY <2>2, <2>3, <2>6 DEF MapGone, Receiver
  <2>7. CASE FetchSeq
    <3>1. CASE Finish(<<>>) /\ rpc' = "idle"
      BY <2>2, <2>3, <3>1
    <3>2. CASE rpc' = "copy" /\ rtodo' = Span(rd.off, rd.size) /\ UNCHANGED <<rd, rtags, delivered>>
      <4>1. rd.off \in Nat /\ rd.size \in Nat
        BY <2>0 DEF RecvTypes, DescT
      <4>2. QED BY <2>0, <3>2, <4>1, SpanTyped DEF RecvTypes
    <3>3. QED BY <2>7, <3>1, <3>2 DEF FetchSeq, Receiver
  <2>8. ASSUME NEW c \in Cells, CopyCell(c) PROVE RecvTypes'
    <3>1. tag[rd.seg][c] \in Nat
      <4>1. rd.shm /\ rd \in DescT /\ Placed(rd)
        BY <2>8 DEF CopyCell, ResolveInv, TypesInv, PlacedInv
      <4>2. rd.seg \in Segments
        BY <4>1, PlacedWhere
      <4>3. QED BY <2>0, <2>8, <4>2 DEF MemTypes
    <3>2. QED BY <2>0, <2>8, <3>1 DEF CopyCell, RecvTypes
  <2>9. CASE Recheck
    <3>1. CASE Finish(<<>>) /\ rpc' = "idle"
      BY <2>2, <2>3, <3>1
    <3>2. CASE Finish(<<[n |-> rd.n, from |-> rtags]>>) /\ rpc' = "idle"
      <4>1. [n |-> rd.n, from |-> rtags] \in Item
        BY <2>0 DEF RecvTypes, DescT, Item
      <4>2. <<[n |-> rd.n, from |-> rtags]>> \in Seq(Item)
        BY <4>1
      <4>3. QED BY <2>2, <3>2, <4>2
    <3>3. QED BY <2>9, <3>1, <3>2 DEF Recheck, Receiver
  <2>10. QED BY <2>1, <2>4, <2>5, <2>6, <2>7, <2>8, <2>9 DEF Receives
<1>4. QED BY <1>1, <1>2, <1>3, TypesNext

(* A step of the sender and the types.                                      *)
LEMMA QuietTypes ==
  ASSUME TypesInv, SenderTypes', UNCHANGED <<memVars, sockVars, recvVars>>
  PROVE  TypesInv'
<1>1. MemTypes' /\ SockTypes' /\ RecvTypes'
  BY TypesParts DEF MemTypes, SockTypes, RecvTypes, memVars, sockVars, recvVars
<1>2. QED BY <1>1, TypesNext

(* Types after the return of a publish.                                     *)
LEMMA ReturnTypes ==
  ASSUME TypesInv, NEW t \in Threads, Return(t)
  PROVE  /\ tpc' \in [Threads -> {"idle", "stage", "write", "send", "gone"}]
         /\ tmsg' \in [Threads -> Nat] /\ tdesc' \in [Threads -> DescT]
  BY NoDescTyped DEF TypesInv, Return

(* Types after the beginning of a publish.                                  *)
LEMMA PublishTypes == ASSUME TypesInv, NEW t \in Threads, Publish(t) PROVE TypesInv'
<1>1. SenderTypes'
  <2>1. nmsg' \in Nat /\ nmsg' <= MaxMessages
    BY AreaFacts DEF TypesInv, Publish
  <2>2. tpc' \in [Threads -> {"idle", "stage", "write", "send", "gone"}]
    BY DEF TypesInv, Publish, Thread
  <2>3. tmsg' = [tmsg EXCEPT ![t] = nmsg'] /\ tmsg \in [Threads -> Nat]
    BY DEF TypesInv, Publish
  <2>4. tmsg' \in [Threads -> Nat]
    BY <2>1, <2>3
  <2>5. QED BY <2>1, <2>2, <2>4
    DEF TypesInv, SenderTypes, Publish, stageVars, ringVars, histVars
<1>2. UNCHANGED <<memVars, sockVars, recvVars>>
  BY DEF Publish
<1>3. QED BY <1>1, <1>2, QuietTypes

(* Types after a reservation.                                               *)
LEMMA ReservedTypes ==
  ASSUME TypesInv, NEW t \in Threads, NEW act \in Nat, NEW seg \in Nat, NEW off \in Nat,
         Reserved(t, act, seg, off)
  PROVE  TypesInv'
<1>1. (2 * next_index - 1) % SeqMod \in Int
  BY AreaFacts DEF TypesInv
<1>2. seg \in Segments /\ off \in Cells
  BY DEF Reserved
<1>3. seqw' \in [Segments -> [Cells -> Int]]
  <2> DEFINE v == (2 * next_index - 1) % SeqMod
  <2>1. seqw' = [seqw EXCEPT ![seg][off] = v] /\ seqw \in [Segments -> [Cells -> Int]]
    BY DEF Reserved, TypesInv
  <2>2. v \in Int
    BY <1>1
  <2> HIDE DEF v
  <2>3. QED BY <1>2, <2>1, <2>2, PutWord
<1>4. MemTypes'
  BY <1>3 DEF Reserved, TypesInv, MemTypes
<1>5. SenderTypes'
  <2>1. todo' \subseteq Nat
    BY SpanTyped DEF Reserved
  <2>2. tpc' \in [Threads -> {"idle", "stage", "write", "send", "gone"}]
    BY DEF Reserved, TypesInv
  <2>3. QED BY <2>1, <2>2 DEF Reserved, TypesInv, SenderTypes, histVars
<1>6. SockTypes' /\ RecvTypes'
  BY TypesParts DEF Reserved, SockTypes, RecvTypes, sockVars, recvVars
<1>7. QED BY <1>4, <1>5, <1>6, TypesNext

(* Types after a growth that failed.                                        *)
LEMMA GrowFailTypes ==
  ASSUME TypesInv, NEW t \in Threads, NEW k \in Sizes, GrowFail(t, k)
  PROVE  TypesInv'
<1>1. /\ tpc' \in [Threads -> {"idle", "stage", "write", "send", "gone"}]
      /\ tmsg' \in [Threads -> Nat] /\ tdesc' \in [Threads -> DescT]
  <2>1. CASE Return(t)
    BY <2>1, ReturnTypes
  <2>2. CASE /\ tpc' = [tpc EXCEPT ![t] = "send"]
             /\ tdesc' = [tdesc EXCEPT ![t] = Inline(tmsg[t])]
             /\ UNCHANGED tmsg
    <3>1. Inline(tmsg[t]) \in DescT
      BY NoDescTyped DEF TypesInv
    <3>2. QED BY <2>2, <3>1 DEF TypesInv
  <2>3. QED BY <2>1, <2>2 DEF GrowFail
<1>2. SenderTypes'
  BY <1>1 DEF GrowFail, TypesInv, SenderTypes, stageVars, ringVars, histVars
<1>3. UNCHANGED <<memVars, sockVars, recvVars>>
  BY DEF GrowFail
<1>4. QED BY <1>2, <1>3, QuietTypes

(* Types after a cell of the payload.                                       *)
LEMMA WriteTypes ==
  ASSUME TypesInv, ThreadInv, BoundInv, RingInv, NEW t \in Threads, NEW c \in Cells,
         WriteCell(t, c)
  PROVE  TypesInv'
<1>1. segment_id \in Segments
  BY WriterFacts DEF WriteCell
<1>2. tag' \in [Segments -> [Cells -> Nat]]
  <2>1. tmsg[t] \in Nat /\ tag \in [Segments -> [Cells -> Nat]]
    BY DEF TypesInv
  <2>2. QED BY <1>1, <2>1, PutWord DEF WriteCell
<1>3. seqw' \in [Segments -> [Cells -> Int]] /\ lenw' \in [Segments -> [Cells -> Int]]
  <2>1. Raw \in Int /\ seqw \in [Segments -> [Cells -> Int]] /\ lenw \in [Segments -> [Cells -> Int]]
    BY DEF TypesInv, Raw
  <2>2. CASE c = next_offset
    BY <2>1, <2>2 DEF WriteCell
  <2>3. CASE c # next_offset
    <3>1. /\ seqw' = [seqw EXCEPT ![segment_id][c] = Raw]
          /\ lenw' = [lenw EXCEPT ![segment_id][c] = Raw]
      BY <2>3 DEF WriteCell
    <3>2. QED BY <1>1, <2>1, <3>1, PutWord
  <2>4. QED BY <2>2, <2>3
<1>4. MemTypes'
  BY <1>2, <1>3 DEF MemTypes
<1>5. SenderTypes'
  BY DEF WriteCell, TypesInv, SenderTypes, threadVars, ringVars, histVars
<1>6. SockTypes' /\ RecvTypes'
  BY TypesParts DEF WriteCell, SockTypes, RecvTypes, sockVars, recvVars
<1>7. QED BY <1>4, <1>5, <1>6, TypesNext

(* Types after a commit.                                                    *)
LEMMA CommitTypes ==
  ASSUME TypesInv, ThreadInv, BoundInv, RingInv, NEW t \in Threads, Commit(t)
  PROVE  TypesInv'
<1>1. segment_id \in Segments /\ next_offset \in Cells
  BY WriterFacts DEF Commit, Thread
<1>2. Desc(tmsg[t]) \in DescT
  BY DescTyped DEF TypesInv
<1>3. (2 * next_index) % SeqMod \in Int /\ size \in Int
  BY AreaFacts DEF TypesInv
<1>4. MemTypes'
  <2> DEFINE v == (2 * next_index) % SeqMod
  <2>1. /\ seqw' = [seqw EXCEPT ![segment_id][next_offset] = v]
        /\ lenw' = [lenw EXCEPT ![segment_id][next_offset] = size] /\ tag' = tag
        /\ MemTypes
    BY DEF Commit, TypesInv, MemTypes
  <2>2. v \in Int
    BY <1>3
  <2> HIDE DEF v
  <2>3. QED BY <1>1, <1>3, <2>1, <2>2, PutWord DEF MemTypes
<1>5. SenderTypes'
  <2>1. next_offset' \in Nat /\ next_index' \in Nat
    BY DEF Commit, TypesInv
  <2>2. tpc' \in [Threads -> {"idle", "stage", "write", "send", "gone"}]
    BY DEF Commit, Thread, TypesInv
  <2>3. tdesc' \in [Threads -> DescT] /\ last' \in DescT /\ prev' \in DescT
    BY <1>2 DEF Commit, TypesInv
  <2>4. QED BY <2>1, <2>2, <2>3 DEF Commit, TypesInv, SenderTypes
<1>6. SockTypes' /\ RecvTypes'
  BY TypesParts DEF Commit, SockTypes, RecvTypes, sockVars, recvVars
<1>7. QED BY <1>4, <1>5, <1>6, TypesNext

(* Types after an abort.                                                    *)
LEMMA AbortTypes == ASSUME TypesInv, NEW t \in Threads, Abort(t) PROVE TypesInv'
<1>1. SenderTypes'
  BY ReturnTypes DEF Abort, TypesInv, SenderTypes, ringVars, histVars
<1>2. UNCHANGED <<memVars, sockVars, recvVars>>
  BY DEF Abort
<1>3. QED BY <1>1, <1>2, QuietTypes

(* Types after a send.                                                      *)
LEMMA SendTypes == ASSUME TypesInv, ThreadInv, NEW t \in Threads, Send(t) PROVE TypesInv'
<1>1. SenderTypes'
  BY ReturnTypes DEF Send, TypesInv, SenderTypes, stageVars, ringVars, histVars
<1>2. MemTypes' /\ RecvTypes'
  BY TypesParts DEF Send, MemTypes, RecvTypes, memVars, recvVars
<1>3. SockTypes'
  <2>1. tdesc[t] \in DescT /\ tdesc[t].n \in Nat
    BY DEF TypesInv, DescT
  <2>2. sock \in Seq(DescT) /\ sent \subseteq Nat
    BY DEF TypesInv
  <2>3. CASE Len(sock) < SockCap
    <3>1. sock' = Append(sock, tdesc[t]) /\ sent' = sent \cup {tdesc[t].n}
      BY <2>3 DEF Send
    <3>2. sock' \in Seq(DescT)
      BY <2>1, <2>2, <3>1
    <3>3. sent' \subseteq Nat
      BY <2>1, <2>2, <3>1
    <3>4. QED BY <3>2, <3>3 DEF SockTypes
  <2>4. CASE ~(Len(sock) < SockCap)
    BY <2>2, <2>4 DEF Send, SockTypes, sockVars
  <2>5. QED BY <2>3, <2>4
<1>4. QED BY <1>1, <1>2, <1>3, TypesNext

(* Types after the end of the publisher.                                    *)
LEMMA CloseTypes == ASSUME TypesInv, Close PROVE TypesInv'
<1>1. SenderTypes'
  BY DEF Close, TypesInv, SenderTypes, stageVars, histVars
<1>2. UNCHANGED <<memVars, sockVars, recvVars>>
  BY DEF Close
<1>3. QED BY <1>1, <1>2, QuietTypes

-----------------------------------------------------------------------------
(* The other parts of IInv, action by action.                               *)

(* ThreadInv depends on the threads only.                                   *)
LEMMA ThreadSame ==
  ASSUME ThreadInv, UNCHANGED <<tpc, tmsg, tdesc, nmsg, holder, sent>>
  PROVE  ThreadInv'
  BY DEF ThreadInv, AtWork

(* BoundInv depends on the counters and on who stages only.                 *)
LEMMA BoundSame ==
  ASSUME BoundInv, UNCHANGED <<tpc, nmsg, holder, segment_id, next_index>>
  PROVE  BoundInv'
  BY DEF BoundInv, Staging, Writing

(* RingInv depends on the ring and its writer only.                         *)
LEMMA RingSame ==
  ASSUME RingInv, UNCHANGED <<ring_cells, next_offset, size, segment_id, holder, todo, tag, tmsg>>
  PROVE  RingInv'
  BY DEF RingInv

(* PlacedInv depends on the descriptors and on the newest segment only.     *)
LEMMA PlacedSame ==
  ASSUME PlacedInv, UNCHANGED <<segment_id, tdesc, sock, rd, last, prev>>
  PROVE  PlacedInv'
  BY DEF PlacedInv, Placed

(* Segments are numbered upwards.                                           *)
LEMMA PlacedLater ==
  ASSUME PlacedInv, TypesInv, TypesInv', segment_id <= segment_id',
         UNCHANGED <<tdesc, sock, rd, last, prev>>
  PROVE  PlacedInv'
<1>1. ASSUME NEW d \in DescT, PlacedIn(d, segment_id) PROVE PlacedIn(d, segment_id')
  <2>1. d.seg \in Nat
    BY DEF DescT
  <2>2. QED BY <1>1, <2>1 DEF PlacedIn, TypesInv
<1>2. \A t \in Threads : tdesc[t] \in DescT
  BY DEF TypesInv
<1>3. \A i \in 1 .. Len(sock) : sock[i] \in DescT
  BY DEF TypesInv
<1>4. rd \in DescT /\ last \in DescT /\ prev \in DescT
  BY DEF TypesInv
<1>5. QED BY <1>1, <1>2, <1>3, <1>4 DEF PlacedInv, Placed

(* ResolveInv depends on the receiver only.                                 *)
LEMMA ResolveSame == ASSUME ResolveInv, UNCHANGED <<rpc, rd>> PROVE ResolveInv'
  BY DEF ResolveInv

(* A step of the receiver keeps IInv.                                       *)
LEMMA RecvStep == ASSUME IInv, Receives PROVE IInv'
<1>1. TypesInv'
  BY RecvTypesStep DEF IInv
<1>2. UNCHANGED <<tpc, tmsg, tdesc, nmsg, holder, sent, segment_id, next_index, ring_cells,
                  next_offset, size, todo, tag, last, prev>>
  BY ReceiverOnly DEF SenderSame, threadVars, stageVars, ringVars, memVars, histVars
<1>3. ThreadInv' /\ BoundInv' /\ RingInv'
  BY <1>2, ThreadSame, BoundSame, RingSame DEF IInv
<1>4. PlacedInv'
  <2>1. PlacedInv /\ sock \in Seq(DescT) /\ rd \in DescT
    BY DEF IInv, TypesInv
  <2>2. CASE Recv
    <3>1. sock # <<>> /\ sock' = Tail(sock) /\ rd' = Head(sock)
      BY <2>2 DEF Recv
    <3>2. Placed(Head(sock)) /\ \A i \in 1 .. Len(Tail(sock)) : Placed(Tail(sock)[i])
      BY <2>1, <3>1 DEF PlacedInv
    <3>3. Placed(rd)' /\ \A i \in 1 .. Len(sock') : Placed(sock[i])'
      BY <1>2, <3>1, <3>2 DEF Placed
    <3>4. QED BY <1>2, <2>1, <3>3 DEF PlacedInv, Placed
  <2>3. CASE ~Recv
    <3>1. sock' = sock /\ (rd' = rd \/ rd' = NoDesc)
      BY <2>3 DEF Receives, TakeInline, MapCached, MapOpen, MapGone, SweepCache, FetchSeq,
                  CopyCell, Recheck, sockVars, Finish
    <3>2. Placed(rd)'
      BY <1>2, <2>1, <3>1, NoDescTyped DEF PlacedInv, Placed, PlacedIn
    <3>3. QED BY <1>2, <2>1, <3>1, <3>2 DEF PlacedInv, Placed
  <2>4. QED BY <2>2, <2>3
<1>5. ResolveInv'
  <2>1. CASE Recv \/ TakeInline \/ MapCached \/ MapOpen \/ MapGone
    BY <2>1 DEF Recv, TakeInline, MapCached, MapOpen, MapGone, Receiver, ResolveInv
  <2>2. CASE SweepCache \/ \E c \in Cells : CopyCell(c)
    BY <2>2 DEF SweepCache, CopyCell, ResolveInv, IInv
  <2>3. CASE FetchSeq \/ Recheck
    BY <2>3 DEF FetchSeq, Recheck, Receiver, ResolveInv, IInv
  <2>4. QED BY <2>1, <2>2, <2>3 DEF Receives
<1>6. QED BY <1>1, <1>3, <1>4, <1>5 DEF IInv

(* The beginning of a publish keeps IInv.                                   *)
LEMMA PublishStep == ASSUME IInv, NEW t \in Threads, Publish(t) PROVE IInv'
<1>0. TypesInv /\ ThreadInv /\ BoundInv /\ RingInv /\ PlacedInv /\ ResolveInv /\ nmsg \in Nat
  BY DEF IInv, TypesInv
<1>1. TypesInv'
  BY <1>0, PublishTypes
<1>2. /\ tpc[t] = "idle" /\ tpc' = [tpc EXCEPT ![t] = "stage"] /\ nmsg' = nmsg + 1
      /\ tmsg' = [tmsg EXCEPT ![t] = nmsg']
      /\ UNCHANGED <<tdesc, holder, todo, size, segment_id, ring_cells, next_offset, next_index,
                     tag, sock, sent, rpc, rd, last, prev>>
  BY DEF Publish, Thread, stageVars, ringVars, memVars, sockVars, recvVars, histVars
<1>3. /\ tpc'[t] = "stage" /\ tmsg'[t] = nmsg'
      /\ \A u \in Threads : u # t => tpc'[u] = tpc[u] /\ tmsg'[u] = tmsg[u]
  BY <1>0, <1>2 DEF TypesInv
<1>4. ThreadInv'
  <2>1. holder # t
    BY <1>0, <1>2 DEF ThreadInv
  <2>2. \A u \in Threads : AtWork(u) => tmsg[u] \in 1 .. nmsg
    BY <1>0 DEF ThreadInv
  <2>3. sent \subseteq 1 .. nmsg'
    BY <1>0, <1>2 DEF ThreadInv
  <2>4. nmsg' \notin sent /\ nmsg' \in 1 .. nmsg'
    BY <1>0, <1>2 DEF ThreadInv
  <2>5. \A u \in Threads : u # t /\ AtWork(u)' => AtWork(u) /\ tmsg'[u] \in 1 .. nmsg
                                               /\ tmsg'[u] \in 1 .. nmsg' /\ tmsg'[u] # nmsg'
    BY <1>0, <1>2, <1>3, <2>2 DEF AtWork
  <2>6. ASSUME NEW u \in Threads
        PROVE  /\ tpc'[u] = "write" <=> holder' = u
               /\ AtWork(u)' => tmsg'[u] \in 1 .. nmsg' /\ tmsg'[u] \notin sent'
               /\ AtWork(u)' => \A v \in Threads : AtWork(v)' /\ tmsg'[v] = tmsg'[u] => v = u
               /\ tpc'[u] = "send" => tdesc'[u].n = tmsg'[u]
    <3>1. CASE u = t
      BY <1>2, <1>3, <2>1, <2>4, <2>5, <3>1
    <3>2. CASE u # t
      <4>1. /\ tpc[u] = "write" <=> holder = u
            /\ AtWork(u) => tmsg[u] \notin sent
            /\ AtWork(u) => \A v \in Threads : AtWork(v) /\ tmsg[v] = tmsg[u] => v = u
            /\ tpc[u] = "send" => tdesc[u].n = tmsg[u]
        BY <1>0 DEF ThreadInv
      <4>2. QED BY <1>2, <1>3, <2>5, <3>2, <4>1
    <3>3. QED BY <3>1, <3>2
  <2>7. QED BY <1>2, <2>3, <2>6 DEF ThreadInv
<1>5. BoundInv'
  <2>1. Cardinality(Staging') = Cardinality(Staging) + 1
    BY <1>0, <1>2, StagingAdd
  <2>2. Writing' = Writing /\ Writing \in {0, 1}
    BY <1>2 DEF Writing
  <2>3. segment_id \in Nat /\ next_index \in Nat
    BY <1>0 DEF TypesInv
  <2>4. QED BY <1>0, <1>2, <2>1, <2>2, <2>3, StagingFinite DEF BoundInv
<1>6. RingInv'
  <2>1. holder # NoThread => holder # t
    BY <1>0, <1>2 DEF ThreadInv
  <2>2. holder # NoThread => tmsg'[holder] = tmsg[holder]
    BY <1>0, <1>3, <2>1 DEF TypesInv
  <2>3. QED BY <1>0, <1>2, <2>2 DEF RingInv
<1>7. PlacedInv' /\ ResolveInv'
  BY <1>0, <1>2, PlacedSame, ResolveSame
<1>8. QED BY <1>1, <1>4, <1>5, <1>6, <1>7 DEF IInv

(* A thread goes on with its message, or is done with it.                   *)
LEMMA ThreadMoves ==
  ASSUME ThreadInv, NEW t \in Threads, nmsg' = nmsg, sent' \subseteq 1 .. nmsg,
         \A u \in Threads : u # t => /\ tpc'[u] = tpc[u] /\ tmsg'[u] = tmsg[u]
                                     /\ tdesc'[u] = tdesc[u] /\ (holder' = u <=> holder = u)
                                     /\ AtWork(u) => tmsg[u] \notin sent',
         AtWork(t)' => AtWork(t) /\ tmsg'[t] = tmsg[t] /\ tmsg[t] \notin sent',
         tpc'[t] = "send" => tdesc'[t].n = tmsg'[t],
         tpc'[t] = "write" <=> holder' = t
  PROVE  ThreadInv'
<1>1. \A u \in Threads : AtWork(u)' => AtWork(u) /\ tmsg'[u] = tmsg[u]
  BY DEF AtWork
<1>2. ASSUME NEW u \in Threads
      PROVE  /\ tpc'[u] = "write" <=> holder' = u
             /\ AtWork(u)' => tmsg'[u] \in 1 .. nmsg' /\ tmsg'[u] \notin sent'
             /\ AtWork(u)' => \A v \in Threads : AtWork(v)' /\ tmsg'[v] = tmsg'[u] => v = u
             /\ tpc'[u] = "send" => tdesc'[u].n = tmsg'[u]
  <2>1. /\ tpc[u] = "write" <=> holder = u
        /\ AtWork(u) => tmsg[u] \in 1 .. nmsg /\ tmsg[u] \notin sent
        /\ AtWork(u) => \A v \in Threads : AtWork(v) /\ tmsg[v] = tmsg[u] => v = u
        /\ tpc[u] = "send" => tdesc[u].n = tmsg[u]
    BY DEF ThreadInv
  <2>2. AtWork(u)' => tmsg'[u] \in 1 .. nmsg' /\ tmsg'[u] \notin sent'
    BY <1>1, <2>1
  <2>3. AtWork(u)' => \A v \in Threads : AtWork(v)' /\ tmsg'[v] = tmsg'[u] => v = u
    BY <1>1, <2>1
  <2>4. QED BY <2>1, <2>2, <2>3
<1>3. QED BY <1>2 DEF ThreadInv

(* A reservation keeps IInv.                                                *)
LEMMA ReservedStep ==
  ASSUME IInv, NEW t \in Threads, NEW act \in Nat, NEW seg \in Nat, NEW off \in Nat,
         Reserved(t, act, seg, off)
  PROVE  IInv'
<1>0. TypesInv /\ ThreadInv /\ BoundInv /\ RingInv /\ PlacedInv /\ ResolveInv
  BY DEF IInv
<1>1. TypesInv'
  BY <1>0, ReservedTypes
<1>2. /\ tpc[t] = "stage" /\ tpc' = [tpc EXCEPT ![t] = "write"] /\ holder = NoThread
      /\ holder' = t /\ size' = act /\ act > 0 /\ todo' = Span(off, act) /\ next_offset' = off
      /\ segment_id' = seg /\ seg \in Segments /\ seg \in {segment_id, segment_id + 1}
      /\ off + act <= ring_cells' /\ 4 * act <= ring_cells' /\ ring_cells' <= Area(Largest)
      /\ UNCHANGED <<tmsg, tdesc, nmsg, next_index, tag, sock, sent, rpc, rd, last, prev>>
  BY DEF Reserved, sockVars, recvVars, histVars
<1>3. tpc'[t] = "write" /\ \A u \in Threads : u # t => tpc'[u] = tpc[u]
  BY <1>0, <1>2 DEF TypesInv
<1>4. ThreadInv'
  <2>1. /\ sent' \subseteq 1 .. nmsg
        /\ \A u \in Threads : AtWork(u) => tmsg[u] \notin sent'
    BY <1>0, <1>2 DEF ThreadInv
  <2>2. AtWork(t) /\ \A u \in Threads : u # t => (holder' = u <=> holder = u)
    BY <1>2, ShmRingAssumption DEF AtWork
  <2>3. QED BY <1>0, <1>2, <1>3, <2>1, <2>2, ThreadMoves
<1>5. BoundInv'
  <2>1. Cardinality(Staging') = Cardinality(Staging) - 1
    BY <1>0, <1>2, StagingRemove
  <2>2. Writing' = 1 /\ Writing = 0
    BY <1>2, ShmRingAssumption DEF Writing
  <2>3. segment_id \in Nat /\ next_index \in Nat /\ nmsg \in Nat
    BY <1>0 DEF TypesInv
  <2>4. QED BY <1>0, <1>2, <2>1, <2>2, <2>3, StagingFinite DEF BoundInv
<1>6. RingInv'
  <2>1. holder' # NoThread
    BY <1>2, ShmRingAssumption
  <2>2. seg > 0
    BY <1>2, AreaFacts
  <2>3. QED BY <1>2, <2>1, <2>2 DEF RingInv
<1>7. PlacedInv'
  <2>1. segment_id <= segment_id' /\ segment_id \in Nat /\ segment_id' \in Nat
    BY <1>0, <1>1, <1>2 DEF TypesInv
  <2>2. QED BY <1>0, <1>1, <1>2, <2>1, PlacedLater
<1>8. ResolveInv'
  BY <1>0, <1>2, ResolveSame
<1>9. QED BY <1>1, <1>4, <1>5, <1>6, <1>7, <1>8 DEF IInv

(* A growth that fails keeps IInv: the message goes inline.                 *)
LEMMA GrowFailStep ==
  ASSUME IInv, NEW t \in Threads, NEW k \in Sizes, GrowFail(t, k)
  PROVE  IInv'
<1>0. TypesInv /\ ThreadInv /\ BoundInv /\ RingInv /\ PlacedInv /\ ResolveInv
  BY DEF IInv
<1>1. TypesInv'
  BY <1>0, GrowFailTypes
<1>2. /\ tpc[t] = "stage" /\ holder = NoThread
      /\ UNCHANGED <<nmsg, holder, todo, size, segment_id, ring_cells, next_offset, next_index,
                     tag, sock, sent, rpc, rd, last, prev>>
  BY DEF GrowFail, stageVars, ringVars, memVars, sockVars, recvVars, histVars
<1>3. \E pc \in {"idle", "send"} :
        /\ tpc' = [tpc EXCEPT ![t] = pc]
        /\ pc = "send" => tmsg' = tmsg
        /\ \E m \in Nat : tmsg' = [tmsg EXCEPT ![t] = m]
        /\ \E d \in DescT : /\ tdesc' = [tdesc EXCEPT ![t] = d] /\ ~d.shm
                            /\ pc = "send" => d.n = tmsg[t]
  <2>1. tmsg[t] \in Nat /\ tmsg = [tmsg EXCEPT ![t] = tmsg[t]]
    BY <1>0 DEF TypesInv
  <2>2. CASE Return(t)
    BY <2>2, NoDescTyped DEF Return
  <2>3. CASE /\ tpc' = [tpc EXCEPT ![t] = "send"]
             /\ tdesc' = [tdesc EXCEPT ![t] = Inline(tmsg[t])]
             /\ UNCHANGED tmsg
    BY <2>1, <2>3, NoDescTyped
  <2>4. QED BY <2>2, <2>3 DEF GrowFail
<1>4. PICK pc \in {"idle", "send"} :
        /\ tpc' = [tpc EXCEPT ![t] = pc]
        /\ pc = "send" => tmsg' = tmsg
        /\ \E m \in Nat : tmsg' = [tmsg EXCEPT ![t] = m]
        /\ \E d \in DescT : /\ tdesc' = [tdesc EXCEPT ![t] = d] /\ ~d.shm
                            /\ pc = "send" => d.n = tmsg[t]
  BY <1>3
<1>5. PICK d \in DescT : /\ tdesc' = [tdesc EXCEPT ![t] = d] /\ ~d.shm
                         /\ pc = "send" => d.n = tmsg[t]
  BY <1>4
<1>6. /\ tpc'[t] = pc /\ tdesc'[t] = d
      /\ \A u \in Threads : u # t => /\ tpc'[u] = tpc[u] /\ tmsg'[u] = tmsg[u]
                                     /\ tdesc'[u] = tdesc[u]
  BY <1>0, <1>4, <1>5 DEF TypesInv
<1>7. ThreadInv'
  <2>1. /\ sent' \subseteq 1 .. nmsg
        /\ \A u \in Threads : AtWork(u) => tmsg[u] \notin sent'
    BY <1>0, <1>2 DEF ThreadInv
  <2>2. AtWork(t) /\ (AtWork(t)' => pc = "send")
    BY <1>2, <1>6 DEF AtWork
  <2>3. holder' # t
    BY <1>2, ShmRingAssumption
  <2>4. QED BY <1>0, <1>2, <1>4, <1>5, <1>6, <2>1, <2>2, <2>3, ThreadMoves
<1>8. BoundInv'
  <2>1. Cardinality(Staging') = Cardinality(Staging) - 1
    BY <1>0, <1>2, <1>4, StagingRemove
  <2>2. Writing' = Writing /\ Writing \in {0, 1}
    BY <1>2 DEF Writing
  <2>3. segment_id \in Nat /\ next_index \in Nat /\ nmsg \in Nat
    BY <1>0 DEF TypesInv
  <2>4. QED BY <1>0, <1>2, <2>1, <2>2, <2>3, StagingFinite DEF BoundInv
<1>9. RingInv'
  BY <1>0, <1>2 DEF RingInv
<1>10. PlacedInv'
  <2>1. \A u \in Threads : Placed(tdesc'[u])
    BY <1>0, <1>5, <1>6 DEF PlacedInv, Placed, PlacedIn
  <2>2. QED BY <1>0, <1>2, <2>1 DEF PlacedInv, Placed
<1>11. ResolveInv'
  BY <1>0, <1>2, ResolveSame
<1>12. QED BY <1>1, <1>7, <1>8, <1>9, <1>10, <1>11 DEF IInv

(* A cell of the payload keeps IInv.                                        *)
LEMMA WriteStep ==
  ASSUME IInv, NEW t \in Threads, NEW c \in Cells, WriteCell(t, c)
  PROVE  IInv'
<1>0. TypesInv /\ ThreadInv /\ BoundInv /\ RingInv /\ PlacedInv /\ ResolveInv
  BY DEF IInv
<1>1. TypesInv'
  BY <1>0, WriteTypes
<1>2. /\ tpc[t] = "write" /\ c \in todo /\ todo' = todo \ {c}
      /\ tag' = [tag EXCEPT ![segment_id][c] = tmsg[t]]
      /\ UNCHANGED <<tpc, tmsg, tdesc, nmsg, holder, size, segment_id, ring_cells, next_offset,
                     next_index, sock, sent, rpc, rd, last, prev>>
  BY DEF WriteCell, threadVars, ringVars, sockVars, recvVars, histVars
<1>3. ThreadInv' /\ BoundInv' /\ PlacedInv' /\ ResolveInv'
  BY <1>0, <1>2, ThreadSame, BoundSame, PlacedSame, ResolveSame
<1>4. RingInv'
  <2>1. /\ holder = t /\ holder # NoThread /\ segment_id \in Segments
        /\ Span(next_offset, size) \subseteq Cells /\ todo \subseteq Span(next_offset, size)
        /\ \A x \in Span(next_offset, size) \ todo : tag[segment_id][x] = tmsg[t]
    BY <1>0, <1>2, WriterFacts DEF Written
  <2>2. tag \in [Segments -> [Cells -> Nat]] /\ tmsg[t] \in Nat
    BY <1>0 DEF TypesInv
  <2>3. \A x \in Cells : tag'[segment_id][x] = IF x = c THEN tmsg[t] ELSE tag[segment_id][x]
    BY <1>2, <2>1, <2>2, PutWord
  <2>4. \A x \in Span(next_offset, size) \ todo' : tag'[segment_id][x] = tmsg[t]
    BY <1>2, <2>1, <2>3
  <2>5. QED BY <1>0, <1>2, <2>1, <2>4 DEF RingInv
<1>5. QED BY <1>1, <1>3, <1>4 DEF IInv

(* A commit keeps IInv: its descriptor names the record just written.       *)
LEMMA CommitStep == ASSUME IInv, NEW t \in Threads, Commit(t) PROVE IInv'
<1>0. TypesInv /\ ThreadInv /\ BoundInv /\ RingInv /\ PlacedInv /\ ResolveInv
  BY DEF IInv
<1>1. TypesInv'
  BY <1>0, CommitTypes
<1>2. /\ tpc[t] = "write" /\ tpc' = [tpc EXCEPT ![t] = "send"] /\ todo = {}
      /\ tdesc' = [tdesc EXCEPT ![t] = Desc(tmsg[t])]
      /\ next_offset' = next_offset + size /\ next_index' = next_index + 1
      /\ holder' = NoThread /\ size' = 0 /\ prev' = last /\ last' = Desc(tmsg[t])
      /\ UNCHANGED <<tmsg, nmsg, todo, segment_id, ring_cells, tag, sock, sent, rpc, rd>>
  BY DEF Commit, Thread, sockVars, recvVars
<1>3. /\ tpc'[t] = "send" /\ tdesc'[t] = Desc(tmsg[t])
      /\ \A u \in Threads : u # t => tpc'[u] = tpc[u] /\ tdesc'[u] = tdesc[u]
  BY <1>0, <1>2 DEF TypesInv
<1>4. /\ holder = t /\ holder # NoThread /\ size > 0 /\ next_offset + size <= ring_cells
      /\ ring_cells <= Area(Largest) /\ segment_id \in Segments
  BY <1>0, <1>2, WriterFacts
<1>5. /\ segment_id \in Nat /\ next_index \in Nat /\ nmsg \in Nat /\ tmsg[t] \in Nat
      /\ size \in Nat /\ next_offset \in Nat /\ ring_cells \in Nat /\ Area(Largest) \in Nat
  BY <1>0, AreaFacts DEF TypesInv
<1>6. ThreadInv'
  <2>1. /\ sent' \subseteq 1 .. nmsg
        /\ \A u \in Threads : AtWork(u) => tmsg[u] \notin sent'
    BY <1>0, <1>2 DEF ThreadInv
  <2>2. AtWork(t)
    BY <1>2 DEF AtWork
  <2>3. \A u \in Threads : holder' # u /\ (u # t => holder # u)
    BY <1>2, <1>4, ShmRingAssumption
  <2>4. Desc(tmsg[t]).n = tmsg[t]
    BY <1>0, <1>5, DescTyped
  <2>5. QED BY <1>0, <1>2, <1>3, <2>1, <2>2, <2>3, <2>4, ThreadMoves
<1>7. BoundInv'
  <2>1. Staging' = Staging
    BY <1>2, <1>3 DEF Staging
  <2>2. Writing' = 0 /\ Writing = 1
    BY <1>2, <1>4 DEF Writing
  <2>3. QED BY <1>0, <1>2, <1>5, <2>1, <2>2, StagingFinite DEF BoundInv
<1>8. RingInv'
  BY <1>0, <1>2, <1>4, <1>5 DEF RingInv
<1>9. PlacedInv'
  <2>1. Placed(Desc(tmsg[t]))
    <3>1. /\ Desc(tmsg[t]).seg = segment_id /\ Desc(tmsg[t]).off = next_offset
          /\ Desc(tmsg[t]).size = size
      BY <1>0, <1>5, DescTyped
    <3>2. segment_id > 0
      BY <1>4, AreaFacts
    <3>3. QED BY <1>4, <1>5, <3>1, <3>2 DEF Placed, PlacedIn
  <2>2. \A u \in Threads : Placed(tdesc'[u])
    BY <1>0, <1>3, <2>1 DEF PlacedInv
  <2>3. Placed(last') /\ Placed(prev') /\ Placed(rd') /\ \A i \in 1 .. Len(sock') : Placed(sock'[i])
    BY <1>0, <1>2, <2>1 DEF PlacedInv
  <2>4. QED BY <1>2, <2>2, <2>3 DEF PlacedInv, Placed
<1>10. ResolveInv'
  BY <1>0, <1>2, ResolveSame
<1>11. QED BY <1>1, <1>6, <1>7, <1>8, <1>9, <1>10 DEF IInv

(* rmw_publish returns: nothing of the message is left with the thread.     *)
LEMMA ReturnEffect ==
  ASSUME TypesInv, ThreadInv, NEW t \in Threads, Return(t)
  PROVE  /\ tpc'[t] = "idle" /\ tmsg'[t] = 0 /\ tdesc'[t] = NoDesc
         /\ \A u \in Threads : u # t => /\ tpc'[u] = tpc[u] /\ tmsg'[u] = tmsg[u]
                                        /\ tdesc'[u] = tdesc[u]
  BY DEF Return, TypesInv

(* An abort keeps IInv.                                                     *)
LEMMA AbortStep == ASSUME IInv, NEW t \in Threads, Abort(t) PROVE IInv'
<1>0. TypesInv /\ ThreadInv /\ BoundInv /\ RingInv /\ PlacedInv /\ ResolveInv
  BY DEF IInv
<1>1. TypesInv'
  BY <1>0, AbortTypes
<1>2. /\ tpc[t] = "write" /\ holder' = NoThread /\ todo' = {} /\ size' = 0
      /\ UNCHANGED <<nmsg, segment_id, ring_cells, next_offset, next_index, tag, sock, sent,
                     rpc, rd, last, prev>>
  BY DEF Abort, ringVars, memVars, sockVars, recvVars, histVars
<1>3. /\ tpc'[t] = "idle" /\ tmsg'[t] = 0 /\ tdesc'[t] = NoDesc
      /\ \A u \in Threads : u # t => /\ tpc'[u] = tpc[u] /\ tmsg'[u] = tmsg[u]
                                     /\ tdesc'[u] = tdesc[u]
  BY <1>0, ReturnEffect DEF Abort
<1>4. holder = t /\ holder # NoThread /\ next_offset + size <= ring_cells
  BY <1>0, <1>2, WriterFacts
<1>5. /\ segment_id \in Nat /\ next_index \in Nat /\ nmsg \in Nat
      /\ size \in Nat /\ next_offset \in Nat /\ ring_cells \in Nat
  BY <1>0 DEF TypesInv
<1>6. ThreadInv'
  <2>1. /\ sent' \subseteq 1 .. nmsg
        /\ \A u \in Threads : AtWork(u) => tmsg[u] \notin sent'
    BY <1>0, <1>2 DEF ThreadInv
  <2>2. ~AtWork(t)'
    BY <1>3 DEF AtWork
  <2>3. \A u \in Threads : holder' # u /\ (u # t => holder # u)
    BY <1>2, <1>4, ShmRingAssumption
  <2>4. QED BY <1>0, <1>2, <1>3, <2>1, <2>2, <2>3, ThreadMoves
<1>7. BoundInv'
  <2>1. Staging' = Staging
    BY <1>2, <1>3 DEF Staging
  <2>2. Writing' = 0 /\ Writing = 1
    BY <1>2, <1>4 DEF Writing
  <2>3. QED BY <1>0, <1>2, <1>5, <2>1, <2>2, StagingFinite DEF BoundInv
<1>8. RingInv'
  BY <1>0, <1>2, <1>4, <1>5 DEF RingInv
<1>9. PlacedInv'
  <2>1. \A u \in Threads : Placed(tdesc'[u])
    BY <1>0, <1>3, NoDescTyped DEF PlacedInv, Placed, PlacedIn
  <2>2. QED BY <1>0, <1>2, <2>1 DEF PlacedInv, Placed
<1>10. ResolveInv'
  BY <1>0, <1>2, ResolveSame
<1>11. QED BY <1>1, <1>6, <1>7, <1>8, <1>9, <1>10 DEF IInv

(* A send keeps IInv.                                                       *)
LEMMA SendStep == ASSUME IInv, NEW t \in Threads, Send(t) PROVE IInv'
<1>0. TypesInv /\ ThreadInv /\ BoundInv /\ RingInv /\ PlacedInv /\ ResolveInv
  BY DEF IInv
<1>1. TypesInv'
  BY <1>0, SendTypes
<1>2. /\ tpc[t] = "send"
      /\ UNCHANGED <<nmsg, holder, todo, size, segment_id, ring_cells, next_offset, next_index,
                     tag, rpc, rd, last, prev>>
  BY DEF Send, stageVars, ringVars, memVars, recvVars, histVars
<1>3. /\ tpc'[t] = "idle" /\ tmsg'[t] = 0 /\ tdesc'[t] = NoDesc
      /\ \A u \in Threads : u # t => /\ tpc'[u] = tpc[u] /\ tmsg'[u] = tmsg[u]
                                     /\ tdesc'[u] = tdesc[u]
  BY <1>0, ReturnEffect DEF Send
<1>4. AtWork(t) /\ holder # t /\ tdesc[t].n = tmsg[t]
  BY <1>0, <1>2 DEF ThreadInv, AtWork
<1>5. \/ sock' = Append(sock, tdesc[t]) /\ sent' = sent \cup {tmsg[t]}
      \/ sock' = sock /\ sent' = sent
  BY <1>4 DEF Send, sockVars
<1>6. ThreadInv'
  <2>1. /\ sent' \subseteq 1 .. nmsg
        /\ \A u \in Threads : u # t /\ AtWork(u) => tmsg[u] \notin sent'
    BY <1>0, <1>4, <1>5 DEF ThreadInv
  <2>2. ~AtWork(t)'
    BY <1>3 DEF AtWork
  <2>3. QED BY <1>0, <1>2, <1>3, <1>4, <2>1, <2>2, ThreadMoves
<1>7. BoundInv'
  <2>1. Staging' = Staging
    BY <1>2, <1>3 DEF Staging
  <2>2. QED BY <1>0, <1>2, <2>1 DEF BoundInv, Writing
<1>8. RingInv'
  <2>1. holder # NoThread => holder \in Threads /\ holder # t
    BY <1>0, <1>4 DEF TypesInv
  <2>2. QED BY <1>0, <1>2, <1>3, <2>1 DEF RingInv
<1>9. PlacedInv'
  <2>1. \A u \in Threads : Placed(tdesc'[u])
    BY <1>0, <1>3, NoDescTyped DEF PlacedInv, Placed, PlacedIn
  <2>2. \A i \in 1 .. Len(sock') : Placed(sock'[i])
    <3>1. sock \in Seq(DescT) /\ tdesc[t] \in DescT /\ Placed(tdesc[t])
      BY <1>0 DEF TypesInv, PlacedInv
    <3>2. QED BY <1>0, <1>5, <3>1 DEF PlacedInv
  <2>3. QED BY <1>0, <1>2, <2>1, <2>2 DEF PlacedInv, Placed
<1>10. ResolveInv'
  BY <1>0, <1>2, ResolveSame
<1>11. QED BY <1>1, <1>6, <1>7, <1>8, <1>9, <1>10 DEF IInv

(* The end of the publisher keeps IInv.                                     *)
LEMMA CloseStep == ASSUME IInv, Close PROVE IInv'
<1>0. TypesInv /\ ThreadInv /\ BoundInv /\ RingInv /\ PlacedInv /\ ResolveInv
  BY DEF IInv
<1>1. TypesInv'
  BY <1>0, CloseTypes
<1>2. /\ \A t \in Threads : tpc[t] = "idle" /\ tpc'[t] = "gone"
      /\ ring_cells' = 0 /\ next_offset' = 0
      /\ UNCHANGED <<tmsg, tdesc, nmsg, holder, todo, size, segment_id, next_index, tag, sock,
                     sent, rpc, rd, last, prev>>
  BY DEF Close, stageVars, memVars, sockVars, recvVars, histVars
<1>3. holder = NoThread
  BY <1>0, <1>2 DEF ThreadInv, TypesInv
<1>4. ThreadInv'
  <2>1. \A t \in Threads : ~AtWork(t)' /\ holder' # t /\ tpc'[t] = "gone"
    BY <1>2, <1>3, ShmRingAssumption DEF AtWork
  <2>2. QED BY <1>0, <1>2, <2>1 DEF ThreadInv
<1>5. BoundInv'
  <2>1. Staging' = Staging
    BY <1>2 DEF Staging
  <2>2. QED BY <1>0, <1>2, <2>1 DEF BoundInv, Writing
<1>6. RingInv'
  <2>1. Area(Largest) >= 0 /\ Area(Largest) \in Nat
    BY AreaFacts
  <2>2. QED BY <1>0, <1>2, <1>3, <2>1 DEF RingInv
<1>7. PlacedInv' /\ ResolveInv'
  BY <1>0, <1>2, PlacedSame, ResolveSame
<1>8. QED BY <1>1, <1>4, <1>5, <1>6, <1>7 DEF IInv

(* Before the first message.                                                *)
LEMMA InitIInv == Init => IInv
<1> SUFFICES ASSUME Init PROVE IInv
  OBVIOUS
<1>1. TypesInv
  <2>1. SenderTypes
    BY AreaFacts, NoDescTyped DEF Init, SenderTypes
  <2>2. MemTypes
    BY DEF Init, MemTypes
  <2>3. SockTypes /\ RecvTypes
    BY NoDescTyped DEF Init, SockTypes, RecvTypes
  <2>4. QED BY <2>1, <2>2, <2>3, TypesParts
<1>2. ThreadInv
  BY ShmRingAssumption DEF Init, ThreadInv, AtWork
<1>3. BoundInv
  <2>1. Staging = {} /\ Writing = 0
    BY DEF Init, Staging, Writing
  <2>2. QED BY <2>1, FS_EmptySet DEF Init, BoundInv
<1>4. RingInv
  BY AreaFacts DEF Init, RingInv
<1>5. PlacedInv
  BY NoDescTyped DEF Init, PlacedInv, Placed, PlacedIn
<1>6. ResolveInv
  BY DEF Init, ResolveInv
<1>7. QED BY <1>1, <1>2, <1>3, <1>4, <1>5, <1>6 DEF IInv

(* IInv is inductive.                                                       *)
LEMMA IInvStep == IInv /\ [Next]_vars => IInv'
<1> SUFFICES ASSUME IInv, [Next]_vars PROVE IInv'
  OBVIOUS
<1>1. CASE Receives
  BY <1>1, RecvStep
<1>2. ASSUME NEW t \in Threads, Publish(t) \/ Commit(t) \/ Abort(t) \/ Send(t) PROVE IInv'
  BY <1>2, PublishStep, CommitStep, AbortStep, SendStep
<1>3. ASSUME NEW t \in Threads, NEW k \in Sizes, Reserve(t, k) \/ GrowReserve(t, k) PROVE IInv'
  <2>1. PICK act, seg, off \in Nat : Reserved(t, act, seg, off)
    BY <1>3, ReserveEffect DEF IInv
  <2>2. QED BY <2>1, ReservedStep
<1>4. ASSUME NEW t \in Threads, NEW k \in Sizes, GrowFail(t, k) PROVE IInv'
  BY <1>4, GrowFailStep
<1>5. ASSUME NEW t \in Threads, NEW c \in Cells, WriteCell(t, c) PROVE IInv'
  BY <1>5, WriteStep
<1>6. CASE Close
  BY <1>6, CloseStep
<1>7. CASE UNCHANGED vars
  <2>1. TypesInv'
    <3>1. SenderTypes' /\ MemTypes' /\ SockTypes' /\ RecvTypes'
      BY <1>7, TypesParts DEF IInv, SenderTypes, MemTypes, SockTypes, RecvTypes, vars, threadVars,
         stageVars, ringVars, memVars, sockVars, recvVars, histVars
    <3>2. QED BY <3>1, TypesNext
  <2>2. UNCHANGED <<tpc, tmsg, tdesc, nmsg, holder, sent, segment_id, next_index, ring_cells,
                    next_offset, size, todo, tag, sock, rpc, rd, last, prev>>
    BY <1>7 DEF vars, threadVars, stageVars, ringVars, memVars, sockVars, recvVars, histVars
  <2>3. QED BY <2>1, <2>2, ThreadSame, BoundSame, RingSame, PlacedSame, ResolveSame DEF IInv
<1>8. QED BY <1>1, <1>2, <1>3, <1>4, <1>5, <1>6, <1>7 DEF Next, Receives

(* IInv holds always.                                                       *)
LEMMA IInvAlways == Spec => []IInv
  BY InitIInv, IInvStep, PTL DEF Spec

-----------------------------------------------------------------------------
(* The two newest records.  A record of a quarter of the ring at most that  *)
(* starts where the newest one ends, or at 0, meets neither of them.        *)
Apart(r, pos, k) == r.off + r.size <= pos \/ pos + k <= r.off

(* A record of at most a quarter of the ring does not meet the two before   *)
(* it.                                                                      *)
LEMMA NewestApart ==
  ASSUME NEW l \in DescT, NEW p \in DescT, NEW cells \in Nat, NEW pos \in Nat, NEW k \in Nat,
         l.size > 0, k > 0, 4 * k <= cells, Follows(l, pos, cells)
  PROVE  /\ Apart(l, pos, k)
         /\ Follows(p, l.off, cells) => Apart(p, pos, k)
<1>1. /\ l.off \in Nat /\ l.size \in Nat /\ p.off \in Nat /\ p.size \in Nat
  BY DEF DescT
<1>2. Apart(l, pos, k)
  BY <1>1 DEF Apart, Follows
<1>3. ASSUME Follows(p, l.off, cells) PROVE Apart(p, pos, k)
  <2>1. CASE l.off + l.size = pos
    BY <1>1, <1>3, <2>1 DEF Apart, Follows
  <2>2. CASE pos = 0 /\ 4 * (l.off + l.size) > 3 * cells
    BY <1>1, <1>3, <2>2 DEF Apart, Follows
  <2>3. QED BY <2>1, <2>2 DEF Follows
<1>4. QED BY <1>2, <1>3

(* Intact, of given words.                                                  *)
Whole(r, sq, ln, tg) ==
  /\ sq[r.seg][r.off] = r.seq /\ ln[r.seg][r.off] = r.size
  /\ \A c \in Span(r.off, r.size) : tg[r.seg][c] = r.n

(* Stores into the cells of a record leave the records apart from it whole. *)
StoresAt(pos, k) ==
  \A x \in Cells \ Span(pos, k) : /\ seqw'[segment_id][x] = seqw[segment_id][x]
                                 /\ lenw'[segment_id][x] = lenw[segment_id][x]
                                 /\ tag'[segment_id][x] = tag[segment_id][x]

(* A record stays whole when the stores are elsewhere.                      *)
LEMMA ApartStaysWhole ==
  ASSUME IInv, NEW r \in DescT, Placed(r), r.shm, r.seg = segment_id,
         NEW pos \in Nat, NEW k \in Nat, Apart(r, pos, k), StoresAt(pos, k),
         Whole(r, seqw, lenw, tag)
  PROVE  Whole(r, seqw', lenw', tag')
<1>1. /\ r.off \in Cells /\ Span(r.off, r.size) \subseteq Cells /\ r.off \in Span(r.off, r.size)
      /\ r.off \in Nat /\ r.size \in Nat
  BY PlacedWhere DEF IInv, DescT
<1>2. \A x \in Span(r.off, r.size) : x \in Cells \ Span(pos, k)
  BY <1>1 DEF Apart, Span
<1>3. \A x \in Span(r.off, r.size) : /\ seqw'[segment_id][x] = seqw[segment_id][x]
                                    /\ lenw'[segment_id][x] = lenw[segment_id][x]
                                    /\ tag'[segment_id][x] = tag[segment_id][x]
  BY <1>2 DEF StoresAt
<1>4. QED BY <1>1, <1>3 DEF Whole

(* The records of RecentInv, with what the geometry needs of them.          *)
LEMMA RecentFacts ==
  ASSUME IInv, RecentInv
  PROVE  /\ last \in DescT /\ prev \in DescT /\ ring_cells \in Nat /\ next_offset \in Nat
         /\ InOpen(last) => /\ Follows(last, next_offset, ring_cells) /\ last.size > 0
                            /\ Placed(last) /\ Whole(last, seqw, lenw, tag)
         /\ InOpen(prev) => /\ InOpen(last) /\ Follows(prev, last.off, ring_cells)
                            /\ Placed(prev) /\ Whole(prev, seqw, lenw, tag)
<1>1. /\ last \in DescT /\ prev \in DescT /\ ring_cells \in Nat /\ next_offset \in Nat
      /\ segment_id \in Nat /\ Placed(last) /\ Placed(prev)
      /\ last.seg \in Nat /\ prev.seg \in Nat
  BY DEF IInv, TypesInv, PlacedInv, DescT
<1>2. InOpen(last) => /\ Follows(last, next_offset, ring_cells) /\ last.size > 0
                      /\ Whole(last, seqw, lenw, tag)
  BY <1>1 DEF RecentInv, RecentRecordsIntact, InOpen, Intact, Whole, Placed, PlacedIn
<1>3. InOpen(prev) => /\ Follows(prev, last.off, ring_cells) /\ Whole(prev, seqw, lenw, tag)
  BY <1>1 DEF RecentInv, RecentRecordsIntact, InOpen, Intact, Whole
<1>4. InOpen(prev) => InOpen(last)
  BY <1>1 DEF RecentInv, InOpen, Placed, PlacedIn
<1>5. QED BY <1>1, <1>2, <1>3, <1>4

(* A cell of the payload spares the two newest records.                     *)
LEMMA RecentWrite ==
  ASSUME IInv, RecentInv, NEW t \in Threads, NEW c \in Cells, WriteCell(t, c)
  PROVE  RecentInv'
<1>1. /\ segment_id \in Segments /\ c \in Span(next_offset, size) /\ size > 0
      /\ 4 * size <= ring_cells
  BY WriterFacts DEF IInv, WriteCell
<1>2. UNCHANGED <<last, prev, segment_id, ring_cells, next_offset>>
  BY DEF WriteCell, ringVars, histVars
<1>3. StoresAt(next_offset, size)
  <2>1. /\ seqw \in [Segments -> [Cells -> Int]] /\ lenw \in [Segments -> [Cells -> Int]]
        /\ tag \in [Segments -> [Cells -> Nat]]
    BY DEF IInv, TypesInv
  <2>2. /\ tag' = [tag EXCEPT ![segment_id][c] = tmsg[t]]
        /\ seqw' = seqw \/ seqw' = [seqw EXCEPT ![segment_id][c] = Raw]
        /\ lenw' = lenw \/ lenw' = [lenw EXCEPT ![segment_id][c] = Raw]
    BY DEF WriteCell
  <2>3. QED BY <1>1, <2>1, <2>2 DEF StoresAt
<1>4. size \in Nat
  BY DEF IInv, TypesInv
<1>5. InOpen(last) => Whole(last, seqw', lenw', tag')
  BY <1>1, <1>3, <1>4, RecentFacts, NewestApart, ApartStaysWhole DEF InOpen
<1>6. InOpen(prev) => Whole(prev, seqw', lenw', tag')
  BY <1>1, <1>3, <1>4, RecentFacts, NewestApart, ApartStaysWhole DEF InOpen
<1>7. RecentRecordsIntact'
  BY <1>2, <1>5, <1>6 DEF RecentRecordsIntact, Intact, Whole, InOpen
<1>8. QED BY <1>2, <1>7 DEF RecentInv, InOpen

(* So does the header of a reservation.                                     *)
LEMMA RecentReserve ==
  ASSUME IInv, RecentInv, NEW t \in Threads, NEW act \in Nat, NEW seg \in Nat, NEW off \in Nat,
         Reserved(t, act, seg, off)
  PROVE  RecentInv'
<1>1. /\ UNCHANGED <<last, prev, lenw, tag>> /\ next_offset' = off /\ segment_id' = seg
      /\ seg \in Segments /\ off \in Cells /\ act > 0
      /\ 4 * act <= ring_cells' /\ ring_cells' \in Nat
      /\ seqw' = [seqw EXCEPT ![seg][off] = (2 * next_index - 1) % SeqMod]
  BY DEF Reserved, histVars
<1>2. /\ last.seg \in Nat /\ prev.seg \in Nat /\ segment_id \in Nat
      /\ last.shm => last.seg <= segment_id
      /\ prev.shm => prev.seg <= segment_id
  BY DEF IInv, TypesInv, PlacedInv, Placed, PlacedIn, DescT
<1>3. CASE seg = segment_id + 1
  <2>1. ~InOpen(last)' /\ ~InOpen(prev)'
    BY <1>1, <1>2, <1>3 DEF InOpen
  <2>2. RecentRecordsIntact'
    BY <2>1 DEF RecentRecordsIntact, InOpen
  <2>3. QED BY <1>1, <2>1, <2>2 DEF RecentInv
<1>4. CASE /\ seg = segment_id /\ ring_cells' = ring_cells
           /\ off = next_offset \/ (off = 0 /\ 4 * next_offset > 3 * ring_cells)
  <2>1. StoresAt(off, act)
    <3>1. seqw \in [Segments -> [Cells -> Int]] /\ off \in Span(off, act)
      BY <1>1 DEF IInv, TypesInv, Span
    <3>2. \A x \in Cells : x # off => seqw'[seg][x] = seqw[seg][x]
      BY <1>1, <3>1
    <3>3. QED BY <1>1, <1>4, <3>1, <3>2 DEF StoresAt
  <2>2. InOpen(last) => Follows(last, off, ring_cells)
    <3>1. last.off \in Nat /\ last.size \in Nat
      BY RecentFacts DEF DescT
    <3>2. QED BY <1>4, <3>1, RecentFacts DEF Follows
  <2>3. InOpen(last) => Whole(last, seqw', lenw', tag')
    BY <1>1, <1>4, <2>1, <2>2, RecentFacts, NewestApart, ApartStaysWhole DEF InOpen
  <2>4. InOpen(prev) => Whole(prev, seqw', lenw', tag')
    BY <1>1, <1>4, <2>1, <2>2, RecentFacts, NewestApart, ApartStaysWhole DEF InOpen
  <2>5. RecentRecordsIntact'
    BY <1>1, <1>4, <2>3, <2>4 DEF RecentRecordsIntact, Intact, Whole, InOpen
  <2>6. QED BY <1>1, <1>4, <2>2, <2>5 DEF RecentInv, InOpen
<1>5. QED BY <1>3, <1>4 DEF Reserved

(* A commit makes its record the newest.                                    *)
LEMMA RecentCommit ==
  ASSUME IInv, RecentInv, NEW t \in Threads, Commit(t)
  PROVE  RecentInv'
<1>1. /\ segment_id \in Segments /\ next_offset \in Cells /\ size > 0 /\ 4 * size <= ring_cells
      /\ ring_cells # 0 /\ Span(next_offset, size) \subseteq Cells
      /\ \A c \in Written : tag[segment_id][c] = tmsg[t]
  BY WriterFacts DEF IInv, Commit, Thread
<1>2. /\ todo = {} /\ prev' = last /\ last' = Desc(tmsg[t])
      /\ lenw' = [lenw EXCEPT ![segment_id][next_offset] = size]
      /\ seqw' = [seqw EXCEPT ![segment_id][next_offset] = (2 * next_index) % SeqMod]
      /\ next_offset' = next_offset + size
      /\ UNCHANGED <<segment_id, ring_cells, tag>>
  BY DEF Commit
<1>3. /\ size \in Nat /\ tmsg[t] \in Nat /\ next_offset \in Nat /\ ring_cells \in Nat
      /\ seqw \in [Segments -> [Cells -> Int]] /\ lenw \in [Segments -> [Cells -> Int]]
  BY DEF IInv, TypesInv
<1>4. /\ last'.shm /\ last'.seg = segment_id /\ last'.off = next_offset /\ last'.size = size
      /\ last'.seq = (2 * next_index) % SeqMod /\ last'.n = tmsg[t]
  BY <1>2, <1>3, DescTyped DEF IInv
<1>5. StoresAt(next_offset, size)
  <2>1. next_offset \in Span(next_offset, size)
    BY <1>1, <1>3 DEF Span
  <2>2. QED BY <1>1, <1>2, <1>3, <2>1 DEF StoresAt
<1>6. Whole(last', seqw', lenw', tag')
  <2>1. seqw'[segment_id][next_offset] = (2 * next_index) % SeqMod
    BY <1>1, <1>2, <1>3
  <2>2. lenw'[segment_id][next_offset] = size
    BY <1>1, <1>2, <1>3
  <2>3. \A c \in Span(next_offset, size) : tag'[segment_id][c] = tmsg[t]
    BY <1>1, <1>2 DEF Written
  <2>4. QED BY <1>4, <2>1, <2>2, <2>3 DEF Whole
<1>7. InOpen(last) => Whole(last, seqw', lenw', tag')
  BY <1>1, <1>3, <1>5, RecentFacts, NewestApart, ApartStaysWhole DEF InOpen
<1>8. RecentRecordsIntact'
  BY <1>2, <1>6, <1>7 DEF RecentRecordsIntact, Intact, Whole, InOpen
<1>9. Follows(last', next_offset', ring_cells')
  BY <1>1, <1>2, <1>3, <1>4 DEF Follows
<1>10. InOpen(last) => Follows(prev', last'.off, ring_cells')
  BY <1>2, <1>4, RecentFacts
<1>11. prev'.shm => last'.shm /\ prev'.seg <= last'.seg
  BY <1>2, <1>4 DEF IInv, PlacedInv, Placed, PlacedIn
<1>12. QED BY <1>2, <1>8, <1>9, <1>10, <1>11 DEF RecentInv, InOpen

(* RecentInv is inductive.                                                  *)
LEMMA RecentStep == IInv /\ RecentInv /\ [Next]_vars => RecentInv'
<1> SUFFICES ASSUME IInv, RecentInv, [Next]_vars PROVE RecentInv'
  OBVIOUS
<1>1. ASSUME UNCHANGED <<last, prev, segment_id, ring_cells, next_offset, seqw, lenw, tag>>
      PROVE  RecentInv'
  <2>1. RecentRecordsIntact'
    BY <1>1 DEF RecentInv, RecentRecordsIntact, Intact
  <2>2. QED BY <1>1, <2>1 DEF RecentInv, InOpen
<1>2. CASE Receives
  BY <1>1, <1>2, ReceiverOnly DEF SenderSame, ringVars, memVars, histVars
<1>3. ASSUME NEW t \in Threads, Publish(t) \/ Abort(t) \/ Send(t) PROVE RecentInv'
  BY <1>1, <1>3 DEF Publish, Abort, Send, ringVars, memVars, histVars
<1>4. ASSUME NEW t \in Threads, NEW k \in Sizes, GrowFail(t, k) PROVE RecentInv'
  BY <1>1, <1>4 DEF GrowFail, ringVars, memVars, histVars
<1>5. ASSUME NEW t \in Threads, NEW k \in Sizes, Reserve(t, k) \/ GrowReserve(t, k)
      PROVE  RecentInv'
  <2>1. PICK act, seg, off \in Nat : Reserved(t, act, seg, off)
    BY <1>5, ReserveEffect DEF IInv
  <2>2. QED BY <2>1, RecentReserve
<1>6. ASSUME NEW t \in Threads, NEW c \in Cells, WriteCell(t, c) PROVE RecentInv'
  BY <1>6, RecentWrite
<1>7. ASSUME NEW t \in Threads, Commit(t) PROVE RecentInv'
  BY <1>7, RecentCommit
<1>8. CASE Close
  <2>1. ring_cells' = 0 /\ last' = last /\ prev' = prev
    BY <1>8 DEF Close, histVars
  <2>2. QED BY <2>1 DEF RecentInv, RecentRecordsIntact, InOpen
<1>9. CASE UNCHANGED vars
  BY <1>1, <1>9 DEF vars, ringVars, memVars, histVars
<1>10. QED BY <1>2, <1>3, <1>4, <1>5, <1>6, <1>7, <1>8, <1>9 DEF Next, Receives

(* The two newest committed records of the open ring are whole, whatever    *)
(* thread is writing and however the cursor wrapped or a write was aborted: *)
(* a record is a quarter of the ring at most (shm_stage_reserve).  For any  *)
(* threads, sizes, slack and number of messages, and in whatever order the  *)
(* stores become visible.                                                   *)
THEOREM NewestRecordsIntact == Spec => []RecentRecordsIntact
<1>1. Init => RecentInv
  BY NoDescTyped DEF Init, RecentInv, RecentRecordsIntact, InOpen
<1>2. RecentInv => RecentRecordsIntact
  BY DEF RecentInv
<1>3. QED BY <1>1, <1>2, IInvAlways, RecentStep, PTL DEF Spec

-----------------------------------------------------------------------------
(* A descriptor whose header still carries its seq.  No store makes a dead  *)
(* descriptor live again: what is stored is odd, no seq at all, or the seq  *)
(* of a record that had none before.                                        *)

(* With SeqWide the seq words of a record are not reduced.                  *)
LEMMA SeqWords ==
  ASSUME SeqWide, TypesInv, BoundInv, next_index <= MaxMessages
  PROVE  /\ (2 * next_index) % SeqMod = 2 * next_index
         /\ (2 * next_index - 1) % SeqMod = 2 * next_index - 1
<1>1. next_index \in Nat /\ next_index > 0 /\ SeqMod \in Nat /\ MaxMessages \in Nat
  BY AreaFacts DEF TypesInv, BoundInv
<1>2. 2 * next_index < SeqMod /\ 2 * next_index - 1 \in Nat /\ 2 * next_index - 1 < SeqMod
  BY <1>1 DEF SeqWide
<1>3. \A x \in Nat : x < SeqMod => x % SeqMod = x
  BY <1>1
<1>4. 2 * next_index \in Nat
  BY <1>1
<1>5. QED BY <1>2, <1>3, <1>4

Kept(d) == Good(d)' /\ (d.shm /\ Live(d)' => Live(d))

(* What Good says of a descriptor, with types.                              *)
LEMMA GoodFacts ==
  ASSUME IInv, NEW d \in DescT, Placed(d), Good(d), d.shm
  PROVE  /\ d.seg \in Segments /\ d.off \in Cells /\ Span(d.off, d.size) \subseteq Cells
         /\ d.seg \in Nat /\ d.off \in Nat /\ d.size \in Nat /\ d.size > 0
         /\ d.seg <= segment_id /\ next_index \in Nat
         /\ \E i \in 1 .. next_index - 1 : d.seq = 2 * i
  BY PlacedWhere DEF IInv, TypesInv, DescT, Placed, PlacedIn, Good

(* A good descriptor stays good when the ring is untouched.                 *)
LEMMA KeptQuiet ==
  ASSUME NEW d \in DescT, Good(d),
         UNCHANGED <<seqw, tag, segment_id, next_offset, size, todo, next_index>>
  PROVE  Kept(d)
  BY DEF Kept, Good, Live, Clear, Written

(* When a record is given up, having been written from the front, no cell   *)
(* of a live descriptor's record was overwritten: its header would have     *)
(* been first.                                                              *)
LEMMA FrontSpares ==
  ASSUME IInv, NEW d \in DescT, Placed(d), Good(d), d.shm, Live(d), FrontWritten
  PROVE  ~Touched(d)
<1> SUFFICES ASSUME d.seg = segment_id, NEW c \in Span(d.off, d.size), c \in Written
             PROVE  FALSE
  BY DEF Touched
<1>1. Clear(d)
  BY DEF Good
<1>2. d.off \in Nat /\ d.size \in Nat /\ next_offset \in Nat /\ size \in Nat
  BY GoodFacts DEF IInv, TypesInv
<1>3. c \in Int /\ d.off <= c /\ c < d.off + d.size /\ next_offset <= c /\ c < next_offset + size
  BY <1>2 DEF Span, Written
<1>4. d.off >= next_offset /\ d.off \notin Written
  BY <1>1, <1>2, <1>3 DEF Clear
<1>5. d.off \in Span(next_offset, size)
  BY <1>2, <1>3, <1>4 DEF Span
<1>6. d.off \in todo
  BY <1>4, <1>5 DEF Written
<1>7. c < d.off
  BY <1>6 DEF FrontWritten, Written
<1>8. QED BY <1>2, <1>3, <1>7

(* It stays good when a reservation ends or the cursor wraps.               *)
LEMMA KeptNoWriter ==
  ASSUME IInv, NEW d \in DescT, Placed(d), Good(d), FrontWritten, size' = 0, todo' = {},
         next_offset' = next_offset \/ (next_offset' = 0 /\ size = 0),
         UNCHANGED <<seqw, tag, segment_id, next_index>>
  PROVE  Kept(d)
<1>1. Written' = {}
  <2>1. \A n \in Nat : Span(n, 0) = {}
    BY DEF Span
  <2>2. next_offset' \in Nat
    BY DEF IInv, TypesInv
  <2>3. QED BY <2>1, <2>2 DEF Written
<1>2. ASSUME d.shm, Clear(d) PROVE Clear(d)'
  BY <1>1, <1>2, GoodFacts DEF Clear
<1>3. ASSUME d.shm, Live(d) PROVE \A c \in Span(d.off, d.size) : tag[d.seg][c] = d.n
  BY <1>3, FrontSpares DEF Good, Touched
<1>4. QED BY <1>2, <1>3 DEF Kept, Good, Live

(* It stays good under a reservation: its seq goes first if its header is   *)
(* met.                                                                     *)
LEMMA KeptReserve ==
  ASSUME SeqWide, IInv, NEW d \in DescT, Placed(d), Good(d),
         NEW t \in Threads, NEW act \in Nat, NEW seg \in Nat, NEW off \in Nat,
         Reserved(t, act, seg, off)
  PROVE  Kept(d)
<1> SUFFICES ASSUME d.shm PROVE Kept(d)
  BY DEF Kept, Good
<1>1. /\ tpc[t] = "stage" /\ holder = NoThread
      /\ size' = act /\ todo' = Span(off, act) /\ next_offset' = off
      /\ segment_id' = seg /\ seg \in Segments /\ off \in Cells
      /\ seqw' = [seqw EXCEPT ![seg][off] = (2 * next_index - 1) % SeqMod]
      /\ seg = segment_id + 1 \/ (seg = segment_id /\ (off = next_offset \/ off = 0))
      /\ next_index' = next_index /\ tag' = tag
  BY DEF Reserved
<1>2. PICK i \in 1 .. next_index - 1 : d.seq = 2 * i
  BY GoodFacts
<1>3. (2 * next_index - 1) % SeqMod = 2 * next_index - 1
  BY <1>1, RoomToStage, SeqWords DEF IInv
<1>4. seqw \in [Segments -> [Cells -> Int]] /\ segment_id \in Nat
  BY DEF IInv, TypesInv
<1>5. ASSUME Live(d)' PROVE Live(d) /\ (d.seg = seg => d.off # off)
  <2>1. d.seg \in Segments /\ d.off \in Cells /\ next_index \in Nat
    BY GoodFacts
  <2>2. d.seq # (2 * next_index - 1) % SeqMod
    BY <1>2, <1>3, <2>1
  <2>3. QED BY <1>1, <1>4, <1>5, <2>1, <2>2 DEF Live
<1>6. Written' = {}
  BY <1>1 DEF Written
<1>7. ASSUME Live(d)', d.seg = seg PROVE Clear(d)'
  <2>1. seg = segment_id /\ (off = next_offset \/ off = 0)
    BY <1>1, <1>4, <1>7, GoodFacts
  <2>2. Clear(d) /\ d.off # off
    BY <1>5, <1>7, <2>1 DEF Good
  <2>3. QED BY <1>1, <1>6, <2>1, <2>2, GoodFacts DEF Clear
<1>8. ASSUME Live(d) PROVE \A c \in Span(d.off, d.size) : tag[d.seg][c] = d.n
  <2>1. Written = {}
    <3>1. size = 0 /\ next_offset \in Nat
      BY <1>1 DEF IInv, TypesInv, RingInv
    <3>2. QED BY <3>1 DEF Written, Span
  <2>2. QED BY <1>8, <2>1 DEF Good
<1>9. Good(d)'
  BY <1>1, <1>2, <1>5, <1>7, <1>8 DEF Good
<1>10. QED BY <1>5, <1>9 DEF Kept

(* It stays good under a payload written in any order: its seq goes with    *)
(* its header.                                                              *)
LEMMA KeptWrite ==
  ASSUME IInv, NEW d \in DescT, Placed(d), Good(d),
         NEW t \in Threads, NEW c \in Cells, WriteCell(t, c)
  PROVE  Kept(d)
<1> SUFFICES ASSUME d.shm PROVE Kept(d)
  BY DEF Kept, Good
<1>1. /\ tpc[t] = "write" /\ c \in todo /\ todo' = todo \ {c}
      /\ tag' = [tag EXCEPT ![segment_id][c] = tmsg[t]]
      /\ c = next_offset => seqw' = seqw
      /\ c # next_offset => seqw' = [seqw EXCEPT ![segment_id][c] = Raw]
      /\ UNCHANGED <<segment_id, next_offset, size, next_index>>
  BY DEF WriteCell, ringVars
<1>2. /\ segment_id \in Segments /\ Span(next_offset, size) \subseteq Cells
      /\ todo \subseteq Span(next_offset, size) /\ size > 0
  BY <1>1, WriterFacts DEF IInv
<1>3. /\ seqw \in [Segments -> [Cells -> Int]] /\ tag \in [Segments -> [Cells -> Nat]]
      /\ next_offset \in Nat /\ size \in Nat /\ c \in Nat /\ c >= next_offset
      /\ c < next_offset + size
  BY <1>1, <1>2 DEF IInv, TypesInv, Span
<1>4. PICK i \in 1 .. next_index - 1 : d.seq = 2 * i
  BY GoodFacts
<1>5. ASSUME Live(d)'
      PROVE  Live(d) /\ (d.seg = segment_id => d.off # c \/ c = next_offset)
  <2>1. d.seg \in Segments /\ d.off \in Cells /\ next_index \in Nat
    BY GoodFacts
  <2>2. d.seq # Raw
    BY <1>4, <2>1 DEF Raw
  <2>3. CASE c = next_offset
    BY <1>1, <1>5, <2>3 DEF Live
  <2>4. CASE c # next_offset
    BY <1>1, <1>2, <1>3, <1>5, <2>1, <2>2, <2>4 DEF Live
  <2>5. QED BY <2>3, <2>4
<1>6. Written' = Written \cup {c}
  BY <1>1, <1>2 DEF Written
<1>7. ASSUME Live(d)', d.seg = segment_id PROVE Clear(d)'
  <2>1. Clear(d) /\ (d.off # c \/ c = next_offset)
    BY <1>5, <1>7 DEF Good
  <2>2. QED BY <1>1, <1>2, <1>6, <2>1 DEF Clear
<1>8. ASSUME Live(d)', NEW x \in Span(d.off, d.size)
      PROVE  tag'[d.seg][x] = d.n \/ (d.seg = segment_id /\ x \in Written')
  <2>1. tag[d.seg][x] = d.n \/ (d.seg = segment_id /\ x \in Written)
    BY <1>5, <1>8 DEF Good
  <2>2. d.seg \in Segments /\ x \in Cells
    BY <1>8, GoodFacts
  <2>3. QED BY <1>1, <1>2, <1>3, <1>6, <2>1, <2>2
<1>9. Good(d)'
  BY <1>1, <1>4, <1>7, <1>8 DEF Good
<1>10. QED BY <1>5, <1>9 DEF Kept

(* It stays good under a commit, which uses a seq of its own.               *)
LEMMA KeptCommit ==
  ASSUME SeqWide, IInv, NEW d \in DescT, Placed(d), Good(d), NEW t \in Threads, Commit(t)
  PROVE  Kept(d)
<1> SUFFICES ASSUME d.shm PROVE Kept(d)
  BY DEF Kept, Good
<1>1. /\ tpc[t] = "write" /\ todo = {} /\ todo' = {} /\ size' = 0
      /\ seqw' = [seqw EXCEPT ![segment_id][next_offset] = (2 * next_index) % SeqMod]
      /\ next_offset' = next_offset + size /\ next_index' = next_index + 1
      /\ UNCHANGED <<segment_id, tag>>
  BY DEF Commit, Thread
<1>2. /\ segment_id \in Segments /\ next_offset \in Cells /\ size > 0 /\ next_index <= MaxMessages
  BY <1>1, WriterFacts DEF IInv
<1>3. seqw \in [Segments -> [Cells -> Int]] /\ next_offset \in Nat /\ size \in Nat
  BY DEF IInv, TypesInv
<1>4. PICK i \in 1 .. next_index - 1 : d.seq = 2 * i
  BY GoodFacts
<1>5. (2 * next_index) % SeqMod = 2 * next_index
  BY <1>2, SeqWords DEF IInv
<1>6. ASSUME Live(d)' PROVE Live(d)
  <2>1. d.seg \in Segments /\ d.off \in Cells /\ next_index \in Nat
    BY GoodFacts
  <2>2. d.seq # (2 * next_index) % SeqMod
    BY <1>4, <1>5, <2>1
  <2>3. QED BY <1>1, <1>2, <1>3, <1>6, <2>1, <2>2 DEF Live
<1>7. ASSUME Clear(d) PROVE Clear(d)'
  <2>1. Written = Span(next_offset, size) /\ Written' = {}
    BY <1>1, <1>3 DEF Written, Span
  <2>2. d.off \in Nat /\ d.size \in Nat
    BY GoodFacts
  <2>3. CASE d.off + d.size <= next_offset
    BY <1>1, <1>3, <2>2, <2>3 DEF Clear
  <2>4. CASE d.off >= next_offset /\ d.off \notin Written
    <3>1. next_offset + size <= d.off
      BY <1>3, <2>1, <2>2, <2>4 DEF Span
    <3>2. QED BY <1>1, <2>1, <3>1 DEF Clear
  <2>5. QED BY <1>7, <2>3, <2>4 DEF Clear
<1>8. i \in 1 .. next_index' - 1
  BY <1>1, GoodFacts
<1>9. ASSUME Live(d) PROVE \A c \in Span(d.off, d.size) : tag[d.seg][c] = d.n
  <2>1. FrontWritten
    BY <1>1 DEF FrontWritten
  <2>2. QED BY <1>9, <2>1, FrontSpares DEF Good, Touched
<1>10. Good(d)'
  BY <1>1, <1>4, <1>6, <1>7, <1>8, <1>9 DEF Good
<1>11. QED BY <1>6, <1>10 DEF Kept

(* The descriptor of the record just committed.                             *)
LEMMA GoodNew ==
  ASSUME SeqWide, IInv, NEW d \in DescT, NEW t \in Threads, Commit(t), d = Desc(tmsg[t])
  PROVE  Good(d)'
<1>1. /\ tpc[t] = "write" /\ todo = {}
      /\ next_offset' = next_offset + size /\ next_index' = next_index + 1
      /\ UNCHANGED <<segment_id, tag>>
  BY DEF Commit, Thread
<1>2. /\ next_index <= MaxMessages /\ \A c \in Written : tag[segment_id][c] = tmsg[t]
  BY <1>1, WriterFacts DEF IInv
<1>3. /\ d.n = tmsg[t] /\ d.seg = segment_id /\ d.off = next_offset /\ d.size = size
      /\ d.seq = 2 * next_index
  BY <1>2, DescTyped, SeqWords DEF IInv, TypesInv
<1>4. next_index \in 1 .. next_index' - 1
  BY <1>1 DEF IInv, TypesInv, BoundInv
<1>5. \A c \in Span(d.off, d.size) : tag'[d.seg][c] = d.n
  BY <1>1, <1>2, <1>3 DEF Written
<1>6. Clear(d)'
  <2>1. next_offset \in Nat /\ size \in Nat
    BY DEF IInv, TypesInv
  <2>2. QED BY <1>1, <1>3, <2>1 DEF Clear
<1>7. QED BY <1>3, <1>4, <1>5, <1>6 DEF Good

(* It stays good under every step.                                          *)
LEMMA KeptStep ==
  ASSUME SeqWide, IInv, [Next]_vars, NEW d \in DescT, Placed(d), Good(d)
  PROVE  Kept(d)
<1>1. CASE Receives
  BY <1>1, ReceiverOnly, KeptQuiet DEF SenderSame, stageVars, ringVars, memVars
<1>2. ASSUME NEW t \in Threads, Publish(t) \/ Send(t) PROVE Kept(d)
  BY <1>2, KeptQuiet DEF Publish, Send, stageVars, ringVars, memVars
<1>3. ASSUME NEW t \in Threads, NEW k \in Sizes, GrowFail(t, k) PROVE Kept(d)
  BY <1>3, KeptQuiet DEF GrowFail, stageVars, ringVars, memVars
<1>4. ASSUME NEW t \in Threads, NEW k \in Sizes, Reserve(t, k) \/ GrowReserve(t, k) PROVE Kept(d)
  <2>1. PICK act, seg, off \in Nat : Reserved(t, act, seg, off)
    BY <1>4, ReserveEffect DEF IInv
  <2>2. QED BY <2>1, KeptReserve
<1>5. ASSUME NEW t \in Threads, NEW c \in Cells, WriteCell(t, c) PROVE Kept(d)
  BY <1>5, KeptWrite
<1>6. ASSUME NEW t \in Threads, Commit(t) PROVE Kept(d)
  BY <1>6, KeptCommit
<1>7. ASSUME NEW t \in Threads, Abort(t) PROVE Kept(d)
  BY <1>7, KeptNoWriter DEF Abort, ringVars, memVars
<1>8. CASE Close
  <2>1. holder = NoThread
    BY <1>8 DEF Close, IInv, ThreadInv, TypesInv
  <2>2. size = 0 /\ todo = {} /\ FrontWritten
    BY <2>1 DEF IInv, RingInv, FrontWritten
  <2>3. QED BY <1>8, <2>2, KeptNoWriter DEF Close, stageVars, memVars
<1>9. CASE UNCHANGED vars
  BY <1>9, KeptQuiet DEF vars, stageVars, ringVars, memVars
<1>10. QED BY <1>1, <1>2, <1>3, <1>4, <1>5, <1>6, <1>7, <1>8, <1>9 DEF Next, Receives

(* Where the descriptors of the next state come from.                       *)
Known(d) ==
  \/ ~d.shm \/ d = rd
  \/ \E t \in Threads : d = tdesc[t]
  \/ \E i \in 1 .. Len(sock) : d = sock[i]

(* Descriptors in the system are good after a step.                         *)
LEMMA KnownGood ==
  ASSUME SeqWide, IInv, GoodInv, [Next]_vars, NEW d \in DescT, Known(d)
  PROVE  Good(d)'
<1>1. CASE ~d.shm
  BY <1>1 DEF Good
<1>2. CASE d.shm
  <2>1. Placed(d) /\ Good(d)
    BY <1>2 DEF Known, GoodInv, IInv, PlacedInv
  <2>2. QED BY <2>1, KeptStep DEF Kept
<1>3. QED BY <1>1, <1>2

(* The descriptors after a step were there before it, or were just          *)
(* committed.                                                               *)
LEMMA DescsCome ==
  ASSUME IInv, [Next]_vars
  PROVE  /\ \A u \in Threads :
              Known(tdesc'[u]) \/ \E t \in Threads : Commit(t) /\ tdesc'[u] = Desc(tmsg[t])
         /\ \A i \in 1 .. Len(sock') : Known(sock'[i])
         /\ Known(rd')
<1>0. /\ sock \in Seq(DescT) /\ tdesc \in [Threads -> DescT]
      /\ tmsg \in [Threads -> Nat] /\ tpc \in [Threads -> {"idle", "stage", "write", "send", "gone"}]
  BY DEF IInv, TypesInv
<1>1. ASSUME UNCHANGED <<tdesc, sock>>, Known(rd')
      PROVE  /\ \A u \in Threads : Known(tdesc'[u])
             /\ \A i \in 1 .. Len(sock') : Known(sock'[i])
             /\ Known(rd')
  BY <1>1 DEF Known
<1>2. CASE Receives
  <2>1. CASE Recv
    <3>1. sock # <<>> /\ sock' = Tail(sock) /\ rd' = Head(sock) /\ tdesc' = tdesc
      BY <2>1 DEF Recv, threadVars
    <3>2. Len(sock) \in Nat /\ Len(sock) > 0
      BY <1>0, <3>1
    <3>3. Known(rd')
      BY <1>0, <3>1, <3>2 DEF Known
    <3>4. \A i \in 1 .. Len(sock') : i + 1 \in 1 .. Len(sock) /\ sock'[i] = sock[i + 1]
      BY <1>0, <3>1, <3>2
    <3>5. \A i \in 1 .. Len(sock') : Known(sock'[i])
      BY <3>4 DEF Known
    <3>6. \A u \in Threads : Known(tdesc'[u])
      BY <3>1 DEF Known
    <3>7. QED BY <3>3, <3>5, <3>6
  <2>2. CASE ~Recv
    <3>1. sock' = sock /\ (rd' = rd \/ rd' = NoDesc)
      BY <1>2, <2>2 DEF Receives, TakeInline, MapCached, MapOpen, MapGone, SweepCache, FetchSeq,
                  CopyCell, Recheck, sockVars, Finish
    <3>2. tdesc' = tdesc
      BY <1>2, ReceiverOnly DEF SenderSame, threadVars
    <3>3. Known(rd')
      BY <3>1, NoDescTyped DEF Known
    <3>4. QED BY <1>1, <3>1, <3>2, <3>3
  <2>3. QED BY <2>1, <2>2
<1>3. ASSUME UNCHANGED <<tdesc, sock, rd>>
      PROVE  /\ \A u \in Threads : Known(tdesc'[u])
             /\ \A i \in 1 .. Len(sock') : Known(sock'[i])
             /\ Known(rd')
  BY <1>3 DEF Known
<1>4. ASSUME NEW t \in Threads, NEW d \in DescT, tdesc' = [tdesc EXCEPT ![t] = d], Known(d),
             rd' = rd, sock' = sock \/ sock' = Append(sock, tdesc[t])
      PROVE  /\ \A u \in Threads : Known(tdesc'[u])
             /\ \A i \in 1 .. Len(sock') : Known(sock'[i])
             /\ Known(rd')
  <2>1. \A u \in Threads : Known(tdesc'[u])
    BY <1>0, <1>4 DEF Known
  <2>2. Known(rd') /\ Known(tdesc[t]) /\ \A i \in 1 .. Len(sock) : Known(sock[i])
    BY <1>4 DEF Known
  <2>3. \A i \in 1 .. Len(sock') : Known(sock'[i])
    <3>1. CASE sock' = sock
      BY <2>2, <3>1
    <3>2. CASE sock' = Append(sock, tdesc[t])
      <4>1. \A i \in 1 .. Len(sock') :
              (i \in 1 .. Len(sock) /\ sock'[i] = sock[i]) \/ sock'[i] = tdesc[t]
        BY <1>0, <3>2
      <4>2. QED BY <2>2, <4>1
    <3>3. QED BY <1>4, <3>1, <3>2
  <2>4. QED BY <2>1, <2>2, <2>3
<1>5. Known(NoDesc) /\ NoDesc \in DescT
  BY NoDescTyped DEF Known
<1>6. ASSUME NEW t \in Threads, Abort(t) \/ Send(t)
      PROVE  /\ \A u \in Threads : Known(tdesc'[u])
             /\ \A i \in 1 .. Len(sock') : Known(sock'[i])
             /\ Known(rd')
  <2>1. /\ tdesc' = [tdesc EXCEPT ![t] = NoDesc] /\ rd' = rd
        /\ sock' = sock \/ sock' = Append(sock, tdesc[t])
    BY <1>6 DEF Abort, Send, Return, sockVars, recvVars
  <2>2. QED BY <1>4, <1>5, <2>1
<1>7. ASSUME NEW t \in Threads, NEW k \in Sizes, GrowFail(t, k)
      PROVE  /\ \A u \in Threads : Known(tdesc'[u])
             /\ \A i \in 1 .. Len(sock') : Known(sock'[i])
             /\ Known(rd')
  <2>1. Known(Inline(tmsg[t])) /\ Inline(tmsg[t]) \in DescT
    BY <1>0, NoDescTyped DEF Known
  <2>2. rd' = rd /\ sock' = sock
    BY <1>7 DEF GrowFail, sockVars, recvVars
  <2>3. CASE tdesc' = [tdesc EXCEPT ![t] = NoDesc]
    BY <1>4, <1>5, <2>2, <2>3
  <2>4. CASE tdesc' = [tdesc EXCEPT ![t] = Inline(tmsg[t])]
    BY <1>4, <2>1, <2>2, <2>4
  <2>5. QED BY <1>7, <2>3, <2>4 DEF GrowFail, Return
<1>8. ASSUME NEW t \in Threads, Commit(t)
      PROVE  /\ \A u \in Threads :
                  Known(tdesc'[u]) \/ \E v \in Threads : Commit(v) /\ tdesc'[u] = Desc(tmsg[v])
             /\ \A i \in 1 .. Len(sock') : Known(sock'[i])
             /\ Known(rd')
  <2>1. tdesc' = [tdesc EXCEPT ![t] = Desc(tmsg[t])] /\ rd' = rd /\ sock' = sock
    BY <1>8 DEF Commit, sockVars, recvVars
  <2>2. ASSUME NEW u \in Threads
        PROVE Known(tdesc'[u]) \/ \E v \in Threads : Commit(v) /\ tdesc'[u] = Desc(tmsg[v])
    <3>1. CASE u = t
      BY <1>0, <1>8, <2>1, <3>1
    <3>2. CASE u # t
      BY <1>0, <2>1, <3>2 DEF Known
    <3>3. QED BY <3>1, <3>2
  <2>3. Known(rd') /\ \A i \in 1 .. Len(sock') : Known(sock'[i])
    BY <2>1 DEF Known
  <2>4. QED BY <2>2, <2>3
<1>9. ASSUME NEW t \in Threads, Publish(t) PROVE UNCHANGED <<tdesc, sock, rd>>
  BY <1>9 DEF Publish, sockVars, recvVars
<1>10. ASSUME NEW t \in Threads, NEW k \in Sizes, Reserve(t, k) \/ GrowReserve(t, k)
       PROVE  UNCHANGED <<tdesc, sock, rd>>
  BY <1>10 DEF Reserve, GrowReserve, ReserveAt, sockVars, recvVars
<1>11. ASSUME NEW t \in Threads, NEW c \in Cells, WriteCell(t, c)
       PROVE  UNCHANGED <<tdesc, sock, rd>>
  BY <1>11 DEF WriteCell, threadVars, sockVars, recvVars
<1>12. CASE Close \/ UNCHANGED vars
  <2>1. UNCHANGED <<tdesc, sock, rd>>
    BY <1>12 DEF Close, vars, threadVars, sockVars, recvVars
  <2>2. QED BY <1>3, <2>1
<1>13. CASE \E t \in Threads : \/ Publish(t)
                               \/ \E k \in Sizes : Reserve(t, k) \/ GrowReserve(t, k)
                               \/ \E c \in Cells : WriteCell(t, c)
  <2>1. UNCHANGED <<tdesc, sock, rd>>
    BY <1>9, <1>10, <1>11, <1>13
  <2>2. QED BY <1>3, <2>1
<1>14. CASE \E t \in Threads : \/ Commit(t) \/ Abort(t) \/ Send(t)
                               \/ \E k \in Sizes : GrowFail(t, k)
  BY <1>6, <1>7, <1>8, <1>14
<1>15. QED BY <1>2, <1>12, <1>13, <1>14 DEF Next, Receives

(* GoodInv is inductive.                                                    *)
LEMMA GoodStep ==
  ASSUME SeqWide, IInv, IInv', GoodInv, [Next]_vars
  PROVE  GoodInv'
<1>1. /\ rd' \in DescT /\ (\A u \in Threads : tdesc'[u] \in DescT)
      /\ \A i \in 1 .. Len(sock') : sock'[i] \in DescT
  <2>1. rd' \in DescT /\ tdesc' \in [Threads -> DescT] /\ sock' \in Seq(DescT)
    BY DEF IInv, TypesInv
  <2>2. QED BY <2>1
<1>2. \A d \in DescT : Known(d) => Good(d)'
  BY KnownGood
<1>3. \A d \in DescT : (\E t \in Threads : Commit(t) /\ d = Desc(tmsg[t])) => Good(d)'
  BY GoodNew
<1>4. \A u \in Threads : Good(tdesc[u])'
  BY <1>1, <1>2, <1>3, DescsCome
<1>5. Good(rd)' /\ \A i \in 1 .. Len(sock') : Good(sock[i])'
  BY <1>1, <1>2, DescsCome
<1>6. QED BY <1>4, <1>5 DEF GoodInv

(* A record that reaches into a live descriptor's stays the one being       *)
(* written.                                                                 *)
LEMMA TouchedStays ==
  ASSUME SeqWide, IInv, [Next]_vars, NEW d \in DescT, Placed(d), Good(d), d.shm,
         Live(d)', Touched(d)
  PROVE  Touched(d)' /\ tmsg'[holder'] = tmsg[holder]
<1>1. Live(d)
  BY KeptStep DEF Kept
<1>2. holder \in Threads /\ tpc[holder] = "write"
  <2>1. holder # NoThread
    <3>1. SUFFICES ASSUME holder = NoThread PROVE FALSE
      OBVIOUS
    <3>2. size = 0 /\ next_offset \in Nat
      BY <3>1 DEF IInv, RingInv, TypesInv
    <3>3. Written = {}
      BY <3>2 DEF Written, Span
    <3>4. QED BY <3>3 DEF Touched
  <2>2. QED BY <2>1 DEF IInv, TypesInv, ThreadInv
<1>3. ASSUME UNCHANGED <<tmsg, holder, segment_id, next_offset, size, todo>>
      PROVE  Touched(d)' /\ tmsg'[holder'] = tmsg[holder]
  BY <1>3 DEF Touched, Written
<1>4. CASE Receives
  BY <1>3, <1>4, ReceiverOnly DEF SenderSame, threadVars, stageVars, ringVars
<1>5. ASSUME NEW t \in Threads, Publish(t) \/ Send(t)
      PROVE  Touched(d)' /\ tmsg'[holder'] = tmsg[holder]
  <2>1. t # holder /\ UNCHANGED <<holder, segment_id, next_offset, size, todo>>
    BY <1>2, <1>5 DEF Publish, Send, Thread, stageVars, ringVars
  <2>2. tmsg'[holder] = tmsg[holder]
    BY <1>2, <1>5, <2>1 DEF Publish, Send, Return, IInv, TypesInv
  <2>3. QED BY <2>1, <2>2 DEF Touched, Written
<1>6. ASSUME NEW t \in Threads, NEW k \in Sizes, Reserve(t, k) \/ GrowReserve(t, k) \/ GrowFail(t, k)
      PROVE  FALSE
  BY <1>2, <1>6, ShmRingAssumption DEF Reserve, GrowReserve, GrowFail
<1>7. ASSUME NEW t \in Threads, NEW c \in Cells, WriteCell(t, c)
      PROVE  Touched(d)' /\ tmsg'[holder'] = tmsg[holder]
  BY <1>7 DEF WriteCell, threadVars, ringVars, Touched, Written
<1>8. ASSUME NEW t \in Threads, Commit(t) \/ Abort(t) PROVE FALSE
  <2>1. FrontWritten
    BY <1>8 DEF Commit, Abort, FrontWritten
  <2>2. QED BY <1>1, <2>1, FrontSpares
<1>9. ASSUME Close PROVE FALSE
  BY <1>2, <1>9 DEF Close
<1>10. CASE UNCHANGED vars
  BY <1>3, <1>10 DEF vars, threadVars, stageVars, ringVars
<1>11. QED BY <1>4, <1>5, <1>6, <1>7, <1>8, <1>9, <1>10 DEF Next, Receives

(* FetchInv is inductive: what is copied while seq stands is the message's, *)
(* or of the record that is being written over it.                          *)
LEMMA FetchStep ==
  ASSUME SeqWide, IInv, GoodInv, FetchInv, [Next]_vars
  PROVE  FetchInv'
<1>0. rd \in DescT /\ Placed(rd) /\ Good(rd) /\ (rpc = "copy" => rd.shm)
  BY DEF IInv, TypesInv, PlacedInv, GoodInv, ResolveInv
<1>1. ASSUME rd.shm, rd' = rd, Live(rd)'
      PROVE  Live(rd) /\ (Touched(rd) => Touched(rd)' /\ tmsg'[holder'] = tmsg[holder])
  <2>1. \A d \in DescT : Placed(d) /\ Good(d) /\ d.shm /\ Live(d)' => Live(d)
    BY KeptStep DEF Kept
  <2>2. \A d \in DescT : Placed(d) /\ Good(d) /\ d.shm /\ Live(d)' /\ Touched(d) =>
                         Touched(d)' /\ tmsg'[holder'] = tmsg[holder]
    BY TouchedStays
  <2>3. QED BY <1>0, <1>1, <2>1, <2>2 DEF Live, Touched
<1>2. ASSUME UNCHANGED <<rpc, rd, rtodo, rtags>> PROVE FetchInv'
  BY <1>0, <1>1, <1>2 DEF FetchInv
<1>3. ASSUME rpc' # "copy", rtags' = {} PROVE FetchInv'
  BY <1>3 DEF FetchInv
<1>4. CASE ~Receives
  <2>1. UNCHANGED recvVars
    BY <1>4 DEF Next, Receives, Publish, Reserve, GrowReserve, ReserveAt, GrowFail, WriteCell,
       Commit, Abort, Send, Close, vars
  <2>2. QED BY <1>2, <2>1 DEF recvVars
<1>5. CASE Recv \/ MapCached \/ MapOpen
  BY <1>3, <1>5 DEF Recv, MapCached, MapOpen, Receiver, FetchInv
<1>6. CASE SweepCache
  BY <1>2, <1>6 DEF SweepCache
<1>7. CASE TakeInline \/ MapGone \/ Recheck
  BY <1>3, <1>7 DEF TakeInline, MapGone, Recheck, Receiver, Finish
<1>8. CASE FetchSeq
  <2>1. CASE rpc' = "idle" /\ Finish(<<>>)
    BY <1>3, <2>1 DEF Finish
  <2>2. CASE /\ rpc = "seq" /\ rpc' = "copy" /\ rtodo' = Span(rd.off, rd.size)
             /\ UNCHANGED <<rd, rtags, delivered>>
    <3>1. rtags' = {}
      BY <2>2 DEF FetchInv
    <3>2. rd.off \in Span(rd.off, rd.size)
      BY <1>0, <2>2, PlacedWhere DEF IInv, ResolveInv
    <3>3. QED BY <2>2, <3>1, <3>2 DEF FetchInv
  <2>3. QED BY <1>8, <2>1, <2>2 DEF FetchSeq, Receiver
<1>9. ASSUME NEW c \in Cells, CopyCell(c) PROVE FetchInv'
  <2>1. /\ rpc = "copy" /\ rpc' = "copy" /\ c \in rtodo /\ rtodo' = rtodo \ {c}
        /\ rtags' = rtags \cup {tag[rd.seg][c]} /\ rd' = rd
    BY <1>9 DEF CopyCell
  <2>2. /\ rtodo \subseteq Span(rd.off, rd.size)
        /\ Live(rd) => /\ rd.off \in rtodo \/ rd.n \in rtags
                       /\ \A m \in rtags : m = rd.n \/ (Touched(rd) /\ m = tmsg[holder])
    BY <2>1 DEF FetchInv
  <2>3. ASSUME Live(rd)
        PROVE  /\ tag[rd.seg][c] = rd.n \/ (Touched(rd) /\ tag[rd.seg][c] = tmsg[holder])
               /\ c = rd.off => tag[rd.seg][c] = rd.n
    <3>1. c \in Span(rd.off, rd.size)
      BY <2>1, <2>2
    <3>2. tag[rd.seg][c] = rd.n \/ (rd.seg = segment_id /\ c \in Written)
      BY <1>0, <2>1, <2>3, <3>1 DEF Good
    <3>3. ASSUME rd.seg = segment_id, c \in Written
          PROVE  Touched(rd) /\ tag[rd.seg][c] = tmsg[holder] /\ c # rd.off
      <4>1. Touched(rd)
        BY <3>1, <3>3 DEF Touched
      <4>2. rd.off \in Nat /\ rd.size \in Nat /\ rd.size > 0
            /\ next_offset \in Nat /\ size \in Nat
        BY <1>0, <2>1, GoodFacts DEF IInv, TypesInv
      <4>3. next_offset <= c /\ c < next_offset + size /\ c \in Int
        BY <3>3, <4>2 DEF Written, Span
      <4>4. size # 0
        BY <4>2, <4>3
      <4>5. holder # NoThread
        BY <4>4 DEF IInv, RingInv
      <4>6. tag[segment_id][c] = tmsg[holder]
        BY <3>3, <4>5 DEF IInv, RingInv, Written
      <4>7. Clear(rd)
        BY <1>0, <2>1, <2>3, <3>3 DEF Good
      <4>8. c # rd.off
        BY <3>3, <4>2, <4>3, <4>7 DEF Clear
      <4>9. QED BY <3>3, <4>1, <4>6, <4>8
    <3>4. QED BY <3>2, <3>3
  <2>4. Live(rd)' =>
          Live(rd) /\ (Touched(rd) => Touched(rd)' /\ tmsg'[holder'] = tmsg[holder])
    BY <1>0, <1>1, <2>1
  <2>5. ASSUME Live(rd)'
        PROVE  /\ rd.off \in rtodo' \/ rd.n \in rtags'
               /\ \A m \in rtags' : m = rd.n \/ (Touched(rd)' /\ m = tmsg'[holder'])
    BY <2>1, <2>2, <2>3, <2>4, <2>5
  <2>6. QED BY <2>1, <2>2, <2>5 DEF FetchInv
<1>10. QED BY <1>4, <1>5, <1>6, <1>7, <1>8, <1>9 DEF Receives

(* The message being staged.                                                *)
Staged == IF holder = NoThread THEN {} ELSE {tmsg[holder]}

(* What the receiver hands on from the ring is one message, but for pieces  *)
(* of the one that is being written.                                        *)
LEMMA CopyIsWhole ==
  ASSUME IInv, FetchInv, rpc = "copy", rtodo = {}, Live(rd)
  PROVE  rtags \ {rd.n} \subseteq Staged /\ rtags = {rd.n} \cup (rtags \ {rd.n})
<1>1. rd.n \in rtags /\ \A m \in rtags : m = rd.n \/ (Touched(rd) /\ m = tmsg[holder])
  BY DEF FetchInv
<1>2. Touched(rd) => holder # NoThread
  <2>1. SUFFICES ASSUME holder = NoThread PROVE ~Touched(rd)
    OBVIOUS
  <2>2. size = 0 /\ next_offset \in Nat
    BY <2>1 DEF IInv, RingInv, TypesInv
  <2>3. Written = {}
    BY <2>2 DEF Written, Span
  <2>4. QED BY <2>3 DEF Touched
<1>3. QED BY <1>1, <1>2 DEF Staged

-----------------------------------------------------------------------------
(* The refinement.  What is in flight: the datagram the receiver works on,  *)
(* then the socket's queue.                                                 *)
Line(idle, d, q) ==
  [i \in 1 .. Len(q) + (IF idle THEN 0 ELSE 1) |->
     IF idle THEN q[i].n ELSE IF i = 1 THEN d.n ELSE q[i - 1].n]

Inflight == Line(rpc = "idle", rd, sock)

(* A function from 1 .. n is a sequence.                                    *)
LEMMA Tabled ==
  ASSUME NEW S, NEW n \in Nat, NEW f \in [1 .. n -> S]
  PROVE  f \in Seq(S) /\ Len(f) = n
  OBVIOUS

(* The messages on their way, as a sequence.                                *)
LEMMA LineFacts ==
  ASSUME NEW d \in DescT, NEW q \in Seq(DescT)
  PROVE  /\ Line(TRUE, d, q) \in Seq(Nat) /\ Len(Line(TRUE, d, q)) = Len(q)
         /\ \A i \in 1 .. Len(q) : Line(TRUE, d, q)[i] = q[i].n
         /\ Line(FALSE, d, q) \in Seq(Nat) /\ Len(Line(FALSE, d, q)) = Len(q) + 1
         /\ Line(FALSE, d, q)[1] = d.n
         /\ \A i \in 1 .. Len(q) : Line(FALSE, d, q)[i + 1] = q[i].n
<1>1. d.n \in Nat /\ Len(q) \in Nat /\ \A i \in 1 .. Len(q) : q[i].n \in Nat
  <2>1. \A i \in 1 .. Len(q) : q[i] \in DescT
    OBVIOUS
  <2>2. \A e \in DescT : e.n \in Nat
    BY DEF DescT
  <2>3. QED BY <2>1, <2>2
<1>2. Line(TRUE, d, q) = [i \in 1 .. Len(q) |-> q[i].n]
  BY <1>1 DEF Line
<1>3. Line(FALSE, d, q) = [i \in 1 .. Len(q) + 1 |-> IF i = 1 THEN d.n ELSE q[i - 1].n]
  BY <1>1 DEF Line
<1>4. \A i \in 1 .. Len(q) : Line(TRUE, d, q)[i] = q[i].n
  BY <1>2
<1>5. Line(TRUE, d, q) \in Seq(Nat) /\ Len(Line(TRUE, d, q)) = Len(q)
  <2>1. Line(TRUE, d, q) \in [1 .. Len(q) -> Nat]
    BY <1>1, <1>2
  <2>2. QED BY <1>1, <2>1, Tabled
<1>6. \A i \in 1 .. Len(q) + 1 : (IF i = 1 THEN d.n ELSE q[i - 1].n) \in Nat
  BY <1>1
<1>7. Line(FALSE, d, q) \in Seq(Nat) /\ Len(Line(FALSE, d, q)) = Len(q) + 1
  <2>1. Line(FALSE, d, q) \in [1 .. Len(q) + 1 -> Nat]
    BY <1>3, <1>6
  <2>2. Len(q) + 1 \in Nat
    BY <1>1
  <2>3. QED BY <2>1, <2>2, Tabled
<1>8. Line(FALSE, d, q)[1] = d.n
  <2>1. 1 \in 1 .. Len(q) + 1
    BY <1>1
  <2>2. QED BY <1>3, <2>1
<1>9. ASSUME NEW i \in 1 .. Len(q) PROVE Line(FALSE, d, q)[i + 1] = q[i].n
  <2> DEFINE j == i + 1
  <2>1. j \in 1 .. Len(q) + 1 /\ j # 1 /\ j - 1 = i
    BY <1>1
  <2> HIDE DEF j
  <2>2. Line(FALSE, d, q)[j] = q[j - 1].n
    BY <1>3, <2>1
  <2>3. QED BY <2>1, <2>2 DEF j
<1>10. QED BY <1>4, <1>5, <1>7, <1>8, <1>9

(* recv_from moves the front datagram from the queue to the receiver.       *)
LEMMA LineRecv ==
  ASSUME NEW d \in DescT, NEW q \in Seq(DescT), q # <<>>
  PROVE  Line(FALSE, Head(q), Tail(q)) = Line(TRUE, d, q)
<1>1. Head(q) \in DescT /\ Tail(q) \in Seq(DescT) /\ Len(Tail(q)) = Len(q) - 1 /\ Len(q) \in Nat
  OBVIOUS
<1> DEFINE a == Line(FALSE, Head(q), Tail(q))
           b == Line(TRUE, d, q)
<1>2. /\ a \in Seq(Nat) /\ Len(a) = Len(Tail(q)) + 1 /\ a[1] = Head(q).n
      /\ \A i \in 1 .. Len(Tail(q)) : a[i + 1] = Tail(q)[i].n
  BY <1>1, LineFacts
<1>3. b \in Seq(Nat) /\ Len(b) = Len(q) /\ \A i \in 1 .. Len(q) : b[i] = q[i].n
  BY LineFacts
<1> HIDE DEF a, b
<1>4. ASSUME NEW i \in 1 .. Len(q) PROVE a[i] = b[i]
  <2>1. CASE i = 1
    BY <1>2, <1>3, <2>1
  <2>2. CASE i # 1
    <3>1. i - 1 \in 1 .. Len(Tail(q)) /\ i = (i - 1) + 1 /\ Tail(q)[i - 1] = q[i]
      BY <1>1, <2>2
    <3>2. QED BY <1>2, <1>3, <3>1
  <2>3. QED BY <2>1, <2>2
<1>5. a = b
  BY <1>1, <1>2, <1>3, <1>4, SeqEqual
<1>6. QED BY <1>5 DEF a, b

(* sendto appends to the queue.                                             *)
LEMMA LineSend ==
  ASSUME NEW d \in DescT, NEW q \in Seq(DescT), NEW e \in DescT, NEW idle \in BOOLEAN
  PROVE  Line(idle, d, Append(q, e)) = Append(Line(idle, d, q), e.n)
<1>1. /\ Append(q, e) \in Seq(DescT) /\ Len(Append(q, e)) = Len(q) + 1 /\ Len(q) \in Nat
      /\ Append(q, e)[Len(q) + 1] = e /\ \A i \in 1 .. Len(q) : Append(q, e)[i] = q[i]
  BY DEF DescT
<1>2. e.n \in Nat
  BY DEF DescT
<1> DEFINE p == Append(q, e)
           x == e.n
<1>0. p \in Seq(DescT) /\ Len(p) = Len(q) + 1 /\ Len(q) \in Nat /\ x \in Nat
      /\ p[Len(q) + 1].n = x /\ \A i \in 1 .. Len(q) : p[i] = q[i]
  BY <1>1, <1>2
<1> HIDE DEF p, x
<1>3. CASE idle = TRUE
  <2> DEFINE a == Line(TRUE, d, p)
             b == Line(TRUE, d, q)
  <2>1. a \in Seq(Nat) /\ Len(a) = Len(p) /\ \A i \in 1 .. Len(p) : a[i] = p[i].n
    BY <1>0, LineFacts
  <2>2. b \in Seq(Nat) /\ Len(b) = Len(q) /\ \A i \in 1 .. Len(q) : b[i] = q[i].n
    BY LineFacts
  <2> HIDE DEF a, b
  <2>3. /\ Append(b, x) \in Seq(Nat) /\ Len(Append(b, x)) = Len(p)
        /\ Append(b, x)[Len(q) + 1] = x /\ \A i \in 1 .. Len(q) : Append(b, x)[i] = b[i]
    BY <1>0, <2>2
  <2>4. ASSUME NEW i \in 1 .. Len(p) PROVE a[i] = Append(b, x)[i]
    <3>1. CASE i = Len(q) + 1
      BY <1>0, <2>1, <2>3, <3>1
    <3>2. CASE i \in 1 .. Len(q)
      BY <1>0, <2>1, <2>2, <2>3, <3>2
    <3>3. i = Len(q) + 1 \/ i \in 1 .. Len(q)
      BY <1>0
    <3>4. QED BY <3>1, <3>2, <3>3
  <2>5. a = Append(b, x)
    BY <2>1, <2>3, <2>4, SeqEqual
  <2>6. QED BY <1>3, <2>5 DEF a, b, p, x
<1>4. CASE idle = FALSE
  <2> DEFINE a == Line(FALSE, d, p)
             b == Line(FALSE, d, q)
  <2>1. /\ a \in Seq(Nat) /\ Len(a) = Len(p) + 1 /\ a[1] = d.n
        /\ \A i \in 1 .. Len(p) : a[i + 1] = p[i].n
    BY <1>0, LineFacts
  <2>2. /\ b \in Seq(Nat) /\ Len(b) = Len(q) + 1 /\ b[1] = d.n
        /\ \A i \in 1 .. Len(q) : b[i + 1] = q[i].n
    BY LineFacts
  <2> HIDE DEF a, b
  <2>3. /\ Append(b, x) \in Seq(Nat) /\ Len(Append(b, x)) = Len(p) + 1
        /\ Append(b, x)[Len(q) + 2] = x /\ \A i \in 1 .. Len(q) + 1 : Append(b, x)[i] = b[i]
    BY <1>0, <2>2
  <2>4. ASSUME NEW i \in 1 .. Len(p) + 1 PROVE a[i] = Append(b, x)[i]
    <3>1. CASE i = Len(q) + 2
      <4>1. Len(q) + 1 \in 1 .. Len(p) /\ p[Len(q) + 1].n = x
        BY <1>0
      <4>2. \A j \in 1 .. Len(p) : a[j + 1] = p[j].n
        BY <2>1
      <4>3. a[(Len(q) + 1) + 1] = x
        BY <4>1, <4>2
      <4>4. i = (Len(q) + 1) + 1
        BY <1>0, <3>1
      <4>5. QED BY <2>3, <3>1, <4>3, <4>4
    <3>2. CASE i = 1
      BY <1>0, <2>1, <2>2, <2>3, <3>2
    <3>3. CASE i \in 2 .. Len(q) + 1
      <4>1. i - 1 \in 1 .. Len(q) /\ i = (i - 1) + 1 /\ i - 1 \in 1 .. Len(p)
        BY <1>0, <3>3
      <4>2. a[i] = b[i]
        BY <1>0, <2>1, <2>2, <4>1
      <4>3. QED BY <1>0, <2>3, <3>3, <4>2
    <3>4. i = Len(q) + 2 \/ i = 1 \/ i \in 2 .. Len(q) + 1
      BY <1>0
    <3>5. QED BY <3>1, <3>2, <3>3, <3>4
  <2>5. a = Append(b, x)
    BY <2>1, <2>3, <2>4, SeqEqual
  <2>6. QED BY <1>4, <2>5 DEF a, b, p, x
<1>5. QED BY <1>3, <1>4

(* The receiver is done with its datagram.                                  *)
LEMMA LineDone ==
  ASSUME NEW d \in DescT, NEW e \in DescT, NEW q \in Seq(DescT)
  PROVE  /\ Line(FALSE, d, q) # <<>> /\ Head(Line(FALSE, d, q)) = d.n
         /\ Line(TRUE, e, q) = Tail(Line(FALSE, d, q))
<1> DEFINE a == Line(FALSE, d, q)
           b == Line(TRUE, e, q)
<1>1. /\ a \in Seq(Nat) /\ Len(a) = Len(q) + 1 /\ a[1] = d.n
      /\ \A i \in 1 .. Len(q) : a[i + 1] = q[i].n
  BY LineFacts
<1>2. b \in Seq(Nat) /\ Len(b) = Len(q) /\ \A i \in 1 .. Len(q) : b[i] = q[i].n
  BY LineFacts
<1>3. Len(q) \in Nat
  OBVIOUS
<1> HIDE DEF a, b
<1>4. a # <<>> /\ Head(a) = d.n
  BY <1>1, <1>3
<1>5. /\ Tail(a) \in Seq(Nat) /\ Len(Tail(a)) = Len(q)
      /\ \A i \in 1 .. Len(q) : Tail(a)[i] = a[i + 1]
  BY <1>1, <1>3, <1>4
<1>6. b = Tail(a)
  BY <1>1, <1>2, <1>5, SeqEqual
<1>7. QED BY <1>4, <1>6 DEF a, b

(* The channel's steps, in the ring's words.                                *)
Stutters == UNCHANGED <<Inflight, sent, delivered, Staged>>
Stages ==
  /\ Staged' = {} \/ \E m \in Messages \ sent : Staged' = {m}
  /\ UNCHANGED <<Inflight, sent, delivered>>
Sends(m) ==
  /\ m \notin sent /\ sent' = sent \cup {m}
  /\ Inflight' = Append(Inflight, m) /\ UNCHANGED <<delivered, Staged>>
Loses ==
  /\ Inflight # <<>> /\ Inflight' = Tail(Inflight)
  /\ UNCHANGED <<sent, delivered, Staged>>
Delivers ==
  /\ Inflight # <<>> /\ Inflight' = Tail(Inflight)
  /\ \E pieces \in SUBSET Staged :
       delivered' = Append(delivered, [n |-> Head(Inflight),
                                       from |-> {Head(Inflight)} \cup pieces])
  /\ UNCHANGED <<sent, Staged>>

(* The five kinds of step, as steps of the channel.                         *)
LEMMA ChannelSteps ==
  /\ Stutters => UNCHANGED Channel!vars
  /\ Stages => Channel!Next
  /\ \A m \in Messages : Sends(m) => Channel!Next
  /\ Loses \/ Delivers => Channel!Next
<1>1. Stutters => UNCHANGED Channel!vars
  BY DEF Stutters, Channel!vars, Inflight, Line, Staged
<1>2. Stages => Channel!Stage
  BY DEF Stages, Channel!Stage, Inflight, Line, Staged
<1>3. ASSUME NEW m \in Messages, Sends(m) PROVE Channel!Send(m)
  BY <1>3 DEF Sends, Channel!Send, Inflight, Line, Staged
<1>4. Loses => Channel!Lose
  BY DEF Loses, Channel!Lose, Inflight, Line, Staged
<1>5. Delivers => Channel!Deliver
  BY DEF Delivers, Channel!Deliver, Inflight, Line, Staged
<1>6. QED BY <1>1, <1>2, <1>3, <1>4, <1>5 DEF Channel!Next

(* A send is a send of the channel, or no message goes out.                 *)
LEMMA SendMaps ==
  ASSUME IInv, NEW t \in Threads, Send(t)
  PROVE  Stutters \/ \E m \in Messages : Sends(m)
<1>1. /\ rpc' = rpc /\ rd' = rd /\ delivered' = delivered /\ tpc[t] = "send"
      /\ holder' = holder
  BY DEF Send, recvVars, stageVars
<1>2. tmsg[t] \in 1 .. nmsg /\ tmsg[t] \notin sent /\ tdesc[t].n = tmsg[t]
  BY <1>1 DEF IInv, ThreadInv, AtWork
<1>3. /\ sock \in Seq(DescT) /\ tdesc[t] \in DescT /\ rd \in DescT /\ nmsg \in Nat
      /\ nmsg <= MaxMessages
  BY DEF IInv, TypesInv
<1>4. Staged' = Staged
  <2>1. holder # t
    BY <1>1 DEF IInv, ThreadInv
  <2>2. holder # NoThread => tmsg'[holder] = tmsg[holder]
    BY <2>1 DEF Send, Return, IInv, TypesInv
  <2>3. QED BY <1>1, <2>2 DEF Staged
<1>5. CASE sock' = sock /\ sent' = sent
  BY <1>1, <1>4, <1>5 DEF Stutters, Inflight
<1>6. CASE sock' = Append(sock, tdesc[t]) /\ sent' = sent \cup {tmsg[t]}
  <2>1. tmsg[t] \in Messages
    BY <1>2, <1>3, AreaFacts DEF Messages
  <2>2. Inflight' = Append(Inflight, tmsg[t])
    <3>1. Line(rpc = "idle", rd, Append(sock, tdesc[t]))
            = Append(Line(rpc = "idle", rd, sock), tdesc[t].n)
      BY <1>3, LineSend
    <3>2. QED BY <1>1, <1>2, <1>6, <3>1 DEF Inflight
  <2>3. QED BY <1>1, <1>2, <1>4, <1>6, <2>1, <2>2 DEF Sends
<1>7. QED BY <1>2, <1>5, <1>6 DEF Send, sockVars

(* A step of the receiver delivers, loses or changes nothing.               *)
LEMMA RecvMaps ==
  ASSUME IInv, IInv', FetchInv, Receives
  PROVE  Stutters \/ Loses \/ Delivers
<1>1. sent' = sent /\ Staged' = Staged
  BY ReceiverOnly DEF SenderSame, Staged, threadVars, stageVars
<1>2. sock \in Seq(DescT) /\ rd \in DescT /\ rd' \in DescT /\ delivered \in Seq(Item)
      /\ rtags \subseteq Nat
  BY DEF IInv, TypesInv
<1>3. ASSUME rpc # "idle", rpc' = "idle", sock' = sock
      PROVE  Inflight # <<>> /\ Head(Inflight) = rd.n /\ Inflight' = Tail(Inflight)
  <2>1. Inflight = Line(FALSE, rd, sock) /\ Inflight' = Line(TRUE, rd', sock)
    BY <1>3 DEF Inflight
  <2>2. QED BY <1>2, <2>1, LineDone
<1>4. ASSUME rpc # "idle", rpc' = "idle", sock' = sock, Finish(<<>>) PROVE Loses
  <2>1. delivered' = delivered
    BY <1>2, <1>4, ConcatEmptySeq DEF Finish
  <2>2. QED BY <1>1, <1>3, <1>4, <2>1 DEF Loses
<1>5. ASSUME rpc # "idle", rpc' = "idle", sock' = sock, NEW pieces \in SUBSET Staged,
             pieces \subseteq Nat, Finish(<<[n |-> rd.n, from |-> {rd.n} \cup pieces]>>)
      PROVE  Delivers
  <2> DEFINE out == [n |-> rd.n, from |-> {rd.n} \cup pieces]
  <2>1. out \in Item
    BY <1>2, <1>5 DEF Item, DescT
  <2>2. delivered' = delivered \o <<out>>
    BY <1>5 DEF Finish
  <2>3. out = [n |-> Head(Inflight), from |-> {Head(Inflight)} \cup pieces]
    BY <1>3, <1>5
  <2> HIDE DEF out
  <2>4. delivered' = Append(delivered, out)
    BY <1>2, <2>1, <2>2, AppendIsConcat
  <2>5. QED BY <1>1, <1>3, <1>5, <2>3, <2>4 DEF Delivers
<1>6. ASSUME rpc # "idle", rpc' # "idle", UNCHANGED <<sock, rd, delivered>> PROVE Stutters
  BY <1>1, <1>6 DEF Stutters, Inflight
<1>7. CASE Recv
  <2>1. /\ rpc = "idle" /\ rpc' = "map" /\ sock # <<>> /\ sock' = Tail(sock)
        /\ rd' = Head(sock) /\ delivered' = delivered
    BY <1>7 DEF Recv, Receiver
  <2>2. Inflight = Line(TRUE, rd, sock) /\ Inflight' = Line(FALSE, Head(sock), Tail(sock))
    BY <2>1 DEF Inflight
  <2>3. QED BY <1>1, <1>2, <2>1, <2>2, LineRecv DEF Stutters
<1>8. CASE TakeInline
  <2>1. rpc # "idle" /\ rpc' = "idle" /\ sock' = sock /\ {} \in SUBSET Staged
    BY <1>8 DEF TakeInline, Receiver, sockVars
  <2>2. Finish(<<[n |-> rd.n, from |-> {rd.n} \cup {}]>>)
    <3>1. {rd.n} \cup {} = {rd.n}
      OBVIOUS
    <3>2. QED BY <1>8, <3>1 DEF TakeInline
  <2>3. QED BY <1>5, <2>1, <2>2
<1>9. CASE MapCached \/ MapOpen
  BY <1>6, <1>9 DEF MapCached, MapOpen, Receiver, sockVars
<1>10. CASE MapGone
  BY <1>4, <1>10 DEF MapGone, Receiver, sockVars
<1>11. CASE SweepCache
  BY <1>1, <1>11 DEF SweepCache, sockVars, Stutters, Inflight
<1>12. CASE FetchSeq
  BY <1>4, <1>6, <1>12 DEF FetchSeq, Receiver, sockVars
<1>13. ASSUME NEW c \in Cells, CopyCell(c) PROVE Stutters
  BY <1>6, <1>13 DEF CopyCell, sockVars
<1>14. CASE Recheck
  <2>1. rpc = "copy" /\ rpc # "idle" /\ rpc' = "idle" /\ rtodo = {} /\ sock' = sock
    BY <1>14 DEF Recheck, Receiver, sockVars
  <2>2. CASE Finish(<<>>)
    BY <1>4, <2>1, <2>2
  <2>3. CASE Live(rd) /\ Finish(<<[n |-> rd.n, from |-> rtags]>>)
    <3> DEFINE rest == rtags \ {rd.n}
    <3>1. rest \in SUBSET Staged /\ rtags = {rd.n} \cup rest /\ rest \subseteq Nat
      BY <1>2, <2>1, <2>3, CopyIsWhole
    <3> HIDE DEF rest
    <3>2. Finish(<<[n |-> rd.n, from |-> {rd.n} \cup rest]>>)
      BY <2>3, <3>1
    <3>3. QED BY <1>5, <2>1, <3>1, <3>2
  <2>4. QED BY <1>14, <2>2, <2>3 DEF Recheck, Live
<1>15. QED BY <1>7, <1>8, <1>9, <1>10, <1>11, <1>12, <1>13, <1>14 DEF Receives

(* A step of the sender before its send begins or ends a staging, or        *)
(* changes nothing that the channel has.                                    *)
LEMMA StageMaps ==
  ASSUME IInv, IInv', [Next]_vars, ~Receives, \A t \in Threads : ~Send(t)
  PROVE  Stages
<1>1. UNCHANGED <<sockVars, recvVars>>
  BY DEF Next, Receives, Publish, Reserve, GrowReserve, ReserveAt, GrowFail, WriteCell,
     Commit, Abort, Close, vars
<1>2. UNCHANGED <<Inflight, sent, delivered>>
  BY <1>1 DEF Inflight, sockVars, recvVars
<1>3. CASE holder' = NoThread
  BY <1>2, <1>3 DEF Stages, Staged
<1>4. CASE holder' # NoThread
  <2>1. holder' \in Threads /\ tpc'[holder'] = "write"
    BY <1>4 DEF IInv, TypesInv, ThreadInv
  <2>2. tmsg'[holder'] \in 1 .. nmsg' /\ tmsg'[holder'] \notin sent'
    BY <2>1 DEF IInv, ThreadInv, AtWork
  <2>3. nmsg' \in Nat /\ nmsg' <= MaxMessages /\ MaxMessages \in Nat
    BY ShmRingAssumption DEF IInv, TypesInv
  <2>4. tmsg'[holder'] \in Messages \ sent
    BY <1>2, <2>2, <2>3 DEF Messages
  <2>5. QED BY <1>2, <1>4, <2>4 DEF Stages, Staged
<1>5. QED BY <1>3, <1>4

(* Every step is a step of the channel or a stutter.                        *)
LEMMA StepMaps ==
  ASSUME IInv, IInv', FetchInv, [Next]_vars
  PROVE  [Channel!Next]_(Channel!vars)
<1>1. CASE Receives
  BY <1>1, RecvMaps, ChannelSteps
<1>2. CASE \E t \in Threads : Send(t)
  BY <1>2, SendMaps, ChannelSteps
<1>3. CASE ~Receives /\ ~\E t \in Threads : Send(t)
  BY <1>3, StageMaps, ChannelSteps
<1>4. QED BY <1>1, <1>2, <1>3

(* The payload path is a lossy channel, for any number of threads, sizes,   *)
(* messages and socket capacity, and stores that become visible in any      *)
(* order: what the receiver copies out between its two looks at the seq     *)
(* word is the payload of the message it was told of, with nothing in it of *)
(* any other message but the one being written at that moment, however the  *)
(* ring wraps, grows, is aborted or is closed.  The hypothesis: the 32-bit  *)
(* seq word does not come round while a descriptor is alive.                *)
THEOREM RingIsLossyChannel ==
  ASSUME SeqWide
  PROVE  Spec => ImplementsChannel
<1> DEFINE Inv == IInv /\ GoodInv /\ FetchInv
<1>1. Init => Inv
  <2> SUFFICES ASSUME Init PROVE Inv
    OBVIOUS
  <2>1. GoodInv
    BY NoDescTyped DEF Init, GoodInv, Good
  <2>2. FetchInv
    BY DEF Init, FetchInv
  <2>3. QED BY <2>1, <2>2, InitIInv
<1>2. Inv /\ [Next]_vars => Inv'
  BY IInvStep, GoodStep, FetchStep
<1>3. Init => Channel!Init
  <2> SUFFICES ASSUME Init PROVE Channel!Init
    OBVIOUS
  <2>1. Inflight = <<>> /\ sent = {} /\ delivered = <<>> /\ Staged = {}
    <3>1. Inflight = Line(TRUE, rd, sock) /\ rd \in DescT /\ sock \in Seq(DescT) /\ sock = <<>>
      <4>1. rpc = "idle" /\ sock = <<>> /\ rd = NoDesc
        BY DEF Init
      <4>2. Inflight = Line(TRUE, rd, sock)
        BY <4>1 DEF Inflight
      <4>3. rd \in DescT /\ sock \in Seq(DescT)
        BY <4>1, NoDescTyped
      <4>4. QED BY <4>1, <4>2, <4>3
    <3>2. Inflight \in Seq(Nat) /\ Len(Inflight) = 0
      BY <3>1, LineFacts
    <3>3. QED BY <3>2 DEF Init, Staged
  <2>2. QED BY <2>1 DEF Channel!Init, Inflight, Line, Staged
<1>4. Inv /\ Inv' /\ [Next]_vars => [Channel!Next]_(Channel!vars)
  BY StepMaps
<1> HIDE DEF Inv
<1>5. QED BY <1>1, <1>2, <1>3, <1>4, PTL DEF Spec, ImplementsChannel, Channel!Spec

=============================================================================
