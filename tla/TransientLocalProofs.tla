------------------------ MODULE TransientLocalProofs ------------------------
(***************************************************************************)
(* Latched samples, for any number of subscribers, samples and slots, any  *)
(* queue depth and socket size, and a publisher or subscriber that may go: *)
(* samples are whole, in order and queued once, a late joiner has its      *)
(* history, and the dedup watermark swallows nothing else.                 *)
(*                                                                         *)
(* Four invariants, each inductive with the ones before it:                *)
(*   RingInv   what the seq word of a slot says about its record;          *)
(*   PullInv   what a scan has seen of the slots it has passed;            *)
(*   OrderInv  how socket, records to replay and queue follow each other;  *)
(*   JoinInv   what became of every sample the joiner was due and of every *)
(*             sample its watermark will stand for.                        *)
(* RingMoves, what a step may do to a slot, carries the publisher's steps  *)
(* into the joiner's invariants.                                           *)
(***************************************************************************)
EXTENDS TransientLocal, FiniteSetTheorems, SequenceTheorems, WellFoundedInduction, TLAPS

(* A slot's seq word does not wrap in the life of a publisher: with 32 bits *)
(* it would after 2^31 samples.                                             *)
NoWrap == 2 * MaxSamples < SeqMod

(* A remainder is a slot.                                                   *)
LEMMA ModRing == ASSUME NEW a \in Nat PROVE a % Slots \in Ring
  BY TransientLocalAssumption DEF Ring

(* A number below the modulus is its own remainder.                         *)
LEMMA SmallMod == ASSUME NEW a \in Nat, a < SeqMod PROVE a % SeqMod = a
  BY TransientLocalAssumption

(* Numbers with the same remainder are Slots apart.                         *)
LEMMA ModGap ==
  ASSUME NEW a \in Nat, NEW b \in Nat, a < b, a % Slots = b % Slots
  PROVE  b - a >= Slots
  <1> DEFINE p == a \div Slots
             q == b \div Slots
  <1>0. Slots \in Nat /\ Slots > 0
    BY TransientLocalAssumption
  <1>1. p \in Int /\ q \in Int /\ a = Slots * p + (a % Slots) /\ b = Slots * q + (b % Slots)
    <2>1. p \in Int /\ q \in Int
      BY <1>0
    <2>2. a = Slots * p + (a % Slots)
      BY <1>0
    <2>3. b = Slots * q + (b % Slots)
      BY <1>0
    <2> QED BY <2>1, <2>2, <2>3
  <1>2. a % Slots \in Int
    BY <1>0
  <1> HIDE DEF p, q
  <1>3. b - a = Slots * q - Slots * p
    BY <1>0, <1>1, <1>2
  <1>4. Slots * q - Slots * p = Slots * (q - p)
    BY <1>0, <1>1
  <1>5. q - p >= 1
    <2>1. Slots * (q - p) > 0
      BY <1>3, <1>4
    <2> QED BY <1>0, <1>1, <2>1
  <1>6. Slots * (q - p) >= Slots
    BY <1>0, <1>1, <1>5
  <1> QED BY <1>3, <1>4, <1>6

(* Even and odd words.                                                      *)
LEMMA Parity == \A j \in Nat : (2 * j) % 2 = 0 /\ (2 * j + 1) % 2 = 1
  OBVIOUS

-----------------------------------------------------------------------------
(* The ring.                                                                *)

Latching == pub \in {"odd", "hdr", "pay", "even"}
Words    == Samples \cup {NoSample}

PubType ==
  /\ pub \in {"idle", "odd", "hdr", "pay", "even", "load", "refresh", "send",
              "closing", "gone", "dead"}
  /\ next_seq \in 1 .. MaxSamples + 1 /\ next_index \in 1 .. next_seq
  /\ Latching => next_index < next_seq
  /\ pub \in {"load", "refresh", "send"} => next_seq > 1
  /\ rseq \in [Ring -> Nat] /\ whdr \in [Ring -> Words] /\ wpay \in [Ring -> Words]

(* Slot k holds a whole record, the j-th the publisher latched; as many     *)
(* samples as were latched since are newer than the record's.               *)
Committed(k, j) ==
  /\ rseq[k] = 2 * j /\ (j - 1) % Slots = k
  /\ whdr[k] = wpay[k] /\ whdr[k] \in Samples
  /\ whdr[k] + (next_index - 1 - j) <= cur
  /\ Latching => whdr[k] + (next_index - j) <= cur

(* A slot is unused, holds a whole record or is the one being written.      *)
SlotInv ==
  \A k \in Ring :
    \/ rseq[k] = 0
    \/ \E j \in 1 .. next_index - 1 : Committed(k, j)
    \/ /\ rseq[k] = 2 * next_index - 1 /\ k = slot
       /\ pub \in {"hdr", "pay", "even", "dead"}

(* How far the latch in progress has come.                                  *)
LatchInv ==
  /\ pub \in {"hdr", "pay", "even"} => rseq[slot] = 2 * next_index - 1
  /\ pub \in {"pay", "even"} => whdr[slot] = cur
  /\ pub = "even" => wpay[slot] = cur

RingInv == PubType /\ SlotInv /\ LatchInv

(* A slot whose word says that it holds a record.                           *)
Whole(k) == rseq[k] # 0 /\ rseq[k] % 2 = 0

(* What a step may do to a slot: its word does not fall, a record under the *)
(* same word stays, and only a lapped record is overwritten.                *)
RingMoves ==
  /\ cur <= cur'
  /\ \A k \in Ring :
       /\ rseq[k] <= rseq'[k]
       /\ Whole(k) /\ rseq'[k] = rseq[k] => whdr'[k] = whdr[k] /\ wpay'[k] = wpay[k]
       /\ Whole(k) /\ rseq'[k] # rseq[k] => whdr[k] <= cur' - Slots

(* What the word of a slot says.                                            *)
LEMMA WordOf ==
  ASSUME RingInv, NEW k \in Ring
  PROVE  /\ rseq[k] \in Nat
         /\ Whole(k) <=> \E j \in 1 .. next_index - 1 : Committed(k, j)
         /\ rseq[k] <= 2 * next_index - 1
         /\ rseq[k] % 2 = 1 => rseq[k] = 2 * next_index - 1 /\ k = slot
         /\ Whole(k) => rseq[k] <= 2 * next_index - 2
         /\ rseq[k] # 0 /\ ~Whole(k) => rseq[k] % 2 = 1
  <1>0. next_index \in Nat /\ next_index >= 1 /\ rseq[k] \in Nat
    BY DEF RingInv, PubType
  <1>1. rseq[k] % 2 = 0 \/ rseq[k] % 2 = 1
    BY <1>0
  <1>2. CASE rseq[k] = 0
    <2>1. rseq[k] % 2 = 0
      BY <1>2
    <2>2. \A j \in 1 .. next_index - 1 : ~Committed(k, j)
      BY <1>0, <1>2 DEF Committed
    <2> QED BY <1>0, <1>2, <2>1, <2>2 DEF Whole
  <1>3. CASE \E j \in 1 .. next_index - 1 : Committed(k, j)
    <2>1. PICK j \in 1 .. next_index - 1 : Committed(k, j)
      BY <1>3
    <2>2. rseq[k] = 2 * j /\ rseq[k] % 2 = 0 /\ rseq[k] # 0
      BY <1>0, <2>1 DEF Committed
    <2> QED BY <1>0, <2>1, <2>2 DEF Whole
  <1>4. CASE rseq[k] = 2 * next_index - 1 /\ k = slot
    <2>1. rseq[k] = 2 * (next_index - 1) + 1 /\ next_index - 1 \in Nat
      BY <1>0, <1>4
    <2>2. rseq[k] % 2 = 1
      BY <2>1
    <2>3. \A j \in 1 .. next_index - 1 : ~Committed(k, j)
      BY <1>0, <1>4 DEF Committed
    <2> QED BY <1>0, <1>4, <2>2, <2>3 DEF Whole
  <1> QED BY <1>2, <1>3, <1>4 DEF RingInv, SlotInv

(* The slot of the next latch is one of the ring's.                         *)
LEMMA SlotOf == ASSUME RingInv PROVE slot \in Ring
  <1>1. next_index - 1 \in Nat
    BY DEF RingInv, PubType
  <1> QED BY <1>1, ModRing DEF slot

(* Nothing is latched.                                                      *)
LEMMA InitRing == Init => RingInv
  BY TransientLocalAssumption DEF Init, RingInv, PubType, SlotInv, LatchInv, Latching, Words, NoSample

(* Steps that neither take a number nor write to the ring.                  *)
LEMMA RingSame ==
  ASSUME RingInv, UNCHANGED <<next_seq, next_index, rseq, whdr, wpay>>,
         \/ UNCHANGED pub
         \/ (pub = "load" /\ pub' = "refresh") \/ (pub = "refresh" /\ pub' = "send")
         \/ (pub = "send" /\ pub' = "idle") \/ (pub = "idle" /\ pub' = "closing")
         \/ (pub = "closing" /\ pub' = "gone") \/ pub' = "dead"
  PROVE  RingInv' /\ RingMoves
  <1>1. next_seq \in Nat /\ rseq \in [Ring -> Nat]
    BY DEF RingInv, PubType
  <1>2. RingMoves
    BY <1>1 DEF RingMoves, cur
  <1>3. PubType'
    BY DEF RingInv, PubType, Latching
  <1>4. SlotInv'
    BY DEF RingInv, SlotInv, Committed, Latching, cur, slot
  <1>5. LatchInv'
    BY DEF RingInv, LatchInv, cur, slot
  <1> QED BY <1>2, <1>3, <1>4, <1>5 DEF RingInv

(* transient_local_publish takes the next number.                           *)
LEMMA RingBegin == ASSUME RingInv, PubBegin PROVE RingInv' /\ RingMoves
  <1>1. /\ pub = "idle" /\ next_seq <= MaxSamples /\ next_seq' = next_seq + 1
        /\ pub' \in {"odd", "load"} /\ UNCHANGED <<next_index, rseq, whdr, wpay>>
    BY DEF PubBegin
  <1>2. /\ next_seq \in Nat /\ next_seq >= 1 /\ next_index \in 1 .. next_seq
        /\ MaxSamples \in Nat /\ rseq \in [Ring -> Nat]
    BY TransientLocalAssumption DEF RingInv, PubType
  <1>3. RingMoves
    BY <1>1, <1>2 DEF RingMoves, cur
  <1>4. PubType'
    BY <1>1, <1>2 DEF RingInv, PubType, Latching
  <1>5. SlotInv'
    <2> SUFFICES ASSUME NEW k \in Ring, rseq[k] # 0
                 PROVE  \E j \in 1 .. next_index - 1 : Committed(k, j)'
      BY <1>1 DEF SlotInv
    <2>1. PICK j \in 1 .. next_index - 1 : Committed(k, j)
      BY <1>1 DEF RingInv, SlotInv
    <2>2. whdr[k] \in Nat
      BY <2>1 DEF Committed, Samples
    <2>3. Committed(k, j)'
      BY <1>1, <1>2, <2>1, <2>2 DEF Committed, Latching, cur
    <2> QED BY <2>3
  <1>6. LatchInv'
    BY <1>1 DEF LatchInv
  <1> QED BY <1>3, <1>4, <1>5, <1>6 DEF RingInv

(* tl_ring_latch marks the slot odd: the record it held, latched Slots      *)
(* records ago, is lapped.                                                  *)
LEMMA RingOdd == ASSUME NoWrap, RingInv, LatchOdd PROVE RingInv' /\ RingMoves
  <1>1. /\ pub = "odd" /\ pub' = "hdr" /\ UNCHANGED <<next_seq, next_index, whdr, wpay>>
        /\ rseq' = [rseq EXCEPT ![slot] = (2 * next_index - 1) % SeqMod]
    BY DEF LatchOdd
  <1>2. /\ next_seq \in 1 .. MaxSamples + 1 /\ next_index \in Nat /\ next_index >= 1
        /\ next_index < next_seq /\ MaxSamples \in Nat /\ rseq \in [Ring -> Nat]
        /\ Slots \in Nat
    BY <1>1, TransientLocalAssumption DEF RingInv, PubType, Latching
  <1>3. (2 * next_index - 1) % SeqMod = 2 * next_index - 1
    <2>1. 2 * next_index - 1 \in Nat /\ 2 * next_index - 1 < SeqMod
      BY <1>2, TransientLocalAssumption DEF NoWrap
    <2> QED BY <2>1, SmallMod
  <1>4. slot \in Ring /\ slot' = slot
    BY <1>1, SlotOf DEF slot
  <1>5. /\ rseq' \in [Ring -> Nat] /\ rseq'[slot] = 2 * next_index - 1
        /\ \A k \in Ring \ {slot} : rseq'[k] = rseq[k]
    BY <1>1, <1>2, <1>3, <1>4
  <1>6. PubType'
    BY <1>1, <1>5 DEF RingInv, PubType, Latching
  <1>7. LatchInv'
    BY <1>1, <1>4, <1>5 DEF LatchInv
  <1>8. SlotInv'
    <2> SUFFICES ASSUME NEW k \in Ring \ {slot}, rseq[k] # 0
                 PROVE  \E j \in 1 .. next_index - 1 : Committed(k, j)'
      BY <1>1, <1>4, <1>5 DEF SlotInv
    <2>1. PICK j \in 1 .. next_index - 1 : Committed(k, j)
      BY <1>1 DEF RingInv, SlotInv
    <2>2. Committed(k, j)'
      BY <1>1, <1>5, <2>1 DEF Committed, Latching, cur
    <2> QED BY <1>1, <2>2
  <1>9. ASSUME Whole(slot) PROVE whdr[slot] <= cur' - Slots /\ rseq[slot] <= 2 * next_index - 1
    <2>1. PICK j \in 1 .. next_index - 1 : Committed(slot, j)
      BY <1>4, <1>9, WordOf
    <2>2. j - 1 \in Nat /\ next_index - 1 \in Nat /\ j - 1 < next_index - 1
      BY <1>2
    <2>3. (next_index - 1) - (j - 1) >= Slots
      BY <2>1, <2>2, ModGap DEF Committed, slot
    <2>4. whdr[slot] \in Nat /\ whdr[slot] + (next_index - j) <= cur
      BY <1>1, <2>1 DEF Committed, Samples, Latching
    <2>5. whdr[slot] <= cur - Slots
      BY <1>2, <2>3, <2>4 DEF cur
    <2>6. rseq[slot] <= 2 * next_index - 1
      BY <1>4, WordOf
    <2> QED BY <1>1, <1>4, <2>5, <2>6 DEF cur
  <1>10. RingMoves
    <2>1. cur <= cur'
      BY <1>1, <1>2 DEF cur
    <2>2. \A k \in Ring \ {slot} : rseq[k] <= rseq'[k] /\ rseq'[k] = rseq[k]
      BY <1>2, <1>5
    <2>3. rseq[slot] <= rseq'[slot] /\ (Whole(slot) => rseq'[slot] # rseq[slot])
      BY <1>2, <1>4, <1>5, WordOf
    <2> QED BY <1>1, <1>4, <1>9, <2>1, <2>2, <2>3 DEF RingMoves
  <1> QED BY <1>6, <1>7, <1>8, <1>10 DEF RingInv

(* The header and the payload are written under the odd word.               *)
LEMMA RingWrite == ASSUME RingInv, LatchHeader \/ LatchPayload PROVE RingInv' /\ RingMoves
  <1>1. /\ pub \in {"hdr", "pay"} /\ UNCHANGED <<next_seq, next_index, rseq>>
        /\ \/ /\ pub = "hdr" /\ pub' = "pay" /\ wpay' = wpay
              /\ whdr' = [whdr EXCEPT ![slot] = cur]
           \/ /\ pub = "pay" /\ pub' = "even" /\ whdr' = whdr
              /\ wpay' = [wpay EXCEPT ![slot] = cur]
    BY DEF LatchHeader, LatchPayload
  <1>2. /\ next_seq \in 1 .. MaxSamples + 1 /\ next_index \in Nat /\ next_index >= 1
        /\ next_index < next_seq /\ MaxSamples \in Nat /\ rseq \in [Ring -> Nat]
        /\ whdr \in [Ring -> Words] /\ wpay \in [Ring -> Words]
    BY <1>1, TransientLocalAssumption DEF RingInv, PubType, Latching
  <1>3. slot \in Ring /\ slot' = slot /\ cur' = cur /\ cur \in Samples /\ cur \in Words
    BY <1>1, <1>2, SlotOf DEF slot, cur, Samples, Words
  <1>4. \A k \in Ring \ {slot} : whdr'[k] = whdr[k] /\ wpay'[k] = wpay[k]
    BY <1>1, <1>2
  <1>5. PubType'
    BY <1>1, <1>2, <1>3 DEF RingInv, PubType, Latching
  <1>6. LatchInv'
    BY <1>1, <1>2, <1>3 DEF RingInv, LatchInv
  <1>7. rseq[slot] = 2 * next_index - 1
    BY <1>1 DEF RingInv, LatchInv
  <1>8. ~Whole(slot)
    BY <1>2, <1>3, <1>7, WordOf
  <1>9. SlotInv'
    <2> SUFFICES ASSUME NEW k \in Ring \ {slot}, rseq[k] # 0
                 PROVE  \E j \in 1 .. next_index - 1 : Committed(k, j)'
      BY <1>1, <1>3, <1>7 DEF SlotInv
    <2>1. PICK j \in 1 .. next_index - 1 : Committed(k, j)
      BY <1>1 DEF RingInv, SlotInv
    <2>2. Committed(k, j)'
      BY <1>1, <1>3, <1>4, <2>1 DEF Committed, Latching
    <2> QED BY <1>1, <2>2
  <1>10. RingMoves
    <2>1. cur <= cur'
      BY <1>2, <1>3 DEF cur
    <2>2. \A k \in Ring : rseq[k] <= rseq'[k] /\ rseq'[k] = rseq[k]
      BY <1>1, <1>2
    <2> QED BY <1>4, <1>8, <2>1, <2>2 DEF RingMoves
  <1> QED BY <1>5, <1>6, <1>9, <1>10 DEF RingInv

(* The record is committed.                                                 *)
LEMMA RingEven == ASSUME NoWrap, RingInv, LatchEven PROVE RingInv' /\ RingMoves
  <1>1. /\ pub = "even" /\ pub' = "load" /\ UNCHANGED <<next_seq, whdr, wpay>>
        /\ rseq' = [rseq EXCEPT ![slot] = (2 * next_index) % SeqMod]
        /\ next_index' = next_index + 1
    BY DEF LatchEven
  <1>2. /\ next_seq \in 1 .. MaxSamples + 1 /\ next_index \in Nat /\ next_index >= 1
        /\ next_index < next_seq /\ MaxSamples \in Nat /\ rseq \in [Ring -> Nat]
    BY <1>1, TransientLocalAssumption DEF RingInv, PubType, Latching
  <1>3. (2 * next_index) % SeqMod = 2 * next_index
    <2>1. 2 * next_index \in Nat /\ 2 * next_index < SeqMod
      BY <1>2, TransientLocalAssumption DEF NoWrap
    <2> QED BY <2>1, SmallMod
  <1>4. slot \in Ring /\ cur \in Samples
    BY <1>2, SlotOf DEF cur, Samples
  <1>5. /\ rseq' \in [Ring -> Nat] /\ rseq'[slot] = 2 * next_index
        /\ \A k \in Ring \ {slot} : rseq'[k] = rseq[k]
    BY <1>1, <1>2, <1>3, <1>4
  <1>6. PubType'
    BY <1>1, <1>2, <1>5 DEF RingInv, PubType, Latching
  <1>7. LatchInv'
    BY <1>1 DEF LatchInv
  <1>8. rseq[slot] = 2 * next_index - 1 /\ whdr[slot] = cur /\ wpay[slot] = cur
    BY <1>1 DEF RingInv, LatchInv
  <1>9. SlotInv'
    <2> SUFFICES ASSUME NEW k \in Ring, rseq'[k] # 0
                 PROVE  \E j \in 1 .. next_index : Committed(k, j)'
      BY <1>1, <1>2 DEF SlotInv
    <2>0. cur' = cur /\ ~Latching'
      BY <1>1 DEF cur, Latching
    <2>1. CASE k = slot
      <3>1. PICK j \in 1 .. next_index : j = next_index
        BY <1>2
      <3>2. (j - 1) % Slots = k /\ rseq'[k] = 2 * j /\ whdr'[k] = cur /\ wpay'[k] = cur
        BY <1>1, <1>5, <1>8, <2>1, <3>1 DEF slot
      <3>3. cur + (next_index' - 1 - j) <= cur
        BY <1>1, <1>2, <3>1 DEF cur
      <3> QED BY <1>4, <2>0, <3>2, <3>3 DEF Committed
    <2>2. CASE k # slot
      <3>1. rseq'[k] = rseq[k]
        BY <1>5, <2>2
      <3>2. PICK j \in 1 .. next_index - 1 : Committed(k, j)
        BY <1>1, <2>2, <3>1 DEF RingInv, SlotInv
      <3>3. whdr[k] \in Nat /\ whdr[k] + (next_index - j) <= cur
        BY <1>1, <3>2 DEF Committed, Samples, Latching
      <3>4. whdr[k] + (next_index' - 1 - j) <= cur
        BY <1>1, <1>2, <3>3
      <3> QED BY <1>1, <1>2, <2>0, <3>1, <3>2, <3>4 DEF Committed
    <2> QED BY <2>1, <2>2
  <1>10. RingMoves
    <2>1. cur <= cur'
      BY <1>1, <1>2 DEF cur
    <2>2. \A k \in Ring \ {slot} : rseq[k] <= rseq'[k] /\ rseq'[k] = rseq[k]
      BY <1>2, <1>5
    <2>3. rseq[slot] <= rseq'[slot] /\ ~Whole(slot)
      BY <1>2, <1>4, <1>5, <1>8, WordOf
    <2> QED BY <1>1, <1>4, <2>1, <2>2, <2>3 DEF RingMoves
  <1> QED BY <1>6, <1>7, <1>9, <1>10 DEF RingInv

(* Every step keeps RingInv and moves the ring as RingMoves says.           *)
LEMMA NextRing == ASSUME NoWrap, RingInv, [Next]_vars PROVE RingInv' /\ RingMoves
  <1> USE DEF pubVars, ringVars
  <1>1. CASE PubBegin
    BY <1>1, RingBegin
  <1>2. CASE LatchOdd \/ LatchHeader \/ LatchPayload \/ LatchEven
    BY <1>2, RingOdd, RingWrite, RingEven
  <1>3. CASE \/ LoadGeneration \/ RefreshSubPaths \/ PubEnd \/ PubClose \/ PubUnlist \/ PubCrash
             \/ Reap
    BY <1>3, RingSame DEF LoadGeneration, RefreshSubPaths, PubEnd, PubClose, PubUnlist, PubCrash,
       Reap
  <1>4. ASSUME NEW s \in Subs, Send(s) PROVE RingInv' /\ RingMoves
    BY <1>4, RingSame DEF Send
  <1>5. ASSUME NEW s \in Subs,
               SubVisible(s) \/ SubStep(s) \/ Drain(s) \/ Take(s) \/ SubUnlist(s)
        PROVE  RingInv' /\ RingMoves
    <2>1. UNCHANGED <<pubVars, ringVars>>
      BY <1>5 DEF SubStep, SubVisible, SubBump, SubQuery, PullOpen, PullSeq, PullHeader,
         PullPayload, PullCheck, PullScanned, PullRecheck, PullTrim, PullEnqueue, PullWatermark,
         SubClose, Drain, Take, SubUnlist
    <2> QED BY <2>1, RingSame
  <1>6. CASE UNCHANGED vars
    BY <1>6, RingSame DEF vars
  <1> QED BY <1>1, <1>2, <1>3, <1>4, <1>5, <1>6 DEF Next, PublishStep

-----------------------------------------------------------------------------
(* The pull of one joiner.                                                  *)

Locals == [i : Nat, s1 : Nat, hdr : Words, pay : Words, tries : Nat, obs : [Ring -> Nat],
           recs : SUBSET Rec, max : Nat, cut : BOOLEAN]

Before   == {"none", "visible", "query", "open"}
Reading  == {"hdr", "pay", "check"}
Scanning == {"seq"} \cup Reading
Joined   == {"ready", "closing", "gone"}

SubType ==
  /\ spc \in [Subs -> Before \cup Scanning \cup {"recheck", "trim", "enqueue"} \cup Joined]
  /\ loc \in [Subs -> Locals] /\ sock \in [Subs -> Seq(Dgram)]
  /\ delivered \in [Subs -> Seq(Rec)] /\ watermark \in [Subs -> Int]
  /\ overlapped \in [Subs -> BOOLEAN]

(* What is set before, during and after a pull.                             *)
PhaseInv(s) ==
  /\ spc[s] \in Before => loc[s] = NoLocals
  /\ spc[s] \notin {"enqueue"} \cup Joined => delivered[s] = <<>> /\ ~loc[s].cut
  /\ spc[s] \in Joined => loc[s].recs = {}
  /\ spc[s] \notin Joined => watermark[s] = NoWatermark
  /\ spc[s] = "recheck" => loc[s].i < Slots

(* The record a joiner is reading: under the word it first saw, what it has *)
(* copied is what the slot holds.                                           *)
ReadInv(s) ==
  LET l == loc[s] IN
  /\ spc[s] \in Reading =>
       /\ l.i \in Ring /\ l.s1 # 0 /\ l.s1 % 2 = 0 /\ l.s1 <= rseq[l.i] /\ l.obs[l.i] = l.s1
  /\ spc[s] \in {"pay", "check"} /\ rseq[l.i] = l.s1 => l.hdr = whdr[l.i]
  /\ spc[s] = "check" /\ rseq[l.i] = l.s1 => l.pay = wpay[l.i]

(* A slot the scan is done with: if its word is still the one observed, its *)
(* record was pulled.                                                       *)
Passed(s, k) == spc[s] \in {"recheck", "trim"} \/ (spc[s] \in Scanning /\ k < loc[s].i)
ScanInv(s) ==
  \A k \in Ring : Passed(s, k) =>
    /\ loc[s].obs[k] <= rseq[k]
    /\ loc[s].obs[k] = rseq[k] /\ Whole(k) => whdr[k] \in Numbers(loc[s].recs)

(* Records are whole and were published.                                    *)
RecInv(s) ==
  /\ \A r \in loc[s].recs : r.n = r.pay /\ r.n <= cur /\ r.n <= loc[s].max
  /\ spc[s] \in Scanning \cup {"recheck", "trim"} =>
       loc[s].max \in Numbers(loc[s].recs) \cup {0}
  /\ \A k \in 1 .. Len(delivered[s]) : delivered[s][k].n = delivered[s][k].pay

PullSub(s) == PhaseInv(s) /\ ReadInv(s) /\ ScanInv(s) /\ RecInv(s)
PullInv    == SubType /\ \A s \in Subs : PullSub(s)

(* A joiner's locals to begin with.                                         *)
LEMMA NoLocalsType == NoLocals \in Locals
  BY DEF NoLocals, Locals, Words, NoSample

(* Nobody has joined.                                                       *)
LEMMA InitPull == Init => PullInv
  <1> SUFFICES ASSUME Init PROVE PullInv
    OBVIOUS
  <1>1. SubType
    BY NoLocalsType DEF Init, SubType, Before, Rec, Dgram, NoWatermark
  <1>2. ASSUME NEW s \in Subs PROVE PullSub(s)
    <2>1. /\ spc[s] = "none" /\ loc[s] = NoLocals /\ delivered[s] = <<>>
          /\ watermark[s] = NoWatermark
      BY DEF Init
    <2>2. NoLocals.recs = {} /\ NoLocals.cut = FALSE
      BY DEF NoLocals
    <2>3. PhaseInv(s) /\ ReadInv(s) /\ ScanInv(s)
      BY <2>1, <2>2 DEF PhaseInv, ReadInv, ScanInv, Passed, Joined, Reading, Scanning
    <2>4. RecInv(s)
      BY <2>1, <2>2 DEF RecInv, Scanning, Reading
    <2> QED BY <2>3, <2>4 DEF PullSub
  <1> QED BY <1>1, <1>2 DEF PullInv

(* Another actor's step: the publisher's, or the step of another joiner.    *)
LEMMA PullFrame ==
  ASSUME RingInv, RingMoves, SubType, NEW s \in Subs, PullSub(s), PubType',
         spc'[s] = spc[s], loc'[s] = loc[s], delivered'[s] = delivered[s],
         watermark'[s] = watermark[s]
  PROVE  PullSub(s)'
  <1> USE DEF PullSub
  <1>1. PhaseInv(s)'
    BY DEF PhaseInv
  <1>2. /\ loc[s] \in Locals /\ loc[s].i \in Nat /\ loc[s].s1 \in Nat
        /\ loc[s].obs \in [Ring -> Nat] /\ loc[s].recs \subseteq Rec
    BY DEF SubType, Locals
  <1>3. /\ \A k \in Ring : rseq[k] \in Nat /\ rseq'[k] \in Nat /\ rseq[k] <= rseq'[k]
        /\ \A k \in Ring : Whole(k) /\ rseq'[k] = rseq[k] => whdr'[k] = whdr[k] /\ wpay'[k] = wpay[k]
        /\ cur \in Int /\ cur' \in Int /\ cur <= cur'
    <2>1. rseq \in [Ring -> Nat] /\ rseq' \in [Ring -> Nat]
      BY DEF RingInv, PubType
    <2>2. next_seq \in Int /\ next_seq' \in Int
      BY TransientLocalAssumption DEF RingInv, PubType
    <2>3. cur \in Int /\ cur' \in Int
      BY <2>2 DEF cur
    <2>4. /\ \A k \in Ring : rseq[k] <= rseq'[k]
          /\ \A k \in Ring : Whole(k) /\ rseq'[k] = rseq[k] =>
               whdr'[k] = whdr[k] /\ wpay'[k] = wpay[k]
          /\ cur <= cur'
      BY DEF RingMoves
    <2> QED BY <2>1, <2>3, <2>4
  <1>4. ReadInv(s)'
    <2> DEFINE l == loc[s]
    <2>1. CASE spc[s] \in Reading
      <3>1. l.i \in Ring /\ l.s1 # 0 /\ l.s1 % 2 = 0 /\ l.s1 <= rseq[l.i] /\ l.obs[l.i] = l.s1
        BY <2>1 DEF ReadInv
      <3>2. l.s1 <= rseq'[l.i]
        BY <1>2, <1>3, <3>1
      <3>3. rseq'[l.i] = l.s1 => rseq[l.i] = l.s1 /\ whdr'[l.i] = whdr[l.i] /\ wpay'[l.i] = wpay[l.i]
        <4>1. rseq'[l.i] = l.s1 => rseq[l.i] = l.s1
          BY <1>2, <1>3, <3>1
        <4>2. rseq[l.i] = l.s1 => Whole(l.i)
          BY <3>1 DEF Whole
        <4> QED BY <1>3, <3>1, <4>1, <4>2
      <3> QED BY <3>1, <3>2, <3>3 DEF ReadInv
    <2>2. CASE spc[s] \notin Reading
      BY <2>2 DEF ReadInv, Reading
    <2> QED BY <2>1, <2>2
  <1>5. ScanInv(s)'
    <2> SUFFICES ASSUME NEW k \in Ring, Passed(s, k)'
                 PROVE  /\ loc[s].obs[k] <= rseq'[k]
                        /\ loc[s].obs[k] = rseq'[k] /\ Whole(k)' =>
                             whdr'[k] \in Numbers(loc[s].recs)
      BY DEF ScanInv
    <2>1. Passed(s, k)
      BY DEF Passed
    <2>2. /\ loc[s].obs[k] <= rseq[k] /\ loc[s].obs[k] \in Nat
          /\ loc[s].obs[k] = rseq[k] /\ Whole(k) => whdr[k] \in Numbers(loc[s].recs)
      BY <1>2, <2>1 DEF ScanInv
    <2>3. loc[s].obs[k] <= rseq'[k] /\ (loc[s].obs[k] = rseq'[k] => rseq'[k] = rseq[k])
      BY <1>3, <2>2
    <2>4. rseq'[k] = rseq[k] => (Whole(k)' <=> Whole(k))
      BY DEF Whole
    <2> QED BY <1>3, <2>2, <2>3, <2>4
  <1>6. RecInv(s)'
    <2>1. \A r \in loc[s].recs : r.n \in Nat
      BY <1>2 DEF Rec, Samples
    <2>2. \A r \in loc[s].recs : r.n <= cur'
      BY <1>3, <2>1 DEF RecInv
    <2> QED BY <2>2 DEF RecInv
  <1> QED BY <1>1, <1>4, <1>5, <1>6

(* What the scan's moves do to a joiner's locals.                           *)
LEMMA NextSlotIs ==
  ASSUME NEW l \in Locals
  PROVE  /\ NextSlot(l) \in Locals /\ NextSlot(l).i = l.i + 1 /\ NextSlot(l).obs = l.obs
         /\ NextSlot(l).recs = l.recs /\ NextSlot(l).max = l.max /\ NextSlot(l).cut = l.cut
  <1>1. /\ l.i \in Nat /\ l.obs \in [Ring -> Nat] /\ l.recs \in SUBSET Rec /\ l.max \in Nat
        /\ l.cut \in BOOLEAN
    BY DEF Locals
  <1> DEFINE n == [i |-> l.i + 1, s1 |-> 0, hdr |-> NoSample, pay |-> NoSample, tries |-> 0,
                   obs |-> l.obs, recs |-> l.recs, max |-> l.max, cut |-> l.cut]
  <1>a. NextSlot(l) = [l EXCEPT !.i = @ + 1, !.s1 = 0, !.hdr = NoSample, !.pay = NoSample,
                                !.tries = 0]
    BY DEF NextSlot
  <1>2. NextSlot(l) = n
    BY <1>a DEF Locals
  <1>3. l.i + 1 \in Nat /\ 0 \in Nat /\ NoSample \in Words
    BY <1>1 DEF Words
  <1> QED BY <1>1, <1>2, <1>3 DEF Locals

(* A retry stays at the slot or, once the retries are spent, passes it.     *)
LEMMA RetrySlotIs ==
  ASSUME NEW l \in Locals
  PROVE  /\ RetrySlot(l) \in Locals /\ RetrySlot(l).i \in {l.i, l.i + 1}
         /\ RetrySlot(l).obs = l.obs
         /\ RetrySlot(l).recs = l.recs /\ RetrySlot(l).max = l.max /\ RetrySlot(l).cut = l.cut
  <1>1. CASE l.tries + 1 < MaxPullRetries
    <2>1. RetrySlot(l) = [l EXCEPT !.s1 = 0, !.hdr = NoSample, !.pay = NoSample, !.tries = @ + 1]
      BY <1>1 DEF RetrySlot
    <2>2. /\ l.i \in Nat /\ l.obs \in [Ring -> Nat] /\ l.recs \in SUBSET Rec /\ l.max \in Nat
          /\ l.cut \in BOOLEAN /\ l.tries + 1 \in Nat /\ 0 \in Nat /\ NoSample \in Words
      BY DEF Locals, Words
    <2>3. RetrySlot(l) = [i |-> l.i, s1 |-> 0, hdr |-> NoSample, pay |-> NoSample,
                          tries |-> l.tries + 1, obs |-> l.obs, recs |-> l.recs,
                          max |-> l.max, cut |-> l.cut]
      BY <2>1 DEF Locals
    <2> QED BY <2>2, <2>3 DEF Locals
  <1>2. CASE ~(l.tries + 1 < MaxPullRetries)
    BY <1>2, NextSlotIs DEF RetrySlot
  <1> QED BY <1>1, <1>2

(* The step of a joiner changes its own state only.                         *)
SubOnly(s) ==
  /\ \A t \in Subs \ {s} :
       /\ spc'[t] = spc[t] /\ loc'[t] = loc[t] /\ delivered'[t] = delivered[t]
       /\ watermark'[t] = watermark[t]
  /\ UNCHANGED <<next_seq, next_index, rseq, whdr, wpay, pub>>

(* A record a joiner has after a step it had before, or found in a slot.    *)
RecsFrom(s) ==
  \A r \in loc'[s].recs : r \in loc[s].recs \/ \E k \in Ring : Whole(k) /\ whdr[k] = r.n

(* The joiner's facts that a step leaves to be shown.                       *)
SubNext(s) == SubType' /\ SubOnly(s) /\ RecsFrom(s) /\ PullSub(s)'

(* Registration and the two queries.                                        *)
LEMMA PullEnter ==
  ASSUME RingInv, PullInv, NEW s \in Subs,
         \/ SubVisible(s) \/ SubBump(s) \/ SubQuery(s) \/ PullOpen(s)
  PROVE  SubNext(s)
  <1>1. PICK x \in Before \cup {"seq", "ready"} :
          /\ spc[s] \in Before /\ spc' = [spc EXCEPT ![s] = x]
          /\ UNCHANGED <<loc, sock, delivered, watermark, overlapped>>
          /\ UNCHANGED <<next_seq, next_index, rseq, whdr, wpay, pub>>
    BY DEF SubVisible, SubBump, SubQuery, PullOpen, Sub, Before, pubVars, ringVars
  <1>2. SubType'
    BY <1>1 DEF PullInv, SubType, Before, Scanning, Reading, Joined
  <1>3. SubOnly(s) /\ spc'[s] = x
    BY <1>1 DEF SubOnly, PullInv, SubType
  <1>4. loc'[s] = NoLocals /\ delivered'[s] = <<>> /\ watermark'[s] = NoWatermark
    BY <1>1 DEF PullInv, PullSub, PhaseInv, Before, Joined
  <1>5. NoLocals.recs = {} /\ NoLocals.cut = FALSE /\ NoLocals.i = 0 /\ NoLocals.max = 0
    BY DEF NoLocals
  <1>6. PhaseInv(s)'
    BY <1>3, <1>4, <1>5 DEF PhaseInv, Before, Joined
  <1>7. ReadInv(s)'
    BY <1>3 DEF ReadInv, Before, Reading
  <1>8. ScanInv(s)'
    BY <1>3, <1>4, <1>5 DEF ScanInv, Passed, Ring, Before, Scanning, Reading
  <1>9. RecInv(s)'
    BY <1>3, <1>4, <1>5 DEF RecInv, Numbers
  <1>20. RecsFrom(s)
    BY <1>4, <1>5 DEF RecsFrom
  <1> QED BY <1>2, <1>3, <1>6, <1>7, <1>8, <1>9, <1>20 DEF SubNext, PullSub

(* tl_ring_pull looks at a slot's word and passes the slot, tries again or  *)
(* begins to read.                                                          *)
LEMMA PullAtSeq ==
  ASSUME RingInv, PullInv, NEW s \in Subs, PullSeq(s) PROVE SubNext(s)
  <1> DEFINE l == loc[s]
             q == rseq[l.i]
             o == [l EXCEPT !.obs[l.i] = q]
  <1>0. l \in Locals
    BY DEF PullInv, SubType
  <1>1. /\ l.i < Slots /\ spc[s] = "seq"
        /\ UNCHANGED <<sock, delivered, watermark, overlapped>>
        /\ UNCHANGED <<next_seq, next_index, rseq, whdr, wpay, pub>>
        /\ \/ q = 0 /\ spc' = [spc EXCEPT ![s] = "seq"] /\ loc' = [loc EXCEPT ![s] = NextSlot(o)]
           \/ q % 2 = 1 /\ spc' = [spc EXCEPT ![s] = "seq"] /\ loc' = [loc EXCEPT ![s] = RetrySlot(o)]
           \/ /\ q # 0 /\ q % 2 = 0 /\ spc' = [spc EXCEPT ![s] = "hdr"]
              /\ loc' = [loc EXCEPT ![s] = [o EXCEPT !.s1 = q]]
    BY DEF PullSeq, Sub, SetLoc, pubVars, ringVars
  <1>2. l.i \in Ring /\ l.i \in Nat /\ q \in Nat
    <2>1. l.i \in Nat
      BY <1>0 DEF Locals
    <2>2. l.i \in Ring
      BY <1>1, <2>1, TransientLocalAssumption DEF Ring
    <2> QED BY <2>1, <2>2 DEF RingInv, PubType
  <1>3. /\ o \in Locals /\ o.i = l.i /\ o.recs = l.recs /\ o.max = l.max /\ o.cut = l.cut
        /\ o.obs = [l.obs EXCEPT ![l.i] = q]
    BY <1>0, <1>2 DEF Locals
  <1>4. PICK y \in Locals :
          /\ loc' = [loc EXCEPT ![s] = y] /\ y.recs = l.recs /\ y.max = l.max /\ y.cut = l.cut
          /\ y.obs = [l.obs EXCEPT ![l.i] = q]
          /\ \/ /\ spc' = [spc EXCEPT ![s] = "seq"] /\ y.i \in {l.i, l.i + 1}
                /\ q = 0 \/ q % 2 = 1
             \/ /\ spc' = [spc EXCEPT ![s] = "hdr"] /\ y.i = l.i /\ y.s1 = q
                /\ q # 0 /\ q % 2 = 0
    <2>1. CASE q = 0 /\ spc' = [spc EXCEPT ![s] = "seq"] /\ loc' = [loc EXCEPT ![s] = NextSlot(o)]
      <3> HIDE DEF o, q
      <3>1. /\ NextSlot(o) \in Locals /\ NextSlot(o).i = l.i + 1 /\ NextSlot(o).obs = o.obs
            /\ NextSlot(o).recs = l.recs /\ NextSlot(o).max = l.max /\ NextSlot(o).cut = l.cut
        BY <1>3, NextSlotIs
      <3> QED BY <1>3, <2>1, <3>1
    <2>2. CASE q % 2 = 1 /\ spc' = [spc EXCEPT ![s] = "seq"] /\ loc' = [loc EXCEPT ![s] = RetrySlot(o)]
      <3> HIDE DEF o, q
      <3>1. /\ RetrySlot(o) \in Locals /\ RetrySlot(o).i \in {l.i, l.i + 1}
            /\ RetrySlot(o).obs = o.obs
            /\ RetrySlot(o).recs = l.recs /\ RetrySlot(o).max = l.max /\ RetrySlot(o).cut = l.cut
        BY <1>3, RetrySlotIs
      <3> QED BY <1>3, <2>2, <3>1
    <2>3. CASE /\ q # 0 /\ q % 2 = 0 /\ spc' = [spc EXCEPT ![s] = "hdr"]
               /\ loc' = [loc EXCEPT ![s] = [o EXCEPT !.s1 = q]]
      <3> HIDE DEF o, q
      <3>1. /\ [o EXCEPT !.s1 = q] \in Locals /\ [o EXCEPT !.s1 = q].i = o.i
            /\ [o EXCEPT !.s1 = q].recs = o.recs /\ [o EXCEPT !.s1 = q].max = o.max
            /\ [o EXCEPT !.s1 = q].cut = o.cut /\ [o EXCEPT !.s1 = q].obs = o.obs
            /\ [o EXCEPT !.s1 = q].s1 = q
        BY <1>2, <1>3 DEF Locals
      <3> QED BY <1>3, <2>3, <3>1
    <2> QED BY <1>1, <2>1, <2>2, <2>3
  <1> HIDE DEF o, q
  <1>5. SubType'
    BY <1>1, <1>4 DEF PullInv, SubType, Scanning, Reading
  <1>6. SubOnly(s) /\ loc'[s] = y /\ spc'[s] \in {"seq", "hdr"} /\ delivered'[s] = delivered[s]
        /\ watermark'[s] = watermark[s]
    BY <1>1, <1>4 DEF SubOnly, PullInv, SubType
  <1>7. PullSub(s) /\ l.obs \in [Ring -> Nat]
    BY <1>0 DEF PullInv, Locals
  <1>8. PhaseInv(s)'
    BY <1>1, <1>4, <1>6, <1>7 DEF PullSub, PhaseInv, Before, Joined
  <1>9. ReadInv(s)'
    <2>1. spc'[s] = "hdr" => y.i = l.i /\ y.s1 = q /\ q # 0 /\ q % 2 = 0
      BY <1>1, <1>4, <1>6 DEF PullInv, SubType
    <2>2. y.obs[l.i] = q /\ rseq'[l.i] = q
      BY <1>1, <1>2, <1>4, <1>7 DEF q
    <2> QED BY <1>2, <1>6, <2>1, <2>2 DEF ReadInv, Reading
  <1>10. ScanInv(s)'
    <2> SUFFICES ASSUME NEW k \in Ring, Passed(s, k)'
                 PROVE  /\ y.obs[k] <= rseq[k]
                        /\ y.obs[k] = rseq[k] /\ Whole(k) => whdr[k] \in Numbers(l.recs)
      BY <1>1, <1>4, <1>6 DEF ScanInv, Whole
    <2>1. k < y.i /\ k \in Nat
      BY <1>6 DEF Passed, Scanning, Reading, Ring
    <2>2. CASE k = l.i
      <3>1. q = 0 \/ q % 2 = 1
        BY <1>2, <1>4, <2>1, <2>2
      <3>2. y.obs[k] = q /\ rseq[k] = q
        BY <1>2, <1>4, <1>7, <2>2 DEF q
      <3>3. ~Whole(k)
        BY <3>1, <3>2 DEF Whole
      <3> QED BY <1>2, <3>2, <3>3
    <2>3. CASE k # l.i
      <3>1. k < l.i
        BY <1>2, <1>4, <2>1, <2>3
      <3>2. y.obs[k] = l.obs[k]
        BY <1>4, <1>7, <2>3
      <3> QED BY <1>1, <1>7, <3>1, <3>2 DEF PullSub, ScanInv, Passed, Scanning
    <2> QED BY <2>2, <2>3
  <1>11. RecInv(s)'
    BY <1>1, <1>4, <1>6, <1>7 DEF PullSub, RecInv, Scanning, cur
  <1>20. RecsFrom(s)
    BY <1>4, <1>6 DEF RecsFrom
  <1> QED BY <1>5, <1>6, <1>8, <1>9, <1>10, <1>11, <1>20 DEF SubNext, PullSub

(* The joiner copies the header and the payload.                            *)
LEMMA PullAtRead ==
  ASSUME RingInv, PullInv, NEW s \in Subs, PullHeader(s) \/ PullPayload(s) PROVE SubNext(s)
  <1> DEFINE l == loc[s]
  <1>0. l \in Locals /\ PullSub(s)
    BY DEF PullInv, SubType
  <1>1. /\ UNCHANGED <<sock, delivered, watermark, overlapped>>
        /\ UNCHANGED <<next_seq, next_index, rseq, whdr, wpay, pub>>
        /\ \/ /\ spc[s] = "hdr" /\ spc' = [spc EXCEPT ![s] = "pay"]
              /\ loc' = [loc EXCEPT ![s] = [l EXCEPT !.hdr = whdr[l.i]]]
           \/ /\ spc[s] = "pay" /\ spc' = [spc EXCEPT ![s] = "check"]
              /\ loc' = [loc EXCEPT ![s] = [l EXCEPT !.pay = wpay[l.i]]]
    BY DEF PullHeader, PullPayload, Sub, SetLoc, pubVars, ringVars
  <1>2. l.i \in Ring /\ whdr[l.i] \in Words /\ wpay[l.i] \in Words
    BY <1>0, <1>1 DEF PullSub, ReadInv, Reading, RingInv, PubType
  <1>3. PICK y \in Locals :
          /\ loc' = [loc EXCEPT ![s] = y]
          /\ y.i = l.i /\ y.s1 = l.s1 /\ y.obs = l.obs
          /\ y.recs = l.recs /\ y.max = l.max /\ y.cut = l.cut
          /\ spc[s] = "hdr" => y.hdr = whdr[l.i]
          /\ spc[s] = "pay" => y.hdr = l.hdr /\ y.pay = wpay[l.i]
    <2>1. CASE spc[s] = "hdr"
      <3> DEFINE y == [l EXCEPT !.hdr = whdr[l.i]]
      <3>1. /\ y \in Locals /\ y.i = l.i /\ y.s1 = l.s1 /\ y.obs = l.obs
            /\ y.recs = l.recs /\ y.max = l.max /\ y.cut = l.cut /\ y.hdr = whdr[l.i]
        BY <1>0, <1>2 DEF Locals
      <3> HIDE DEF y
      <3> QED BY <1>1, <2>1, <3>1 DEF y
    <2>2. CASE spc[s] = "pay"
      <3> DEFINE y == [l EXCEPT !.pay = wpay[l.i]]
      <3>1. /\ y \in Locals /\ y.i = l.i /\ y.s1 = l.s1 /\ y.obs = l.obs
            /\ y.recs = l.recs /\ y.max = l.max /\ y.cut = l.cut /\ y.hdr = l.hdr
            /\ y.pay = wpay[l.i]
        BY <1>0, <1>2 DEF Locals
      <3> HIDE DEF y
      <3> QED BY <1>1, <2>2, <3>1 DEF y
    <2> QED BY <1>1, <2>1, <2>2
  <1>4. SubType'
    BY <1>1, <1>3 DEF PullInv, SubType, Scanning, Reading
  <1>5. /\ SubOnly(s) /\ loc'[s] = y /\ delivered'[s] = delivered[s]
        /\ watermark'[s] = watermark[s]
        /\ \/ spc[s] = "hdr" /\ spc'[s] = "pay"
           \/ spc[s] = "pay" /\ spc'[s] = "check"
    BY <1>1, <1>3 DEF SubOnly, PullInv, SubType
  <1>6. PhaseInv(s)'
    BY <1>0, <1>3, <1>5 DEF PullSub, PhaseInv, Before, Joined
  <1>7. ReadInv(s)'
    BY <1>0, <1>1, <1>3, <1>5 DEF PullSub, ReadInv, Reading
  <1>8. ScanInv(s)'
    BY <1>0, <1>1, <1>3, <1>5 DEF PullSub, ScanInv, Passed, Scanning, Reading, Whole
  <1>9. RecInv(s)'
    BY <1>0, <1>1, <1>3, <1>5 DEF PullSub, RecInv, Scanning, Reading, cur
  <1>20. RecsFrom(s)
    BY <1>3, <1>5 DEF RecsFrom
  <1> QED BY <1>4, <1>5, <1>6, <1>7, <1>8, <1>9, <1>20 DEF SubNext, PullSub

(* The joiner compares the word again: what it copied is a record, or it    *)
(* tries again.                                                             *)
LEMMA PullAtCheck ==
  ASSUME RingInv, PullInv, NEW s \in Subs, PullCheck(s) PROVE SubNext(s)
  <1> DEFINE l == loc[s]
             r == [n |-> l.hdr, pay |-> l.pay]
             o == [l EXCEPT !.recs = @ \cup {r}, !.max = IF l.hdr > @ THEN l.hdr ELSE @]
  <1>0. l \in Locals /\ PullSub(s) /\ l.i \in Nat
    BY DEF PullInv, SubType, Locals
  <1>1. /\ UNCHANGED <<sock, delivered, watermark, overlapped>>
        /\ UNCHANGED <<next_seq, next_index, rseq, whdr, wpay, pub>>
        /\ spc[s] = "check" /\ spc' = [spc EXCEPT ![s] = "seq"]
        /\ \/ rseq[l.i] = l.s1 /\ loc' = [loc EXCEPT ![s] = NextSlot(o)]
           \/ rseq[l.i] # l.s1 /\ loc' = [loc EXCEPT ![s] = RetrySlot(l)]
    BY DEF PullCheck, Sub, SetLoc, pubVars, ringVars
  <1>2. /\ l.i \in Ring /\ l.s1 # 0 /\ l.s1 % 2 = 0 /\ l.s1 <= rseq[l.i] /\ l.obs[l.i] = l.s1
        /\ rseq[l.i] = l.s1 => l.hdr = whdr[l.i] /\ l.pay = wpay[l.i]
    BY <1>0, <1>1 DEF PullSub, ReadInv, Reading
  <1>3. PICK y \in Locals :
          /\ loc' = [loc EXCEPT ![s] = y] /\ y.obs = l.obs /\ y.cut = l.cut
          /\ \/ /\ rseq[l.i] = l.s1 /\ y.i = l.i + 1 /\ y.recs = l.recs \cup {r} /\ r \in Rec
                /\ r.n = whdr[l.i] /\ r.n = r.pay /\ r.n <= cur
                /\ y.max = IF r.n > l.max THEN r.n ELSE l.max
             \/ /\ rseq[l.i] # l.s1 /\ y.i \in {l.i, l.i + 1} /\ y.recs = l.recs
                /\ y.max = l.max
    <2>1. CASE rseq[l.i] = l.s1 /\ loc' = [loc EXCEPT ![s] = NextSlot(o)]
      <3>1. PICK j \in 1 .. next_index - 1 : Committed(l.i, j)
        BY <1>2, <2>1, WordOf DEF Whole
      <3>2. l.hdr = l.pay /\ l.hdr \in Samples /\ l.hdr = whdr[l.i] /\ l.hdr <= cur
        <4>1. whdr[l.i] = wpay[l.i] /\ whdr[l.i] \in Samples
          BY <3>1 DEF Committed
        <4>2. whdr[l.i] <= cur
          <5>1. next_index \in Int /\ next_seq \in Int /\ j \in Int /\ j <= next_index - 1
            BY TransientLocalAssumption DEF RingInv, PubType
          <5>2. whdr[l.i] \in Int /\ whdr[l.i] + (next_index - 1 - j) <= cur
            BY <3>1 DEF Committed, Samples
          <5> QED BY <5>1, <5>2 DEF cur
        <4> QED BY <1>2, <2>1, <4>1, <4>2
      <3>3. r \in Rec /\ r.n = l.hdr /\ r.pay = l.hdr /\ l.hdr \in Nat
        BY <3>2 DEF Rec, Samples
      <3> DEFINE v == IF r.n > l.max THEN r.n ELSE l.max
      <3>4. l.max \in Nat /\ l.recs \in SUBSET Rec /\ v \in Nat
        BY <1>0, <3>3 DEF Locals
      <3> HIDE DEF r
      <3>5. /\ o \in Locals /\ o.i = l.i /\ o.obs = l.obs /\ o.cut = l.cut
            /\ o.recs = l.recs \cup {r} /\ o.max = v
        BY <1>0, <3>3, <3>4 DEF Locals
      <3> HIDE DEF o, v
      <3>6. /\ NextSlot(o) \in Locals /\ NextSlot(o).i = l.i + 1 /\ NextSlot(o).obs = l.obs
            /\ NextSlot(o).recs = l.recs \cup {r} /\ NextSlot(o).max = v
            /\ NextSlot(o).cut = l.cut
        BY <3>5, NextSlotIs
      <3> QED BY <2>1, <3>2, <3>3, <3>6 DEF v
    <2>2. CASE rseq[l.i] # l.s1 /\ loc' = [loc EXCEPT ![s] = RetrySlot(l)]
      BY <1>0, <2>2, RetrySlotIs
    <2> QED BY <1>1, <2>1, <2>2
  <1> HIDE DEF r, o
  <1>4. SubType'
    BY <1>1, <1>3 DEF PullInv, SubType, Scanning, Reading
  <1>5. /\ SubOnly(s) /\ loc'[s] = y /\ delivered'[s] = delivered[s]
        /\ watermark'[s] = watermark[s] /\ spc'[s] = "seq"
    BY <1>1, <1>3 DEF SubOnly, PullInv, SubType
  <1>6. PhaseInv(s)'
    BY <1>0, <1>1, <1>3, <1>5 DEF PullSub, PhaseInv, Before, Joined
  <1>7. ReadInv(s)'
    BY <1>5 DEF ReadInv, Reading
  <1>8. ScanInv(s)'
    <2> SUFFICES ASSUME NEW k \in Ring, Passed(s, k)'
                 PROVE  /\ l.obs[k] <= rseq[k]
                        /\ l.obs[k] = rseq[k] /\ Whole(k) => whdr[k] \in Numbers(y.recs)
      BY <1>1, <1>3, <1>5 DEF ScanInv, Whole
    <2>1. k < y.i /\ k \in Nat
      BY <1>5 DEF Passed, Scanning, Reading, Ring
    <2>2. CASE k = l.i
      BY <1>2, <1>3, <2>2 DEF Numbers
    <2>3. CASE k # l.i
      <3>1. k < l.i
        BY <1>0, <1>3, <2>1, <2>3
      <3>2. /\ l.obs[k] <= rseq[k]
            /\ l.obs[k] = rseq[k] /\ Whole(k) => whdr[k] \in Numbers(l.recs)
        BY <1>0, <1>1, <3>1 DEF PullSub, ScanInv, Passed, Scanning, Reading
      <3> QED BY <1>3, <3>2 DEF Numbers
    <2> QED BY <2>2, <2>3
  <1>9. RecInv(s)'
    <2>1. \A x \in l.recs : x.n = x.pay /\ x.n <= cur /\ x.n <= l.max /\ x.n \in Nat
      BY <1>0 DEF PullSub, RecInv, Locals, Rec, Samples
    <2>2. l.max \in Numbers(l.recs) \cup {0} /\ l.max \in Nat
      BY <1>0, <1>1 DEF PullSub, RecInv, Scanning, Reading, Locals
    <2>3. \A x \in y.recs : x.n = x.pay /\ x.n <= cur /\ x.n <= y.max
      BY <1>3, <2>1, <2>2 DEF Rec, Samples
    <2>4. y.max \in Numbers(y.recs) \cup {0}
      BY <1>3, <2>2 DEF Numbers
    <2> QED BY <1>0, <1>1, <1>5, <2>3, <2>4 DEF PullSub, RecInv, cur
  <1>20. RecsFrom(s)
    BY <1>2, <1>3, <1>5 DEF RecsFrom, Whole
  <1> QED BY <1>4, <1>5, <1>6, <1>7, <1>8, <1>9, <1>20 DEF SubNext, PullSub

(* The scan ends, and every word is looked at once more.                    *)
LEMMA PullAtEnd ==
  ASSUME RingInv, PullInv, NEW s \in Subs, PullScanned(s) \/ PullRecheck(s) PROVE SubNext(s)
  <1> DEFINE l == loc[s]
  <1>0. l \in Locals /\ PullSub(s) /\ l.i \in Nat
    BY DEF PullInv, SubType, Locals
  <1>1. /\ UNCHANGED <<sock, delivered, watermark>>
        /\ UNCHANGED <<next_seq, next_index, rseq, whdr, wpay, pub>>
        /\ overlapped' \in [Subs -> BOOLEAN]
        /\ \/ /\ spc[s] = "seq" /\ l.i >= Slots /\ spc' = [spc EXCEPT ![s] = "recheck"]
              /\ loc' = [loc EXCEPT ![s] = [l EXCEPT !.i = 0]]
           \/ /\ spc[s] = "recheck" /\ l.i < Slots /\ loc' = [loc EXCEPT ![s] = [l EXCEPT !.i = l.i + 1]]
              /\ \/ spc' = [spc EXCEPT ![s] = "trim"]
                 \/ spc' = [spc EXCEPT ![s] = "recheck"] /\ l.i + 1 # Slots
    <2>1. CASE PullScanned(s)
      BY <2>1 DEF PullScanned, Sub, SetLoc, pubVars, ringVars, PullInv, SubType
    <2>2. CASE PullRecheck(s)
      BY <2>2 DEF PullRecheck, Sub, SetLoc, pubVars, ringVars, PullInv, SubType
    <2> QED BY <2>1, <2>2
  <1>2. PICK y \in Locals :
          /\ loc' = [loc EXCEPT ![s] = y] /\ y.obs = l.obs /\ y.cut = l.cut
          /\ y.recs = l.recs /\ y.max = l.max
          /\ spc[s] = "seq" => y.i = 0
          /\ spc[s] = "recheck" => y.i = l.i + 1
    <2>1. CASE spc[s] = "seq"
      <3> DEFINE y == [l EXCEPT !.i = 0]
      <3>1. /\ y \in Locals /\ y.i = 0 /\ y.obs = l.obs
            /\ y.recs = l.recs /\ y.max = l.max /\ y.cut = l.cut
        BY <1>0 DEF Locals
      <3> HIDE DEF y
      <3> QED BY <1>1, <2>1, <3>1 DEF y
    <2>2. CASE spc[s] = "recheck"
      <3> DEFINE y == [l EXCEPT !.i = l.i + 1]
      <3>1. /\ y \in Locals /\ y.i = l.i + 1 /\ y.obs = l.obs
            /\ y.recs = l.recs /\ y.max = l.max /\ y.cut = l.cut
        BY <1>0 DEF Locals
      <3> HIDE DEF y
      <3> QED BY <1>1, <2>2, <3>1 DEF y
    <2> QED BY <1>1, <2>1, <2>2
  <1>3. SubType'
    BY <1>1, <1>2 DEF PullInv, SubType
  <1>4. /\ SubOnly(s) /\ loc'[s] = y /\ delivered'[s] = delivered[s]
        /\ watermark'[s] = watermark[s] /\ spc'[s] \in {"recheck", "trim"}
        /\ spc'[s] = "recheck" => spc[s] = "seq" \/ l.i + 1 < Slots
    <2>1. spc'[s] = "recheck" => spc[s] = "seq" \/ (l.i < Slots /\ l.i + 1 # Slots)
      BY <1>1 DEF PullInv, SubType
    <2>2. l.i < Slots /\ l.i + 1 # Slots => l.i + 1 < Slots
      BY <1>0, TransientLocalAssumption
    <2> QED BY <1>1, <1>2, <2>1, <2>2 DEF SubOnly, PullInv, SubType
  <1>5. PhaseInv(s)'
    <2>1. spc[s] = "seq" \/ spc[s] = "recheck"
      BY <1>1
    <2>2. y.i < Slots \/ spc'[s] # "recheck"
      BY <1>0, <1>2, <1>4, <2>1, TransientLocalAssumption
    <2> QED BY <1>0, <1>2, <1>4, <2>1, <2>2 DEF PullSub, PhaseInv, Before, Joined
  <1>6. ReadInv(s)'
    BY <1>4 DEF ReadInv, Reading
  <1>7. ScanInv(s)'
    <2>1. \A k \in Ring : Passed(s, k)
      BY <1>0, <1>1, TransientLocalAssumption DEF Passed, Scanning, Ring
    <2> QED BY <1>0, <1>1, <1>2, <1>4, <2>1 DEF PullSub, ScanInv, Whole
  <1>8. RecInv(s)'
    <2>1. spc[s] = "seq" \/ spc[s] = "recheck"
      BY <1>1
    <2> QED BY <1>0, <1>1, <1>2, <1>4, <2>1 DEF PullSub, RecInv, Scanning, cur
  <1>20. RecsFrom(s)
    BY <1>2, <1>4 DEF RecsFrom
  <1> QED BY <1>3, <1>4, <1>5, <1>6, <1>7, <1>8, <1>20 DEF SubNext, PullSub

-----------------------------------------------------------------------------
(* Sets of sample numbers.                                                  *)

(* A set of numbers that is not empty has a least one.                      *)
LEMMA Least ==
  ASSUME NEW S \in SUBSET Nat, S # {}
  PROVE  \E m \in S : \A t \in S : m <= t
  <1>1. OpToRel(<, Nat) = {ss \in Nat \X Nat : ss[1] < ss[2]}
    BY Zenon DEF OpToRel
  <1> DEFINE R == {ss \in Nat \X Nat : ss[1] < ss[2]}
  <1>2. IsWellFoundedOn(R, Nat)
    BY <1>1, NatLessThanWellFounded, Zenon
  <1> HIDE DEF R
  <1>3. PICK m \in S : \A y \in S : ~(<<y, m>> \in R)
    BY <1>2, WFMin, Zenon
  <1>4. ASSUME NEW t \in S PROVE m <= t
    <2>1. m \in Nat /\ t \in Nat /\ <<t, m>> \in Nat \X Nat
      OBVIOUS
    <2>2. <<t, m>>[1] = t /\ <<t, m>>[2] = m
      OBVIOUS
    <2>3. ~(t < m)
      BY <1>3, <2>1, <2>2, Zenon DEF R
    <2> QED BY <2>1, <2>3
  <1> QED BY <1>4

(* ... and, among the samples, a greatest one.                              *)
LEMMA Greatest ==
  ASSUME NEW S \in SUBSET Samples, S # {}
  PROVE  \E m \in S : \A t \in S : t <= m
  <1> DEFINE T == {MaxSamples - n : n \in S}
  <1>0. MaxSamples \in Nat /\ \A n \in S : n \in Nat /\ n <= MaxSamples
    BY TransientLocalAssumption DEF Samples
  <1>1. T \in SUBSET Nat /\ T # {}
    BY <1>0
  <1> HIDE DEF T
  <1>2. PICK d \in T : \A t \in T : d <= t
    BY <1>1, Least
  <1>3. PICK m \in S : d = MaxSamples - m
    BY <1>2 DEF T
  <1>4. ASSUME NEW t \in S PROVE t <= m
    <2>1. MaxSamples - t \in T
      BY <1>4 DEF T
    <2>2. MaxSamples - m <= MaxSamples - t
      BY <1>2, <1>3, <2>1
    <2> QED BY <1>0, <2>2
  <1> QED BY <1>4

(* MaxOf is the greatest ...                                                *)
LEMMA MaxOfIs ==
  ASSUME NEW S \in SUBSET Samples, S # {}
  PROVE  MaxOf(S) \in S /\ \A n \in S : n <= MaxOf(S)
  BY Greatest DEF MaxOf

(* ... and MinOf the least.                                                 *)
LEMMA MinOfIs ==
  ASSUME NEW S \in SUBSET Samples, S # {}
  PROVE  MinOf(S) \in S /\ \A n \in S : MinOf(S) <= n
  <1>1. S \in SUBSET Nat
    BY DEF Samples
  <1> QED BY <1>1, Least DEF MinOf

(* Sets of samples are finite.                                              *)
LEMMA FiniteSamples ==
  ASSUME NEW S \in SUBSET Samples PROVE IsFiniteSet(S) /\ Cardinality(S) \in Nat
  <1>1. IsFiniteSet(Samples)
    BY FS_Interval, TransientLocalAssumption DEF Samples
  <1>2. IsFiniteSet(S)
    BY <1>1, FS_Subset
  <1> QED BY <1>2, FS_CardinalityType

(* The newest records keep the newest.                                      *)
LEMMA NewestHas ==
  ASSUME NEW S \in SUBSET Samples, S # {}
  PROVE  /\ Newest(S, QueueDepth) \subseteq S /\ MaxOf(S) \in Newest(S, QueueDepth)
  <1>1. MaxOf(S) \in S /\ \A n \in S : n <= MaxOf(S)
    BY MaxOfIs
  <1>2. {m \in S : m > MaxOf(S)} = {}
    <2>1. \A n \in S : n \in Int
      BY DEF Samples
    <2>2. \A n \in S : ~(n > MaxOf(S))
      BY <1>1, <2>1
    <2> QED BY <2>2
  <1>3. Cardinality({m \in S : m > MaxOf(S)}) = 0
    BY <1>2, FS_EmptySet
  <1>4. QueueDepth > 0
    BY TransientLocalAssumption
  <1> QED BY <1>1, <1>3, <1>4 DEF Newest

(* The numbers of records, and of what PullTrim keeps of them.              *)
LEMMA NumbersType ==
  ASSUME NEW R \in SUBSET Rec
  PROVE  /\ Numbers(R) \in SUBSET Samples
         /\ R # {} => Numbers(R) # {}
         /\ Numbers(NewestRecs(R)) = Newest(Numbers(R), QueueDepth) /\ NewestRecs(R) \subseteq R
  <1>1. Numbers(R) \in SUBSET Samples /\ (R # {} => Numbers(R) # {})
    BY DEF Numbers, Rec
  <1>2. Numbers(NewestRecs(R)) = Newest(Numbers(R), QueueDepth)
    BY DEF Numbers, NewestRecs, Newest
  <1> QED BY <1>1, <1>2 DEF NewestRecs

(* What PullTrim keeps.                                                     *)
Kept(R, o) == IF o THEN Prefix(NewestRecs(R)) ELSE NewestRecs(R)

(* PullTrim keeps some of the records, and at least one.                    *)
LEMMA KeptOf ==
  ASSUME NEW R \in SUBSET Rec, R # {}, NEW o \in BOOLEAN
  PROVE  Kept(R, o) \subseteq R /\ Kept(R, o) # {}
  <1> DEFINE N == NewestRecs(R)
  <1>1. N \in SUBSET Rec /\ N \subseteq R /\ Numbers(N) # {}
    <2>1. /\ Numbers(R) \in SUBSET Samples /\ Numbers(R) # {}
          /\ Numbers(N) = Newest(Numbers(R), QueueDepth) /\ N \subseteq R
      BY NumbersType
    <2>2. Newest(Numbers(R), QueueDepth) # {}
      BY <2>1, NewestHas
    <2> QED BY <2>1, <2>2
  <1> HIDE DEF N
  <1>2. Numbers(N) \in SUBSET Samples
    BY <1>1, NumbersType
  <1>3. MinOf(Numbers(N)) \in Numbers(N) /\ \A n \in Numbers(N) : MinOf(Numbers(N)) <= n
    BY <1>1, <1>2, MinOfIs
  <1>4. PICK r \in N : r.n = MinOf(Numbers(N))
    BY <1>3 DEF Numbers
  <1>5. \A m \in Numbers(N) : ~(m < r.n)
    BY <1>2, <1>3, <1>4 DEF Samples
  <1>6. r \in Prefix(N)
    BY <1>4, <1>5 DEF Prefix
  <1>7. Prefix(N) \subseteq N
    BY DEF Prefix
  <1> QED BY <1>1, <1>4, <1>6, <1>7 DEF Kept, N

-----------------------------------------------------------------------------
(* The end of a pull, and the life of a subscription after it.              *)

(* The newest records are kept for the replay.                              *)
LEMMA PullAtTrim ==
  ASSUME RingInv, PullInv, NEW s \in Subs, PullTrim(s) PROVE SubNext(s)
  <1> DEFINE l == loc[s]
             kept == Kept(l.recs, overlapped[s])
             m == IF overlapped[s] THEN MaxOf(Numbers(kept)) ELSE l.max
  <1>0. l \in Locals /\ PullSub(s) /\ l.recs \in SUBSET Rec /\ overlapped[s] \in BOOLEAN
        /\ l.max \in Nat
    BY DEF PullInv, SubType, Locals
  <1>1. /\ UNCHANGED <<sock, delivered, watermark, overlapped>>
        /\ UNCHANGED <<next_seq, next_index, rseq, whdr, wpay, pub>>
        /\ spc[s] = "trim"
        /\ \/ l.recs = {} /\ spc' = [spc EXCEPT ![s] = "ready"] /\ loc' = [loc EXCEPT ![s] = NoLocals]
           \/ /\ l.recs # {} /\ spc' = [spc EXCEPT ![s] = "enqueue"]
              /\ loc' = [loc EXCEPT ![s] = [NoLocals EXCEPT !.recs = kept, !.max = m]]
    BY DEF PullTrim, Kept, Sub, SetLoc, pubVars, ringVars
  <1>2. ASSUME l.recs # {}
        PROVE  /\ kept \in SUBSET Rec /\ kept \subseteq l.recs /\ m \in Nat
               /\ \A r \in kept : r.n <= m
    <2>1. kept \subseteq l.recs /\ kept # {}
      BY <1>0, <1>2, KeptOf
    <2>2. kept \in SUBSET Rec
      BY <1>0, <2>1
    <2> HIDE DEF kept
    <2>3. Numbers(kept) \in SUBSET Samples /\ Numbers(kept) # {}
      BY <2>1, <2>2, NumbersType
    <2>4. MaxOf(Numbers(kept)) \in Nat /\ \A r \in kept : r.n <= MaxOf(Numbers(kept))
      BY <2>3, MaxOfIs DEF Samples, Numbers
    <2>5. \A r \in kept : r.n <= l.max
      BY <1>0, <2>1 DEF PullSub, RecInv
    <2> QED BY <1>0, <2>1, <2>2, <2>4, <2>5
  <1>3. PICK y \in Locals :
          /\ loc' = [loc EXCEPT ![s] = y] /\ ~y.cut
          /\ \A r \in y.recs : r \in l.recs /\ r.n <= y.max
          /\ \/ spc' = [spc EXCEPT ![s] = "ready"] /\ y.recs = {}
             \/ spc' = [spc EXCEPT ![s] = "enqueue"]
    <2>1. CASE l.recs = {}
      <3>1. NoLocals.recs = {} /\ NoLocals.cut = FALSE
        BY DEF NoLocals
      <3> QED BY <1>1, <2>1, <3>1, NoLocalsType
    <2>2. CASE l.recs # {}
      <3> DEFINE y == [NoLocals EXCEPT !.recs = kept, !.max = m]
      <3> HIDE DEF kept, m
      <3>1. y \in Locals /\ y.recs = kept /\ y.max = m /\ y.cut = FALSE
        BY <1>2, <2>2, NoLocalsType DEF Locals, NoLocals
      <3> HIDE DEF y
      <3> QED BY <1>1, <1>2, <2>2, <3>1 DEF y
    <2> QED BY <2>1, <2>2
  <1> HIDE DEF kept, m
  <1>4. SubType'
    BY <1>1, <1>3 DEF PullInv, SubType, Joined
  <1>5. /\ SubOnly(s) /\ loc'[s] = y /\ delivered'[s] = delivered[s]
        /\ watermark'[s] = watermark[s]
        /\ (spc'[s] = "ready" /\ y.recs = {}) \/ spc'[s] = "enqueue"
    BY <1>1, <1>3 DEF SubOnly, PullInv, SubType
  <1>6. PhaseInv(s)'
    BY <1>0, <1>1, <1>3, <1>5 DEF PullSub, PhaseInv, Before, Joined
  <1>7. ReadInv(s)' /\ ScanInv(s)'
    BY <1>5 DEF ReadInv, ScanInv, Passed, Scanning, Reading
  <1>8. RecInv(s)'
    BY <1>0, <1>1, <1>3, <1>5 DEF PullSub, RecInv, Scanning, Reading, cur
  <1>20. RecsFrom(s)
    BY <1>3, <1>5 DEF RecsFrom
  <1> QED BY <1>4, <1>5, <1>6, <1>7, <1>8, <1>20 DEF SubNext, PullSub

(* The oldest record of a set.                                              *)
Oldest(R) == CHOOSE x \in R : x.n = MinOf(Numbers(R))

(* Oldest is one of the records, and none is older.                         *)
LEMMA OldestIs ==
  ASSUME NEW R \in SUBSET Rec, R # {}
  PROVE  Oldest(R) \in R /\ \A r \in R : Oldest(R).n <= r.n
  <1>1. Numbers(R) \in SUBSET Samples /\ Numbers(R) # {}
    BY NumbersType
  <1>2. MinOf(Numbers(R)) \in Numbers(R) /\ \A n \in Numbers(R) : MinOf(Numbers(R)) <= n
    BY <1>1, MinOfIs
  <1>3. \E x \in R : x.n = MinOf(Numbers(R))
    BY <1>2 DEF Numbers
  <1>4. Oldest(R) \in R /\ Oldest(R).n = MinOf(Numbers(R))
    BY <1>3 DEF Oldest
  <1> QED BY <1>2, <1>4 DEF Numbers

(* What the replay does with the oldest record.                             *)
Replays(s) ==
  LET l == loc[s]
      r == Oldest(l.recs)
      y == loc'[s]
  IN \/ /\ y.recs = l.recs \ {r} /\ y.max = l.max /\ y.cut = l.cut /\ Resolvable(r)
        /\ delivered' = [delivered EXCEPT ![s] = Append(@, r)]
     \/ /\ y.recs = {} /\ y.max = r.n - 1 /\ y.cut /\ ~Resolvable(r)
        /\ delivered' = delivered

(* PullEnqueue replays the oldest record and changes nothing else.          *)
LEMMA EnqueueDoes ==
  ASSUME PullInv, NEW s \in Subs, PullEnqueue(s)
  PROVE  /\ loc[s].recs # {} /\ spc[s] = "enqueue" /\ spc' = spc
         /\ loc' \in [Subs -> Locals] /\ \A t \in Subs \ {s} : loc'[t] = loc[t]
         /\ delivered' \in [Subs -> Seq(Rec)]
         /\ \A t \in Subs \ {s} : delivered'[t] = delivered[t]
         /\ Oldest(loc[s].recs) \in loc[s].recs /\ Oldest(loc[s].recs) \in Rec
         /\ \A x \in loc[s].recs : Oldest(loc[s].recs).n <= x.n
         /\ Replays(s)
         /\ UNCHANGED <<registry, pubMem, pubVars, ringVars, sock, watermark, overlapped, owed>>
  <1> DEFINE l == loc[s]
             r == Oldest(l.recs)
  <1>0. l \in Locals /\ l.recs \in SUBSET Rec /\ l.max \in Nat
    BY DEF PullInv, SubType, Locals
  <1>1. /\ l.recs # {} /\ spc[s] = "enqueue" /\ spc' = [spc EXCEPT ![s] = "enqueue"]
        /\ \/ /\ Resolvable(r) /\ loc' = [loc EXCEPT ![s] = [l EXCEPT !.recs = @ \ {r}]]
              /\ delivered' = [delivered EXCEPT ![s] = Append(@, r)]
           \/ /\ ~Resolvable(r)
              /\ loc' = [loc EXCEPT ![s] = [l EXCEPT !.recs = {}, !.max = r.n - 1, !.cut = TRUE]]
              /\ UNCHANGED delivered
        /\ UNCHANGED <<registry, pubMem, pubVars, ringVars, sock, watermark, overlapped, owed>>
    BY DEF PullEnqueue, Sub, SetLoc, Oldest
  <1>2. r \in l.recs /\ \A x \in l.recs : r.n <= x.n
    BY <1>0, <1>1, OldestIs
  <1>3. r \in Rec /\ r.n - 1 \in Nat
    BY <1>0, <1>2 DEF Rec, Samples
  <1> HIDE DEF r
  <1>4. PICK y \in Locals :
          /\ loc' = [loc EXCEPT ![s] = y]
          /\ \/ /\ y.recs = l.recs \ {r} /\ y.max = l.max /\ y.cut = l.cut /\ Resolvable(r)
                /\ delivered' = [delivered EXCEPT ![s] = Append(@, r)]
             \/ /\ y.recs = {} /\ y.max = r.n - 1 /\ y.cut /\ ~Resolvable(r)
                /\ delivered' = delivered
    <2>1. CASE Resolvable(r)
      <3> DEFINE y == [l EXCEPT !.recs = @ \ {r}]
      <3>1. y \in Locals /\ y.recs = l.recs \ {r} /\ y.max = l.max /\ y.cut = l.cut
        BY <1>0 DEF Locals
      <3> HIDE DEF y
      <3> QED BY <1>1, <2>1, <3>1 DEF y
    <2>2. CASE ~Resolvable(r)
      <3> DEFINE y == [l EXCEPT !.recs = {}, !.max = r.n - 1, !.cut = TRUE]
      <3>1. y \in Locals /\ y.recs = {} /\ y.max = r.n - 1 /\ y.cut
        BY <1>0, <1>3 DEF Locals
      <3> HIDE DEF y
      <3> QED BY <1>1, <2>2, <3>1 DEF y
    <2> QED BY <2>1, <2>2
  <1>5. spc' = spc /\ loc' \in [Subs -> Locals] /\ loc'[s] = y
        /\ \A t \in Subs \ {s} : loc'[t] = loc[t]
    BY <1>1, <1>4 DEF PullInv, SubType
  <1>6. delivered' \in [Subs -> Seq(Rec)] /\ \A t \in Subs \ {s} : delivered'[t] = delivered[t]
    <2>1. delivered \in [Subs -> Seq(Rec)]
      BY DEF PullInv, SubType
    <2>2. Append(delivered[s], r) \in Seq(Rec)
      BY <1>3, <2>1
    <2> QED BY <1>4, <2>1, <2>2
  <1>7. Replays(s)
    BY <1>4, <1>5 DEF Replays, r
  <1> QED BY <1>1, <1>2, <1>3, <1>5, <1>6, <1>7 DEF r

(* A record is replayed, or the replay is cut.                              *)
LEMMA PullAtEnqueue ==
  ASSUME RingInv, PullInv, NEW s \in Subs, PullEnqueue(s) PROVE SubNext(s)
  <1> DEFINE l == loc[s]
             r == Oldest(l.recs)
             y == loc'[s]
  <1>0. PullSub(s) /\ delivered[s] \in Seq(Rec) /\ l.recs \in SUBSET Rec
    BY DEF PullInv, SubType, Locals
  <1>1. /\ l.recs # {} /\ spc[s] = "enqueue" /\ spc' = spc
        /\ loc' \in [Subs -> Locals] /\ \A t \in Subs \ {s} : loc'[t] = loc[t]
        /\ delivered' \in [Subs -> Seq(Rec)]
        /\ \A t \in Subs \ {s} : delivered'[t] = delivered[t]
        /\ r \in l.recs /\ r \in Rec /\ \A x \in l.recs : r.n <= x.n
        /\ UNCHANGED <<sock, watermark, overlapped>>
        /\ UNCHANGED <<next_seq, next_index, rseq, whdr, wpay, pub>>
    BY EnqueueDoes DEF pubVars, ringVars
  <1>2. \/ /\ y.recs = l.recs \ {r} /\ y.max = l.max /\ delivered'[s] = Append(delivered[s], r)
        \/ y.recs = {} /\ delivered'[s] = delivered[s]
    BY EnqueueDoes DEF Replays, PullInv, SubType
  <1> HIDE DEF r, y
  <1>3. SubType'
    BY <1>1 DEF PullInv, SubType
  <1>4. SubOnly(s)
    BY <1>1 DEF SubOnly
  <1>5. PhaseInv(s)'
    BY <1>0, <1>1 DEF PullSub, PhaseInv, Before, Joined
  <1>6. ReadInv(s)' /\ ScanInv(s)'
    BY <1>1 DEF ReadInv, ScanInv, Passed, Scanning, Reading
  <1>7. RecInv(s)'
    <2>1. \A x \in y.recs : x.n = x.pay /\ x.n <= cur /\ x.n <= y.max
      BY <1>0, <1>2 DEF PullSub, RecInv
    <2>2. r.n = r.pay
      BY <1>0, <1>1 DEF PullSub, RecInv
    <2>3. \A k \in 1 .. Len(delivered'[s]) : delivered'[s][k].n = delivered'[s][k].pay
      <3>1. \A k \in 1 .. Len(delivered[s]) : delivered[s][k].n = delivered[s][k].pay
        BY <1>0 DEF PullSub, RecInv
      <3>2. CASE delivered'[s] = Append(delivered[s], r)
        BY <1>0, <1>1, <2>2, <3>1, <3>2
      <3> QED BY <1>2, <3>1, <3>2
    <2> QED BY <1>1, <2>1, <2>3 DEF RecInv, Scanning, Reading, cur, y
  <1>20. RecsFrom(s)
    BY <1>2 DEF RecsFrom, y
  <1> QED BY <1>3, <1>4, <1>5, <1>6, <1>7, <1>20 DEF SubNext, PullSub

(* The pull ends, and the watermark stands for it.                          *)
LEMMA PullAtWatermark ==
  ASSUME RingInv, PullInv, NEW s \in Subs, PullWatermark(s) PROVE SubNext(s)
  <1> DEFINE l == loc[s]
             y == [NoLocals EXCEPT !.cut = l.cut]
  <1>0. PullSub(s) /\ l \in Locals /\ l.max \in Nat /\ l.cut \in BOOLEAN
    BY DEF PullInv, SubType, Locals
  <1>1. /\ l.recs = {} /\ spc[s] = "enqueue" /\ spc' = [spc EXCEPT ![s] = "ready"]
        /\ watermark' = [watermark EXCEPT ![s] = l.max] /\ loc' = [loc EXCEPT ![s] = y]
        /\ UNCHANGED <<sock, delivered, overlapped>>
        /\ UNCHANGED <<next_seq, next_index, rseq, whdr, wpay, pub>>
    BY DEF PullWatermark, Sub, SetLoc, pubVars, ringVars
  <1>2. y \in Locals /\ y.recs = {}
    BY <1>0, NoLocalsType DEF Locals, NoLocals
  <1> HIDE DEF y
  <1>3. SubType'
    BY <1>0, <1>1, <1>2 DEF PullInv, SubType, Joined
  <1>4. SubOnly(s) /\ spc'[s] = "ready" /\ loc'[s] = y
    BY <1>1 DEF SubOnly, PullInv, SubType
  <1>5. PhaseInv(s)' /\ ReadInv(s)' /\ ScanInv(s)'
    BY <1>2, <1>4 DEF PhaseInv, ReadInv, ScanInv, Passed, Before, Joined, Scanning, Reading
  <1>6. RecInv(s)'
    BY <1>0, <1>1, <1>2, <1>4 DEF PullSub, RecInv, Scanning, Reading
  <1>20. RecsFrom(s)
    BY <1>2, <1>4 DEF RecsFrom
  <1> QED BY <1>3, <1>4, <1>5, <1>6, <1>20 DEF SubNext, PullSub

(* What drain_subscription does with a datagram.                            *)
LEMMA DrainDoes ==
  ASSUME PullInv, NEW s \in Subs, Drain(s)
  PROVE  /\ spc[s] = "ready" /\ sock[s] # <<>> /\ sock' = [sock EXCEPT ![s] = Tail(@)]
         /\ sock' \in [Subs -> Seq(Dgram)] /\ delivered' \in [Subs -> Seq(Rec)]
         /\ Head(sock[s]) \in Dgram
         /\ \/ delivered' = delivered
            \/ /\ Head(sock[s]).n > watermark[s]
               /\ delivered' = [delivered EXCEPT ![s] =
                                  Append(@, [n |-> Head(sock[s]).n, pay |-> Head(sock[s]).n])]
         /\ \A t \in Subs \ {s} : delivered'[t] = delivered[t] /\ sock'[t] = sock[t]
         /\ UNCHANGED <<registry, pubMem, pubVars, ringVars, spc, loc, watermark, overlapped, owed>>
  <1> DEFINE m == Head(sock[s])
             r == [n |-> m.n, pay |-> m.n]
  <1>0. sock \in [Subs -> Seq(Dgram)] /\ delivered \in [Subs -> Seq(Rec)]
    BY DEF PullInv, SubType
  <1>1. /\ spc[s] = "ready" /\ sock[s] # <<>> /\ sock' = [sock EXCEPT ![s] = Tail(@)]
        /\ \/ delivered' = delivered
           \/ m.n > watermark[s] /\ delivered' = [delivered EXCEPT ![s] = Append(@, r)]
        /\ UNCHANGED <<registry, pubMem, pubVars, ringVars, spc, loc, watermark, overlapped, owed>>
    BY DEF Drain
  <1>2. m \in Dgram /\ Tail(sock[s]) \in Seq(Dgram)
    BY <1>0, <1>1
  <1>3. r \in Rec
    BY <1>2 DEF Rec, Dgram
  <1>4. Append(delivered[s], r) \in Seq(Rec)
    BY <1>0, <1>3
  <1>5. sock' \in [Subs -> Seq(Dgram)] /\ \A t \in Subs \ {s} : sock'[t] = sock[t]
    BY <1>0, <1>1, <1>2
  <1>6. delivered' \in [Subs -> Seq(Rec)] /\ \A t \in Subs \ {s} : delivered'[t] = delivered[t]
    <2> HIDE DEF r, m
    <2> QED BY <1>0, <1>1, <1>4
  <1> QED BY <1>1, <1>2, <1>5, <1>6

(* A datagram is drained.                                                   *)
LEMMA PullAtDrain ==
  ASSUME RingInv, PullInv, NEW s \in Subs, Drain(s) PROVE SubNext(s)
  <1> DEFINE m == Head(sock[s])
             r == [n |-> m.n, pay |-> m.n]
  <1>0. PullSub(s) /\ delivered[s] \in Seq(Rec)
    BY DEF PullInv, SubType
  <1>1. /\ spc[s] = "ready" /\ sock' \in [Subs -> Seq(Dgram)] /\ delivered' \in [Subs -> Seq(Rec)]
        /\ delivered'[s] = delivered[s] \/ delivered'[s] = Append(delivered[s], r)
        /\ \A t \in Subs \ {s} : delivered'[t] = delivered[t]
        /\ UNCHANGED <<spc, loc, watermark, overlapped>>
        /\ UNCHANGED <<next_seq, next_index, rseq, whdr, wpay, pub>>
    BY DrainDoes DEF PullInv, SubType, pubVars, ringVars
  <1>2. SubType' /\ SubOnly(s)
    BY <1>1 DEF PullInv, SubType, SubOnly
  <1>3. PhaseInv(s)' /\ ReadInv(s)' /\ ScanInv(s)'
    BY <1>0, <1>1 DEF PullSub, PhaseInv, ReadInv, ScanInv, Passed, Before, Joined, Scanning,
       Reading
  <1>4. \A k \in 1 .. Len(delivered'[s]) : delivered'[s][k].n = delivered'[s][k].pay
    <2>1. \A k \in 1 .. Len(delivered[s]) : delivered[s][k].n = delivered[s][k].pay
      BY <1>0 DEF PullSub, RecInv
    <2>2. r.n = r.pay
      OBVIOUS
    <2> HIDE DEF r
    <2>3. CASE delivered'[s] = Append(delivered[s], r)
      <3>1. /\ Len(Append(delivered[s], r)) = Len(delivered[s]) + 1
            /\ \A k \in 1 .. Len(delivered[s]) : Append(delivered[s], r)[k] = delivered[s][k]
            /\ Append(delivered[s], r)[Len(delivered[s]) + 1] = r /\ Len(delivered[s]) \in Nat
        BY <1>0
      <3> QED BY <2>1, <2>2, <2>3, <3>1
    <2> QED BY <1>1, <2>1, <2>3
  <1>5. RecInv(s)'
    BY <1>0, <1>1, <1>4 DEF PullSub, RecInv, cur
  <1>20. RecsFrom(s)
    BY <1>1 DEF RecsFrom
  <1> QED BY <1>2, <1>3, <1>5, <1>20 DEF SubNext, PullSub

(* rmw_take and the destruction of a subscription.                          *)
LEMMA PullAtLeave ==
  ASSUME RingInv, PullInv, NEW s \in Subs, Take(s) \/ SubUnlist(s) \/ SubClose(s)
  PROVE  SubNext(s)
  <1>0. PullSub(s)
    BY DEF PullInv
  <1>1. PICK x \in Joined :
          /\ spc[s] \in Joined /\ spc' = [spc EXCEPT ![s] = x]
          /\ sock' = sock \/ sock' = [sock EXCEPT ![s] = <<>>]
          /\ UNCHANGED <<loc, delivered, watermark, overlapped>>
          /\ UNCHANGED <<next_seq, next_index, rseq, whdr, wpay, pub>>
    BY DEF Take, SubUnlist, SubClose, Sub, Joined, pubVars, ringVars, PullInv, SubType
  <1>2. SubType' /\ SubOnly(s) /\ spc'[s] = x
    <2>1. sock \in [Subs -> Seq(Dgram)] /\ <<>> \in Seq(Dgram)
      BY DEF PullInv, SubType
    <2>2. sock' \in [Subs -> Seq(Dgram)]
      BY <1>1, <2>1
    <2>3. SubType' /\ spc'[s] = x
      BY <1>1, <2>2 DEF PullInv, SubType
    <2> QED BY <1>1, <2>3 DEF PullInv, SubType, SubOnly
  <1>3. PhaseInv(s)' /\ ReadInv(s)' /\ ScanInv(s)'
    BY <1>0, <1>1, <1>2 DEF PullSub, PhaseInv, ReadInv, ScanInv, Passed, Before, Joined, Scanning,
       Reading
  <1>4. RecInv(s)'
    BY <1>0, <1>1, <1>2 DEF PullSub, RecInv, cur, Joined, Scanning, Reading
  <1>20. RecsFrom(s)
    BY <1>1 DEF RecsFrom
  <1> QED BY <1>2, <1>3, <1>4, <1>20 DEF SubNext, PullSub

(* The publisher's sends are datagrams.                                     *)
LEMMA SendDoes ==
  ASSUME RingInv, PullInv, NEW s \in Subs, Send(s)
  PROVE  /\ sock' \in [Subs -> Seq(Dgram)] /\ Datagram \in Dgram
         /\ sock'[s] = sock[s] \/ sock'[s] = Append(sock[s], Datagram)
         /\ \A t \in Subs \ {s} : sock'[t] = sock[t]
  <1>1. /\ pub = "send"
        /\ sock' = IF Sendable(s) THEN [sock EXCEPT ![s] = Append(@, Datagram)] ELSE sock
    BY DEF Send
  <1>2. cur \in Samples
    BY <1>1, TransientLocalAssumption DEF RingInv, PubType, cur, Samples
  <1>3. Datagram \in Dgram
    BY <1>2 DEF Datagram, Dgram
  <1>4. sock \in [Subs -> Seq(Dgram)]
    BY DEF PullInv, SubType
  <1>5. Append(sock[s], Datagram) \in Seq(Dgram)
    BY <1>3, <1>4
  <1> QED BY <1>1, <1>3, <1>4, <1>5

(* A step of a joiner.                                                      *)
LEMMA SubSteps ==
  ASSUME RingInv, PullInv, NEW s \in Subs,
         SubVisible(s) \/ SubStep(s) \/ Drain(s) \/ Take(s) \/ SubUnlist(s)
  PROVE  SubNext(s)
  <1>1. CASE SubVisible(s) \/ SubBump(s) \/ SubQuery(s) \/ PullOpen(s)
    BY <1>1, PullEnter
  <1>2. CASE PullSeq(s)
    BY <1>2, PullAtSeq
  <1>3. CASE PullHeader(s) \/ PullPayload(s)
    BY <1>3, PullAtRead
  <1>4. CASE PullCheck(s)
    BY <1>4, PullAtCheck
  <1>5. CASE PullScanned(s) \/ PullRecheck(s)
    BY <1>5, PullAtEnd
  <1>6. CASE PullTrim(s)
    BY <1>6, PullAtTrim
  <1>7. CASE PullEnqueue(s)
    BY <1>7, PullAtEnqueue
  <1>8. CASE PullWatermark(s)
    BY <1>8, PullAtWatermark
  <1>9. CASE Drain(s)
    BY <1>9, PullAtDrain
  <1>10. CASE Take(s) \/ SubUnlist(s) \/ SubClose(s)
    BY <1>10, PullAtLeave
  <1> QED BY <1>1, <1>2, <1>3, <1>4, <1>5, <1>6, <1>7, <1>8, <1>9, <1>10 DEF SubStep

(* Every step keeps PullInv.                                                *)
LEMMA NextPull ==
  ASSUME RingInv, RingMoves, RingInv', PullInv, [Next]_vars PROVE PullInv'
  <1>0. PubType'
    BY DEF RingInv
  <1>1. ASSUME NEW s \in Subs, SubNext(s) PROVE PullInv'
    <2>1. ASSUME NEW t \in Subs \ {s} PROVE PullSub(t)'
      <3>1. /\ spc'[t] = spc[t] /\ loc'[t] = loc[t] /\ delivered'[t] = delivered[t]
            /\ watermark'[t] = watermark[t]
        BY <1>1 DEF SubNext, SubOnly
      <3>2. SubType /\ PullSub(t)
        BY DEF PullInv
      <3> QED BY <1>0, <3>1, <3>2, PullFrame
    <2> QED BY <1>1, <2>1 DEF SubNext, PullInv
  <1>2. ASSUME UNCHANGED <<spc, loc, delivered, watermark, overlapped>>,
               sock' \in [Subs -> Seq(Dgram)]
        PROVE  PullInv'
    <2>1. SubType'
      BY <1>2 DEF PullInv, SubType
    <2>2. ASSUME NEW t \in Subs PROVE PullSub(t)'
      <3>1. SubType /\ PullSub(t)
        BY DEF PullInv
      <3> QED BY <1>0, <1>2, <3>1, PullFrame
    <2> QED BY <2>1, <2>2 DEF PullInv
  <1>3. sock \in [Subs -> Seq(Dgram)]
    BY DEF PullInv, SubType
  <1>4. CASE \/ PubBegin \/ LatchOdd \/ LatchHeader \/ LatchPayload \/ LatchEven
             \/ LoadGeneration \/ RefreshSubPaths \/ PubEnd \/ PubClose \/ PubUnlist \/ PubCrash
             \/ Reap
    <2>1. UNCHANGED subVars
      BY <1>4 DEF PubBegin, LatchOdd, LatchHeader, LatchPayload, LatchEven, LoadGeneration,
         RefreshSubPaths, PubEnd, PubClose, PubUnlist, PubCrash, Reap
    <2> QED BY <1>2, <1>3, <2>1 DEF subVars
  <1>5. ASSUME NEW s \in Subs, Send(s) PROVE PullInv'
    BY <1>2, <1>5, SendDoes DEF Send
  <1>6. ASSUME NEW s \in Subs,
               SubVisible(s) \/ SubStep(s) \/ Drain(s) \/ Take(s) \/ SubUnlist(s)
        PROVE  SubNext(s)
    BY <1>6, SubSteps
  <1>7. CASE UNCHANGED vars
    BY <1>2, <1>3, <1>7 DEF vars, subVars
  <1> QED BY <1>1, <1>4, <1>5, <1>6, <1>7 DEF Next, PublishStep

(* No queued sample mixes the header of one record with the payload of      *)
(* another, for any number of slots, retries and samples whose count the    *)
(* seq word can tell apart: whatever the writer does between the reader's   *)
(* two looks at the word, the copy is used only if the word has not moved   *)
(* (tl_ring_latch, tl_ring_pull).                                           *)
THEOREM SamplesWhole == ASSUME NoWrap PROVE Spec => []NoTornSample
  <1>1. Init => RingInv /\ PullInv
    BY InitRing, InitPull
  <1>2. RingInv /\ PullInv /\ [Next]_vars => (RingInv /\ PullInv)'
    BY NextRing, NextPull
  <1>3. PullInv => NoTornSample
    BY DEF PullInv, PullSub, RecInv, NoTornSample
  <1> QED BY <1>1, <1>2, <1>3, PTL DEF Spec

-----------------------------------------------------------------------------
(* The order of samples.                                                    *)

Rising(q) == \A i, j \in 1 .. Len(q) : i < j => q[i].n < q[j].n

(* The sample being published has not been sent to s yet.                   *)
Owing(s) ==
  \/ pub \in {"odd", "hdr", "pay", "even", "load", "refresh"}
  \/ pub = "send" /\ s \in targets

(* The socket of a joiner holds samples in order, the one being published   *)
(* last.                                                                    *)
SockInv(s) ==
  /\ Rising(sock[s])
  /\ \A i \in 1 .. Len(sock[s]) : sock[s][i].n <= cur /\ (Owing(s) => sock[s][i].n < cur)

(* A joiner has queued samples in order; what it has yet to replay or drain *)
(* is newer, or the watermark drops it.                                     *)
QueuedInv(s) ==
  /\ Rising(delivered[s])
  /\ \A i \in 1 .. Len(delivered[s]) :
       /\ delivered[s][i].n <= cur
       /\ spc[s] = "enqueue" => /\ delivered[s][i].n <= loc[s].max
                                /\ \A r \in loc[s].recs : delivered[s][i].n < r.n
       /\ spc[s] \in Joined =>
            /\ delivered[s][i].n <= watermark[s] \/ (Owing(s) => delivered[s][i].n < cur)
            /\ \A j \in 1 .. Len(sock[s]) :
                 sock[s][j].n <= watermark[s] \/ delivered[s][i].n < sock[s][j].n

OrderInv == \A s \in Subs : SockInv(s) /\ QueuedInv(s)

(* Sequences of samples: what joining the end does ...                      *)
LEMMA RisingAppend ==
  ASSUME NEW T, NEW q \in Seq(T), NEW r \in T
  PROVE  /\ Len(Append(q, r)) = Len(q) + 1 /\ Len(q) \in Nat
         /\ \A i \in 1 .. Len(Append(q, r)) :
              Append(q, r)[i] = IF i = Len(q) + 1 THEN r ELSE q[i]
         /\ Rising(q) /\ (\A i \in 1 .. Len(q) : q[i].n < r.n) => Rising(Append(q, r))
  <1>1. /\ Len(Append(q, r)) = Len(q) + 1 /\ Len(q) \in Nat
        /\ \A i \in 1 .. Len(q) + 1 : Append(q, r)[i] = IF i = Len(q) + 1 THEN r ELSE q[i]
    OBVIOUS
  <1>2. Rising(q) /\ (\A i \in 1 .. Len(q) : q[i].n < r.n) => Rising(Append(q, r))
    BY <1>1 DEF Rising
  <1> QED BY <1>1, <1>2

(* ... and what leaving the front does.                                     *)
LEMMA RisingTail ==
  ASSUME NEW T, NEW q \in Seq(T), q # <<>>
  PROVE  /\ Len(Tail(q)) = Len(q) - 1 /\ Len(q) \in Nat \ {0} /\ Head(q) = q[1] /\ q[1] \in T
         /\ \A i \in 1 .. Len(Tail(q)) : Tail(q)[i] = q[i + 1] /\ i + 1 \in 1 .. Len(q)
         /\ Rising(q) => Rising(Tail(q)) /\ \A i \in 1 .. Len(Tail(q)) : Head(q).n < Tail(q)[i].n
  <1>1. /\ Len(Tail(q)) = Len(q) - 1 /\ Len(q) \in Nat \ {0} /\ Head(q) = q[1] /\ q[1] \in T
        /\ \A i \in 1 .. Len(q) - 1 : Tail(q)[i] = q[i + 1]
    OBVIOUS
  <1>2. Rising(q) => Rising(Tail(q)) /\ \A i \in 1 .. Len(Tail(q)) : Head(q).n < Tail(q)[i].n
    BY <1>1 DEF Rising
  <1> QED BY <1>1, <1>2

(* Nothing is sent.                                                         *)
LEMMA InitOrder == Init => OrderInv
  BY DEF Init, OrderInv, SockInv, QueuedInv, Rising

(* Sample numbers are numbers.                                              *)
LEMMA SampleNums ==
  ASSUME RingInv, PullInv
  PROVE  /\ cur \in Int
         /\ \A s \in Subs : \A i \in 1 .. Len(sock[s]) : sock[s][i].n \in Nat /\ sock[s][i] \in Dgram
         /\ \A s \in Subs : \A i \in 1 .. Len(delivered[s]) :
              delivered[s][i].n \in Nat /\ delivered[s][i] \in Rec
  <1>1. cur \in Int
    BY TransientLocalAssumption DEF RingInv, PubType, cur
  <1>2. \A s \in Subs : sock[s] \in Seq(Dgram) /\ delivered[s] \in Seq(Rec)
    BY DEF PullInv, SubType
  <1>3. \A s \in Subs : \A i \in 1 .. Len(sock[s]) : sock[s][i] \in Dgram
    BY <1>2
  <1>4. \A s \in Subs : \A i \in 1 .. Len(delivered[s]) : delivered[s][i] \in Rec
    BY <1>2
  <1>5. \A x \in Dgram : x.n \in Nat
    BY DEF Dgram, Samples
  <1>6. \A x \in Rec : x.n \in Nat
    BY DEF Rec, Samples
  <1> QED BY <1>1, <1>3, <1>4, <1>5, <1>6

(* Steps that leave a joiner alone and do not send to it.                   *)
LEMMA OrderFrame ==
  ASSUME RingInv, PullInv, NEW s \in Subs, SockInv(s), QueuedInv(s),
         sock'[s] = sock[s], delivered'[s] = delivered[s], watermark'[s] = watermark[s],
         spc'[s] = spc[s], loc'[s] = loc[s],
         \/ cur' = cur /\ (Owing(s)' => Owing(s))
         \/ cur' = cur + 1
  PROVE  SockInv(s)' /\ QueuedInv(s)'
  <1>1. /\ cur \in Int
        /\ \A i \in 1 .. Len(sock[s]) : sock[s][i].n \in Nat
        /\ \A i \in 1 .. Len(delivered[s]) : delivered[s][i].n \in Nat
    BY SampleNums
  <1>2. \A i \in 1 .. Len(sock[s]) : sock[s][i].n <= cur' /\ (Owing(s)' => sock[s][i].n < cur')
    BY <1>1 DEF SockInv
  <1>3. SockInv(s)'
    BY <1>2 DEF SockInv
  <1>4. \A i \in 1 .. Len(delivered[s]) :
          /\ delivered[s][i].n <= cur'
          /\ spc[s] \in Joined =>
               delivered[s][i].n <= watermark[s] \/ (Owing(s)' => delivered[s][i].n < cur')
    BY <1>1 DEF QueuedInv
  <1>5. QueuedInv(s)'
    BY <1>4 DEF QueuedInv
  <1> QED BY <1>3, <1>5

(* Steps of a joiner that neither queue nor drain a sample.                 *)
LEMMA OrderQuiet ==
  ASSUME RingInv, PullInv, NEW s \in Subs, SockInv(s), QueuedInv(s),
         sock'[s] = sock[s], delivered'[s] = delivered[s], UNCHANGED <<next_seq, pub, targets>>,
         \/ delivered[s] = <<>>
         \/ spc[s] \in Joined /\ spc'[s] \in Joined /\ watermark'[s] = watermark[s]
         \/ spc[s] = "enqueue" /\ spc'[s] \in Joined /\ watermark'[s] = loc[s].max
  PROVE  SockInv(s)' /\ QueuedInv(s)'
  <1>0. cur' = cur /\ (Owing(s)' <=> Owing(s))
    BY DEF cur, Owing
  <1>1. SockInv(s)'
    BY <1>0 DEF SockInv
  <1>2. CASE delivered[s] = <<>>
    BY <1>1, <1>2 DEF QueuedInv, Rising
  <1>3. CASE spc[s] \in Joined /\ spc'[s] \in Joined /\ watermark'[s] = watermark[s]
    BY <1>0, <1>1, <1>3 DEF QueuedInv, Joined
  <1>4. CASE spc[s] = "enqueue" /\ spc'[s] \in Joined /\ watermark'[s] = loc[s].max
    <2>1. loc[s].max \in Nat
      BY DEF PullInv, SubType, Locals
    <2>2. /\ \A i \in 1 .. Len(sock[s]) : sock[s][i].n \in Nat
          /\ \A i \in 1 .. Len(delivered[s]) : delivered[s][i].n \in Nat
      BY SampleNums
    <2>3. \A i \in 1 .. Len(delivered[s]) : delivered[s][i].n <= loc[s].max
      BY <1>4 DEF QueuedInv
    <2>4. \A i \in 1 .. Len(delivered[s]) : \A j \in 1 .. Len(sock[s]) :
            sock[s][j].n <= loc[s].max \/ delivered[s][i].n < sock[s][j].n
      BY <2>1, <2>2, <2>3
    <2> QED BY <1>0, <1>1, <1>4, <2>3, <2>4 DEF QueuedInv, Joined
  <1> QED BY <1>2, <1>3, <1>4

(* The sample being published is sent.                                      *)
LEMMA OrderSend ==
  ASSUME RingInv, PullInv, NEW s \in Subs, SockInv(s), QueuedInv(s), Send(s)
  PROVE  SockInv(s)' /\ QueuedInv(s)'
  <1>0. /\ pub = "send" /\ s \in targets /\ targets' = targets \ {s}
        /\ UNCHANGED <<pub, next_seq, spc, loc, watermark, delivered>>
    BY DEF Send
  <1>1. cur' = cur /\ Owing(s) /\ ~Owing(s)'
    BY <1>0 DEF cur, Owing
  <1>2. /\ cur \in Int
        /\ \A i \in 1 .. Len(sock[s]) : sock[s][i].n \in Nat
        /\ \A i \in 1 .. Len(delivered[s]) : delivered[s][i].n \in Nat
    BY SampleNums
  <1>3. /\ sock[s] \in Seq(Dgram) /\ Datagram \in Dgram /\ Datagram.n = cur
        /\ sock'[s] = sock[s] \/ sock'[s] = Append(sock[s], Datagram)
    BY SendDoes DEF PullInv, SubType, Datagram
  <1>4. watermark[s] \in Int
    BY DEF PullInv, SubType
  <1>5. CASE sock'[s] = sock[s]
    BY <1>0, <1>1, <1>5 DEF SockInv, QueuedInv
  <1>6. CASE sock'[s] = Append(sock[s], Datagram)
    <2>1. \A i \in 1 .. Len(sock[s]) : sock[s][i].n < cur
      BY <1>1 DEF SockInv
    <2> DEFINE q == Append(sock[s], Datagram)
    <2>2. /\ Len(q) = Len(sock[s]) + 1 /\ Len(sock[s]) \in Nat
          /\ \A i \in 1 .. Len(q) : q[i] = IF i = Len(sock[s]) + 1 THEN Datagram ELSE sock[s][i]
          /\ Rising(q)
      BY <1>3, <2>1, RisingAppend DEF SockInv
    <2> HIDE DEF q
    <2>3. \A i \in 1 .. Len(q) : q[i].n = cur \/ \E j \in 1 .. Len(sock[s]) : q[i] = sock[s][j]
      BY <1>3, <2>2
    <2>4. \A i \in 1 .. Len(q) : q[i].n <= cur
      BY <1>2, <2>1, <2>3
    <2>5. SockInv(s)'
      BY <1>1, <1>6, <2>2, <2>4 DEF SockInv, q
    <2>6. ASSUME NEW i \in 1 .. Len(delivered[s]), spc[s] \in Joined, NEW j \in 1 .. Len(q)
          PROVE  q[j].n <= watermark[s] \/ delivered[s][i].n < q[j].n
      <3>1. CASE q[j].n = cur
        <4>1. /\ delivered[s][i].n <= cur
              /\ delivered[s][i].n <= watermark[s] \/ delivered[s][i].n < cur
          BY <1>1, <2>6 DEF QueuedInv
        <4> QED BY <1>2, <1>4, <3>1, <4>1
      <3>2. CASE \E k \in 1 .. Len(sock[s]) : q[j] = sock[s][k]
        BY <2>6, <3>2 DEF QueuedInv
      <3> QED BY <2>3, <3>1, <3>2
    <2>7. QueuedInv(s)'
      BY <1>0, <1>1, <1>6, <2>6 DEF QueuedInv, q
    <2> QED BY <2>5, <2>7
  <1> QED BY <1>3, <1>5, <1>6

(* A record is replayed after the older ones.                               *)
LEMMA OrderEnqueue ==
  ASSUME RingInv, PullInv, NEW s \in Subs, SockInv(s), QueuedInv(s), PullEnqueue(s)
  PROVE  SockInv(s)' /\ QueuedInv(s)'
  <1> DEFINE l == loc[s]
             r == Oldest(l.recs)
             y == loc'[s]
             d == delivered[s]
  <1>0. PullSub(s) /\ d \in Seq(Rec) /\ l.recs \in SUBSET Rec /\ l.max \in Nat
    BY DEF PullInv, SubType, Locals
  <1>1. /\ spc[s] = "enqueue" /\ spc' = spc /\ r \in l.recs /\ r \in Rec
        /\ \A x \in l.recs : r.n <= x.n
        /\ UNCHANGED <<sock, watermark, next_seq, pub, targets>>
    BY EnqueueDoes DEF pubVars
  <1>2. \/ y.recs = l.recs \ {r} /\ y.max = l.max /\ delivered'[s] = Append(d, r)
        \/ y.recs = {} /\ y.max = r.n - 1 /\ delivered'[s] = d
    BY EnqueueDoes DEF Replays, PullInv, SubType
  <1>3. cur' = cur /\ (Owing(s)' <=> Owing(s))
    BY <1>1 DEF cur, Owing
  <1>4. SockInv(s)'
    BY <1>1, <1>3 DEF SockInv
  <1>5. \A x \in l.recs : x.n \in Nat /\ x.n = x.pay /\ x.n <= cur /\ x.n <= l.max
    BY <1>0 DEF PullSub, RecInv, Rec, Samples
  <1>6. \A x \in l.recs \ {r} : r.n < x.n
    <2> SUFFICES ASSUME NEW x \in l.recs \ {r}, ~(r.n < x.n) PROVE FALSE
      OBVIOUS
    <2>1. x.n = r.n /\ x.pay = r.pay
      BY <1>1, <1>5
    <2>2. x \in Rec /\ r \in Rec
      BY <1>0, <1>1
    <2>3. x = r
      BY <2>1, <2>2 DEF Rec
    <2> QED BY <2>3
  <1>7. /\ Rising(d)
        /\ \A i \in 1 .. Len(d) : /\ d[i].n \in Nat /\ d[i].n <= cur /\ d[i].n <= l.max
                                  /\ \A x \in l.recs : d[i].n < x.n
    BY <1>1, SampleNums DEF QueuedInv
  <1> HIDE DEF r, y, d
  <1>8. CASE y.recs = l.recs \ {r} /\ y.max = l.max /\ delivered'[s] = Append(d, r)
    <2> DEFINE q == Append(d, r)
    <2>1. /\ Len(q) = Len(d) + 1 /\ Len(d) \in Nat
          /\ \A i \in 1 .. Len(q) : q[i] = IF i = Len(d) + 1 THEN r ELSE d[i]
          /\ Rising(q)
      BY <1>0, <1>1, <1>7, RisingAppend
    <2> HIDE DEF q
    <2>2. \A i \in 1 .. Len(q) : q[i] = r \/ \E j \in 1 .. Len(d) : q[i] = d[j]
      BY <2>1
    <2>3. \A i \in 1 .. Len(q) :
            q[i].n <= cur /\ q[i].n <= l.max /\ \A x \in l.recs \ {r} : q[i].n < x.n
      BY <1>1, <1>5, <1>6, <1>7, <2>2
    <2> QED BY <1>1, <1>3, <1>4, <1>8, <2>1, <2>3 DEF QueuedInv, Joined, q, y
  <1>9. CASE y.recs = {} /\ y.max = r.n - 1 /\ delivered'[s] = d
    <2>1. \A i \in 1 .. Len(d) : d[i].n <= r.n - 1
      BY <1>1, <1>5, <1>7
    <2> QED BY <1>1, <1>3, <1>4, <1>7, <1>9, <2>1 DEF QueuedInv, Joined, y
  <1> QED BY <1>2, <1>8, <1>9

(* A datagram above the watermark is queued after the samples before it.    *)
LEMMA OrderDrain ==
  ASSUME RingInv, PullInv, NEW s \in Subs, SockInv(s), QueuedInv(s), Drain(s)
  PROVE  SockInv(s)' /\ QueuedInv(s)'
  <1> DEFINE q == sock[s]
             m == Head(q)
             r == [n |-> m.n, pay |-> m.n]
             d == delivered[s]
  <1>0. d \in Seq(Rec) /\ q \in Seq(Dgram) /\ watermark[s] \in Int
    BY DEF PullInv, SubType
  <1>1. /\ spc[s] = "ready" /\ q # <<>> /\ sock'[s] = Tail(q) /\ m \in Dgram
        /\ delivered'[s] = d \/ (m.n > watermark[s] /\ delivered'[s] = Append(d, r))
        /\ UNCHANGED <<spc, loc, watermark, next_seq, pub, targets>>
    BY DrainDoes DEF pubVars, PullInv, SubType
  <1>2. cur' = cur /\ (Owing(s)' <=> Owing(s)) /\ cur \in Int
    BY <1>1, SampleNums DEF cur, Owing
  <1>3. /\ Len(Tail(q)) = Len(q) - 1 /\ Len(q) \in Nat \ {0} /\ m = q[1]
        /\ \A i \in 1 .. Len(Tail(q)) : Tail(q)[i] = q[i + 1] /\ i + 1 \in 1 .. Len(q)
        /\ Rising(Tail(q)) /\ \A i \in 1 .. Len(Tail(q)) : m.n < Tail(q)[i].n
    BY <1>0, <1>1, RisingTail DEF SockInv
  <1>4. SockInv(s)'
    BY <1>1, <1>2, <1>3 DEF SockInv
  <1>5. /\ Rising(d) /\ m.n <= cur /\ m.n \in Nat /\ (Owing(s) => m.n < cur)
        /\ \A i \in 1 .. Len(d) :
             /\ d[i].n \in Nat /\ d[i].n <= cur
             /\ d[i].n <= watermark[s] \/ (Owing(s) => d[i].n < cur)
             /\ \A j \in 1 .. Len(q) : q[j].n <= watermark[s] \/ d[i].n < q[j].n
    <2>1. 1 \in 1 .. Len(q)
      BY <1>3
    <2>2. m.n <= cur /\ m.n \in Nat /\ (Owing(s) => m.n < cur)
      BY <1>3, <2>1, SampleNums DEF SockInv
    <2> QED BY <1>1, <2>2, SampleNums DEF QueuedInv, Joined
  <1>6. r \in Rec /\ r.n = m.n
    BY <1>1 DEF Rec, Dgram
  <1> HIDE DEF q, m, r, d
  <1>7. CASE delivered'[s] = d
    <2>1. \A i \in 1 .. Len(d) : \A j \in 1 .. Len(Tail(q)) :
            Tail(q)[j].n <= watermark[s] \/ d[i].n < Tail(q)[j].n
      BY <1>3, <1>5
    <2> QED BY <1>1, <1>2, <1>4, <1>5, <1>7, <2>1 DEF QueuedInv, Joined
  <1>8. CASE m.n > watermark[s] /\ delivered'[s] = Append(d, r)
    <2> DEFINE a == Append(d, r)
    <2>0. \A i \in 1 .. Len(d) : d[i].n < m.n
      <3>1. 1 \in 1 .. Len(q)
        BY <1>3
      <3>2. \A i \in 1 .. Len(d) : m.n <= watermark[s] \/ d[i].n < m.n
        BY <1>3, <1>5, <3>1
      <3> QED BY <1>0, <1>5, <1>8, <3>2
    <2>1. /\ Len(a) = Len(d) + 1 /\ Len(d) \in Nat
          /\ \A i \in 1 .. Len(a) : a[i] = IF i = Len(d) + 1 THEN r ELSE d[i]
          /\ Rising(a)
      BY <1>0, <1>5, <1>6, <2>0, RisingAppend
    <2> HIDE DEF a
    <2>2. \A i \in 1 .. Len(a) : a[i] = r \/ \E j \in 1 .. Len(d) : a[i] = d[j]
      BY <2>1
    <2>3. \A i \in 1 .. Len(a) :
            /\ a[i].n <= cur
            /\ a[i].n <= watermark[s] \/ (Owing(s) => a[i].n < cur)
            /\ \A j \in 1 .. Len(Tail(q)) : Tail(q)[j].n <= watermark[s] \/ a[i].n < Tail(q)[j].n
      BY <1>3, <1>5, <1>6, <2>2
    <2> QED BY <1>1, <1>2, <1>4, <1>8, <2>1, <2>3 DEF QueuedInv, Joined, a
  <1> QED BY <1>1, <1>7, <1>8

(* Every step keeps OrderInv.                                               *)
LEMMA NextOrder == ASSUME RingInv, PullInv, OrderInv, [Next]_vars PROVE OrderInv'
  <1>0. \A s \in Subs : SockInv(s) /\ QueuedInv(s)
    BY DEF OrderInv
  <1>1. ASSUME UNCHANGED <<sock, delivered, watermark, spc, loc>>,
               \/ cur' = cur /\ \A s \in Subs : Owing(s)' => Owing(s)
               \/ cur' = cur + 1
        PROVE  OrderInv'
    <2> SUFFICES ASSUME NEW s \in Subs PROVE SockInv(s)' /\ QueuedInv(s)'
      BY DEF OrderInv
    <2> QED BY <1>0, <1>1, OrderFrame
  <1>2. ASSUME NEW s \in Subs,
               \A t \in Subs \ {s} :
                 /\ sock'[t] = sock[t] /\ delivered'[t] = delivered[t]
                 /\ watermark'[t] = watermark[t] /\ spc'[t] = spc[t] /\ loc'[t] = loc[t]
                 /\ Owing(t)' => Owing(t),
               cur' = cur, SockInv(s)' /\ QueuedInv(s)'
        PROVE  OrderInv'
    <2> SUFFICES ASSUME NEW t \in Subs \ {s} PROVE SockInv(t)' /\ QueuedInv(t)'
      BY <1>2 DEF OrderInv
    <2> QED BY <1>0, <1>2, OrderFrame
  <1>3. CASE PubBegin
    <2>1. UNCHANGED subVars /\ next_seq' = next_seq + 1
      BY <1>3 DEF PubBegin
    <2>2. cur' = cur + 1
      BY <2>1, TransientLocalAssumption DEF cur, RingInv, PubType
    <2> QED BY <1>1, <2>1, <2>2 DEF subVars
  <1>4. CASE \/ LatchOdd \/ LatchHeader \/ LatchPayload \/ LatchEven \/ LoadGeneration
             \/ RefreshSubPaths \/ PubEnd \/ PubClose \/ PubUnlist \/ PubCrash \/ Reap
    <2>1. UNCHANGED <<subVars, next_seq>>
      BY <1>4 DEF LatchOdd, LatchHeader, LatchPayload, LatchEven, LoadGeneration,
         RefreshSubPaths, PubEnd, PubClose, PubUnlist, PubCrash, Reap, pubVars
    <2>2. \A s \in Subs : Owing(s)' => Owing(s)
      BY <1>4 DEF LatchOdd, LatchHeader, LatchPayload, LatchEven, LoadGeneration,
         RefreshSubPaths, PubEnd, PubClose, PubUnlist, PubCrash, Reap, pubVars, Owing
    <2> QED BY <1>1, <2>1, <2>2 DEF subVars, cur
  <1>5. ASSUME NEW s \in Subs, Send(s) PROVE OrderInv'
    <2>1. SockInv(s)' /\ QueuedInv(s)'
      BY <1>0, <1>5, OrderSend
    <2>2. \A t \in Subs \ {s} : sock'[t] = sock[t]
      BY <1>5, SendDoes
    <2>3. \A t \in Subs : Owing(t)' => Owing(t)
      BY <1>5 DEF Send, Owing
    <2> QED BY <1>2, <1>5, <2>1, <2>2, <2>3 DEF Send, cur
  <1>6. ASSUME NEW s \in Subs,
               SubVisible(s) \/ SubStep(s) \/ Drain(s) \/ Take(s) \/ SubUnlist(s)
        PROVE  OrderInv'
    <2>1. UNCHANGED <<next_seq, pub, targets>>
      BY <1>6 DEF SubStep, SubVisible, SubBump, SubQuery, PullOpen, PullSeq, PullHeader,
         PullPayload, PullCheck, PullScanned, PullRecheck, PullTrim, PullEnqueue, PullWatermark,
         SubClose, Drain, Take, SubUnlist, pubVars
    <2>2. cur' = cur /\ \A t \in Subs : Owing(t)' => Owing(t)
      BY <2>1 DEF cur, Owing
    <2>3. SubNext(s)
      BY <1>6, SubSteps
    <2>4. \A t \in Subs \ {s} : /\ delivered'[t] = delivered[t] /\ watermark'[t] = watermark[t]
                                /\ spc'[t] = spc[t] /\ loc'[t] = loc[t]
      BY <2>3 DEF SubNext, SubOnly
    <2>5. SockInv(s)' /\ QueuedInv(s)' /\ \A t \in Subs \ {s} : sock'[t] = sock[t]
      <3>0. PullSub(s) /\ sock \in [Subs -> Seq(Dgram)] /\ delivered \in [Subs -> Seq(Rec)]
            /\ watermark \in [Subs -> Int]
            /\ spc \in [Subs -> Before \cup Scanning \cup {"recheck", "trim", "enqueue"} \cup Joined]
        BY DEF PullInv, SubType
      <3>1. CASE \/ SubVisible(s) \/ SubBump(s) \/ SubQuery(s) \/ PullOpen(s) \/ PullSeq(s)
                 \/ PullHeader(s) \/ PullPayload(s) \/ PullCheck(s) \/ PullScanned(s)
                 \/ PullRecheck(s) \/ PullTrim(s)
        <4>1. UNCHANGED <<sock, delivered>> /\ spc[s] \notin {"enqueue"} \cup Joined
          BY <3>1 DEF SubVisible, SubBump, SubQuery, PullOpen, PullSeq, PullHeader, PullPayload,
             PullCheck, PullScanned, PullRecheck, PullTrim, Sub, Joined
        <4>2. delivered[s] = <<>>
          BY <3>0, <4>1 DEF PullSub, PhaseInv
        <4> QED BY <1>0, <2>1, <4>1, <4>2, OrderQuiet
      <3>2. CASE PullWatermark(s)
        <4>1. /\ UNCHANGED <<sock, delivered>> /\ spc[s] = "enqueue" /\ spc'[s] = "ready"
              /\ watermark'[s] = loc[s].max
          BY <3>0, <3>2 DEF PullWatermark, Sub
        <4> QED BY <1>0, <2>1, <4>1, OrderQuiet DEF Joined
      <3>3. CASE Take(s) \/ SubUnlist(s)
        <4>1. /\ UNCHANGED <<sock, delivered, watermark>> /\ spc[s] \in Joined
              /\ spc'[s] \in Joined
          BY <3>0, <3>3 DEF Take, SubUnlist, Sub, Joined
        <4> QED BY <1>0, <2>1, <4>1, OrderQuiet
      <3>4. CASE SubClose(s)
        <4>1. /\ sock'[s] = <<>> /\ UNCHANGED <<delivered, watermark>> /\ spc[s] \in Joined
              /\ spc'[s] \in Joined /\ \A t \in Subs \ {s} : sock'[t] = sock[t]
          BY <3>0, <3>4 DEF SubClose, Sub, Joined
        <4>2. SockInv(s)'
          BY <4>1 DEF SockInv, Rising
        <4>3. Owing(s)' => Owing(s)
          BY <2>2
        <4>4. QueuedInv(s)'
          BY <1>0, <2>2, <4>1, <4>3 DEF QueuedInv, Joined
        <4> QED BY <4>1, <4>2, <4>4
      <3>5. CASE PullEnqueue(s)
        BY <1>0, <3>5, OrderEnqueue, EnqueueDoes
      <3>6. CASE Drain(s)
        BY <1>0, <3>6, OrderDrain, DrainDoes
      <3> QED BY <1>6, <3>1, <3>2, <3>3, <3>4, <3>5, <3>6 DEF SubStep
    <2> QED BY <1>2, <2>2, <2>4, <2>5
  <1>7. CASE UNCHANGED vars
    BY <1>1, <1>7 DEF vars, subVars, pubVars, cur, Owing
  <1> QED BY <1>3, <1>4, <1>5, <1>6, <1>7 DEF Next, PublishStep

(* A subscription queues the samples of one publisher in order and each at  *)
(* most once, for any history depth, queue depth and socket size: a sample  *)
(* that reaches it both through the ring and as a datagram is dropped the   *)
(* second time, and no replayed sample follows a live one                   *)
(* (rmw_create_subscription, drain_subscription).                           *)
THEOREM SamplesInOrder == ASSUME NoWrap PROVE Spec => []InOrderNoDuplicates
  <1>1. Init => RingInv /\ PullInv /\ OrderInv
    BY InitRing, InitPull, InitOrder
  <1>2. RingInv /\ PullInv /\ OrderInv /\ [Next]_vars => (RingInv /\ PullInv /\ OrderInv)'
    BY NextRing, NextPull, NextOrder
  <1>3. OrderInv => InOrderNoDuplicates
    BY DEF OrderInv, QueuedInv, Rising, InOrderNoDuplicates
  <1> QED BY <1>1, <1>2, <1>3, PTL DEF Spec

-----------------------------------------------------------------------------
(* The history of a late joiner.                                            *)

Stopped == {"closing", "gone", "dead"}

(* A publisher that is not listed, or whose ring is unlinked, has stopped.  *)
ListInv == ~listed \/ ~linked => pub \in Stopped

(* A sample that was in the ring still is, or has been lapped.              *)
Held(n) == Lapped(n) \/ \E k \in Ring : Whole(k) /\ whdr[k] = n
HeldInv ==
  owed \in [Subs -> SUBSET Samples] /\ \A s \in Subs : \A n \in owed[s] : Held(n)

(* The publisher is done with the samples up to d: the ring has taken or    *)
(* refused each of them, and there is no record of a newer one.             *)
Settled(d) ==
  /\ pub \in {"idle", "load", "refresh", "send"} => d = cur
  /\ \A n \in (1 .. d) \ refused : Held(n)
  /\ \A k \in Ring : Whole(k) => whdr[k] <= d
  /\ \A s \in Subs : \A r \in loc[s].recs : r.n <= d
DoneInv == \E d \in {cur - 1, cur} : Settled(d)

(* The samples a pull must account for: those the joiner was due, and those *)
(* its watermark will stand for.                                            *)
Span(m)   == (1 .. m) \ refused
Wanted(s) == owed[s] \cup Span(loc[s].max)

(* The samples a joiner has or is about to have.                            *)
Pulls(s) == Numbers(loc[s].recs) \cup DeliveredTo(s)

(* Excusable, while the replay goes on.                                     *)
Covered(s, n) ==
  \/ n \in Pulls(s)
  \/ Cardinality({m \in Pulls(s) : m > n}) >= QueueDepth
  \/ Lapped(n)
  \/ loc[s].cut /\ n <= cur - QueueDepth

(* Between the oldest sample and the watermark to be, none is missing.      *)
NoGap(s, w) == \A a \in Pulls(s), n \in Samples : a < n /\ n <= w => n \in Pulls(s)

HistInv(s) ==
  /\ spc[s] = "recheck" => \A n \in Wanted(s) :
       \/ Lapped(n) \/ n \in Numbers(loc[s].recs)
       \/ \E k \in Ring : k >= loc[s].i /\ Whole(k) /\ whdr[k] = n
  /\ spc[s] = "trim" /\ ~overlapped[s] =>
       \A n \in Wanted(s) : Lapped(n) \/ n \in Numbers(loc[s].recs)
  /\ spc[s] = "enqueue" /\ ~overlapped[s] =>
       /\ ~loc[s].cut => \A n \in owed[s] : Covered(s, n)
       /\ \A n \in Span(loc[s].max) : Covered(s, n)
  /\ spc[s] = "ready" /\ ~overlapped[s] =>
       /\ ~loc[s].cut /\ pub \notin Stopped => \A n \in owed[s] : Covered(s, n)
       /\ \A n \in Span(watermark[s]) : Covered(s, n)
  /\ spc[s] = "enqueue" /\ overlapped[s] => NoGap(s, loc[s].max)
  /\ spc[s] = "ready" /\ overlapped[s] => NoGap(s, watermark[s])

JoinInv == ListInv /\ DoneInv /\ HeldInv /\ \A s \in Subs : HistInv(s)

(* Steps of the publisher and of other joiners, seen by one joiner.         *)
Stays(s) ==
  /\ spc'[s] = spc[s] /\ loc'[s] = loc[s] /\ delivered'[s] = delivered[s]
  /\ watermark'[s] = watermark[s] /\ overlapped'[s] = overlapped[s] /\ owed'[s] = owed[s]

(* Nobody has joined, nothing is latched.                                   *)
LEMMA InitJoin == Init => JoinInv
  <1> SUFFICES ASSUME Init PROVE JoinInv
    OBVIOUS
  <1>1. ListInv
    BY DEF Init, ListInv
  <1>2. /\ pub = "idle" /\ next_seq = 1 /\ cur = 0 /\ rseq = [k \in Ring |-> 0]
        /\ owed = [s \in Subs |-> {}] /\ spc = [s \in Subs |-> "none"]
        /\ loc = [s \in Subs |-> NoLocals] /\ NoLocals.recs = {}
    BY DEF Init, NoLocals, cur
  <1>3. DoneInv
    <2>1. Settled(0)
      BY <1>2 DEF Settled, Whole
    <2> QED BY <1>2, <2>1 DEF DoneInv
  <1>4. HeldInv
    BY <1>2 DEF HeldInv
  <1>5. \A s \in Subs : HistInv(s)
    BY <1>2 DEF HistInv
  <1> QED BY <1>1, <1>3, <1>4, <1>5 DEF JoinInv

(* What a joiner has or will have are samples that were published.          *)
LEMMA PullsType ==
  ASSUME PullInv, NEW s \in Subs
  PROVE  /\ Pulls(s) \in SUBSET Samples /\ DeliveredTo(s) \subseteq Pulls(s)
         /\ Numbers(loc[s].recs) \in SUBSET Samples
         /\ spc[s] \in Joined => Pulls(s) = DeliveredTo(s)
         /\ spc[s] \notin {"enqueue"} \cup Joined => DeliveredTo(s) = {}
  <1>1. loc[s].recs \in SUBSET Rec /\ delivered[s] \in Seq(Rec) /\ PhaseInv(s)
    BY DEF PullInv, PullSub, SubType, Locals
  <1>2. Numbers(loc[s].recs) \in SUBSET Samples
    BY <1>1, NumbersType
  <1>3. DeliveredTo(s) \in SUBSET Samples
    <2>1. \A k \in 1 .. Len(delivered[s]) : delivered[s][k] \in Rec
      BY <1>1
    <2> QED BY <2>1 DEF DeliveredTo, Rec
  <1>4. spc[s] \in Joined => Numbers(loc[s].recs) = {}
    BY <1>1 DEF PhaseInv, Numbers
  <1>5. spc[s] \notin {"enqueue"} \cup Joined => DeliveredTo(s) = {}
    BY <1>1 DEF PhaseInv, DeliveredTo
  <1> QED BY <1>2, <1>3, <1>4, <1>5 DEF Pulls

(* Numbers lapped stay so.                                                  *)
LEMMA LappedStays ==
  ASSUME RingInv, RingInv', RingMoves, NEW n \in Int, Lapped(n) PROVE Lapped(n)'
  <1>1. next_seq \in Int /\ Slots \in Int
    BY TransientLocalAssumption DEF RingInv, PubType
  <1>2. next_seq' \in Int
    BY TransientLocalAssumption DEF RingInv, PubType
  <1>3. cur <= cur'
    BY DEF RingMoves
  <1>4. cur \in Int /\ cur' \in Int
    BY <1>1, <1>2 DEF cur
  <1>5. n <= cur - Slots
    BY DEF Lapped
  <1>0. \A a, b, c, d \in Int : a <= b - d /\ b <= c => a <= c - d
    OBVIOUS
  <1>6. n <= cur' - Slots
    BY <1>0, <1>1, <1>3, <1>4, <1>5
  <1> QED BY <1>6 DEF Lapped

(* A record in a slot stays there or is lapped.                             *)
LEMMA SlotStays ==
  ASSUME RingInv, RingMoves, NEW k \in Ring, Whole(k)
  PROVE  (Whole(k)' /\ whdr'[k] = whdr[k]) \/ whdr[k] <= cur' - Slots
  <1>1. CASE rseq'[k] = rseq[k]
    BY <1>1 DEF RingMoves, Whole
  <1>2. CASE rseq'[k] # rseq[k]
    BY <1>2 DEF RingMoves
  <1> QED BY <1>1, <1>2

(* What is held stays held.                                                 *)
LEMMA HeldStays ==
  ASSUME RingInv, RingInv', RingMoves, NEW n \in Int, Held(n) PROVE Held(n)'
  <1>1. CASE Lapped(n)
    BY <1>1, LappedStays DEF Held
  <1>2. CASE \E k \in Ring : Whole(k) /\ whdr[k] = n
    <2>1. PICK k \in Ring : Whole(k) /\ whdr[k] = n
      BY <1>2
    <2>2. (Whole(k)' /\ whdr'[k] = n) \/ Lapped(n)'
      BY <2>1, SlotStays DEF Lapped
    <2> QED BY <2>1, <2>2 DEF Held
  <1> QED BY <1>1, <1>2 DEF Held

(* Being covered stays, as samples come in and others are lapped.           *)
LEMMA CoveredStays ==
  ASSUME RingInv, RingInv', RingMoves, NEW s \in Subs, Pulls(s) \subseteq Pulls(s)',
         Pulls(s)' \in SUBSET Samples, loc[s].cut => loc'[s].cut,
         NEW n \in Int, Covered(s, n)
  PROVE  Covered(s, n)'
  <1>0. /\ \A a, b, c, d \in Int : a <= b - d /\ b <= c => a <= c - d
        /\ QueueDepth \in Nat
    BY TransientLocalAssumption
  <1>1. CASE n \in Pulls(s)
    BY <1>1 DEF Covered
  <1>2. CASE Cardinality({m \in Pulls(s) : m > n}) >= QueueDepth
    <2> DEFINE A == {m \in Pulls(s) : m > n}
               P == Pulls(s)'
               B == {m \in P : m > n}
    <2>1. A \subseteq B /\ B \in SUBSET Samples /\ A \in SUBSET Samples
      OBVIOUS
    <2>2. IsFiniteSet(B) /\ Cardinality(B) \in Nat /\ Cardinality(A) \in Nat
      BY <2>1, FiniteSamples
    <2>3. Cardinality(A) <= Cardinality(B)
      BY <2>1, <2>2, FS_Subset
    <2>4. Cardinality(A) >= QueueDepth
      BY <1>2
    <2> HIDE DEF A, B
    <2>5. Cardinality(B) >= QueueDepth
      BY <1>0, <2>2, <2>3, <2>4
    <2> QED BY <2>5 DEF Covered, B
  <1>3. CASE Lapped(n)
    BY <1>3, LappedStays DEF Covered
  <1>4. CASE loc[s].cut /\ n <= cur - QueueDepth
    <2>1. next_seq \in Int
      BY TransientLocalAssumption DEF RingInv, PubType
    <2>2. next_seq' \in Int
      BY TransientLocalAssumption DEF RingInv, PubType
    <2>3. cur <= cur' /\ cur \in Int /\ cur' \in Int
      BY <2>1, <2>2 DEF RingMoves, cur
    <2>4. n <= cur' - QueueDepth
      BY <1>0, <1>4, <2>3
    <2> QED BY <1>4, <2>4 DEF Covered
  <1> QED BY <1>1, <1>2, <1>3, <1>4 DEF Covered

(* The numbers a pull accounts for.                                         *)
LEMMA WantedType ==
  ASSUME HeldInv, NEW s \in Subs
  PROVE  /\ \A n \in owed[s] : n \in Int
         /\ \A m : \A n \in Span(m) : n \in Int
         /\ \A n \in Wanted(s) : n \in Int
  <1>1. owed[s] \in SUBSET Samples
    BY DEF HeldInv
  <1>2. \A n \in owed[s] : n \in Int
    BY <1>1 DEF Samples
  <1>3. \A m : \A n \in Span(m) : n \in Int
    BY DEF Span
  <1> QED BY <1>2, <1>3 DEF Wanted

(* A joiner's history is not lost by what others do.                        *)
LEMMA HistFrame ==
  ASSUME RingInv, RingInv', RingMoves, PullInv, HeldInv, NEW s \in Subs, HistInv(s), Stays(s),
         pub' \notin Stopped => pub \notin Stopped, refused \subseteq refused'
  PROVE  HistInv(s)'
  <1>1. /\ Pulls(s)' = Pulls(s) /\ Wanted(s)' \subseteq Wanted(s)
        /\ Span(watermark[s])' \subseteq Span(watermark[s])
        /\ Span(loc[s].max)' \subseteq Span(loc[s].max)
    BY DEF Stays, Pulls, DeliveredTo, Wanted, Span
  <1>2. Pulls(s) \in SUBSET Samples
    BY PullsType
  <1>3. \A n \in Int : Covered(s, n) => Covered(s, n)'
    BY <1>1, <1>2, CoveredStays DEF Stays
  <1>4. \A n \in Int : Lapped(n) => Lapped(n)'
    BY LappedStays
  <1>6. /\ \A n \in owed[s] : n \in Int
        /\ \A m : \A n \in Span(m) : n \in Int
        /\ \A n \in Wanted(s) : n \in Int
    BY WantedType
  <1>7. ASSUME spc[s] = "recheck", NEW n \in Wanted(s)
        PROVE  \/ Lapped(n)' \/ n \in Numbers(loc[s].recs)
               \/ \E k \in Ring : k >= loc[s].i /\ Whole(k)' /\ whdr'[k] = n
    <2>1. CASE Lapped(n)
      BY <1>4, <1>6, <2>1
    <2>2. CASE \E k \in Ring : k >= loc[s].i /\ Whole(k) /\ whdr[k] = n
      <3>1. PICK k \in Ring : k >= loc[s].i /\ Whole(k) /\ whdr[k] = n
        BY <2>2
      <3>2. (Whole(k)' /\ whdr'[k] = n) \/ n <= cur' - Slots
        BY <3>1, SlotStays
      <3> QED BY <3>1, <3>2 DEF Lapped
    <2> QED BY <1>7, <2>1, <2>2 DEF HistInv
  <1>8. spc[s] = "trim" /\ ~overlapped[s] =>
          \A n \in Wanted(s) : Lapped(n)' \/ n \in Numbers(loc[s].recs)
    BY <1>4, <1>6 DEF HistInv
  <1>9. spc[s] = "enqueue" /\ ~overlapped[s] =>
          /\ ~loc[s].cut => \A n \in owed[s] : Covered(s, n)'
          /\ \A n \in Span(loc[s].max) : Covered(s, n)'
    BY <1>3, <1>6 DEF HistInv
  <1>10. spc[s] = "ready" /\ ~overlapped[s] =>
           /\ ~loc[s].cut /\ pub' \notin Stopped => \A n \in owed[s] : Covered(s, n)'
           /\ \A n \in Span(watermark[s]) : Covered(s, n)'
    BY <1>3, <1>6 DEF HistInv
  <1>11. /\ spc[s] = "enqueue" /\ overlapped[s] => NoGap(s, loc[s].max)'
         /\ spc[s] = "ready" /\ overlapped[s] => NoGap(s, watermark[s])'
    BY <1>1 DEF HistInv, NoGap, Stays
  <1> QED BY <1>1, <1>7, <1>8, <1>9, <1>10, <1>11 DEF HistInv, Stays

(* A subscriber's step leaves the publisher alone.                          *)
LEMMA SubSpares ==
  ASSUME NEW s \in Subs, SubVisible(s) \/ SubStep(s) \/ Drain(s) \/ Take(s) \/ SubUnlist(s)
  PROVE  UNCHANGED <<pubMem, pubVars, ringVars>> /\ (SubVisible(s) \/ UNCHANGED owed)
  BY DEF SubStep, SubVisible, SubBump, SubQuery, PullOpen, PullSeq, PullHeader, PullPayload,
     PullCheck, PullScanned, PullRecheck, PullTrim, PullEnqueue, PullWatermark, SubClose, Drain,
     Take, SubUnlist

(* A publisher that has stopped does not start again.                       *)
LEMMA NextList ==
  ASSUME ListInv, [Next]_vars PROVE ListInv' /\ (pub' \notin Stopped => pub \notin Stopped)
  <1>1. CASE \/ PubBegin \/ LatchOdd \/ LatchHeader \/ LatchPayload \/ LatchEven
             \/ LoadGeneration \/ RefreshSubPaths \/ PubEnd \/ PubClose \/ PubUnlist \/ PubCrash
             \/ Reap
    BY <1>1 DEF PubBegin, LatchOdd, LatchHeader, LatchPayload, LatchEven, LoadGeneration,
       RefreshSubPaths, PubEnd, PubClose, PubUnlist, PubCrash, Reap, ListInv, Stopped, pubMem,
       pubVars
  <1>2. ASSUME NEW s \in Subs, Send(s) PROVE ListInv' /\ pub' = pub
    BY <1>2 DEF Send, ListInv, pubMem
  <1>3. ASSUME NEW s \in Subs,
               SubVisible(s) \/ SubStep(s) \/ Drain(s) \/ Take(s) \/ SubUnlist(s)
        PROVE  ListInv' /\ pub' = pub
    BY <1>3, SubSpares DEF ListInv, pubMem, pubVars
  <1>4. CASE UNCHANGED vars
    BY <1>4 DEF vars, ListInv, pubMem, pubVars
  <1> QED BY <1>1, <1>2, <1>3, <1>4 DEF Next, PublishStep

(* Only the last write of a latch makes a slot whole.                       *)
LEMMA WholeFrom ==
  ASSUME RingInv, RingInv', [Next]_vars, ~LatchEven
  PROVE  \A k \in Ring : Whole(k)' => Whole(k) /\ whdr'[k] = whdr[k]
  <1>0. next_index \in Nat /\ whdr \in [Ring -> Words]
    BY DEF RingInv, PubType
  <1>1. CASE UNCHANGED <<rseq, whdr>>
    BY <1>1 DEF Whole
  <1>2. CASE LatchOdd
    <2>1. /\ pub = "odd" /\ pub' = "hdr" /\ UNCHANGED <<next_seq, next_index, whdr>>
          /\ rseq' = [rseq EXCEPT ![slot] = (2 * next_index - 1) % SeqMod]
      BY <1>2 DEF LatchOdd
    <2>2. \A k \in Ring \ {slot} : rseq'[k] = rseq[k]
      BY <2>1 DEF RingInv, PubType
    <2>3. slot' = slot /\ slot \in Ring
      BY <2>1, SlotOf DEF slot
    <2>4. rseq'[slot'] = 2 * next_index' - 1
      BY <2>1 DEF RingInv, LatchInv
    <2>5. next_index - 1 \in Nat /\ rseq'[slot] = 2 * (next_index - 1) + 1
      BY <2>1, <2>3, <2>4 DEF RingInv, PubType
    <2>6. rseq'[slot] % 2 = 1
      BY <2>5, Parity
    <2> QED BY <2>1, <2>2, <2>3, <2>6 DEF Whole
  <1>3. CASE LatchHeader
    <2>1. pub = "hdr" /\ UNCHANGED rseq /\ whdr' = [whdr EXCEPT ![slot] = cur]
      BY <1>3 DEF LatchHeader
    <2>2. slot \in Ring /\ rseq[slot] = 2 * next_index - 1
      BY <2>1, SlotOf DEF RingInv, LatchInv
    <2>3. ~Whole(slot)
      BY <1>0, <2>2, WordOf
    <2> QED BY <1>0, <2>1, <2>2, <2>3 DEF Whole
  <1>4. UNCHANGED <<rseq, whdr>> \/ LatchOdd \/ LatchHeader
    <2>1. CASE \/ PubBegin \/ LatchOdd \/ LatchHeader \/ LatchPayload \/ LatchEven
               \/ LoadGeneration \/ RefreshSubPaths \/ PubEnd \/ PubClose \/ PubUnlist
               \/ PubCrash \/ Reap \/ UNCHANGED vars
      BY <2>1 DEF PubBegin, LatchPayload, LoadGeneration, RefreshSubPaths, PubEnd, PubClose,
         PubUnlist, PubCrash, Reap, vars, ringVars
    <2>2. ASSUME NEW s \in Subs, Send(s) PROVE UNCHANGED <<rseq, whdr>>
      BY <2>2 DEF Send, ringVars
    <2>3. ASSUME NEW s \in Subs,
                 SubVisible(s) \/ SubStep(s) \/ Drain(s) \/ Take(s) \/ SubUnlist(s)
          PROVE  UNCHANGED <<rseq, whdr>>
      BY <2>3, SubSpares DEF ringVars
    <2> QED BY <2>1, <2>2, <2>3 DEF Next, PublishStep
  <1> QED BY <1>1, <1>2, <1>3, <1>4

(* A record a joiner holds is one it held or one of the ring's.             *)
LEMMA NextRecs ==
  ASSUME RingInv, PullInv, [Next]_vars PROVE \A s \in Subs : loc'[s] = loc[s] \/ RecsFrom(s)
  <1>1. CASE \/ PubBegin \/ LatchOdd \/ LatchHeader \/ LatchPayload \/ LatchEven
             \/ LoadGeneration \/ RefreshSubPaths \/ PubEnd \/ PubClose \/ PubUnlist \/ PubCrash
             \/ Reap \/ UNCHANGED vars
    BY <1>1 DEF PubBegin, LatchOdd, LatchHeader, LatchPayload, LatchEven, LoadGeneration,
       RefreshSubPaths, PubEnd, PubClose, PubUnlist, PubCrash, Reap, vars, subVars
  <1>2. ASSUME NEW s \in Subs, Send(s) PROVE loc' = loc
    BY <1>2 DEF Send
  <1>3. ASSUME NEW s \in Subs,
               SubVisible(s) \/ SubStep(s) \/ Drain(s) \/ Take(s) \/ SubUnlist(s)
        PROVE  \A t \in Subs : loc'[t] = loc[t] \/ RecsFrom(t)
    BY <1>3, SubSteps DEF SubNext, SubOnly
  <1> QED BY <1>1, <1>2, <1>3 DEF Next, PublishStep

(* What a step that takes no number and commits no record does to the       *)
(* publisher.                                                               *)
LEMMA PubQuiet ==
  ASSUME [Next]_vars, ~PubBegin, ~LatchEven
  PROVE  /\ next_seq' = next_seq /\ refused' = refused
         /\ pub' \in {"idle", "load", "refresh", "send"} =>
              pub \in {"idle", "load", "refresh", "send"}
  <1>1. CASE \/ PubBegin \/ LatchOdd \/ LatchHeader \/ LatchPayload \/ LatchEven
             \/ LoadGeneration \/ RefreshSubPaths \/ PubEnd \/ PubClose \/ PubUnlist \/ PubCrash
             \/ Reap \/ UNCHANGED vars
    BY <1>1 DEF LatchOdd, LatchHeader, LatchPayload, LoadGeneration, RefreshSubPaths, PubEnd,
       PubClose, PubUnlist, PubCrash, Reap, vars, pubMem, pubVars
  <1>2. ASSUME NEW s \in Subs, Send(s) PROVE UNCHANGED <<next_seq, refused, pub>>
    BY <1>2 DEF Send, pubMem
  <1>3. ASSUME NEW s \in Subs,
               SubVisible(s) \/ SubStep(s) \/ Drain(s) \/ Take(s) \/ SubUnlist(s)
        PROVE  UNCHANGED <<next_seq, refused, pub>>
    BY <1>3, SubSpares DEF pubMem, pubVars
  <1> QED BY <1>1, <1>2, <1>3 DEF Next, PublishStep

(* Every step keeps DoneInv.                                                *)
LEMMA NextDone ==
  ASSUME NoWrap, RingInv, RingInv', RingMoves, PullInv, DoneInv, [Next]_vars
  PROVE  DoneInv' /\ refused \subseteq refused'
  <1>0. PICK d \in {cur - 1, cur} : Settled(d)
    BY DEF DoneInv
  <1>1. cur \in Int /\ d \in Int /\ next_seq \in Int
    <2>1. next_seq \in Int
      BY TransientLocalAssumption DEF RingInv, PubType
    <2> QED BY <2>1, <1>0 DEF cur
  <1>2. \A n \in Int : Held(n) => Held(n)'
    BY HeldStays
  <1>3. \A k \in Ring : Whole(k) => whdr[k] \in Int /\ whdr[k] <= d
    BY <1>0 DEF Settled, RingInv, PubType, Words, Samples, NoSample
  <1>4. \A s \in Subs : \A r \in loc'[s].recs : r.n \in Int /\ r.n <= d
    <2>1. \A s \in Subs : \A r \in loc[s].recs : r.n \in Int /\ r.n <= d
      BY <1>0 DEF Settled, PullInv, SubType, Locals, Rec, Samples
    <2> QED BY <1>3, <2>1, NextRecs DEF RecsFrom
  <1>5. CASE PubBegin
    <2>1. /\ pub = "idle" /\ next_seq' = next_seq + 1 /\ UNCHANGED <<rseq, whdr>>
          /\ \/ pub' = "odd" /\ refused' = refused
             \/ pub' = "load" /\ refused' = refused \cup {next_seq}
      BY <1>5 DEF PubBegin
    <2>2. d = cur /\ cur' = cur + 1 /\ next_seq = cur + 1
      BY <1>0, <1>1, <2>1 DEF Settled, cur
    <2>3. \A n \in (1 .. d) \ refused : Held(n)'
      BY <1>0, <1>2 DEF Settled
    <2>4. CASE pub' = "odd" /\ refused' = refused
      <3>1. Settled(d)'
        BY <1>3, <1>4, <2>1, <2>3, <2>4 DEF Settled, Whole
      <3>2. d \in {cur' - 1, cur'}
        BY <1>1, <2>2
      <3> QED BY <2>4, <3>1, <3>2 DEF DoneInv
    <2>5. CASE pub' = "load" /\ refused' = refused \cup {next_seq}
      <3>1. PICK e \in Int : e = cur + 1
        BY <1>1
      <3>2. \A n \in (1 .. e) \ refused' : n \in (1 .. d) \ refused
        BY <1>1, <2>2, <2>5, <3>1
      <3>3. \A k \in Ring : Whole(k)' => whdr'[k] <= e
        BY <1>1, <1>3, <2>1, <2>2, <3>1 DEF Whole
      <3>4. \A s \in Subs : \A r \in loc'[s].recs : r.n <= e
        BY <1>1, <1>4, <2>2, <3>1
      <3>5. Settled(e)'
        BY <2>2, <2>3, <3>1, <3>2, <3>3, <3>4 DEF Settled
      <3> QED BY <2>2, <2>5, <3>1, <3>5 DEF DoneInv
    <2> QED BY <2>1, <2>4, <2>5
  <1>6. CASE LatchEven
    <2>1. /\ pub = "even" /\ pub' = "load" /\ UNCHANGED <<next_seq, whdr, refused>>
          /\ rseq' = [rseq EXCEPT ![slot] = (2 * next_index) % SeqMod]
      BY <1>6 DEF LatchEven, pubMem
    <2>2. slot \in Ring /\ whdr[slot] = cur /\ cur' = cur
      BY <2>1, SlotOf DEF RingInv, LatchInv, cur
    <2>3. \A k \in Ring \ {slot} : rseq'[k] = rseq[k]
      BY <2>1 DEF RingInv, PubType
    <2>4. rseq'[slot] # 0 /\ rseq'[slot] % 2 = 0
      <3>1. next_index < next_seq /\ next_seq <= MaxSamples + 1 /\ next_index \in Nat
            /\ next_index >= 1
        BY <2>1 DEF RingInv, PubType, Latching
      <3>2. 2 * next_index < SeqMod /\ next_index > 0
        BY <1>1, <3>1, TransientLocalAssumption DEF NoWrap
      <3>3. (2 * next_index) % SeqMod = 2 * next_index
        BY <3>1, <3>2, SmallMod
      <3>4. rseq'[slot] = 2 * next_index
        BY <2>1, <2>2, <3>3 DEF RingInv, PubType
      <3> QED BY <3>1, <3>2, <3>4, Parity
    <2>5. Held(cur)'
      <3>1. PICK k \in Ring : k = slot
        BY <2>2
      <3>2. Whole(k)' /\ whdr'[k] = cur'
        BY <2>1, <2>2, <2>4, <3>1 DEF Whole
      <3> QED BY <3>2 DEF Held
    <2>6. PICK c \in Int : c = cur
      BY <1>1
    <2>7. \A n \in (1 .. c) \ refused : Held(n)'
      <3>1. \A n \in (1 .. c) \ refused : n \in (1 .. d) \ refused \/ n = c
        BY <1>0, <1>1, <2>6
      <3>2. Held(c)'
        BY <2>2, <2>5, <2>6 DEF Held
      <3> QED BY <1>0, <1>2, <3>1, <3>2 DEF Settled
    <2>8. \A k \in Ring : Whole(k)' => whdr'[k] <= c
      <3>1. d <= c /\ whdr'[slot] <= c
        BY <1>0, <1>1, <2>1, <2>2, <2>6
      <3>2. \A k \in Ring \ {slot} : Whole(k)' => whdr[k] \in Int /\ whdr[k] <= d
        BY <1>3, <2>3 DEF Whole
      <3> QED BY <1>1, <2>1, <2>6, <3>1, <3>2
    <2>9. \A s \in Subs : \A r \in loc'[s].recs : r.n <= c
      BY <1>0, <1>1, <1>4, <2>6
    <2>10. Settled(c)'
      BY <2>1, <2>2, <2>6, <2>7, <2>8, <2>9 DEF Settled
    <2> QED BY <2>1, <2>2, <2>6, <2>10 DEF DoneInv
  <1>7. CASE ~PubBegin /\ ~LatchEven
    <2>1. /\ cur' = cur /\ refused' = refused
          /\ pub' \in {"idle", "load", "refresh", "send"} =>
               pub \in {"idle", "load", "refresh", "send"}
      BY <1>7, PubQuiet DEF cur
    <2>2. \A k \in Ring : Whole(k)' => whdr'[k] <= d
      BY <1>3, <1>7, WholeFrom
    <2>3. \A n \in (1 .. d) \ refused : Held(n)'
      BY <1>0, <1>2 DEF Settled
    <2>4. Settled(d)'
      BY <1>0, <1>4, <2>1, <2>2, <2>3 DEF Settled
    <2> QED BY <1>0, <2>1, <2>4 DEF DoneInv
  <1> QED BY <1>5, <1>6, <1>7

(* What was in the ring still is, or has been lapped.                       *)
LEMMA NextHeld ==
  ASSUME RingInv, RingInv', RingMoves, HeldInv, [Next]_vars PROVE HeldInv'
  <1>0. \A n \in Int : Held(n) => Held(n)'
    BY HeldStays
  <1>1. owed' \in [Subs -> SUBSET Samples] /\ \A s \in Subs : \A n \in owed'[s] : Held(n)'
    <2>0. owed \in [Subs -> SUBSET Samples] /\ \A s \in Subs : \A n \in owed[s] : n \in Int /\ Held(n)
      BY DEF HeldInv, Samples
    <2>1. CASE UNCHANGED owed
      BY <1>0, <2>0, <2>1
    <2>2. ASSUME NEW s \in Subs, SubVisible(s)
          PROVE  owed' \in [Subs -> SUBSET Samples] /\ \A t \in Subs : \A n \in owed'[t] : Held(n)'
      <3>1. owed' = [owed EXCEPT ![s] = Newest(Latched, QueueDepth)]
        BY <2>2 DEF SubVisible
      <3>2. \A n \in Newest(Latched, QueueDepth) : \E k \in Ring : Whole(k) /\ whdr[k] = n
        BY DEF Newest, Latched, Whole
      <3>3. \A k \in Ring : Whole(k) => whdr[k] \in Samples
        BY WordOf DEF Committed
      <3>4. /\ Newest(Latched, QueueDepth) \in SUBSET Samples
            /\ \A n \in Newest(Latched, QueueDepth) : n \in Int /\ Held(n)
        BY <3>2, <3>3 DEF Held, Samples
      <3> HIDE DEF Newest
      <3>5. owed' \in [Subs -> SUBSET Samples]
        BY <2>0, <3>1, <3>4
      <3>6. \A t \in Subs : \A n \in owed'[t] : n \in Int /\ Held(n)
        BY <2>0, <3>1, <3>4
      <3> QED BY <1>0, <3>5, <3>6
    <2>3. UNCHANGED owed \/ \E s \in Subs : SubVisible(s)
      <3>1. CASE \/ PubBegin \/ LatchOdd \/ LatchHeader \/ LatchPayload \/ LatchEven
                 \/ LoadGeneration \/ RefreshSubPaths \/ PubEnd \/ PubClose \/ PubUnlist
                 \/ PubCrash \/ Reap \/ UNCHANGED vars
        BY <3>1 DEF PubBegin, LatchOdd, LatchHeader, LatchPayload, LatchEven, LoadGeneration,
           RefreshSubPaths, PubEnd, PubClose, PubUnlist, PubCrash, Reap, vars, subVars
      <3>2. ASSUME NEW s \in Subs, Send(s) PROVE UNCHANGED owed
        BY <3>2 DEF Send
      <3>3. ASSUME NEW s \in Subs,
                   SubVisible(s) \/ SubStep(s) \/ Drain(s) \/ Take(s) \/ SubUnlist(s)
            PROVE  UNCHANGED owed \/ SubVisible(s)
        BY <3>3, SubSpares
      <3> QED BY <3>1, <3>2, <3>3 DEF Next, PublishStep
    <2> QED BY <2>1, <2>2, <2>3
  <1> QED BY <1>1 DEF HeldInv

-----------------------------------------------------------------------------
(* A joiner's own steps.                                                    *)

(* What Newest leaves out, a full queue of newer ones displaces.            *)
LEMMA NewestFull ==
  ASSUME NEW S \in SUBSET Samples, NEW n \in S, n \notin Newest(S, QueueDepth)
  PROVE  Cardinality({m \in Newest(S, QueueDepth) : m > n}) >= QueueDepth
  <1> DEFINE N == Newest(S, QueueDepth)
             B == S \ N
  <1>0. \A m \in S : m \in Nat
    BY DEF Samples
  <1>1. B \in SUBSET Samples /\ B # {}
    OBVIOUS
  <1>2. PICK b \in B : \A t \in B : t <= b
    <2> HIDE DEF B
    <2> QED BY <1>1, Greatest
  <1> DEFINE A == {m \in S : m > b}
             C == {m \in N : m > n}
  <1>3. A \subseteq C
    <2> SUFFICES ASSUME NEW m \in S, m > b PROVE m \in N /\ m > n
      OBVIOUS
    <2>1. n <= b /\ n \in Nat /\ b \in Nat /\ m \in Nat
      BY <1>0, <1>2
    <2>2. m \notin B
      BY <1>2, <2>1
    <2> QED BY <2>1, <2>2
  <1>4. C \in SUBSET Samples /\ A \in SUBSET Samples
    BY DEF Newest
  <1>5. IsFiniteSet(C) /\ Cardinality(C) \in Nat /\ Cardinality(A) \in Nat
    BY <1>4, FiniteSamples
  <1>6. Cardinality(A) <= Cardinality(C)
    BY <1>3, <1>5, FS_Subset
  <1>7. ~(Cardinality(A) < QueueDepth)
    BY <1>2 DEF Newest
  <1> HIDE DEF A, C
  <1>8. Cardinality(C) >= QueueDepth
    BY <1>5, <1>6, <1>7, TransientLocalAssumption
  <1> QED BY <1>8 DEF C

(* A contiguous prefix has no gap.                                          *)
LEMMA PrefixWhole ==
  ASSUME NEW R \in SUBSET Rec, NEW a \in Numbers(Prefix(R)), NEW b \in Numbers(Prefix(R)),
         NEW n \in Samples, a < n, n <= b
  PROVE  n \in Numbers(Prefix(R))
  <1>0. Numbers(R) \in SUBSET Samples
    BY NumbersType
  <1>1. a \in Numbers(R) /\ \A m \in Numbers(R) : m < b => m + 1 \in Numbers(R)
    BY DEF Prefix, Numbers
  <1>2. \A m \in Numbers(R) : m \in Nat
    BY <1>0 DEF Samples
  <1>3. b \in Nat /\ n \in Nat
    <2>1. b \in Numbers(R)
      BY DEF Prefix, Numbers
    <2> QED BY <1>2, <2>1 DEF Samples
  <1>4. n \in Numbers(R)
    <2> SUFFICES ASSUME n \notin Numbers(R) PROVE FALSE
      OBVIOUS
    <2> DEFINE T == {m \in Numbers(R) : m < n}
    <2>1. T \in SUBSET Samples /\ T # {}
      BY <1>0, <1>1
    <2>2. PICK t \in T : \A u \in T : u <= t
      <3> HIDE DEF T
      <3> QED BY <2>1, Greatest
    <2>3. t \in Nat /\ t < n /\ t < b /\ t \in Numbers(R)
      BY <1>2, <1>3
    <2>4. t + 1 \in Numbers(R)
      BY <1>1, <2>3
    <2>5. t + 1 # n
      BY <2>4
    <2>6. t + 1 < n
      BY <1>3, <2>3, <2>5
    <2>7. t + 1 <= t
      BY <2>2, <2>4, <2>6
    <2> QED BY <2>3, <2>7
  <1>5. PICK r \in R : r.n = n
    BY <1>4 DEF Numbers
  <1>6. \A m \in Numbers(R) : m < n => m + 1 \in Numbers(R)
    BY <1>1, <1>2, <1>3
  <1>7. r \in Prefix(R)
    BY <1>5, <1>6 DEF Prefix
  <1> QED BY <1>5, <1>7 DEF Numbers

(* Before the scan there is nothing to account for; a joiner that finds no  *)
(* publisher or no ring meets a publisher that has stopped.                 *)
LEMMA HistEnter ==
  ASSUME PullInv, ListInv, NEW s \in Subs,
         \/ SubVisible(s) \/ SubBump(s) \/ SubQuery(s) \/ PullOpen(s)
  PROVE  HistInv(s)'
  <1>1. /\ spc[s] \in Before /\ spc'[s] \in Before \cup {"seq", "ready"}
        /\ spc'[s] = "ready" => ~listed \/ ~linked
        /\ pub' = pub /\ UNCHANGED <<watermark, overlapped>>
    BY DEF SubVisible, SubBump, SubQuery, PullOpen, Sub, Before, pubVars, PullInv, SubType
  <1>2. watermark'[s] = NoWatermark
    BY <1>1 DEF PullInv, PullSub, PhaseInv, Before, Joined
  <1>3. spc'[s] = "ready" => pub' \in Stopped
    BY <1>1 DEF ListInv
  <1>4. 1 .. NoWatermark = {} /\ \A n \in Samples : ~(n <= NoWatermark)
    BY DEF NoWatermark, Samples
  <1>5. Span(watermark[s])' = {}
    BY <1>2, <1>4 DEF Span
  <1>6. NoGap(s, watermark[s])'
    BY <1>2, <1>4 DEF NoGap
  <1> QED BY <1>1, <1>3, <1>4, <1>5, <1>6 DEF HistInv, Before

(* While a joiner scans there is nothing to account for either.             *)
LEMMA HistScan ==
  ASSUME PullInv, NEW s \in Subs,
         PullSeq(s) \/ PullHeader(s) \/ PullPayload(s) \/ PullCheck(s)
  PROVE  HistInv(s)'
  <1>1. spc'[s] \in Scanning
    BY DEF PullSeq, PullHeader, PullPayload, PullCheck, Sub, Scanning, Reading, PullInv, SubType
  <1> QED BY <1>1 DEF HistInv, Scanning, Reading

(* The scan is over: what is wanted is in the ring, or lapped.              *)
LEMMA HistScanned ==
  ASSUME RingInv, PullInv, DoneInv, HeldInv, NEW s \in Subs, PullScanned(s) PROVE HistInv(s)'
  <1> DEFINE l == loc[s]
  <1>0. l \in Locals /\ PullSub(s)
    BY DEF PullInv, SubType
  <1>1. /\ spc[s] = "seq" /\ spc'[s] = "recheck"
        /\ loc' = [loc EXCEPT ![s] = [l EXCEPT !.i = 0]]
        /\ UNCHANGED <<next_seq, rseq, whdr, owed, refused>>
    BY DEF PullScanned, Sub, SetLoc, pubMem, pubVars, ringVars, PullInv, SubType
  <1>2. loc'[s].i = 0 /\ loc'[s].recs = l.recs /\ loc'[s].max = l.max
    <2> DEFINE y == [l EXCEPT !.i = 0]
    <2>1. y.i = 0 /\ y.recs = l.recs /\ y.max = l.max
      BY <1>0 DEF Locals
    <2>2. loc'[s] = y
      BY <1>1 DEF PullInv, SubType
    <2> QED BY <2>1, <2>2
  <1>3. Wanted(s)' = Wanted(s)
    BY <1>1, <1>2 DEF Wanted, Span
  <1>4. ASSUME NEW n \in Span(l.max) PROVE Held(n)
    <2>1. n \in (1 .. l.max) \ refused
      BY <1>4 DEF Span
    <2>2. l.max \in Numbers(l.recs) \cup {0}
      BY <1>0, <1>1 DEF PullSub, RecInv, Scanning
    <2>3. l.max # 0
      BY <2>1
    <2>4. PICK r \in l.recs : r.n = l.max
      BY <2>2, <2>3 DEF Numbers
    <2>5. PICK d \in {cur - 1, cur} : Settled(d)
      BY DEF DoneInv
    <2>6. next_seq \in Int /\ l.max \in Int
      BY <1>0 DEF RingInv, PubType, Locals
    <2>7. l.max <= d /\ d \in Int
      BY <2>4, <2>5, <2>6 DEF Settled, cur
    <2>8. n \in (1 .. d) \ refused
      BY <2>1, <2>6, <2>7
    <2> QED BY <2>5, <2>8 DEF Settled
  <1>5. \A n \in Wanted(s) : Held(n)
    BY <1>4 DEF Wanted, HeldInv
  <1>6. \A k \in Ring : k >= 0
    BY DEF Ring
  <1>7. \A n \in Wanted(s) : \/ Lapped(n)' \/ \E k \in Ring : k >= 0 /\ Whole(k)' /\ whdr'[k] = n
    BY <1>1, <1>5, <1>6 DEF Held, Whole, Lapped, cur
  <1> QED BY <1>1, <1>2, <1>3, <1>7 DEF HistInv

(* A slot that has not moved gave its record to the scan.                   *)
LEMMA HistRecheck ==
  ASSUME RingInv, PullInv, NEW s \in Subs, HistInv(s), PullRecheck(s) PROVE HistInv(s)'
  <1> DEFINE l == loc[s]
             moved == rseq[l.i] # l.obs[l.i]
  <1>0. l \in Locals /\ PullSub(s) /\ l.i \in Nat
    BY DEF PullInv, SubType, Locals
  <1>1. /\ spc[s] = "recheck" /\ l.i < Slots /\ overlapped'[s] = moved
        /\ spc'[s] = IF moved \/ l.i + 1 = Slots THEN "trim" ELSE "recheck"
        /\ loc' = [loc EXCEPT ![s] = [l EXCEPT !.i = l.i + 1]]
        /\ UNCHANGED <<next_seq, rseq, whdr, owed, refused>>
    BY DEF PullRecheck, Sub, SetLoc, pubMem, pubVars, ringVars, PullInv, SubType
  <1>2. loc'[s].i = l.i + 1 /\ loc'[s].recs = l.recs /\ loc'[s].max = l.max
    <2> DEFINE y == [l EXCEPT !.i = l.i + 1]
    <2>1. y.i = l.i + 1 /\ y.recs = l.recs /\ y.max = l.max
      BY <1>0 DEF Locals
    <2>2. loc'[s] = y
      BY <1>1 DEF PullInv, SubType
    <2> QED BY <2>1, <2>2
  <1>3. Wanted(s)' = Wanted(s)
    BY <1>1, <1>2 DEF Wanted, Span
  <1>4. CASE moved
    BY <1>1, <1>4 DEF HistInv
  <1>5. CASE ~moved
    <2>1. l.i \in Ring /\ Passed(s, l.i)
      BY <1>0, <1>1, TransientLocalAssumption DEF Ring, Passed
    <2>2. Whole(l.i) => whdr[l.i] \in Numbers(l.recs)
      BY <1>0, <1>5, <2>1 DEF PullSub, ScanInv
    <2>3. ASSUME NEW n \in Wanted(s)
          PROVE  \/ Lapped(n) \/ n \in Numbers(l.recs)
                 \/ \E k \in Ring : k >= l.i + 1 /\ Whole(k) /\ whdr[k] = n
      <3>1. ASSUME NEW k \in Ring, k >= l.i, Whole(k), whdr[k] = n
            PROVE  n \in Numbers(l.recs) \/ k >= l.i + 1
        <4>1. CASE k = l.i
          BY <2>2, <3>1, <4>1
        <4>2. CASE k # l.i
          BY <1>0, <3>1, <4>2 DEF Ring
        <4> QED BY <4>1, <4>2
      <3> QED BY <1>1, <3>1 DEF HistInv
    <2>4. /\ \A n : Lapped(n) => Lapped(n)'
          /\ \A k \in Ring : Whole(k) => Whole(k)'
      BY <1>1 DEF Lapped, cur, Whole
    <2>5. CASE l.i + 1 = Slots
      <3>1. \A k \in Ring : ~(k >= l.i + 1)
        BY <2>5, TransientLocalAssumption DEF Ring
      <3>2. \A n \in Wanted(s) : Lapped(n)' \/ n \in Numbers(l.recs)
        BY <2>3, <2>4, <3>1
      <3> QED BY <1>1, <1>2, <1>3, <2>5, <3>2 DEF HistInv
    <2>6. CASE l.i + 1 # Slots
      <3>1. \A n \in Wanted(s) : \/ Lapped(n)' \/ n \in Numbers(l.recs)
                                 \/ \E k \in Ring : k >= l.i + 1 /\ Whole(k)' /\ whdr'[k] = n
        BY <1>1, <2>3, <2>4
      <3> QED BY <1>1, <1>2, <1>3, <1>5, <2>6, <3>1 DEF HistInv
    <2> QED BY <2>5, <2>6
  <1> QED BY <1>4, <1>5

(* The newest records are kept; of an overlapped scan, those before a gap.  *)
LEMMA HistTrim ==
  ASSUME RingInv, PullInv, NEW s \in Subs, HistInv(s), PullTrim(s) PROVE HistInv(s)'
  <1> DEFINE l == loc[s]
             kept == Kept(l.recs, overlapped[s])
             m == IF overlapped[s] THEN MaxOf(Numbers(kept)) ELSE l.max
  <1>0. /\ l \in Locals /\ PullSub(s) /\ l.recs \in SUBSET Rec /\ overlapped[s] \in BOOLEAN
        /\ l.max \in Nat
    BY DEF PullInv, SubType, Locals
  <1>1. /\ UNCHANGED <<delivered, watermark, overlapped, owed, next_seq, pub, refused>>
        /\ spc[s] = "trim"
        /\ \/ l.recs = {} /\ spc'[s] = "ready" /\ loc'[s] = NoLocals
           \/ /\ l.recs # {} /\ spc'[s] = "enqueue"
              /\ loc'[s] = [NoLocals EXCEPT !.recs = kept, !.max = m]
    BY DEF PullTrim, Kept, Sub, SetLoc, pubMem, pubVars, ringVars, PullInv, SubType
  <1>2. DeliveredTo(s)' = {}
    BY <1>0, <1>1 DEF PullSub, PhaseInv, DeliveredTo, Joined
  <1>3. watermark'[s] = NoWatermark
    BY <1>0, <1>1 DEF PullSub, PhaseInv, Joined
  <1>4. \A n : Lapped(n) => Lapped(n)'
    BY <1>1 DEF Lapped, cur
  <1>5. CASE l.recs = {}
    <2>1. Span(watermark[s])' = {} /\ NoGap(s, watermark[s])'
      BY <1>3 DEF Span, NoGap, NoWatermark, Samples
    <2>2. ~overlapped[s] => \A n \in owed[s] : Lapped(n)
      BY <1>1, <1>5 DEF HistInv, Wanted, Numbers
    <2>3. ~overlapped'[s] => \A n \in owed'[s] : Covered(s, n)'
      BY <1>1, <1>4, <2>2 DEF Covered
    <2> QED BY <1>1, <1>5, <2>1, <2>3 DEF HistInv
  <1>6. CASE l.recs # {}
    <2> DEFINE y == [NoLocals EXCEPT !.recs = kept, !.max = m]
    <2>1. y.recs = kept /\ y.max = m /\ y.cut = FALSE
      BY DEF NoLocals
    <2>2. loc'[s] = y
      BY <1>1, <1>6
    <2>3. Pulls(s)' = Numbers(kept)
      BY <1>2, <2>1, <2>2 DEF Pulls
    <2> HIDE DEF y
    <2>4. CASE ~overlapped[s]
      <3> DEFINE S == Numbers(l.recs)
      <3>1. kept = NewestRecs(l.recs) /\ m = l.max
        BY <2>4 DEF Kept
      <3>2. S \in SUBSET Samples /\ Pulls(s)' = Newest(S, QueueDepth)
        BY <1>0, <2>3, <3>1, NumbersType
      <3>3. ASSUME NEW n \in Wanted(s) PROVE Covered(s, n)'
        <4>1. Lapped(n)' \/ n \in S
          BY <1>1, <1>4, <2>4 DEF HistInv
        <4>2. CASE n \in S /\ n \notin Newest(S, QueueDepth)
          <5> DEFINE C == {t \in Newest(S, QueueDepth) : t > n}
          <5>1. Cardinality(C) >= QueueDepth
            BY <3>2, <4>2, NewestFull
          <5>2. C = {t \in Pulls(s)' : t > n}
            BY <3>2
          <5> HIDE DEF C
          <5>3. Cardinality({t \in Pulls(s)' : t > n}) >= QueueDepth
            BY <5>1, <5>2
          <5> QED BY <5>3 DEF Covered
        <4>3. CASE n \in Newest(S, QueueDepth)
          BY <3>2, <4>3 DEF Covered
        <4> QED BY <4>1, <4>2, <4>3 DEF Covered
      <3>4. owed'[s] \subseteq Wanted(s) /\ Span(loc[s].max)' \subseteq Wanted(s)
        BY <1>1, <2>1, <2>2, <3>1 DEF Wanted, Span
      <3> QED BY <1>1, <1>6, <2>4, <3>3, <3>4 DEF HistInv
    <2>5. CASE overlapped[s]
      <3> DEFINE R == NewestRecs(l.recs)
      <3>1. kept = Prefix(R) /\ m = MaxOf(Numbers(kept)) /\ R \in SUBSET Rec
        BY <1>0, <2>5, NumbersType DEF Kept
      <3>2. kept \subseteq l.recs /\ kept # {}
        BY <1>0, <1>6, KeptOf
      <3>3. Numbers(kept) \in SUBSET Samples /\ Numbers(kept) # {}
        <4> HIDE DEF kept
        <4>1. kept \in SUBSET Rec
          BY <1>0, <3>2
        <4> QED BY <3>2, <4>1, NumbersType
      <3>4. m \in Numbers(kept)
        <4> HIDE DEF kept
        <4> QED BY <3>1, <3>3, MaxOfIs
      <3>5. \A a \in Numbers(kept), n \in Samples : a < n /\ n <= m => n \in Numbers(kept)
        <4> HIDE DEF kept, R, m
        <4> QED BY <3>1, <3>4, PrefixWhole
      <3> HIDE DEF kept, m
      <3>6. NoGap(s, loc[s].max)'
        BY <2>1, <2>2, <2>3, <3>5 DEF NoGap
      <3> QED BY <1>1, <1>6, <2>5, <3>6 DEF HistInv
    <2> QED BY <2>4, <2>5
  <1> QED BY <1>5, <1>6

(* What joining the end of a queue adds to the samples delivered.           *)
LEMMA DeliveredAppend ==
  ASSUME NEW d \in Seq(Rec), NEW r \in Rec
  PROVE  {Append(d, r)[k].n : k \in 1 .. Len(Append(d, r))}
           = {d[k].n : k \in 1 .. Len(d)} \cup {r.n}
  <1>1. /\ Len(Append(d, r)) = Len(d) + 1 /\ Len(d) \in Nat
        /\ \A k \in 1 .. Len(d) : Append(d, r)[k] = d[k]
        /\ Append(d, r)[Len(d) + 1] = r
    OBVIOUS
  <1> DEFINE a == Append(d, r)
  <1> HIDE DEF a
  <1>2. ASSUME NEW k \in 1 .. Len(a) PROVE a[k].n \in {d[j].n : j \in 1 .. Len(d)} \cup {r.n}
    <2>1. k \in 1 .. Len(d) \/ k = Len(d) + 1
      BY <1>1 DEF a
    <2> QED BY <1>1, <2>1 DEF a
  <1>3. \A j \in 1 .. Len(d) : j \in 1 .. Len(a) /\ a[j].n = d[j].n
    BY <1>1 DEF a
  <1>4. Len(d) + 1 \in 1 .. Len(a) /\ a[Len(d) + 1].n = r.n
    BY <1>1 DEF a
  <1> QED BY <1>2, <1>3, <1>4 DEF a

(* As many samples above n as a queue holds put n below the newest ones.    *)
LEMMA QueueAbove ==
  ASSUME NEW P \in SUBSET Samples, NEW c \in Int, \A x \in P : x <= c, NEW n \in Int,
         Cardinality({x \in P : x > n}) >= QueueDepth
  PROVE  n <= c - QueueDepth
  <1> DEFINE A == {x \in P : x > n}
  <1>0. QueueDepth \in Nat /\ QueueDepth > 0
    BY TransientLocalAssumption
  <1>1. A \in SUBSET Samples /\ A \subseteq n + 1 .. c
    <2>1. \A x \in P : x \in Int
      BY DEF Samples
    <2>2. \A x \in A : x \in n + 1 .. c
      BY <2>1
    <2> QED BY <2>2
  <1>2. /\ IsFiniteSet(n + 1 .. c)
        /\ Cardinality(n + 1 .. c) = IF n + 1 > c THEN 0 ELSE c - (n + 1) + 1
    BY FS_Interval
  <1>3. Cardinality(A) \in Nat
    BY <1>1, FiniteSamples
  <1>4. Cardinality(A) <= Cardinality(n + 1 .. c)
    BY <1>1, <1>2, FS_Subset
  <1>5. Cardinality(A) >= QueueDepth
    OBVIOUS
  <1> HIDE DEF A
  <1>6. QueueDepth <= IF n + 1 > c THEN 0 ELSE c - (n + 1) + 1
    BY <1>0, <1>2, <1>3, <1>4, <1>5
  <1> QED BY <1>0, <1>6

(* The replay moves a record from one set to the other; a replay that is    *)
(* cut gives up the records it has left, and the watermark stops below.     *)
LEMMA HistEnqueue ==
  ASSUME RingInv, RingInv', RingMoves, PullInv, HeldInv, NEW s \in Subs, QueuedInv(s),
         HistInv(s), PullEnqueue(s)
  PROVE  HistInv(s)'
  <1> DEFINE l == loc[s]
             r == Oldest(l.recs)
             y == loc'[s]
  <1>0. PullSub(s) /\ l.recs \in SUBSET Rec /\ l.max \in Nat /\ delivered[s] \in Seq(Rec)
    BY DEF PullInv, SubType, Locals
  <1>1. /\ spc[s] = "enqueue" /\ spc' = spc /\ r \in l.recs /\ r \in Rec
        /\ \A x \in l.recs : r.n <= x.n
        /\ UNCHANGED <<owed, overlapped, next_seq, refused>>
    BY EnqueueDoes DEF pubMem, pubVars
  <1>2. \/ y.recs = l.recs \ {r} /\ y.max = l.max /\ y.cut = l.cut /\ delivered'[s] = Append(delivered[s], r)
        \/ y.recs = {} /\ y.max = r.n - 1 /\ y.cut /\ delivered'[s] = delivered[s]
    BY EnqueueDoes DEF Replays, PullInv, SubType
  <1>3. Pulls(s) \in SUBSET Samples
    BY PullsType
  <1>5. /\ \A n \in owed[s] : n \in Int
        /\ \A t : \A n \in Span(t) : n \in Int
    BY WantedType
  <1>6. \A x \in l.recs : x.n \in Nat /\ x.n <= cur /\ x.n <= l.max
    BY <1>0 DEF PullSub, RecInv, Rec, Samples
  <1> HIDE DEF r, y
  <1>7. CASE y.recs = l.recs \ {r} /\ y.max = l.max /\ y.cut = l.cut /\ delivered'[s] = Append(delivered[s], r)
    <2>1. DeliveredTo(s)' = DeliveredTo(s) \cup {r.n}
      <3> DEFINE a == Append(delivered[s], r)
      <3>1. {a[k].n : k \in 1 .. Len(a)} = {delivered[s][k].n : k \in 1 .. Len(delivered[s])} \cup {r.n}
        BY <1>0, <1>1, DeliveredAppend
      <3> HIDE DEF a
      <3>2. delivered'[s] = a
        BY <1>7 DEF a
      <3> QED BY <3>1, <3>2 DEF DeliveredTo
    <2>2. Numbers(l.recs) = Numbers(l.recs \ {r}) \cup {r.n}
      BY <1>1 DEF Numbers
    <2>3. Pulls(s)' = Pulls(s)
      BY <1>7, <2>1, <2>2 DEF Pulls, y
    <2>4. \A n \in Int : Covered(s, n) => Covered(s, n)'
      BY <1>3, <1>7, <2>3, CoveredStays DEF y
    <2>5. Span(loc[s].max)' = Span(l.max)
      BY <1>1, <1>7 DEF Span, y
    <2>6. ~overlapped[s] =>
            /\ ~l.cut => \A n \in owed[s] : Covered(s, n)'
            /\ \A n \in Span(l.max) : Covered(s, n)'
      BY <1>1, <1>5, <2>4 DEF HistInv
    <2>7. overlapped[s] => NoGap(s, loc[s].max)'
      BY <1>1, <1>7, <2>3 DEF HistInv, NoGap, y
    <2> QED BY <1>1, <1>7, <2>5, <2>6, <2>7 DEF HistInv, y
  <1>8. CASE y.recs = {} /\ y.max = r.n - 1 /\ y.cut /\ delivered'[s] = delivered[s]
    <2>1. Pulls(s)' = DeliveredTo(s)
      BY <1>8 DEF Pulls, DeliveredTo, Numbers, y
    <2>2. \A n \in Pulls(s) : n \in DeliveredTo(s) \/ n >= r.n
      BY <1>1, <1>6 DEF Pulls, Numbers
    <2>3. r.n \in Nat /\ r.n <= l.max
      BY <1>1, <1>6
    <2>4. cur' = cur /\ cur \in Int /\ QueueDepth \in Nat
      BY <1>1, TransientLocalAssumption DEF cur, RingInv, PubType
    <2>5. \A x \in Pulls(s) : x <= cur
      BY <1>6 DEF Pulls, Numbers, DeliveredTo, QueuedInv
    <2>6. ASSUME ~overlapped[s], NEW n \in Span(r.n - 1) PROVE Covered(s, n)'
      <3>1. n \in Int /\ n < r.n /\ n \in Span(l.max)
        <4>1. n \in (1 .. r.n - 1) \ refused
          BY <2>6 DEF Span
        <4>2. n \in (1 .. l.max) \ refused
          BY <1>0, <2>3, <4>1
        <4> QED BY <2>3, <4>1, <4>2 DEF Span
      <3>2. Covered(s, n)
        BY <1>1, <2>6, <3>1 DEF HistInv
      <3>3. CASE n \in Pulls(s)
        BY <2>1, <2>2, <2>3, <3>1, <3>3 DEF Covered
      <3>4. CASE Cardinality({t \in Pulls(s) : t > n}) >= QueueDepth
        <4>1. n <= cur - QueueDepth
          BY <1>3, <2>4, <2>5, <3>1, <3>4, QueueAbove
        <4> QED BY <1>8, <2>4, <4>1 DEF Covered, y
      <3>5. CASE Lapped(n)
        BY <3>1, <3>5, LappedStays DEF Covered
      <3>6. CASE l.cut /\ n <= cur - QueueDepth
        BY <1>8, <2>4, <3>6 DEF Covered, y
      <3> QED BY <3>2, <3>3, <3>4, <3>5, <3>6 DEF Covered
    <2>7. Span(loc[s].max)' = Span(r.n - 1)
      BY <1>1, <1>8 DEF Span, y
    <2>8. ASSUME overlapped[s] PROVE NoGap(s, loc[s].max)'
      <3> SUFFICES ASSUME NEW a \in DeliveredTo(s), NEW n \in Samples, a < n, n <= r.n - 1
                   PROVE  n \in DeliveredTo(s)
        BY <1>8, <2>1 DEF NoGap, y
      <3>1. n \in Int /\ n <= l.max /\ n < r.n
        BY <1>0, <2>3 DEF Samples
      <3>2. n \in Pulls(s)
        BY <1>1, <2>8, <3>1 DEF HistInv, NoGap, Pulls
      <3> QED BY <2>2, <2>3, <3>1, <3>2
    <2> QED BY <1>1, <1>8, <2>6, <2>7, <2>8 DEF HistInv, y
  <1> QED BY <1>2, <1>7, <1>8

(* The watermark takes over.                                                *)
LEMMA HistWatermark ==
  ASSUME RingInv, RingInv', RingMoves, PullInv, HeldInv, NEW s \in Subs, HistInv(s),
         PullWatermark(s)
  PROVE  HistInv(s)'
  <1> DEFINE l == loc[s]
             y == [NoLocals EXCEPT !.cut = l.cut]
  <1>1. /\ l.recs = {} /\ spc[s] = "enqueue" /\ spc'[s] = "ready"
        /\ watermark'[s] = l.max /\ loc'[s] = y
        /\ UNCHANGED <<delivered, overlapped, owed, refused>>
    BY DEF PullWatermark, Sub, SetLoc, pubMem, PullInv, SubType
  <1>2. y.recs = {} /\ y.cut = l.cut
    BY DEF NoLocals
  <1> HIDE DEF y
  <1>3. Pulls(s)' = Pulls(s) /\ Pulls(s) \in SUBSET Samples
    BY <1>1, <1>2, PullsType DEF Pulls, DeliveredTo
  <1>4. \A n \in Int : Covered(s, n) => Covered(s, n)'
    BY <1>1, <1>2, <1>3, CoveredStays
  <1>5. /\ \A n \in owed[s] : n \in Int
        /\ \A t : \A n \in Span(t) : n \in Int
    BY WantedType
  <1>6. Span(watermark[s])' = Span(l.max)
    BY <1>1 DEF Span
  <1>7. ~overlapped[s] => /\ ~l.cut => \A n \in owed[s] : Covered(s, n)'
                          /\ \A n \in Span(l.max) : Covered(s, n)'
    BY <1>1, <1>4, <1>5 DEF HistInv
  <1>8. overlapped[s] => NoGap(s, watermark[s])'
    BY <1>1, <1>3 DEF HistInv, NoGap
  <1> QED BY <1>1, <1>2, <1>6, <1>7, <1>8 DEF HistInv

(* A datagram above the watermark adds to what the joiner has.              *)
LEMMA HistDrain ==
  ASSUME RingInv, RingInv', RingMoves, PullInv, HeldInv, NEW s \in Subs, HistInv(s),
         Drain(s)
  PROVE  HistInv(s)'
  <1> DEFINE h == Head(sock[s])
             r == [n |-> h.n, pay |-> h.n]
  <1>0. delivered[s] \in Seq(Rec) /\ watermark[s] \in Int
    BY DEF PullInv, SubType
  <1>1. /\ spc[s] = "ready" /\ h \in Dgram
        /\ delivered'[s] = delivered[s] \/ (h.n > watermark[s] /\ delivered'[s] = Append(delivered[s], r))
        /\ UNCHANGED <<spc, loc, watermark, overlapped, owed, pub, refused>>
    BY DrainDoes DEF pubMem, pubVars, PullInv, SubType
  <1>2. r \in Rec /\ r.n = h.n /\ h.n \in Int
    BY <1>1 DEF Rec, Dgram, Samples
  <1> HIDE DEF r, h
  <1>3. \/ DeliveredTo(s)' = DeliveredTo(s)
        \/ h.n > watermark[s] /\ DeliveredTo(s)' = DeliveredTo(s) \cup {h.n}
    <2>1. CASE delivered'[s] = delivered[s]
      BY <2>1 DEF DeliveredTo
    <2>2. CASE h.n > watermark[s] /\ delivered'[s] = Append(delivered[s], r)
      <3> DEFINE a == Append(delivered[s], r)
      <3>1. {a[k].n : k \in 1 .. Len(a)} = {delivered[s][k].n : k \in 1 .. Len(delivered[s])} \cup {r.n}
        BY <1>0, <1>2, DeliveredAppend
      <3> HIDE DEF a
      <3>2. delivered'[s] = a
        BY <2>2 DEF a
      <3> QED BY <1>2, <2>2, <3>1, <3>2 DEF DeliveredTo
    <2> QED BY <1>1, <2>1, <2>2
  <1>4. \/ Pulls(s)' = Pulls(s)
        \/ h.n > watermark[s] /\ Pulls(s)' = Pulls(s) \cup {h.n}
    BY <1>1, <1>3 DEF Pulls
  <1>5. Pulls(s)' \in SUBSET Samples
    <2>1. Pulls(s) \in SUBSET Samples /\ h.n \in Samples
      BY <1>1, PullsType DEF Dgram
    <2> QED BY <1>4, <2>1
  <1>6. Pulls(s) \subseteq Pulls(s)'
    BY <1>4
  <1>7. \A n \in Int : Covered(s, n) => Covered(s, n)'
    BY <1>1, <1>5, <1>6, CoveredStays
  <1>8. /\ \A n \in owed[s] : n \in Int
        /\ \A t : \A n \in Span(t) : n \in Int
    BY WantedType
  <1>9. Span(watermark[s])' = Span(watermark[s])
    BY <1>1 DEF Span
  <1>10. ~overlapped[s] => /\ ~loc[s].cut /\ pub \notin Stopped => \A n \in owed[s] : Covered(s, n)'
                           /\ \A n \in Span(watermark[s]) : Covered(s, n)'
    BY <1>1, <1>7, <1>8 DEF HistInv
  <1>11. ASSUME overlapped[s] PROVE NoGap(s, watermark[s])'
    <2> SUFFICES ASSUME NEW a \in Pulls(s)', NEW n \in Samples, a < n, n <= watermark[s]
                 PROVE  n \in Pulls(s)'
      BY <1>1 DEF NoGap
    <2>1. n \in Int
      BY DEF Samples
    <2>2. a \in Pulls(s)
      BY <1>0, <1>2, <1>4, <2>1
    <2>3. n \in Pulls(s)
      BY <1>1, <1>11, <2>2 DEF HistInv, NoGap
    <2> QED BY <1>6, <2>3
  <1> QED BY <1>1, <1>9, <1>10, <1>11 DEF HistInv

(* A step of a joiner leaves the others alone.                              *)
LEMMA OthersStay ==
  ASSUME RingInv, PullInv, HeldInv, NEW s \in Subs, NEW t \in Subs \ {s},
         SubVisible(s) \/ SubStep(s) \/ Drain(s) \/ Take(s) \/ SubUnlist(s)
  PROVE  Stays(t)
  <1>1. /\ spc'[t] = spc[t] /\ loc'[t] = loc[t] /\ delivered'[t] = delivered[t]
        /\ watermark'[t] = watermark[t]
    BY SubSteps DEF SubNext, SubOnly
  <1>2. overlapped \in [Subs -> BOOLEAN] /\ owed \in [Subs -> SUBSET Samples]
    BY DEF PullInv, SubType, HeldInv
  <1>3. owed'[t] = owed[t]
    <2>1. CASE SubVisible(s)
      BY <1>2, <2>1 DEF SubVisible
    <2>2. CASE UNCHANGED owed
      BY <2>2
    <2> QED BY <2>1, <2>2, SubSpares
  <1>4. overlapped'[t] = overlapped[t]
    <2>1. CASE PullRecheck(s)
      BY <1>2, <2>1 DEF PullRecheck
    <2>2. CASE ~PullRecheck(s)
      BY <2>2 DEF SubStep, SubVisible, SubBump, SubQuery, PullOpen, PullSeq, PullHeader,
         PullPayload, PullCheck, PullScanned, PullTrim, PullEnqueue, PullWatermark, SubClose,
         Drain, Take, SubUnlist
    <2> QED BY <2>1, <2>2
  <1> QED BY <1>1, <1>3, <1>4 DEF Stays

(* Every step keeps what a joiner is due.                                   *)
LEMMA NextHist ==
  ASSUME NoWrap, RingInv, RingInv', RingMoves, PullInv, OrderInv, JoinInv, [Next]_vars
  PROVE  \A s \in Subs : HistInv(s)'
  <1>0. /\ ListInv /\ DoneInv /\ HeldInv /\ \A s \in Subs : HistInv(s) /\ QueuedInv(s)
        /\ pub' \notin Stopped => pub \notin Stopped
        /\ refused \subseteq refused'
    BY NextList, NextDone DEF JoinInv, OrderInv
  <1>1. ASSUME NEW t \in Subs, Stays(t) PROVE HistInv(t)'
    BY <1>0, <1>1, HistFrame
  <1>2. CASE \/ PubBegin \/ LatchOdd \/ LatchHeader \/ LatchPayload \/ LatchEven
             \/ LoadGeneration \/ RefreshSubPaths \/ PubEnd \/ PubClose \/ PubUnlist \/ PubCrash
             \/ Reap \/ UNCHANGED vars
    <2>1. UNCHANGED subVars
      BY <1>2 DEF PubBegin, LatchOdd, LatchHeader, LatchPayload, LatchEven, LoadGeneration,
         RefreshSubPaths, PubEnd, PubClose, PubUnlist, PubCrash, Reap, vars
    <2>2. \A t \in Subs : Stays(t)
      BY <2>1 DEF subVars, Stays
    <2> QED BY <1>1, <2>2
  <1>3. ASSUME NEW s \in Subs, Send(s) PROVE \A t \in Subs : HistInv(t)'
    <2>1. \A t \in Subs : Stays(t)
      BY <1>3 DEF Send, Stays
    <2> QED BY <1>1, <2>1
  <1>4. ASSUME NEW s \in Subs,
               SubVisible(s) \/ SubStep(s) \/ Drain(s) \/ Take(s) \/ SubUnlist(s)
        PROVE  \A t \in Subs : HistInv(t)'
    <2>1. \A t \in Subs \ {s} : HistInv(t)'
      BY <1>0, <1>1, <1>4, OthersStay
    <2>2. HistInv(s)'
      <3>1. CASE SubVisible(s) \/ SubBump(s) \/ SubQuery(s) \/ PullOpen(s)
        BY <1>0, <3>1, HistEnter
      <3>2. CASE PullSeq(s) \/ PullHeader(s) \/ PullPayload(s) \/ PullCheck(s)
        BY <3>2, HistScan
      <3>3. CASE PullScanned(s)
        BY <1>0, <3>3, HistScanned
      <3>4. CASE PullRecheck(s)
        BY <1>0, <3>4, HistRecheck
      <3>5. CASE PullTrim(s)
        BY <1>0, <3>5, HistTrim
      <3>6. CASE PullEnqueue(s)
        BY <1>0, <3>6, HistEnqueue
      <3>7. CASE PullWatermark(s)
        BY <1>0, <3>7, HistWatermark
      <3>8. CASE Drain(s)
        BY <1>0, <3>8, HistDrain
      <3>9. CASE Take(s)
        <4>1. Stays(s)
          BY <3>9 DEF Take, Stays
        <4> QED BY <1>1, <4>1
      <3>10. CASE SubUnlist(s) \/ SubClose(s)
        <4>1. spc'[s] \in {"closing", "gone"}
          BY <3>10 DEF SubUnlist, SubClose, Sub, PullInv, SubType
        <4> QED BY <4>1 DEF HistInv
      <3> QED BY <1>4, <3>1, <3>2, <3>3, <3>4, <3>5, <3>6, <3>7, <3>8, <3>9, <3>10 DEF SubStep
    <2> QED BY <2>1, <2>2
  <1> QED BY <1>2, <1>3, <1>4 DEF Next, PublishStep

(* Every step keeps JoinInv.                                                *)
LEMMA NextJoin ==
  ASSUME NoWrap, RingInv, RingInv', RingMoves, PullInv, OrderInv, JoinInv, [Next]_vars
  PROVE  JoinInv'
  <1>1. ListInv' /\ DoneInv' /\ HeldInv'
    BY NextList, NextDone, NextHeld DEF JoinInv
  <1> QED BY <1>1, NextHist DEF JoinInv

HistorySafe == RingInv /\ PullInv /\ OrderInv /\ JoinInv

(* The four invariants hold in every behaviour.                             *)
LEMMA HistoryStays == ASSUME NoWrap PROVE Spec => []HistorySafe
  <1>1. Init => HistorySafe
    BY InitRing, InitPull, InitOrder, InitJoin DEF HistorySafe
  <1>2. HistorySafe /\ [Next]_vars => HistorySafe'
    BY NextRing, NextPull, NextOrder, NextJoin DEF HistorySafe
  <1> QED BY <1>1, <1>2, PTL DEF Spec

(* In a finished pull nothing is pending, so what is covered is excusable.  *)
LEMMA ReadyCovered ==
  ASSUME PullInv, NEW s \in Subs, spc[s] = "ready", NEW n, Covered(s, n) PROVE Excusable(s, n)
  <1>1. Pulls(s) = DeliveredTo(s)
    BY PullsType DEF Joined
  <1> QED BY <1>1 DEF Covered, Excusable

(* A late joiner has every sample it was due when it registered, for any    *)
(* number of joiners, any history depth and queue depth, and whatever the   *)
(* publisher latches meanwhile: if no latch overlapped its scan and its     *)
(* replay met no evicted segment, only samples lapped in the ring or        *)
(* displaced by a full queue are missing (rmw_create_subscription,          *)
(* tl_ring_pull).                                                           *)
THEOREM HistoryComplete == ASSUME NoWrap PROVE Spec => []LateJoinerHistory
  <1>1. HistorySafe => LateJoinerHistory
    <2> SUFFICES ASSUME HistorySafe, NEW s \in Subs, Pulled(s),
                        pub \notin {"closing", "gone", "dead"}, NEW n \in owed[s]
                 PROVE  Excusable(s, n)
      BY DEF LateJoinerHistory
    <2>1. PullInv /\ HistInv(s)
      BY DEF HistorySafe, JoinInv
    <2>2. Covered(s, n)
      BY <2>1 DEF HistInv, Pulled, Stopped
    <2> QED BY <2>1, <2>2, ReadyCovered DEF Pulled
  <1> QED BY <1>1, HistoryStays, PTL

(* The watermark of a pull drops no datagram of a sample that the ring took *)
(* and the joiner lacks for another reason than age: the watermark is the   *)
(* newest record pulled, every sample below it was in the ring when the     *)
(* scan ended or had been lapped, and an overlapped scan stops the          *)
(* watermark below the first gap (tl_ring_pull, drain_subscription).        *)
THEOREM WatermarkSound == ASSUME NoWrap PROVE Spec => []WatermarkCoversPulledRange
  <1>1. HistorySafe => WatermarkCoversPulledRange
    <2> SUFFICES ASSUME HistorySafe, NEW s \in Subs, spc[s] = "ready", NEW n \in Swallowed(s) \ refused,
                        ~overlapped[s] \/ \E m \in DeliveredTo(s) : m < n
                 PROVE  Excusable(s, n)
      BY DEF WatermarkCoversPulledRange
    <2>0. PullInv /\ HistInv(s) /\ watermark[s] \in Int
      BY DEF HistorySafe, JoinInv, PullInv, SubType
    <2>1. n \in Samples /\ n <= watermark[s] /\ n \notin refused
      BY DEF Swallowed
    <2>2. CASE ~overlapped[s]
      <3>1. n \in Span(watermark[s])
        BY <2>0, <2>1 DEF Span, Samples
      <3>2. Covered(s, n)
        BY <2>0, <2>2, <3>1 DEF HistInv
      <3> QED BY <2>0, <3>2, ReadyCovered
    <2>3. CASE overlapped[s] /\ \E m \in DeliveredTo(s) : m < n
      <3>1. Pulls(s) = DeliveredTo(s)
        BY <2>0, PullsType DEF Joined
      <3>2. n \in Pulls(s)
        BY <2>0, <2>1, <2>3, <3>1 DEF HistInv, NoGap
      <3> QED BY <3>1, <3>2 DEF Excusable
    <2> QED BY <2>2, <2>3
  <1> QED BY <1>1, HistoryStays, PTL
=============================================================================
