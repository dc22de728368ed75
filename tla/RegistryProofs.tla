---------------------------- MODULE RegistryProofs ----------------------------
(* Theorems about Registry, for any number of processes, entries and slots, *)
(* any overlap of their calls: TypeCorrect and UnderScanImpossible with a   *)
(* crash at any point, the other five outside the two windows Quiet names   *)
(* and with the exception their properties state: a sweep's CAS overtaken   *)
(* by a rewrite of its slot.                                                *)
EXTENDS Registry, TLAPS

(* Control points at which a call reads or writes the slot loc.i.           *)
SlotPcs == {"w_begin", "w_pid", "w_body", "w_end", "publish", "widen", "a_bump",
            "d_load", "d_cas", "q_take", "c_vet", "c_seq", "c_cas",
            "r_seq", "r_state", "r_copy", "r_send"} \cup TearPcs \cup SnapPcs

(* What holds of a process at control point c with locals l.                *)
LocalOK(c, l) ==
  /\ c \in SlotPcs => l.i \in SlotIds
  /\ l.lim <= MaxEntries
  /\ c \in AddPcs => l.op = "add"
  /\ l.op = "add" /\ c \notin RingPcs => l.ent \in Entries

LocalsInv == \A p \in Procs : LocalOK(pc[p], loc[p])

(* The owner of a registered entry remembers a slot of the array.           *)
HandleInv ==
  \A e \in Entries : stage[e] \in {"live", "removing"} => index[e] \in SlotIds

(* Between widening and announcing, the mark already covers the new slot.   *)
WidenedInv == \A p \in Procs : pc[p] = "a_bump" => loc[p].i < high_water

IInv == TypeOK /\ LocalsInv /\ HandleInv /\ WidenedInv /\ HighWaterCovers

(* The locals a call starts from are typed.                                 *)
LEMMA NoLocalsType == NoLocals \in Locals
  BY RegistryAssumption DEF NoLocals, Locals, States, Types, Pids, Bodies

(* NextSlot keeps the locals' type and moves one slot on.                   *)
LEMMA NextSlotType ==
  ASSUME NEW l \in Locals
  PROVE  /\ NextSlot(l) \in Locals
         /\ NextSlot(l).i = l.i + 1 /\ NextSlot(l).lim = l.lim
         /\ NextSlot(l).op = l.op /\ NextSlot(l).ent = l.ent
         /\ NextSlot(l).acc = l.acc /\ NextSlot(l).reclaimed = l.reclaimed
         /\ NextSlot(l).gen = l.gen
  <1> DEFINE a == [l EXCEPT !.i = l.i + 1]
             b == [a EXCEPT !.s1 = 0]
             c == [b EXCEPT !.st = "EMPTY"]
             d == [c EXCEPT !.pid = NoPid]
             e == [d EXCEPT !.body = NoEntry]
             f == [e EXCEPT !.tries = 0]
  <1>1. a \in Locals /\ a.i = l.i + 1 /\ a.lim = l.lim /\ a.op = l.op /\ a.ent = l.ent
        /\ a.acc = l.acc /\ a.reclaimed = l.reclaimed /\ a.gen = l.gen
     BY DEF Locals
  <1>2. b \in Locals /\ b.i = a.i /\ b.lim = a.lim /\ b.op = a.op /\ b.ent = a.ent
        /\ b.acc = a.acc /\ b.reclaimed = a.reclaimed /\ b.gen = a.gen
     <2> HIDE DEF a
     <2> QED BY <1>1 DEF Locals
  <1>3. c \in Locals /\ c.i = b.i /\ c.lim = b.lim /\ c.op = b.op /\ c.ent = b.ent
        /\ c.acc = b.acc /\ c.reclaimed = b.reclaimed /\ c.gen = b.gen
     <2> HIDE DEF b
     <2> QED BY <1>2 DEF Locals, States, Types
  <1>4. d \in Locals /\ d.i = c.i /\ d.lim = c.lim /\ d.op = c.op /\ d.ent = c.ent
        /\ d.acc = c.acc /\ d.reclaimed = c.reclaimed /\ d.gen = c.gen
     <2> HIDE DEF c
     <2> QED BY <1>3 DEF Locals, Pids
  <1>5. e \in Locals /\ e.i = d.i /\ e.lim = d.lim /\ e.op = d.op /\ e.ent = d.ent
        /\ e.acc = d.acc /\ e.reclaimed = d.reclaimed /\ e.gen = d.gen
     <2> HIDE DEF d
     <2> QED BY <1>4 DEF Locals, Bodies
  <1>6. f \in Locals /\ f.i = e.i /\ f.lim = e.lim /\ f.op = e.op /\ f.ent = e.ent
        /\ f.acc = e.acc /\ f.reclaimed = e.reclaimed /\ f.gen = e.gen
     <2> HIDE DEF e
     <2> QED BY <1>5 DEF Locals
  <1>7. NextSlot(l) = f
     BY DEF NextSlot
  <1> HIDE DEF a, b, c, d, e, f
  <1> QED BY <1>1, <1>2, <1>3, <1>4, <1>5, <1>6, <1>7

(* A process moves to control point c with locals r.                        *)
Moves(p, c, r) ==
  /\ c \in Pcs /\ r \in Locals /\ LocalOK(c, r)
  /\ pc' = [pc EXCEPT ![p] = c]
  /\ loc' = [loc EXCEPT ![p] = r]

(* Such a move keeps what IInv says of control points and locals.           *)
LEMMA MoveLocals ==
  ASSUME IInv, NEW p \in Procs, NEW c, NEW r, Moves(p, c, r)
  PROVE  pc' \in [Procs -> Pcs] /\ loc' \in [Procs -> Locals] /\ LocalsInv'
  BY DEF Moves, IInv, TypeOK, LocalsInv

(* The types of what processes share and of the histories.                  *)
SharedOK ==
  /\ state \in [SlotIds -> States] /\ seq \in [SlotIds -> Nat]
  /\ pid \in [SlotIds -> Pids] /\ body \in [SlotIds -> Bodies]
  /\ generation \in Nat /\ files \subseteq Entries /\ rung \subseteq Entries
  /\ cache \in [Procs -> SUBSET Entries] /\ cached_generation \in [Procs -> Nat]
  /\ overtaken \in BOOLEAN

(* A move keeps all of IInv if the words it writes are typed, no entry is   *)
(* announced by it and only an entry with a slot is being removed.          *)
LEMMA MoveStage ==
  ASSUME IInv, NEW p \in Procs, NEW c, NEW r, Moves(p, c, r), c # "a_bump",
         SharedOK', UNCHANGED <<high_water, index, committed>>,
         NEW e, NEW s \in {"adding", "removing", "gone"},
         stage' = [stage EXCEPT ![e] = s],
         s = "removing" => index[e] \in SlotIds
  PROVE  IInv'
  <1>1. pc' \in [Procs -> Pcs] /\ loc' \in [Procs -> Locals] /\ LocalsInv'
     BY MoveLocals
  <1>2. stage' \in [Entries -> {"new", "adding", "live", "removing", "gone"}]
     BY DEF IInv, TypeOK
  <1>3. TypeOK'
     BY <1>1, <1>2 DEF IInv, TypeOK, SharedOK
  <1>4. HandleInv' /\ HighWaterCovers'
     BY DEF IInv, TypeOK, HandleInv, HighWaterCovers
  <1>5. WidenedInv'
     BY DEF IInv, TypeOK, WidenedInv, Moves
  <1> QED BY <1>1, <1>3, <1>4, <1>5 DEF IInv

(* The same without a change of any entry's stage.                          *)
LEMMA MoveWrites ==
  ASSUME IInv, NEW p \in Procs, NEW c, NEW r, Moves(p, c, r), c # "a_bump",
         SharedOK', UNCHANGED <<high_water, handle, committed>>
  PROVE  IInv'
  <1> USE DEF handle
  <1>1. pc' \in [Procs -> Pcs] /\ loc' \in [Procs -> Locals] /\ LocalsInv'
     BY MoveLocals
  <1>2. TypeOK'
     BY <1>1 DEF IInv, TypeOK, SharedOK
  <1>3. HandleInv' /\ HighWaterCovers'
     BY DEF IInv, HandleInv, HighWaterCovers
  <1>4. WidenedInv'
     BY DEF IInv, TypeOK, WidenedInv, Moves
  <1> QED BY <1>1, <1>2, <1>3, <1>4 DEF IInv

(* The common case: at most doorbell octets are sent.                       *)
LEMMA MoveKeeps ==
  ASSUME IInv, NEW p \in Procs, NEW c, NEW r, Moves(p, c, r), c # "a_bump",
         rung' = rung \/ rung' \subseteq Entries,
         UNCHANGED <<slots, header, files, handle, caches, committed, overtaken>>
  PROVE  IInv'
  <1>1. SharedOK'
     BY DEF IInv, TypeOK, SharedOK, slots, header, caches
  <1> QED BY <1>1, MoveWrites DEF header

(* The invariant holds in the empty registry.                               *)
LEMMA InitIInv == Init => IInv
  <1> SUFFICES ASSUME Init PROVE IInv
    OBVIOUS
  <1> USE RegistryAssumption DEF Init
  <1>1. state \in [SlotIds -> States] /\ seq \in [SlotIds -> Nat]
     BY DEF States
  <1>2. pid \in [SlotIds -> Pids] /\ body \in [SlotIds -> Bodies]
     BY DEF Pids, Bodies
  <1>3. high_water \in 0 .. MaxEntries /\ generation \in Nat
     OBVIOUS
  <1>4. pc \in [Procs -> Pcs] /\ loc \in [Procs -> Locals]
     BY NoLocalsType DEF Pcs
  <1>5. /\ stage \in [Entries -> {"new", "adding", "live", "removing", "gone"}]
        /\ index \in [Entries -> {-1} \cup SlotIds]
     OBVIOUS
  <1>6. /\ cache \in [Procs -> SUBSET Entries] /\ cached_generation \in [Procs -> Nat]
        /\ committed \in [Entries -> {Uncommitted} \cup Nat]
        /\ files \subseteq Entries /\ rung \subseteq Entries /\ overtaken \in BOOLEAN
     OBVIOUS
  <1>7. TypeOK
     BY <1>1, <1>2, <1>3, <1>4, <1>5, <1>6 DEF TypeOK
  <1>8. LocalsInv
     BY DEF LocalsInv, LocalOK, NoLocals, SlotPcs, TearPcs, SnapPcs, AddPcs
  <1>9. HandleInv /\ WidenedInv /\ HighWaterCovers
     BY DEF HandleInv, WidenedInv, HighWaterCovers
  <1> QED BY <1>7, <1>8, <1>9 DEF IInv

-----------------------------------------------------------------------------
(* What IInv says of one process.                                           *)
LEMMA LocalFacts ==
  ASSUME IInv, NEW p \in Procs
  PROVE  loc[p] \in Locals /\ pc[p] \in Pcs /\ LocalOK(pc[p], loc[p])
  BY DEF IInv, TypeOK, LocalsInv

(* A process moves on within its call: the locals the invariant is about    *)
(* stay, and control stays inside the operation.                            *)
LEMMA WithinCall ==
  ASSUME IInv, NEW p \in Procs, NEW c \in Pcs, NEW r \in Locals,
         r.i = loc[p].i, r.lim = loc[p].lim, r.op = loc[p].op, r.ent = loc[p].ent,
         c \in SlotPcs => loc[p].i \in SlotIds,
         c \in AddPcs => pc[p] \in AddPcs,
         c \notin RingPcs => pc[p] \notin RingPcs
  PROVE  LocalOK(c, r)
  BY LocalFacts DEF LocalOK

(* A scan of a sweep or a query passes over one slot.                       *)
LEMMA SkipKeeps ==
  ASSUME IInv, NEW p \in Procs, SkipSlot(p), pc[p] \notin RingPcs,
         UNCHANGED <<slots, header, files, rung, handle, caches, committed, overtaken>>
  PROVE  IInv'
  <1>1. loc[p] \in Locals /\ LocalOK(pc[p], loc[p])
     BY LocalFacts
  <1>2. Moves(p, Scan(p), NextSlot(loc[p]))
     BY <1>1, NextSlotType DEF SkipSlot, Goto, Set, Moves, Scan, LocalOK, Pcs, SlotPcs, TearPcs,
        SnapPcs, AddPcs
  <1> QED BY <1>2, MoveKeeps DEF Scan

(* snapshot_slot tries again, or gives the slot up.                         *)
LEMMA RetryKeeps ==
  ASSUME IInv, NEW p \in Procs, Retry(p), pc[p] \in SnapPcs,
         UNCHANGED <<slots, header, files, rung, handle, caches, committed, overtaken>>
  PROVE  IInv'
  <1>1. loc[p] \in Locals /\ LocalOK(pc[p], loc[p])
     BY LocalFacts
  <1>2. pc[p] \notin RingPcs
     BY DEF SnapPcs, RingPcs
  <1>3. CASE loc[p].tries + 1 < MaxReadRetries
    <2> DEFINE r == [loc[p] EXCEPT !.tries = loc[p].tries + 1]
    <2>1. r \in Locals
       BY <1>1 DEF Locals
    <2>2. r.i = loc[p].i /\ r.lim = loc[p].lim /\ r.op = loc[p].op /\ r.ent = loc[p].ent
       BY <1>1 DEF Locals
    <2>3. Goto(p, "s_seq") /\ Set(p, r)
       BY <1>3 DEF Retry
    <2> HIDE DEF r
    <2>4. Moves(p, "s_seq", r)
       BY <1>1, <1>2, <2>1, <2>2, <2>3 DEF Goto, Set, Moves, LocalOK, Pcs, SlotPcs, SnapPcs, AddPcs, RingPcs
    <2> QED BY <2>4, MoveKeeps
  <1>4. CASE ~(loc[p].tries + 1 < MaxReadRetries)
     BY <1>2, <1>4, SkipKeeps DEF Retry
  <1> QED BY <1>3, <1>4

(* A process that only loads words moves on within its call.                *)
LEMMA SnapKeeps ==
  ASSUME IInv, NEW p \in Procs, SnapStep(p)
  PROVE  IInv'
  <1> DEFINE l == loc[p]
  <1>0. l \in Locals /\ LocalOK(pc[p], l)
     BY LocalFacts
  <1>a. pc[p] \in SnapPcs /\ l.i \in SlotIds /\ pc[p] \notin RingPcs
     BY <1>0 DEF SnapStep, SnapSeq, SnapState, SnapPid, SnapBody, SnapCheck, SnapPcs, SlotPcs, RingPcs, LocalOK
  <1>b. seq[l.i] \in Nat /\ state[l.i] \in States /\ pid[l.i] \in Pids /\ body[l.i] \in Bodies
     BY <1>a DEF IInv, TypeOK
  <1>c. ASSUME NEW c \in SnapPcs \cup {"q_take", "c_vet"}, NEW r \in Locals,
               r.i = l.i, r.lim = l.lim, r.op = l.op, r.ent = l.ent,
               Goto(p, c), loc' = [loc EXCEPT ![p] = r],
               UNCHANGED <<slots, header, files, rung, handle, caches, committed, overtaken>>
        PROVE  IInv'
    <2>1. Moves(p, c, r)
       BY <1>a, <1>c, WithinCall DEF Goto, Moves, Pcs, SnapPcs, AddPcs, RingPcs
    <2>2. c # "a_bump"
       BY <1>c DEF SnapPcs
    <2> QED BY <1>c, <2>1, <2>2, MoveKeeps
  <1>1. CASE SnapSeq(p)
    <2>1. CASE seq[l.i] % 2 = 1
       BY <1>1, <1>a, <2>1, RetryKeeps DEF SnapSeq
    <2>2. CASE seq[l.i] % 2 # 1
      <3> DEFINE r == [l EXCEPT !.s1 = seq[l.i]]
      <3>1. r \in Locals /\ r.i = l.i /\ r.lim = l.lim /\ r.op = l.op /\ r.ent = l.ent
         BY <1>0, <1>b DEF Locals
      <3>2. Goto(p, "s_state") /\ Set(p, r)
            /\ UNCHANGED <<slots, header, files, rung, handle, caches, committed, overtaken>>
         BY <1>1, <2>2 DEF SnapSeq
      <3> HIDE DEF r
      <3> QED BY <1>c, <3>1, <3>2 DEF SnapPcs, Set
    <2> QED BY <2>1, <2>2
  <1>2. CASE SnapState(p)
    <2>1. CASE state[l.i] \in {"EMPTY", "RESERVED"}
       BY <1>2, <1>a, <2>1, SkipKeeps DEF SnapState
    <2>2. CASE state[l.i] \notin {"EMPTY", "RESERVED"}
      <3> DEFINE r == [l EXCEPT !.st = state[l.i]]
      <3>1. r \in Locals /\ r.i = l.i /\ r.lim = l.lim /\ r.op = l.op /\ r.ent = l.ent
         BY <1>0, <1>b DEF Locals
      <3>2. Goto(p, "s_pid") /\ Set(p, r)
            /\ UNCHANGED <<slots, header, files, rung, handle, caches, committed, overtaken>>
         BY <1>2, <2>2 DEF SnapState
      <3> HIDE DEF r
      <3> QED BY <1>c, <3>1, <3>2 DEF SnapPcs, Set
    <2> QED BY <2>1, <2>2
  <1>3. CASE SnapPid(p)
    <2> DEFINE r == [l EXCEPT !.pid = pid[l.i]]
    <2>1. r \in Locals /\ r.i = l.i /\ r.lim = l.lim /\ r.op = l.op /\ r.ent = l.ent
       BY <1>0, <1>b DEF Locals
    <2>2. Goto(p, "s_body") /\ Set(p, r)
          /\ UNCHANGED <<slots, header, files, rung, handle, caches, committed, overtaken>>
       BY <1>3 DEF SnapPid
    <2> HIDE DEF r
    <2> QED BY <1>c, <2>1, <2>2 DEF SnapPcs, Set
  <1>4. CASE SnapBody(p)
    <2> DEFINE r == [l EXCEPT !.body = body[l.i]]
    <2>1. r \in Locals /\ r.i = l.i /\ r.lim = l.lim /\ r.op = l.op /\ r.ent = l.ent
       BY <1>0, <1>b DEF Locals
    <2>2. Goto(p, "s_check") /\ Set(p, r)
          /\ UNCHANGED <<slots, header, files, rung, handle, caches, committed, overtaken>>
       BY <1>4 DEF SnapBody
    <2> HIDE DEF r
    <2> QED BY <1>c, <2>1, <2>2 DEF SnapPcs, Set
  <1>5. CASE SnapCheck(p)
    <2>1. CASE seq[l.i] = l.s1
      <3>1. loc' = [loc EXCEPT ![p] = l]
         BY <1>5, <2>1 DEF SnapCheck, IInv, TypeOK
      <3> QED BY <1>0, <1>5, <1>c, <2>1, <3>1 DEF SnapCheck
    <2>2. CASE seq[l.i] # l.s1
       BY <1>5, <1>a, <2>2, RetryKeeps DEF SnapCheck
    <2> QED BY <2>1, <2>2
  <1> QED BY <1>1, <1>2, <1>3, <1>4, <1>5 DEF SnapStep

(* ring_doorbells passes over one slot.                                     *)
LEMMA RingSkipKeeps ==
  ASSUME IInv, NEW p \in Procs, RingSkip(p), pc[p] \in RingPcs,
         rung' \subseteq Entries,
         UNCHANGED <<slots, header, files, handle, caches, committed, overtaken>>
  PROVE  IInv'
  <1>1. loc[p] \in Locals /\ LocalOK(pc[p], loc[p])
     BY LocalFacts
  <1>2. Moves(p, "ring", NextSlot(loc[p]))
     BY <1>1, NextSlotType DEF RingSkip, Goto, Set, Moves, LocalOK, Pcs, SlotPcs, TearPcs,
        SnapPcs, AddPcs, RingPcs
  <1> QED BY <1>2, MoveKeeps

(* A call returns.                                                          *)
LEMMA ReturnMoves ==
  ASSUME IInv, NEW p \in Procs, Return(p)
  PROVE  Moves(p, "idle", NoLocals)
  <1>1. "idle" \in Pcs /\ "idle" \notin SlotPcs /\ "idle" \notin AddPcs
     BY DEF Pcs, SlotPcs, AddPcs, TearPcs, SnapPcs
  <1> QED BY <1>1, NoLocalsType, RegistryAssumption DEF Return, Goto, Set, Moves, LocalOK, NoLocals

(* A sweep returns to the add it was made for, or to a graph query.         *)
LEMMA SweepReturnKeeps ==
  ASSUME IInv, NEW p \in Procs, SweepReturn(p), loc[p].op = "add" => loc[p].ent \in Entries,
         UNCHANGED <<slots, header, files, rung, handle, caches, committed, overtaken>>
  PROVE  IInv'
  <1>0. loc[p] \in Locals
     BY LocalFacts
  <1>1. CASE loc[p].op = "add"
    <2> DEFINE r == [NoLocals EXCEPT !.op = "add", !.ent = loc[p].ent, !.pass = 2]
    <2>1. r \in Locals /\ r.i = 0 /\ r.lim = 0 /\ r.op = "add" /\ r.ent = loc[p].ent
      <3>1. loc[p].ent \in Bodies /\ NoLocals \in Locals
         BY <1>0, NoLocalsType DEF Locals
      <3> QED BY <3>1 DEF NoLocals, Locals
    <2>2. Goto(p, "claim") /\ Set(p, r)
       BY <1>1 DEF SweepReturn
    <2> HIDE DEF r
    <2>3. Moves(p, "claim", r)
       BY <1>1, <2>1, <2>2, RegistryAssumption DEF Goto, Set, Moves, LocalOK, Pcs, SlotPcs, TearPcs, SnapPcs, AddPcs
    <2> QED BY <2>3, MoveKeeps
  <1>2. CASE loc[p].op # "add"
     BY <1>2, ReturnMoves, MoveKeeps DEF SweepReturn
  <1> QED BY <1>1, <1>2

(* ring_doorbells.                                                          *)
LEMMA RingKeeps ==
  ASSUME IInv, NEW p \in Procs, RingStep(p)
  PROVE  IInv'
  <1> DEFINE l == loc[p]
  <1>0. l \in Locals /\ LocalOK(pc[p], l) /\ high_water \in 0 .. MaxEntries
     BY LocalFacts DEF IInv, TypeOK
  <1>a. pc[p] \in RingPcs
     BY DEF RingStep, RingLimit, RingSlot, RingSeq, RingState, RingCopy, RingSend, RingEnd, RingPcs
  <1>b. rung \subseteq Entries /\ files \subseteq Entries
     BY DEF IInv, TypeOK
  <1>c. ASSUME NEW c \in RingPcs, NEW r \in Locals,
               r.i = l.i, r.lim = l.lim, r.op = l.op, r.ent = l.ent,
               c \in SlotPcs => l.i \in SlotIds,
               Goto(p, c), loc' = [loc EXCEPT ![p] = r],
               UNCHANGED <<slots, header, files, rung, handle, caches, committed, overtaken>>
        PROVE  IInv'
    <2>1. c \in Pcs /\ c \notin AddPcs /\ c # "a_bump"
       BY <1>c DEF Pcs, RingPcs, AddPcs
    <2>2. Moves(p, c, r)
       BY <1>a, <1>c, <2>1, WithinCall DEF Goto, Moves
    <2> QED BY <1>c, <2>1, <2>2, MoveKeeps
  <1>d. pc[p] \in {"r_seq", "r_state", "r_copy", "r_send"} => l.i \in SlotIds
     BY <1>0 DEF LocalOK, SlotPcs
  <1>e. loc = [loc EXCEPT ![p] = l]
     BY DEF IInv, TypeOK
  <1>1. CASE RingLimit(p)
    <2> DEFINE r == [l EXCEPT !.lim = high_water]
    <2>1. r \in Locals /\ r.i = l.i /\ r.lim = high_water /\ r.op = l.op /\ r.ent = l.ent
       BY <1>0 DEF Locals
    <2>2. Goto(p, "ring") /\ Set(p, r)
       BY <1>1 DEF RingLimit
    <2> HIDE DEF r
    <2>3. Moves(p, "ring", r)
       BY <1>0, <2>1, <2>2 DEF Goto, Set, Moves, LocalOK, Pcs, SlotPcs, TearPcs, SnapPcs, AddPcs, RingPcs
    <2> QED BY <1>1, <2>3, MoveKeeps DEF RingLimit
  <1>2. CASE RingSlot(p)
    <2>1. CASE state[l.i] # "DOORBELL"
       BY <1>2, <1>a, <1>b, <2>1, RingSkipKeeps DEF RingSlot
    <2>2. CASE state[l.i] = "DOORBELL"
      <3>1. l.i \in SlotIds
         BY <1>0, <1>2, RegistryAssumption DEF RingSlot, LocalOK, Locals, SlotIds
      <3> QED BY <1>0, <1>2, <1>c, <1>e, <2>2, <3>1 DEF RingSlot, RingPcs
    <2> QED BY <2>1, <2>2
  <1>3. CASE RingSeq(p)
    <2>1. l.i \in SlotIds /\ seq[l.i] \in Nat
       BY <1>3, <1>d DEF RingSeq, IInv, TypeOK
    <2>2. CASE seq[l.i] % 2 = 1
       BY <1>3, <1>a, <1>b, <2>2, RingSkipKeeps DEF RingSeq
    <2>3. CASE seq[l.i] % 2 # 1
      <3> DEFINE r == [l EXCEPT !.s1 = seq[l.i]]
      <3>1. r \in Locals /\ r.i = l.i /\ r.lim = l.lim /\ r.op = l.op /\ r.ent = l.ent
         BY <1>0, <2>1 DEF Locals
      <3>2. Goto(p, "r_state") /\ Set(p, r)
            /\ UNCHANGED <<slots, header, files, rung, handle, caches, committed, overtaken>>
         BY <1>3, <2>3 DEF RingSeq
      <3> HIDE DEF r
      <3> QED BY <1>c, <2>1, <3>1, <3>2 DEF RingPcs, Set
    <2> QED BY <2>2, <2>3
  <1>4. CASE RingState(p)
    <2>1. CASE state[l.i] # "DOORBELL"
       BY <1>4, <1>a, <1>b, <2>1, RingSkipKeeps DEF RingState
    <2>2. CASE state[l.i] = "DOORBELL"
       BY <1>0, <1>4, <1>c, <1>d, <1>e, <2>2 DEF RingState, RingPcs
    <2> QED BY <2>1, <2>2
  <1>5. CASE RingCopy(p)
    <2> DEFINE r == [l EXCEPT !.body = body[l.i]]
    <2>1. l.i \in SlotIds /\ body[l.i] \in Bodies
       BY <1>5, <1>d DEF RingCopy, IInv, TypeOK
    <2>2. r \in Locals /\ r.i = l.i /\ r.lim = l.lim /\ r.op = l.op /\ r.ent = l.ent
       BY <1>0, <2>1 DEF Locals
    <2>3. Goto(p, "r_send") /\ Set(p, r)
          /\ UNCHANGED <<slots, header, files, rung, handle, caches, committed, overtaken>>
       BY <1>5 DEF RingCopy
    <2> HIDE DEF r
    <2> QED BY <1>c, <2>1, <2>2, <2>3 DEF RingPcs, Set
  <1>6. CASE RingSend(p)
    <2>1. rung' \subseteq Entries
       BY <1>6, <1>b DEF RingSend
    <2> QED BY <1>6, <1>a, <2>1, RingSkipKeeps DEF RingSend
  <1>7. CASE RingEnd(p)
    <2>1. CASE l.op = "remove"
      <3>1. Moves(p, "d_close", l)
         BY <1>0, <1>7, <1>e, <2>1 DEF RingEnd, Goto, Moves, LocalOK, Pcs, SlotPcs, TearPcs, SnapPcs, AddPcs
      <3> QED BY <1>7, <3>1, MoveKeeps DEF RingEnd
    <2>2. CASE l.op = "add" /\ l.ent = NoEntry
      <3>1. Return(p)
         BY <1>7, <2>2 DEF RingEnd
      <3> QED BY <1>7, <3>1, ReturnMoves, MoveKeeps DEF RingEnd
    <2>3. CASE l.op # "remove" /\ ~(l.op = "add" /\ l.ent = NoEntry)
      <3>1. l.op = "add" => l.ent \in Entries
         BY <1>0, <2>3 DEF Locals, Bodies
      <3>2. SweepReturn(p)
         BY <1>7, <2>3 DEF RingEnd
      <3> QED BY <1>7, <3>1, <3>2, SweepReturnKeeps DEF RingEnd
    <2> QED BY <2>1, <2>2, <2>3
  <1> QED BY <1>1, <1>2, <1>3, <1>4, <1>5, <1>6, <1>7 DEF RingStep

(* registry_query and the cache it fills.                                   *)
LEMMA QueryKeeps ==
  ASSUME IInv, NEW p \in Procs, QueryStep(p)
  PROVE  IInv'
  <1> DEFINE l == loc[p]
  <1>0. l \in Locals /\ LocalOK(pc[p], l) /\ high_water \in 0 .. MaxEntries
     BY LocalFacts DEF IInv, TypeOK
  <1>a. pc[p] \notin RingPcs
     BY DEF QueryStep, QueryLimit, QuerySlot, QueryTake, QueryEnd, RingPcs
  <1>b. "q_scan" \in Pcs /\ "q_scan" \notin SlotPcs /\ "q_scan" \notin AddPcs
     BY DEF Pcs, SlotPcs, TearPcs, SnapPcs, AddPcs
  <1>1. CASE QueryLimit(p)
    <2> DEFINE r == [l EXCEPT !.lim = high_water]
    <2>1. r \in Locals /\ r.i = l.i /\ r.lim = high_water /\ r.op = l.op /\ r.ent = l.ent
       BY <1>0 DEF Locals
    <2>2. Goto(p, "q_scan") /\ Set(p, r)
       BY <1>1 DEF QueryLimit
    <2> HIDE DEF r
    <2>3. Moves(p, "q_scan", r)
       BY <1>0, <1>a, <1>b, <2>1, <2>2 DEF Goto, Set, Moves, LocalOK
    <2> QED BY <1>1, <2>3, MoveKeeps DEF QueryLimit
  <1>2. CASE QuerySlot(p)
    <2>1. CASE state[l.i] # "DATA"
       BY <1>2, <1>a, <2>1, SkipKeeps DEF QuerySlot
    <2>2. CASE state[l.i] = "DATA"
      <3>1. l.i \in SlotIds
         BY <1>0, <1>2, RegistryAssumption DEF QuerySlot, LocalOK, Locals, SlotIds
      <3>2. loc' = [loc EXCEPT ![p] = l]
         BY <1>2, <2>2 DEF QuerySlot, IInv, TypeOK
      <3>3. Moves(p, "s_seq", l)
         BY <1>0, <1>2, <1>a, <2>2, <3>1, <3>2, WithinCall
            DEF QuerySlot, Goto, Moves, Pcs, SnapPcs, AddPcs
      <3> QED BY <1>2, <3>3, MoveKeeps DEF QuerySlot
    <2> QED BY <2>1, <2>2
  <1>3. CASE QueryTake(p)
    <2> DEFINE n == NextSlot(l)
               a == IF l.st = "DATA" /\ l.body # NoEntry THEN n.acc \cup {l.body} ELSE n.acc
               r == [n EXCEPT !.acc = a]
    <2>1. n \in Locals /\ n.lim = l.lim /\ n.op = l.op /\ n.ent = l.ent
       BY <1>0, NextSlotType
    <2>2. Goto(p, "q_scan") /\ Set(p, r)
       BY <1>3 DEF QueryTake
    <2> HIDE DEF n
    <2>3. a \in SUBSET Entries
       BY <1>0, <2>1 DEF Locals, Bodies
    <2> HIDE DEF a
    <2>4. r \in Locals /\ r.lim = l.lim /\ r.op = l.op /\ r.ent = l.ent
       BY <2>1, <2>3 DEF Locals
    <2> HIDE DEF r
    <2>5. Moves(p, "q_scan", r)
       BY <1>0, <1>a, <1>b, <2>2, <2>4 DEF Goto, Set, Moves, LocalOK
    <2> QED BY <1>3, <2>5, MoveKeeps DEF QueryTake
  <1>4. CASE QueryEnd(p)
    <2>1. Moves(p, "idle", NoLocals)
       BY <1>4, ReturnMoves DEF QueryEnd
    <2>2. l.acc \in SUBSET Entries /\ l.gen \in Nat
       BY <1>0 DEF Locals
    <2>3. SharedOK'
       BY <1>4, <2>2 DEF QueryEnd, IInv, TypeOK, SharedOK, slots, header
    <2> QED BY <1>4, <2>1, <2>3, MoveWrites DEF QueryEnd, header
  <1> QED BY <1>1, <1>2, <1>3, <1>4 DEF QueryStep

(* registry_cleanup_stale.                                                  *)
LEMMA SweepKeeps ==
  ASSUME IInv, NEW p \in Procs, SweepStep(p)
  PROVE  IInv'
  <1> DEFINE l == loc[p]
  <1>0. l \in Locals /\ LocalOK(pc[p], l) /\ high_water \in 0 .. MaxEntries
     BY LocalFacts DEF IInv, TypeOK
  <1>a. pc[p] \notin RingPcs
     BY DEF SweepStep, SweepLimit, SweepSlot, SweepVet, SweepSeq, SweepCas, SweepBump, SweepEnd, RingPcs
  <1>b. "c_scan" \in Pcs /\ "c_scan" \notin SlotPcs /\ "c_scan" \notin AddPcs
     BY DEF Pcs, SlotPcs, TearPcs, SnapPcs, AddPcs
  <1>c. pc[p] \in {"c_vet", "c_seq", "c_cas"} => l.i \in SlotIds
     BY <1>0 DEF LocalOK, SlotPcs
  <1>d. ASSUME NEW c \in {"s_seq", "c_seq", "c_cas", "t_begin"}, l.i \in SlotIds,
               Goto(p, c), UNCHANGED loc
        PROVE  Moves(p, c, l) /\ c # "a_bump"
    <2>1. loc' = [loc EXCEPT ![p] = l]
       BY <1>d DEF IInv, TypeOK
    <2>2. c \in Pcs /\ c \notin AddPcs
       BY <1>d DEF Pcs, SnapPcs, TearPcs, AddPcs
    <2> QED BY <1>0, <1>a, <1>d, <2>1, <2>2, WithinCall DEF Goto, Moves
  <1>1. CASE SweepLimit(p)
    <2> DEFINE r == [l EXCEPT !.lim = high_water]
    <2>1. r \in Locals /\ r.i = l.i /\ r.lim = high_water /\ r.op = l.op /\ r.ent = l.ent
       BY <1>0 DEF Locals
    <2>2. Goto(p, "c_scan") /\ Set(p, r)
       BY <1>1 DEF SweepLimit
    <2> HIDE DEF r
    <2>3. Moves(p, "c_scan", r)
       BY <1>0, <1>a, <1>b, <2>1, <2>2 DEF Goto, Set, Moves, LocalOK
    <2> QED BY <1>1, <2>3, MoveKeeps DEF SweepLimit
  <1>2. CASE SweepSlot(p)
    <2>1. CASE state[l.i] = "EMPTY"
       BY <1>2, <1>a, <2>1, SkipKeeps DEF SweepSlot
    <2>2. CASE state[l.i] # "EMPTY"
      <3>1. l.i \in SlotIds
         BY <1>0, <1>2, RegistryAssumption DEF SweepSlot, LocalOK, Locals, SlotIds
      <3> QED BY <1>2, <1>d, <2>2, <3>1, MoveKeeps DEF SweepSlot
    <2> QED BY <2>1, <2>2
  <1>3. CASE SweepVet(p)
    <2>1. CASE l.pid = NoPid \/ l.pid \in Alive
       BY <1>3, <1>a, <2>1, SkipKeeps DEF SweepVet
    <2>2. CASE ~(l.pid = NoPid \/ l.pid \in Alive)
       BY <1>3, <1>c, <1>d, <2>2, MoveKeeps DEF SweepVet
    <2> QED BY <2>1, <2>2
  <1>4. CASE SweepSeq(p)
    <2>1. CASE seq[l.i] # l.s1
       BY <1>4, <1>a, <2>1, SkipKeeps DEF SweepSeq
    <2>2. CASE seq[l.i] = l.s1
       BY <1>4, <1>c, <1>d, <2>2, MoveKeeps DEF SweepSeq
    <2> QED BY <2>1, <2>2
  <1>5. CASE SweepCas(p)
    <2>1. CASE /\ state' = [state EXCEPT ![l.i] = "EMPTY"] /\ Goto(p, "t_begin") /\ UNCHANGED loc
               /\ overtaken' = (overtaken \/ seq[l.i] # l.s1)
      <3>1. Moves(p, "t_begin", l)
         BY <1>5, <1>c, <1>d, <2>1 DEF SweepCas
      <3>2. overtaken' \in BOOLEAN
         BY <2>1
      <3>3. SharedOK'
         BY <1>5, <2>1, <3>2 DEF SweepCas, IInv, TypeOK, SharedOK, States, header, caches
      <3> QED BY <1>5, <3>1, <3>3, MoveWrites DEF SweepCas, header
    <2>2. CASE SkipSlot(p) /\ UNCHANGED <<state, overtaken>>
       BY <1>5, <1>a, <2>2, SkipKeeps DEF SweepCas, slots
    <2> QED BY <1>5, <2>1, <2>2 DEF SweepCas
  <1>6. CASE SweepBump(p)
    <2> DEFINE n == NextSlot(l)
               b == n.reclaimed \/ l.st # "DOORBELL"
               r == [n EXCEPT !.reclaimed = b]
    <2>1. n \in Locals /\ n.lim = l.lim /\ n.op = l.op /\ n.ent = l.ent
       BY <1>0, NextSlotType
    <2>2. Goto(p, "c_scan") /\ Set(p, r)
       BY <1>6 DEF SweepBump
    <2> HIDE DEF n
    <2>3. b \in BOOLEAN
       OBVIOUS
    <2> HIDE DEF b
    <2>4. r \in Locals /\ r.lim = l.lim /\ r.op = l.op /\ r.ent = l.ent
       BY <2>1, <2>3 DEF Locals
    <2> HIDE DEF r
    <2>5. Moves(p, "c_scan", r)
       BY <1>0, <1>a, <1>b, <2>2, <2>4 DEF Goto, Set, Moves, LocalOK
    <2>6. SharedOK'
       BY <1>6 DEF SweepBump, IInv, TypeOK, SharedOK, slots, caches
    <2> QED BY <1>6, <2>5, <2>6, MoveWrites DEF SweepBump
  <1>7. CASE SweepEnd(p)
    <2>1. CASE l.reclaimed
      <3> DEFINE r == [NoLocals EXCEPT !.op = l.op, !.ent = l.ent]
      <3>1. r \in Locals /\ r.lim = 0 /\ r.op = l.op /\ r.ent = l.ent
         BY <1>0, RegistryAssumption DEF NoLocals, Locals, States, Types, Pids, Bodies
      <3>2. Goto(p, "ring_hw") /\ Set(p, r)
         BY <1>7, <2>1 DEF SweepEnd
      <3> HIDE DEF r
      <3>3. Moves(p, "ring_hw", r)
         BY <3>1, <3>2, RegistryAssumption
            DEF Goto, Set, Moves, LocalOK, Pcs, SlotPcs, TearPcs, SnapPcs, AddPcs, RingPcs
      <3> QED BY <1>7, <3>3, MoveKeeps DEF SweepEnd
    <2>2. CASE ~l.reclaimed
       BY <1>0, <1>7, <1>a, <2>2, SweepReturnKeeps DEF SweepEnd, LocalOK
    <2> QED BY <2>1, <2>2
  <1> QED BY <1>1, <1>2, <1>3, <1>4, <1>5, <1>6, <1>7 DEF SweepStep

(* teardown_slot.                                                           *)
LEMMA TearKeeps ==
  ASSUME IInv, NEW p \in Procs, TearStep(p)
  PROVE  IInv'
  <1> DEFINE l == loc[p]
  <1>0. l \in Locals /\ LocalOK(pc[p], l)
     BY LocalFacts
  <1>a. pc[p] \in TearPcs /\ pc[p] \notin RingPcs /\ l.i \in SlotIds
     BY <1>0 DEF TearStep, TearBegin, TearCopyPath, TearPid, TearBody, TearEnd, TearUnlink,
        TearPcs, RingPcs, LocalOK, SlotPcs
  <1>b. ASSUME NEW c \in TearPcs \cup {"d_bump", "c_bump"}, Goto(p, c), UNCHANGED loc
        PROVE  Moves(p, c, l) /\ c # "a_bump"
    <2>1. loc' = [loc EXCEPT ![p] = l]
       BY <1>b DEF IInv, TypeOK
    <2>2. c \in Pcs /\ c \notin AddPcs /\ c # "a_bump"
       BY <1>b DEF Pcs, TearPcs, AddPcs
    <2> QED BY <1>0, <1>a, <1>b, <2>1, <2>2, WithinCall DEF Goto, Moves
  <1>1. CASE TearBegin(p) \/ TearEnd(p)
    <2>1. SharedOK'
       BY <1>1 DEF TearBegin, TearEnd, IInv, TypeOK, SharedOK, header, caches
    <2> QED BY <1>1, <1>b, <2>1, MoveWrites DEF TearBegin, TearEnd, TearPcs, header
  <1>2. CASE TearCopyPath(p)
    <2> DEFINE r == [l EXCEPT !.body = body[l.i]]
    <2>1. body[l.i] \in Bodies
       BY <1>a DEF IInv, TypeOK
    <2>2. r \in Locals /\ r.i = l.i /\ r.lim = l.lim /\ r.op = l.op /\ r.ent = l.ent
       BY <1>0, <2>1 DEF Locals
    <2>3. Goto(p, "t_pid") /\ Set(p, r)
       BY <1>2 DEF TearCopyPath
    <2> HIDE DEF r
    <2>4. Moves(p, "t_pid", r)
       BY <1>a, <2>2, <2>3, WithinCall DEF Goto, Set, Moves, Pcs, TearPcs, AddPcs
    <2> QED BY <1>2, <2>4, MoveKeeps DEF TearCopyPath
  <1>3. CASE TearPid(p)
    <2>1. SharedOK'
       BY <1>3 DEF TearPid, IInv, TypeOK, SharedOK, header, caches, Pids
    <2> QED BY <1>3, <1>b, <2>1, MoveWrites DEF TearPid, TearPcs, header
  <1>4. CASE TearBody(p)
    <2>1. SharedOK'
       BY <1>4 DEF TearBody, IInv, TypeOK, SharedOK, header, caches, Bodies
    <2> QED BY <1>4, <1>b, <2>1, MoveWrites DEF TearBody, TearPcs, header
  <1>5. CASE TearUnlink(p)
    <2>1. SharedOK'
       BY <1>5 DEF TearUnlink, IInv, TypeOK, SharedOK, slots, header, caches
    <2> QED BY <1>5, <1>b, <2>1, MoveWrites DEF TearUnlink, header
  <1> QED BY <1>1, <1>2, <1>3, <1>4, <1>5 DEF TearStep

(* registry_remove.                                                         *)
LEMMA RemoveKeeps ==
  ASSUME IInv, NEW p \in Procs, RemoveStep(p)
  PROVE  IInv'
  <1> DEFINE l == loc[p]
  <1>0. l \in Locals /\ LocalOK(pc[p], l)
     BY LocalFacts
  <1>a. pc[p] \notin RingPcs
     BY DEF RemoveStep, RemoveLoad, RemoveCas, RemoveBump, RemoveClose, RingPcs
  <1>b. pc[p] \in {"d_load", "d_cas"} => l.i \in SlotIds
     BY <1>0 DEF LocalOK, SlotPcs
  <1>c. /\ {"d_cas", "d_close", "t_begin"} \cap (AddPcs \cup RingPcs) = {}
        /\ {"d_cas", "d_close", "t_begin"} \subseteq Pcs
     BY DEF Pcs, AddPcs, TearPcs, RingPcs
  <1>1. CASE RemoveLoad(p)
    <2> DEFINE r == [l EXCEPT !.st = state[l.i]]
               c == IF state[l.i] = "EMPTY" THEN "d_close" ELSE "d_cas"
    <2>1. l.i \in SlotIds /\ state[l.i] \in States
       BY <1>1, <1>b DEF RemoveLoad, IInv, TypeOK
    <2>2. r \in Locals /\ r.i = l.i /\ r.lim = l.lim /\ r.op = l.op /\ r.ent = l.ent
       BY <1>0, <2>1 DEF Locals
    <2>3. Goto(p, c) /\ Set(p, r)
       BY <1>1 DEF RemoveLoad
    <2>4. c \in Pcs /\ c \notin AddPcs /\ c # "a_bump"
       BY <1>c
    <2> HIDE DEF r, c
    <2>5. Moves(p, c, r)
       BY <1>a, <2>1, <2>2, <2>3, <2>4, WithinCall DEF Goto, Set, Moves
    <2> QED BY <1>1, <2>4, <2>5, MoveKeeps DEF RemoveLoad
  <1>2. CASE RemoveCas(p)
    <2>0. loc' = [loc EXCEPT ![p] = l] /\ l.i \in SlotIds
       BY <1>2, <1>b DEF RemoveCas, IInv, TypeOK
    <2>1. SharedOK'
       BY <1>2 DEF RemoveCas, IInv, TypeOK, SharedOK, States, header, caches, slots
    <2>2. PICK c \in {"t_begin", "d_close"} : Goto(p, c)
       BY <1>2 DEF RemoveCas
    <2>3. Moves(p, c, l)
       BY <1>0, <1>a, <1>c, <2>0, <2>2, WithinCall DEF Goto, Moves
    <2> QED BY <1>2, <2>1, <2>3, MoveWrites DEF RemoveCas, header
  <1>3. CASE RemoveBump(p)
    <2> DEFINE r == [NoLocals EXCEPT !.op = "remove", !.ent = l.ent]
               c == IF l.st = "DOORBELL" THEN "d_close" ELSE "ring_hw"
    <2>1. r \in Locals /\ r.lim = 0 /\ r.op = "remove"
       BY <1>0, RegistryAssumption DEF NoLocals, Locals, States, Types, Pids, Bodies
    <2>2. Goto(p, c) /\ Set(p, r)
       BY <1>3 DEF RemoveBump
    <2>3. c \in Pcs /\ c \notin AddPcs \cup SlotPcs /\ c # "a_bump"
       BY DEF Pcs, RingPcs, AddPcs, SlotPcs, TearPcs, SnapPcs
    <2> HIDE DEF r, c
    <2>4. Moves(p, c, r)
       BY <2>1, <2>2, <2>3, RegistryAssumption DEF Goto, Set, Moves, LocalOK
    <2>5. SharedOK'
       BY <1>3 DEF RemoveBump, IInv, TypeOK, SharedOK, slots, caches
    <2> QED BY <1>3, <2>3, <2>4, <2>5, MoveWrites DEF RemoveBump
  <1>4. CASE RemoveClose(p)
    <2>1. Moves(p, "idle", NoLocals)
       BY <1>4, ReturnMoves DEF RemoveClose
    <2>2. SharedOK'
       BY <1>4 DEF RemoveClose, IInv, TypeOK, SharedOK, slots, header, caches
    <2> QED BY <1>4, <2>1, <2>2, MoveStage DEF RemoveClose, header
  <1> QED BY <1>1, <1>2, <1>3, <1>4 DEF RemoveStep

(* registry_add: the claim, the payload, and the widening before the bump.  *)
LEMMA AddKeeps ==
  ASSUME IInv, NEW p \in Procs, AddStep(p)
  PROVE  IInv'
  <1> DEFINE l == loc[p]
  <1>0. l \in Locals /\ LocalOK(pc[p], l) /\ high_water \in 0 .. MaxEntries
     BY LocalFacts DEF IInv, TypeOK
  <1>a. pc[p] \in AddPcs /\ pc[p] \notin RingPcs
     BY DEF AddStep, Claim, ClaimFull, WriteBegin, WritePid, WriteBody, WriteEnd, Publish, Widen,
        AddBump, AddPcs, RingPcs
  <1>b. l.op = "add" /\ l.ent \in Entries
     BY <1>0, <1>a DEF LocalOK
  <1>c. pc[p] # "claim" => l.i \in SlotIds
     BY <1>0, <1>a DEF LocalOK, AddPcs, SlotPcs
  <1>d. ASSUME NEW c \in AddPcs, l.i \in SlotIds, Goto(p, c), UNCHANGED loc
        PROVE  Moves(p, c, l)
    <2>1. loc' = [loc EXCEPT ![p] = l]
       BY <1>d DEF IInv, TypeOK
    <2>2. c \in Pcs
       BY <1>d DEF Pcs
    <2> QED BY <1>0, <1>a, <1>d, <2>1, <2>2, WithinCall DEF Goto, Moves
  <1>1. CASE Claim(p)
    <2>1. CASE state' = [state EXCEPT ![l.i] = "RESERVED"] /\ Goto(p, "w_begin") /\ UNCHANGED loc
      <3>1. l.i \in SlotIds
         BY <1>0, <1>1, RegistryAssumption DEF Claim, Locals, SlotIds
      <3>2. Moves(p, "w_begin", l)
         BY <1>d, <2>1, <3>1 DEF AddPcs
      <3>3. SharedOK'
         BY <1>1, <2>1 DEF Claim, IInv, TypeOK, SharedOK, States, header, caches
      <3> QED BY <1>1, <3>2, <3>3, MoveWrites DEF Claim, header
    <2>2. CASE Set(p, [l EXCEPT !.i = l.i + 1]) /\ UNCHANGED <<state, pc>>
      <3> DEFINE r == [l EXCEPT !.i = l.i + 1]
      <3>1. r \in Locals /\ r.lim = l.lim /\ r.op = l.op /\ r.ent = l.ent
         BY <1>0 DEF Locals
      <3>2. Set(p, r) /\ Goto(p, "claim")
         BY <1>1, <2>2 DEF Claim, Goto, IInv, TypeOK
      <3> HIDE DEF r
      <3>3. Moves(p, "claim", r)
         BY <1>0, <1>b, <3>1, <3>2
            DEF Goto, Set, Moves, LocalOK, Pcs, AddPcs, SlotPcs, TearPcs, SnapPcs
      <3> QED BY <1>1, <2>2, <3>3, MoveKeeps DEF Claim, slots
    <2> QED BY <1>1, <2>1, <2>2 DEF Claim
  <1>2. CASE ClaimFull(p)
    <2>1. CASE Set(p, [l EXCEPT !.pass = 2, !.i = 0]) /\ Goto(p, "c_hw") /\ UNCHANGED <<files, stage>>
      <3> DEFINE r == [l EXCEPT !.pass = 2, !.i = 0]
      <3>1. r \in Locals /\ r.lim = l.lim /\ r.op = l.op /\ r.ent = l.ent
         BY <1>0 DEF Locals
      <3>2. Set(p, r) /\ Goto(p, "c_hw")
         BY <2>1
      <3> HIDE DEF r
      <3>3. Moves(p, "c_hw", r)
         BY <1>0, <1>b, <3>1, <3>2
            DEF Goto, Set, Moves, LocalOK, Pcs, AddPcs, SlotPcs, TearPcs, SnapPcs
      <3> QED BY <1>2, <2>1, <3>3, MoveKeeps DEF ClaimFull, handle
    <2>2. CASE /\ files' = files \ {l.ent} /\ stage' = [stage EXCEPT ![l.ent] = "gone"]
               /\ Return(p)
      <3>1. SharedOK'
         BY <1>2, <2>2 DEF ClaimFull, IInv, TypeOK, SharedOK, slots, header, caches
      <3> QED BY <1>2, <2>2, <3>1, ReturnMoves, MoveStage DEF ClaimFull, header
    <2> QED BY <1>2, <2>1, <2>2 DEF ClaimFull
  <1>3. CASE WriteBegin(p) \/ WriteEnd(p)
    <2>1. SharedOK'
       BY <1>3 DEF WriteBegin, WriteEnd, IInv, TypeOK, SharedOK, header, caches
    <2>2. Moves(p, IF WriteBegin(p) THEN "w_pid" ELSE "publish", l)
       BY <1>3, <1>c, <1>d DEF WriteBegin, WriteEnd, AddPcs
    <2> QED BY <1>3, <2>1, <2>2, MoveWrites DEF WriteBegin, WriteEnd, header
  <1>4. CASE WritePid(p)
    <2>1. SharedOK'
       BY <1>4 DEF WritePid, IInv, TypeOK, SharedOK, header, caches, Pids
    <2>2. Moves(p, "w_body", l)
       BY <1>4, <1>c, <1>d DEF WritePid, AddPcs
    <2> QED BY <1>4, <2>1, <2>2, MoveWrites DEF WritePid, header
  <1>5. CASE WriteBody(p)
    <2>1. SharedOK'
       BY <1>5, <1>b DEF WriteBody, IInv, TypeOK, SharedOK, header, caches, Bodies
    <2>2. Moves(p, "w_end", l)
       BY <1>5, <1>c, <1>d DEF WriteBody, AddPcs
    <2> QED BY <1>5, <2>1, <2>2, MoveWrites DEF WriteBody, header
  <1>6. CASE Publish(p)
    <2>0. TypeOf[l.ent] \in States
       BY <1>b, RegistryAssumption DEF States
    <2>1. SharedOK'
       BY <1>6, <2>0 DEF Publish, IInv, TypeOK, SharedOK, header, caches
    <2>2. Moves(p, "widen", l)
       BY <1>6, <1>c, <1>d DEF Publish, AddPcs
    <2> QED BY <1>6, <2>1, <2>2, MoveWrites DEF Publish, header
  <1>7. CASE Widen(p)
    <2>0. l.i \in SlotIds
       BY <1>7, <1>c DEF Widen
    <2>1. Moves(p, "a_bump", l)
       BY <1>7, <1>d, <2>0 DEF Widen, AddPcs
    <2>2. high_water' \in 0 .. MaxEntries /\ high_water <= high_water' /\ l.i < high_water'
       BY <1>0, <1>7, <2>0, RegistryAssumption DEF Widen, SlotIds
    <2>3. pc' \in [Procs -> Pcs] /\ loc' \in [Procs -> Locals] /\ LocalsInv'
       BY <2>1, MoveLocals
    <2>4. TypeOK'
       BY <1>7, <2>2, <2>3 DEF Widen, IInv, TypeOK, slots, handle, caches
    <2>5. HandleInv'
       BY <1>7 DEF Widen, IInv, HandleInv, handle
    <2>6. HighWaterCovers'
      <3>1. \A e \in Entries : index[e] \in Int
         BY DEF IInv, TypeOK, SlotIds
      <3> QED BY <1>0, <1>7, <2>2, <3>1 DEF Widen, IInv, HighWaterCovers, handle
    <2>7. WidenedInv'
      <3>1. \A q \in Procs : loc[q].i \in Nat
         BY DEF IInv, TypeOK, Locals
      <3>2. loc' = loc /\ \A q \in Procs : q # p => pc'[q] = pc[q]
         BY <1>7 DEF Widen, Goto, IInv, TypeOK
      <3> QED BY <1>0, <2>2, <3>1, <3>2 DEF IInv, WidenedInv
    <2> QED BY <2>3, <2>4, <2>5, <2>6, <2>7 DEF IInv
  <1>8. CASE AddBump(p)
    <2> DEFINE e == l.ent
    <2>0. l.i \in SlotIds /\ l.i < high_water
       BY <1>8, <1>c DEF AddBump, IInv, WidenedInv
    <2>1. PICK c \in {"idle", "ring_hw"}, r \in Locals : Moves(p, c, r)
      <3>1. CASE TypeOf[e] = "DOORBELL"
         BY <1>8, <3>1, ReturnMoves DEF AddBump, Moves
      <3>2. CASE TypeOf[e] # "DOORBELL"
        <4> DEFINE r == [NoLocals EXCEPT !.op = "add"]
        <4>1. r \in Locals /\ r.lim = 0
           BY RegistryAssumption DEF NoLocals, Locals, States, Types, Pids, Bodies
        <4>2. Goto(p, "ring_hw") /\ Set(p, r)
           BY <1>8, <3>2 DEF AddBump
        <4> HIDE DEF r
        <4>3. Moves(p, "ring_hw", r)
           BY <4>1, <4>2, RegistryAssumption
              DEF Goto, Set, Moves, LocalOK, Pcs, SlotPcs, TearPcs, SnapPcs, AddPcs, RingPcs
        <4> QED BY <4>1, <4>3
      <3> QED BY <3>1, <3>2
    <2>2. pc' \in [Procs -> Pcs] /\ loc' \in [Procs -> Locals] /\ LocalsInv'
       BY <2>1, MoveLocals
    <2>3. /\ stage' \in [Entries -> {"new", "adding", "live", "removing", "gone"}]
          /\ index' \in [Entries -> {-1} \cup SlotIds]
          /\ committed' \in [Entries -> {Uncommitted} \cup Nat] /\ generation' \in Nat
      <3>1. stage' \in [Entries -> {"new", "adding", "live", "removing", "gone"}]
         BY <1>8 DEF AddBump, IInv, TypeOK
      <3>2. index' \in [Entries -> {-1} \cup SlotIds]
         BY <1>8, <2>0 DEF AddBump, IInv, TypeOK
      <3>3. generation + 1 \in Nat /\ generation' = generation + 1
         BY <1>8 DEF AddBump, IInv, TypeOK
      <3>4. committed' \in [Entries -> {Uncommitted} \cup Nat]
         BY <1>8, <3>3 DEF AddBump, IInv, TypeOK
      <3> QED BY <3>1, <3>2, <3>3, <3>4
    <2>4. TypeOK'
       BY <1>8, <2>2, <2>3 DEF AddBump, IInv, TypeOK, slots, caches
    <2>5. HandleInv'
       BY <1>8, <1>b, <2>0 DEF AddBump, IInv, TypeOK, HandleInv
    <2>6. HighWaterCovers'
       BY <1>8, <1>b, <2>0 DEF AddBump, IInv, TypeOK, HighWaterCovers
    <2>7. WidenedInv'
      <3>1. high_water' = high_water
         BY <1>8 DEF AddBump
      <3> QED BY <2>1, <3>1 DEF IInv, TypeOK, WidenedInv, Moves
    <2> QED BY <2>2, <2>4, <2>5, <2>6, <2>7 DEF IInv
  <1> QED BY <1>1, <1>2, <1>3, <1>4, <1>5, <1>6, <1>7, <1>8 DEF AddStep

(* The calls begin, and a process dies.                                     *)
LEMMA StartKeeps ==
  ASSUME IInv, NEW p \in Procs,
         \/ \E e \in Entries : StartAdd(p, e) \/ StartRemove(p, e)
         \/ StartSweep(p) \/ StartRefresh(p) \/ Crash(p)
  PROVE  IInv'
  <1> USE RegistryAssumption
  <1>1. ASSUME NEW e \in Entries, StartAdd(p, e) PROVE IInv'
    <2> DEFINE r == [NoLocals EXCEPT !.op = "add", !.ent = e]
    <2>1. r \in Locals /\ r.lim = 0 /\ r.op = "add" /\ r.ent = e
       BY DEF NoLocals, Locals, States, Types, Pids, Bodies
    <2>2. Goto(p, "claim") /\ Set(p, r)
       BY <1>1 DEF StartAdd
    <2> HIDE DEF r
    <2>3. Moves(p, "claim", r)
       BY <2>1, <2>2 DEF Goto, Set, Moves, LocalOK, Pcs, AddPcs, SlotPcs, TearPcs, SnapPcs
    <2>4. SharedOK'
       BY <1>1 DEF StartAdd, IInv, TypeOK, SharedOK, slots, header, caches
    <2> QED BY <1>1, <2>3, <2>4, MoveStage DEF StartAdd, header
  <1>2. ASSUME NEW e \in Entries, StartRemove(p, e) PROVE IInv'
    <2> DEFINE r == [NoLocals EXCEPT !.op = "remove", !.ent = e, !.i = index[e]]
    <2>0. index[e] \in SlotIds
       BY <1>2 DEF StartRemove, IInv, HandleInv
    <2>1. r \in Locals /\ r.lim = 0 /\ r.op = "remove" /\ r.i = index[e]
      <3>1. index[e] \in Nat /\ e \in Bodies
         BY <2>0 DEF SlotIds, Bodies
      <3> QED BY <3>1, NoLocalsType DEF NoLocals, Locals
    <2>2. Goto(p, "d_load") /\ Set(p, r)
       BY <1>2 DEF StartRemove
    <2> HIDE DEF r
    <2>3. Moves(p, "d_load", r)
       BY <2>0, <2>1, <2>2 DEF Goto, Set, Moves, LocalOK, Pcs, AddPcs
    <2>4. SharedOK'
       BY <1>2 DEF StartRemove, IInv, TypeOK, SharedOK, slots, header, caches
    <2> QED BY <1>2, <2>0, <2>3, <2>4, MoveStage DEF StartRemove, header
  <1>3. CASE StartSweep(p)
    <2> DEFINE r == [NoLocals EXCEPT !.op = "sweep"]
    <2>1. r \in Locals /\ r.lim = 0 /\ r.op = "sweep"
       BY NoLocalsType DEF NoLocals, Locals
    <2>2. Goto(p, "c_hw") /\ Set(p, r)
       BY <1>3 DEF StartSweep
    <2> HIDE DEF r
    <2>3. Moves(p, "c_hw", r)
       BY <2>1, <2>2 DEF Goto, Set, Moves, LocalOK, Pcs, AddPcs, SlotPcs, TearPcs, SnapPcs
    <2> QED BY <1>3, <2>3, MoveKeeps DEF StartSweep
  <1>4. CASE StartRefresh(p)
    <2> DEFINE r == [NoLocals EXCEPT !.op = "query", !.gen = generation]
    <2>0. generation \in Nat
       BY DEF IInv, TypeOK
    <2>1. r \in Locals /\ r.lim = 0 /\ r.op = "query"
       BY <2>0, NoLocalsType DEF NoLocals, Locals
    <2>2. Goto(p, "q_hw") /\ Set(p, r)
       BY <1>4 DEF StartRefresh
    <2> HIDE DEF r
    <2>3. Moves(p, "q_hw", r)
       BY <2>1, <2>2 DEF Goto, Set, Moves, LocalOK, Pcs, AddPcs, SlotPcs, TearPcs, SnapPcs
    <2> QED BY <1>4, <2>3, MoveKeeps DEF StartRefresh
  <1>5. CASE Crash(p)
    <2>1. Moves(p, "dead", NoLocals)
      <3>1. "dead" \in Pcs /\ "dead" \notin SlotPcs /\ "dead" \notin AddPcs
         BY DEF Pcs, SlotPcs, AddPcs, TearPcs, SnapPcs
      <3> QED BY <1>5, <3>1, NoLocalsType DEF Crash, Goto, Set, Moves, LocalOK, NoLocals
    <2> QED BY <1>5, <2>1, MoveKeeps DEF Crash
  <1> QED BY <1>1, <1>2, <1>3, <1>4, <1>5

(* IInv is inductive.                                                       *)
LEMMA NextIInv == IInv /\ [Next]_vars => IInv'
  <1> SUFFICES ASSUME IInv, [Next]_vars PROVE IInv'
    OBVIOUS
  <1>1. CASE Next
    <2>1. PICK p \in Procs :
            \/ \E e \in Entries : StartAdd(p, e) \/ StartRemove(p, e)
            \/ StartSweep(p) \/ StartRefresh(p) \/ Step(p) \/ Crash(p)
       BY <1>1 DEF Next
    <2>2. CASE Step(p)
       BY <2>2, AddKeeps, RemoveKeeps, TearKeeps, SnapKeeps, SweepKeeps, RingKeeps, QueryKeeps DEF Step
    <2> QED BY <2>1, <2>2, StartKeeps
  <1>2. CASE UNCHANGED vars
     BY <1>2 DEF vars, slots, header, handle, caches, IInv, TypeOK, LocalsInv, LocalOK, HandleInv,
        WidenedInv, HighWaterCovers
  <1> QED BY <1>1, <1>2

(* The registry's words, locals and handles keep their types under every    *)
(* interleaving and every crash; in particular no call indexes a slot       *)
(* outside the array.                                                       *)
THEOREM TypeCorrect == Spec => []TypeOK
  <1>1. IInv => TypeOK
     BY DEF IInv
  <1> QED BY InitIInv, NextIInv, <1>1, PTL DEF Spec

(* "Under-scan is impossible" (registry.cpp, try_add_once): the slot of an  *)
(* announced entry is always below the high-water mark.                     *)
THEOREM UnderScanImpossible == Spec => []HighWaterCovers
  <1>1. IInv => HighWaterCovers
     BY DEF IInv
  <1> QED BY InitIInv, NextIInv, <1>1, PTL DEF Spec
-----------------------------------------------------------------------------
(* The slots themselves.  What follows holds outside two windows that the   *)
(* code leaves open: no process dies inside a mutation, and no claim lands  *)
(* on a slot that another process has still to tear down.  A claim between  *)
(* a sweep's ABA guard and its CAS is not ruled out: it is what the history *)
(* variable overtaken records, once the CAS takes the slot.                 *)
Quiet == ~CrashMidMutation /\ ~ReuseInWindow

(* Control points at which a process fills a slot, has filled it and not    *)
(* announced it, or has a slot to itself in one of these ways or for its    *)
(* teardown; those at which it has made seq odd.                            *)
WritePcs == {"w_begin", "w_pid", "w_body", "w_end", "publish"}
HeldPcs  == {"widen", "a_bump"}
OwnPcs   == WritePcs \cup HeldPcs \cup TearPcs
OddPcs   == {"w_pid", "w_body", "w_end", "t_copy", "t_pid", "t_body", "t_end"}

(* Slot i holds the whole of some entry; of entry e, under its type.        *)
Whole(i)   == body[i] \in Entries /\ pid[i] = OwnerOf[body[i]]
Held(e, i) == state[i] = TypeOf[e] /\ body[i] = e /\ pid[i] = OwnerOf[e]

(* Nobody counts on entry e any more.                                       *)
Doomed(e) == e \in Entries /\ (OwnerOf[e] \notin Alive \/ stage[e] \in {"removing", "gone"})

TearAt(i) == \E q \in Procs : pc[q] \in TearPcs /\ loc[q].i = i
OddAt(i)  == \E q \in Procs : pc[q] \in OddPcs /\ loc[q].i = i

(* No two processes have the same slot to themselves.                       *)
ExclInv ==
  \A p, q \in Procs : p # q /\ pc[p] \in OwnPcs /\ pc[q] \in OwnPcs => loc[p].i # loc[q].i

(* What a process that has a slot to itself finds in it.                    *)
OwnOK(p, c, l) ==
  /\ c \in WritePcs => state[l.i] = "RESERVED"
  /\ c \in {"w_body", "w_end", "publish"} => pid[l.i] = p
  /\ c \in {"w_end", "publish"} => body[l.i] = l.ent
  /\ c \in HeldPcs => Held(l.ent, l.i)
  /\ c \in TearPcs => state[l.i] = "EMPTY"
  /\ c \in {"t_begin", "t_copy"} => Doomed(body[l.i])
  /\ c \in TearPcs \ {"t_begin", "t_copy"} => Doomed(l.body)
  /\ c \in {"t_end", "t_unlink"} => body[l.i] = NoEntry
  /\ c \in OddPcs => seq[l.i] % 2 = 1
OwnInv == \A p \in Procs : OwnOK(p, pc[p], loc[p])

(* Which call is at which control point, and the entry it is about.  Until  *)
(* the CAS of a removal the slot still holds the entry.                     *)
CallOK(p, c, l) ==
  /\ l.op = "none" <=> c \in {"idle", "dead"}
  /\ l.op = "query" => c \in SnapPcs \cup {"q_hw", "q_scan", "q_take"}
  /\ c \in {"q_hw", "q_scan", "q_take"} => l.op = "query"
  /\ l.op = "add" /\ l.ent # NoEntry =>
       OwnerOf[l.ent] = p /\ stage[l.ent] = "adding" /\ l.ent \in files
  /\ l.op = "remove" => l.ent \in Entries /\ OwnerOf[l.ent] = p /\ stage[l.ent] = "removing"
  /\ c \in {"d_load", "d_cas", "d_bump", "d_close"} => l.op = "remove"
  /\ c \in {"d_load", "d_cas"} => Held(l.ent, l.i)
CallInv == \A p \in Procs : CallOK(p, pc[p], loc[p])

(* A slot with a type holds a whole entry of that type; an empty slot that  *)
(* nobody is tearing down is clean; seq is odd only under a writer.         *)
SlotOK(i) ==
  /\ state[i] \in Types => Whole(i) /\ state[i] = TypeOf[body[i]]
  /\ state[i] = "EMPTY" /\ ~TearAt(i) => body[i] = NoEntry
  /\ ~OddAt(i) => seq[i] % 2 = 0
SlotInv == \A i \in SlotIds : SlotOK(i)

(* What a reader has read is true of the slot for as long as seq has not    *)
(* moved; a snapshot it has accepted is whole for ever; a process that a    *)
(* sweep found dead is dead.                                                *)
Fresh(l)   == seq[l.i] = l.s1
Seen(c, l) == IF c \in RingPcs THEN "DOORBELL" ELSE l.st
ReadOK(c, l) ==
  /\ c \in {"s_state", "s_pid", "s_body", "s_check", "c_vet", "c_seq", "c_cas",
            "r_state", "r_copy", "r_send"} => l.s1 % 2 = 0 /\ l.s1 <= seq[l.i]
  /\ c \in {"s_pid", "s_body", "s_check", "c_vet", "c_seq", "c_cas", "r_copy", "r_send"}
       /\ Fresh(l) => Whole(l.i) /\ Seen(c, l) = TypeOf[body[l.i]] /\ state[l.i] # "RESERVED"
  /\ c \in {"s_body", "s_check", "c_vet", "c_seq", "c_cas"} /\ Fresh(l) => l.pid = pid[l.i]
  /\ c \in {"s_check", "c_vet", "c_seq", "c_cas", "r_send"} /\ Fresh(l) => l.body = body[l.i]
  /\ c \in {"c_vet", "c_seq", "c_cas", "q_take"} =>
       l.body \in Entries /\ l.pid = OwnerOf[l.body] /\ l.st = TypeOf[l.body]
  /\ c \in {"c_seq", "c_cas"} => l.pid \notin Alive
ReadInv == \A p \in Procs : ReadOK(pc[p], loc[p])

(* A registered entry of a live process is in its slot, and announced.      *)
LiveOK(e) ==
  /\ stage[e] = "live" /\ OwnerOf[e] \in Alive => Held(e, index[e]) /\ e \in files
  /\ stage[e] = "live" => committed[e] # Uncommitted
  /\ committed[e] <= generation
LiveInv == \A e \in Entries : LiveOK(e)

(* A query labelled g misses no entry that g announced: what it has passed  *)
(* it has taken, and at the entry's slot no snapshot fails.                 *)
Wanted(e, g) ==
  TypeOf[e] = "DATA" /\ stage[e] = "live" /\ OwnerOf[e] \in Alive /\ committed[e] <= g
CoverOK(c, l) ==
  l.op = "query" =>
    /\ l.gen <= generation
    /\ c = "q_hw" => l.i = 0
    /\ \A e \in Entries : Wanted(e, l.gen) =>
         /\ c # "q_hw" => index[e] < l.lim /\ (e \in l.acc \/ l.i <= index[e])
         /\ c \in {"s_state", "s_pid", "s_body", "s_check"} /\ l.i = index[e] => Fresh(l)
         /\ c = "q_take" /\ l.i = index[e] => l.body = e
CoverInv == \A p \in Procs : CoverOK(pc[p], loc[p])

(* CacheCoversGeneration and RingHitsOnlyDoorbells without their exception. *)
CacheFull ==
  \A p \in Procs, e \in Entries :
    (/\ TypeOf[e] = "DATA" /\ stage[e] = "live" /\ OwnerOf[e] \in Alive
     /\ committed[e] <= cached_generation[p]) => e \in cache[p]
BellsOnly == \A e \in rung : TypeOf[e] = "DOORBELL"

CacheInv == CacheFull /\ \A p \in Procs : cached_generation[p] <= generation

(* The slots, their owners and their readers; then the rest.                *)
Core == ExclInv /\ OwnInv /\ CallInv /\ SlotInv /\ ReadInv /\ LiveInv /\ CoverInv
SInv == Core /\ CacheInv /\ BellsOnly

(* Where the slots that a process has to itself are found.                  *)
LEMMA OwnPcsFacts ==
  /\ OddPcs \subseteq OwnPcs /\ TearPcs \subseteq OwnPcs /\ OwnPcs \subseteq SlotPcs
  /\ "idle" \notin OwnPcs /\ "dead" \notin OwnPcs
  /\ OwnPcs \cap (SnapPcs \cup RingPcs) = {}
  BY DEF OddPcs, OwnPcs, WritePcs, HeldPcs, TearPcs, SlotPcs, SnapPcs, RingPcs

(* The types of one process's locals, field by field.                       *)
LEMMA FieldFacts ==
  ASSUME IInv, NEW p \in Procs
  PROVE  /\ loc[p].i \in Nat /\ loc[p].lim \in Nat /\ loc[p].s1 \in Nat /\ loc[p].gen \in Nat
         /\ loc[p].ent \in Bodies /\ loc[p].body \in Bodies /\ loc[p].st \in States
         /\ loc[p].op \in {"none", "add", "remove", "sweep", "query"}
         /\ pc[p] \in SlotPcs => loc[p].i \in SlotIds
         /\ loc[p].acc \subseteq Entries
  BY LocalFacts DEF Locals, LocalOK

(* What the new locals of a process must satisfy after a step that leaves   *)
(* the slots alone, and that it keeps the slot it has to itself, if any.    *)
Safe(p, c, r) == OwnOK(p, c, r) /\ CallOK(p, c, r) /\ ReadOK(c, r) /\ CoverOK(c, r)
Same(p, c, r) ==
  /\ c \in OwnPcs => pc[p] \in OwnPcs /\ r.i = loc[p].i
  /\ c \in TearPcs <=> pc[p] \in TearPcs
  /\ c \in OddPcs <=> pc[p] \in OddPcs

(* Such a step keeps Core.                                                  *)
LEMMA MoveSafe ==
  ASSUME IInv, IInv', Core, NEW p \in Procs, NEW c, NEW r,
         pc' = [pc EXCEPT ![p] = c], loc' = [loc EXCEPT ![p] = r],
         pc[p] # "dead", c # "dead", Same(p, c, r), Safe(p, c, r),
         UNCHANGED <<slots, files, stage, index, committed>>, generation <= generation'
  PROVE  Core'
  <1>1. /\ pc'[p] = c /\ loc'[p] = r
        /\ \A q \in Procs : q # p => pc'[q] = pc[q] /\ loc'[q] = loc[q]
     BY DEF IInv, TypeOK
  <1>2. Alive' = Alive
     BY <1>1 DEF Alive
  <1>3. UNCHANGED <<state, seq, pid, body>>
     BY DEF slots
  <1>4. ExclInv'
     BY <1>1 DEF Core, ExclInv, Same
  <1>5. OwnInv'
    <2> SUFFICES ASSUME NEW q \in Procs PROVE OwnOK(q, pc[q], loc[q])'
       BY DEF OwnInv
    <2>1. OwnOK(q, pc'[q], loc'[q])
       BY <1>1 DEF Core, OwnInv, Safe
    <2> QED BY <2>1, <1>2, <1>3 DEF OwnOK, Held, Doomed
  <1>6. CallInv'
    <2> SUFFICES ASSUME NEW q \in Procs PROVE CallOK(q, pc[q], loc[q])'
       BY DEF CallInv
    <2>1. CallOK(q, pc'[q], loc'[q])
       BY <1>1 DEF Core, CallInv, Safe
    <2> QED BY <2>1, <1>3 DEF CallOK, Held
  <1>7. SlotInv'
    <2> SUFFICES ASSUME NEW j \in SlotIds PROVE SlotOK(j)'
       BY DEF SlotInv
    <2>1. TearAt(j)' <=> TearAt(j)
       BY <1>1, OwnPcsFacts DEF TearAt, Same
    <2>2. OddAt(j)' <=> OddAt(j)
       BY <1>1, OwnPcsFacts DEF OddAt, Same
    <2>3. SlotOK(j)
       BY DEF Core, SlotInv
    <2> QED BY <2>1, <2>2, <2>3, <1>3 DEF SlotOK, Whole
  <1>8. ReadInv'
    <2> SUFFICES ASSUME NEW q \in Procs PROVE ReadOK(pc[q], loc[q])'
       BY DEF ReadInv
    <2>1. ReadOK(pc'[q], loc'[q])
       BY <1>1 DEF Core, ReadInv, Safe
    <2> QED BY <2>1, <1>2, <1>3 DEF ReadOK, Fresh, Whole, Seen
  <1>9. generation \in Nat /\ generation' \in Nat
     BY DEF IInv, TypeOK
  <1>10. LiveInv'
    <2> SUFFICES ASSUME NEW e \in Entries PROVE LiveOK(e)'
       BY DEF LiveInv
    <2>1. LiveOK(e) /\ committed[e] \in {Uncommitted} \cup Nat
       BY DEF Core, LiveInv, IInv, TypeOK
    <2> QED BY <2>1, <1>2, <1>3, <1>9 DEF LiveOK, Held, Uncommitted
  <1>11. CoverInv'
    <2> SUFFICES ASSUME NEW q \in Procs PROVE CoverOK(pc[q], loc[q])'
       BY DEF CoverInv
    <2>1. CoverOK(pc'[q], loc'[q])
       BY <1>1 DEF Core, CoverInv, Safe
    <2>2. loc'[q].gen \in Nat
       BY DEF IInv, TypeOK, Locals
    <2> QED BY <2>1, <2>2, <1>2, <1>3, <1>9 DEF CoverOK, Wanted, Fresh
  <1> QED BY <1>4, <1>5, <1>6, <1>7, <1>8, <1>10, <1>11 DEF Core

(* A process without a slot to itself moves on to read or to scan.          *)
LEMMA PlainSafe ==
  ASSUME IInv, IInv', Core, NEW p \in Procs, NEW c, NEW r,
         pc' = [pc EXCEPT ![p] = c], loc' = [loc EXCEPT ![p] = r],
         pc[p] # "dead", c # "dead", pc[p] \notin OwnPcs, c \notin OwnPcs,
         CallOK(p, c, r), ReadOK(c, r), CoverOK(c, r),
         UNCHANGED <<slots, files, stage, index, committed>>, generation <= generation'
  PROVE  Core'
  <1>1. Same(p, c, r)
     BY OwnPcsFacts DEF Same
  <1>2. OwnOK(p, c, r)
     BY OwnPcsFacts DEF OwnOK, OwnPcs, WritePcs, HeldPcs, TearPcs
  <1> QED BY <1>1, <1>2, MoveSafe DEF Safe

(* The call goes on with the same entry.                                    *)
LEMMA CallStays ==
  ASSUME Core, NEW p \in Procs, NEW c, NEW r, r.op = loc[p].op, r.ent = loc[p].ent,
         pc[p] \notin {"idle", "dead"}, c \notin {"idle", "dead"},
         r.op = "query" => c \in SnapPcs \cup {"q_hw", "q_scan", "q_take"},
         c \in {"q_hw", "q_scan", "q_take"} => r.op = "query",
         c \notin {"d_load", "d_cas"},
         c \in {"d_bump", "d_close"} => r.op = "remove"
  PROVE  CallOK(p, c, r)
  BY DEF Core, CallInv, CallOK

(* A scan passes over a slot that holds nothing it must take.               *)
LEMMA SkipSafe ==
  ASSUME IInv, IInv', Core, NEW p \in Procs, SkipSlot(p),
         pc[p] \notin OwnPcs \cup {"idle", "dead", "q_hw"},
         loc[p].op = "query" =>
           \A e \in Entries : Wanted(e, loc[p].gen) => e \in loc[p].acc \/ loc[p].i # index[e],
         UNCHANGED <<slots, header, files, handle, committed>>
  PROVE  Core'
  <1> DEFINE l == loc[p]
             r == NextSlot(l)
             c == Scan(p)
  <1>1. /\ r.i = l.i + 1 /\ r.lim = l.lim /\ r.op = l.op /\ r.ent = l.ent
        /\ r.acc = l.acc /\ r.gen = l.gen
     BY LocalFacts, NextSlotType
  <1>2. pc' = [pc EXCEPT ![p] = c] /\ loc' = [loc EXCEPT ![p] = r]
     BY DEF SkipSlot, Goto, Set
  <1>3. c = IF l.op = "query" THEN "q_scan" ELSE "c_scan"
     BY DEF Scan
  <1>4. l.i \in Nat /\ \A e \in Entries : index[e] \in Int
     BY FieldFacts DEF IInv, TypeOK, SlotIds
  <1>5. CoverOK(pc[p], l)
     BY DEF Core, CoverInv
  <1>6. generation <= generation'
     BY DEF header, IInv, TypeOK
  <1> HIDE DEF r, c
  <1>7. CallOK(p, c, r)
     BY <1>1, <1>3, CallStays
  <1>8. ReadOK(c, r)
     BY <1>3 DEF ReadOK
  <1>9. CoverOK(c, r)
     BY <1>1, <1>3, <1>4, <1>5 DEF CoverOK
  <1>10. c \notin OwnPcs /\ c # "dead"
     BY <1>3 DEF OwnPcs, WritePcs, HeldPcs, TearPcs
  <1> QED BY <1>2, <1>6, <1>7, <1>8, <1>9, <1>10, PlainSafe DEF handle

(* snapshot_slot tries again or gives up; no entry it must take is there.   *)
LEMMA RetrySafe ==
  ASSUME IInv, IInv', Core, NEW p \in Procs, Retry(p), pc[p] \in SnapPcs,
         loc[p].op = "query" =>
           \A e \in Entries : Wanted(e, loc[p].gen) => e \in loc[p].acc \/ loc[p].i # index[e],
         UNCHANGED <<slots, header, files, handle, committed>>
  PROVE  Core'
  <1> DEFINE l == loc[p]
  <1>0. pc[p] \notin OwnPcs \cup {"idle", "dead", "q_hw"}
     BY OwnPcsFacts DEF SnapPcs
  <1>1. CASE l.tries + 1 < MaxReadRetries
    <2> DEFINE r == [l EXCEPT !.tries = l.tries + 1]
    <2>1. /\ r.i = l.i /\ r.lim = l.lim /\ r.op = l.op /\ r.ent = l.ent
          /\ r.acc = l.acc /\ r.gen = l.gen
       BY LocalFacts DEF Locals
    <2>2. pc' = [pc EXCEPT ![p] = "s_seq"] /\ loc' = [loc EXCEPT ![p] = r]
       BY <1>1 DEF Retry, Goto, Set
    <2> HIDE DEF r
    <2>3. CallOK(p, "s_seq", r)
       BY <1>0, <2>1, CallStays DEF SnapPcs
    <2>4. ReadOK("s_seq", r)
       BY DEF ReadOK
    <2>5. CoverOK("s_seq", r)
       BY <1>0, <2>1 DEF CoverOK, Core, CoverInv
    <2>6. "s_seq" \notin OwnPcs /\ generation <= generation'
       BY DEF OwnPcs, WritePcs, HeldPcs, TearPcs, header, IInv, TypeOK
    <2> QED BY <1>0, <2>2, <2>3, <2>4, <2>5, <2>6, PlainSafe DEF handle
  <1>2. CASE ~(l.tries + 1 < MaxReadRetries)
     BY <1>0, <1>2, SkipSafe DEF Retry
  <1> QED BY <1>1, <1>2

(* The slot of a registered entry of a live process: nobody else has it to  *)
(* himself, its seq is even and it holds the entry.                         *)
LEMMA LiveSlot ==
  ASSUME IInv, Core, NEW e \in Entries, stage[e] = "live", OwnerOf[e] \in Alive
  PROVE  /\ index[e] \in SlotIds /\ Held(e, index[e]) /\ state[index[e]] \in Types
         /\ seq[index[e]] % 2 = 0
  <1>1. index[e] \in SlotIds /\ Held(e, index[e])
     BY DEF IInv, HandleInv, Core, LiveInv, LiveOK
  <1>2. state[index[e]] \in Types
     BY <1>1, RegistryAssumption DEF Held
  <1>3. ASSUME NEW q \in Procs, pc[q] \in OddPcs PROVE loc[q].i # index[e]
    <2>1. OwnOK(q, pc[q], loc[q])
       BY DEF Core, OwnInv
    <2> QED BY <1>2, <1>3, <2>1 DEF OwnOK, OddPcs, WritePcs, TearPcs, Types
  <1> QED BY <1>1, <1>2, <1>3 DEF Core, SlotInv, SlotOK, OddAt

(* snapshot_slot: what it accepts is whole, and at the slot of an entry     *)
(* that a query must take it does not fail.                                 *)
LEMMA SnapSafe ==
  ASSUME IInv, IInv', Core, NEW p \in Procs, SnapStep(p)
  PROVE  Core'
  <1> DEFINE l == loc[p]
             i == loc[p].i
  <1>0. l \in Locals /\ i \in SlotIds /\ pc[p] \in SnapPcs
    <2>1. pc[p] \in SnapPcs
       BY DEF SnapStep, SnapSeq, SnapState, SnapPid, SnapBody, SnapCheck, SnapPcs
    <2> QED BY <2>1, LocalFacts, FieldFacts DEF SlotPcs
  <1>a. pc[p] \notin OwnPcs \cup {"idle", "dead", "q_hw"}
     BY <1>0, OwnPcsFacts DEF SnapPcs
  <1>b. ReadOK(pc[p], l) /\ CoverOK(pc[p], l) /\ CallOK(p, pc[p], l) /\ SlotOK(i)
     BY <1>0 DEF Core, ReadInv, CoverInv, CallInv, SlotInv
  <1>c. UNCHANGED <<slots, header, files, handle, committed>>
     BY DEF SnapStep, SnapSeq, SnapState, SnapPid, SnapBody, SnapCheck
  <1>d. generation <= generation'
     BY <1>c DEF header, IInv, TypeOK
  <1>e. seq[i] \in Nat /\ state[i] \in States /\ l.s1 \in Nat
     BY <1>0, FieldFacts DEF IInv, TypeOK
  <1>f. ASSUME NEW e \in Entries, l.op = "query", Wanted(e, l.gen), i = index[e]
        PROVE  /\ Held(e, i) /\ state[i] \in Types /\ seq[i] % 2 = 0
               /\ pc[p] = "s_check" => Fresh(l)
     BY <1>0, <1>b, <1>f, LiveSlot DEF Wanted, CoverOK
  <1>g. ASSUME NEW c \in SnapPcs \cup {"q_take", "c_vet"}, NEW r,
               pc' = [pc EXCEPT ![p] = c], loc' = [loc EXCEPT ![p] = r],
               r.op = l.op, r.ent = l.ent,
               c = "q_take" => l.op = "query", c = "c_vet" => l.op # "query",
               ReadOK(c, r), CoverOK(c, r)
        PROVE  Core'
    <2>1. CallOK(p, c, r)
       BY <1>a, <1>g, CallStays DEF SnapPcs
    <2>2. c \notin OwnPcs /\ c # "dead"
       BY <1>g, OwnPcsFacts DEF OwnPcs, WritePcs, HeldPcs, TearPcs, SnapPcs
    <2> QED BY <1>a, <1>c, <1>d, <1>g, <2>1, <2>2, PlainSafe DEF handle
  <1>1. CASE SnapSeq(p)
    <2>1. CASE seq[i] % 2 = 1
       BY <1>0, <1>1, <1>c, <1>f, <2>1, RetrySafe DEF SnapSeq
    <2>2. CASE seq[i] % 2 # 1
      <3> DEFINE r == [l EXCEPT !.s1 = seq[i]]
      <3>1. /\ r.i = i /\ r.lim = l.lim /\ r.op = l.op /\ r.ent = l.ent
            /\ r.acc = l.acc /\ r.gen = l.gen /\ r.s1 = seq[i]
         BY <1>0 DEF Locals
      <3>2. pc' = [pc EXCEPT ![p] = "s_state"] /\ loc' = [loc EXCEPT ![p] = r]
         BY <1>1, <2>2 DEF SnapSeq, Goto, Set
      <3> HIDE DEF r
      <3>3. ReadOK("s_state", r)
         BY <1>e, <2>2, <3>1 DEF ReadOK
      <3>4. CoverOK("s_state", r)
         BY <1>a, <1>b, <3>1 DEF CoverOK, Fresh
      <3> QED BY <1>g, <3>1, <3>2, <3>3, <3>4 DEF SnapPcs
    <2> QED BY <2>1, <2>2
  <1>2. CASE SnapState(p)
    <2>0. pc[p] = "s_state"
       BY <1>2 DEF SnapState
    <2>1. CASE state[i] \in {"EMPTY", "RESERVED"}
       BY <1>2, <1>a, <1>c, <1>f, <2>1, SkipSafe DEF SnapState, Types
    <2>2. CASE state[i] \notin {"EMPTY", "RESERVED"}
      <3> DEFINE r == [l EXCEPT !.st = state[i]]
      <3>1. /\ r.i = i /\ r.lim = l.lim /\ r.op = l.op /\ r.ent = l.ent
            /\ r.acc = l.acc /\ r.gen = l.gen /\ r.s1 = l.s1 /\ r.st = state[i]
         BY <1>0 DEF Locals
      <3>2. pc' = [pc EXCEPT ![p] = "s_pid"] /\ loc' = [loc EXCEPT ![p] = r]
         BY <1>2, <2>2 DEF SnapState, Goto, Set
      <3>3. state[i] \in Types
         BY <1>e, <2>2 DEF States
      <3> HIDE DEF r
      <3>4. ReadOK("s_pid", r)
         BY <1>b, <2>0, <2>2, <3>1, <3>3 DEF ReadOK, SlotOK, Seen, RingPcs
      <3>5. CoverOK("s_pid", r)
         BY <1>b, <2>0, <3>1 DEF CoverOK, Fresh
      <3> QED BY <1>g, <3>1, <3>2, <3>4, <3>5 DEF SnapPcs
    <2> QED BY <2>1, <2>2
  <1>3. CASE SnapPid(p)
    <2> DEFINE r == [l EXCEPT !.pid = pid[i]]
    <2>0. pc[p] = "s_pid"
       BY <1>3 DEF SnapPid
    <2>1. /\ r.i = i /\ r.lim = l.lim /\ r.op = l.op /\ r.ent = l.ent
          /\ r.acc = l.acc /\ r.gen = l.gen /\ r.s1 = l.s1 /\ r.st = l.st /\ r.pid = pid[i]
       BY <1>0 DEF Locals
    <2>2. pc' = [pc EXCEPT ![p] = "s_body"] /\ loc' = [loc EXCEPT ![p] = r]
       BY <1>3 DEF SnapPid, Goto, Set
    <2> HIDE DEF r
    <2>3. ReadOK("s_body", r)
       BY <1>b, <2>0, <2>1 DEF ReadOK, Seen, Fresh, RingPcs
    <2>4. CoverOK("s_body", r)
       BY <1>b, <2>0, <2>1 DEF CoverOK, Fresh
    <2> QED BY <1>g, <2>1, <2>2, <2>3, <2>4 DEF SnapPcs
  <1>4. CASE SnapBody(p)
    <2> DEFINE r == [l EXCEPT !.body = body[i]]
    <2>0. pc[p] = "s_body"
       BY <1>4 DEF SnapBody
    <2>1. /\ r.i = i /\ r.lim = l.lim /\ r.op = l.op /\ r.ent = l.ent
          /\ r.acc = l.acc /\ r.gen = l.gen /\ r.s1 = l.s1 /\ r.st = l.st
          /\ r.pid = l.pid /\ r.body = body[i]
       BY <1>0 DEF Locals
    <2>2. pc' = [pc EXCEPT ![p] = "s_check"] /\ loc' = [loc EXCEPT ![p] = r]
       BY <1>4 DEF SnapBody, Goto, Set
    <2> HIDE DEF r
    <2>3. ReadOK("s_check", r)
       BY <1>b, <2>0, <2>1 DEF ReadOK, Seen, Fresh, RingPcs
    <2>4. CoverOK("s_check", r)
       BY <1>b, <2>0, <2>1 DEF CoverOK, Fresh
    <2> QED BY <1>g, <2>1, <2>2, <2>3, <2>4 DEF SnapPcs
  <1>5. CASE SnapCheck(p)
    <2>0. pc[p] = "s_check"
       BY <1>5 DEF SnapCheck
    <2>1. CASE Fresh(l)
      <3> DEFINE c == IF l.op = "query" THEN "q_take" ELSE "c_vet"
      <3>1. pc' = [pc EXCEPT ![p] = c] /\ loc' = [loc EXCEPT ![p] = l]
         BY <1>5, <2>1 DEF SnapCheck, Goto, Fresh, IInv, TypeOK
      <3>2. c \in {"q_take", "c_vet"}
         OBVIOUS
      <3>3. ReadOK(c, l)
         BY <1>b, <2>0, <2>1, <3>2 DEF ReadOK, Seen, RingPcs, Whole
      <3>4. CoverOK(c, l)
         BY <1>b, <1>f, <2>0, <2>1 DEF CoverOK, ReadOK, Held
      <3> QED BY <1>g, <3>1, <3>3, <3>4 DEF SnapPcs
    <2>2. CASE ~Fresh(l)
       BY <1>0, <1>5, <1>c, <1>f, <2>0, <2>2, RetrySafe DEF SnapCheck, Fresh
    <2> QED BY <2>1, <2>2
  <1> QED BY <1>1, <1>2, <1>3, <1>4, <1>5 DEF SnapStep

(* A call that has no slot to itself returns.                               *)
LEMMA ReturnSafe ==
  ASSUME IInv, IInv', Core, NEW p \in Procs, Return(p), pc[p] \notin OwnPcs \cup {"dead"},
         UNCHANGED <<slots, files, stage, index, committed>>, generation <= generation'
  PROVE  Core'
  <1>1. NoLocals.op = "none"
     BY DEF NoLocals
  <1>2. CallOK(p, "idle", NoLocals) /\ ReadOK("idle", NoLocals) /\ CoverOK("idle", NoLocals)
     BY <1>1 DEF CallOK, ReadOK, CoverOK
  <1>3. pc' = [pc EXCEPT ![p] = "idle"] /\ loc' = [loc EXCEPT ![p] = NoLocals]
     BY DEF Return, Goto, Set
  <1> QED BY <1>2, <1>3, OwnPcsFacts, PlainSafe

(* A call begins, or goes on with fresh locals.                             *)
LEMMA BeginSafe ==
  ASSUME IInv, IInv', Core, NEW p \in Procs, NEW r,
         NEW c \in {"claim", "c_hw", "ring_hw", "d_close"},
         pc' = [pc EXCEPT ![p] = c], loc' = [loc EXCEPT ![p] = r],
         pc[p] \notin OwnPcs \cup {"dead"},
         r.op \in {"add", "remove", "sweep"}, c = "d_close" => r.op = "remove",
         r.op = "remove" => loc[p].op = "remove" /\ r.ent = loc[p].ent,
         r.op = "add" /\ r.ent # NoEntry => loc[p].op = "add" /\ r.ent = loc[p].ent,
         UNCHANGED <<slots, files, stage, index, committed>>, generation <= generation'
  PROVE  Core'
  <1>1. CallOK(p, c, r)
     BY DEF Core, CallInv, CallOK
  <1>2. ReadOK(c, r) /\ CoverOK(c, r)
     BY DEF ReadOK, CoverOK
  <1>3. c \notin OwnPcs /\ c # "dead"
     BY DEF OwnPcs, WritePcs, HeldPcs, TearPcs
  <1> QED BY <1>1, <1>2, <1>3, PlainSafe

(* The generation of an untouched header is not below what it was.          *)
LEMMA SameGeneration ==
  ASSUME IInv, UNCHANGED header PROVE generation <= generation'
  BY DEF header, IInv, TypeOK

(* The return of a sweep, to its caller or to try_add_once, keeps Core.     *)
LEMMA SweepReturnSafe ==
  ASSUME IInv, IInv', Core, NEW p \in Procs, SweepReturn(p), pc[p] \notin OwnPcs \cup {"dead"},
         UNCHANGED <<slots, header, files, handle, committed>>
  PROVE  Core'
  <1>0. generation <= generation'
     BY SameGeneration
  <1>1. CASE loc[p].op = "add"
    <2> DEFINE r == [NoLocals EXCEPT !.op = "add", !.ent = loc[p].ent, !.pass = 2]
    <2>1. r.op = "add" /\ r.ent = loc[p].ent
       BY DEF NoLocals
    <2>2. pc' = [pc EXCEPT ![p] = "claim"] /\ loc' = [loc EXCEPT ![p] = r]
       BY <1>1 DEF SweepReturn, Goto, Set
    <2> HIDE DEF r
    <2> QED BY <1>0, <1>1, <2>1, <2>2, BeginSafe DEF handle
  <1>2. CASE loc[p].op # "add"
     BY <1>0, <1>2, ReturnSafe DEF SweepReturn, handle
  <1> QED BY <1>1, <1>2

(* ring_doorbells passes over one slot.                                     *)
LEMMA RingSkipSafe ==
  ASSUME IInv, IInv', Core, NEW p \in Procs, RingSkip(p), pc[p] \in RingPcs,
         UNCHANGED <<slots, header, files, handle, committed>>
  PROVE  Core'
  <1> DEFINE r == NextSlot(loc[p])
  <1>1. r.op = loc[p].op /\ r.ent = loc[p].ent
     BY LocalFacts, NextSlotType
  <1>2. pc' = [pc EXCEPT ![p] = "ring"] /\ loc' = [loc EXCEPT ![p] = r]
     BY DEF RingSkip, Goto, Set
  <1>3. pc[p] \notin OwnPcs \cup {"idle", "dead"} /\ loc[p].op # "query"
     BY OwnPcsFacts DEF RingPcs, SnapPcs, Core, CallInv, CallOK
  <1> HIDE DEF r
  <1>4. CallOK(p, "ring", r)
     BY <1>1, <1>3, CallStays
  <1>5. ReadOK("ring", r) /\ CoverOK("ring", r)
     BY <1>1, <1>3 DEF ReadOK, CoverOK
  <1>6. "ring" \notin OwnPcs
     BY OwnPcsFacts DEF RingPcs
  <1> QED BY <1>2, <1>3, <1>4, <1>5, <1>6, PlainSafe, SameGeneration DEF handle

(* ring_doorbells: the copy is the path of a doorbell while seq stands.     *)
LEMMA RingSafe ==
  ASSUME IInv, IInv', Core, NEW p \in Procs, RingStep(p)
  PROVE  Core'
  <1> DEFINE l == loc[p]
             i == loc[p].i
  <1>a. pc[p] \in RingPcs
     BY DEF RingStep, RingLimit, RingSlot, RingSeq, RingState, RingCopy, RingSend, RingEnd, RingPcs
  <1>b. pc[p] \notin OwnPcs \cup {"idle", "dead"} /\ l.op # "query"
     BY <1>a, OwnPcsFacts DEF RingPcs, SnapPcs, Core, CallInv, CallOK
  <1>c. UNCHANGED <<slots, header, files, handle, committed>>
     BY DEF RingStep, RingLimit, RingSlot, RingSeq, RingState, RingCopy, RingSend, RingEnd
  <1>d. l \in Locals /\ ReadOK(pc[p], l)
     BY LocalFacts DEF Core, ReadInv
  <1>e. pc[p] \in {"r_seq", "r_state", "r_copy", "r_send"} => i \in SlotIds
     BY FieldFacts DEF SlotPcs
  <1>f. loc = [loc EXCEPT ![p] = l]
     BY DEF IInv, TypeOK
  <1>g. ASSUME NEW c \in RingPcs, NEW r, r.op = l.op, r.ent = l.ent, ReadOK(c, r),
               pc' = [pc EXCEPT ![p] = c], loc' = [loc EXCEPT ![p] = r]
        PROVE  Core'
    <2>1. CallOK(p, c, r)
       BY <1>b, <1>g, CallStays DEF RingPcs
    <2>2. CoverOK(c, r) /\ c \notin OwnPcs /\ c # "dead"
       BY <1>b, <1>g, OwnPcsFacts DEF CoverOK, RingPcs
    <2> QED BY <1>b, <1>c, <1>g, <2>1, <2>2, PlainSafe, SameGeneration DEF handle
  <1>1. CASE RingLimit(p)
    <2> DEFINE r == [l EXCEPT !.lim = high_water]
    <2>1. r.op = l.op /\ r.ent = l.ent
       BY <1>d DEF Locals
    <2>2. pc' = [pc EXCEPT ![p] = "ring"] /\ loc' = [loc EXCEPT ![p] = r]
       BY <1>1 DEF RingLimit, Goto, Set
    <2> HIDE DEF r
    <2> QED BY <1>g, <2>1, <2>2 DEF RingPcs, ReadOK
  <1>2. CASE RingSlot(p)
    <2>1. CASE state[i] # "DOORBELL"
       BY <1>2, <1>a, <1>c, <2>1, RingSkipSafe DEF RingSlot
    <2>2. CASE state[i] = "DOORBELL"
      <3>1. pc' = [pc EXCEPT ![p] = "r_seq"] /\ loc' = [loc EXCEPT ![p] = l]
         BY <1>2, <1>f, <2>2 DEF RingSlot, Goto
      <3> QED BY <1>g, <3>1 DEF RingPcs, ReadOK
    <2> QED BY <2>1, <2>2
  <1>3. CASE RingSeq(p)
    <2>0. i \in SlotIds /\ seq[i] \in Nat
       BY <1>3, <1>e DEF RingSeq, IInv, TypeOK
    <2>1. CASE seq[i] % 2 = 1
       BY <1>3, <1>a, <1>c, <2>1, RingSkipSafe DEF RingSeq
    <2>2. CASE seq[i] % 2 # 1
      <3> DEFINE r == [l EXCEPT !.s1 = seq[i]]
      <3>1. r.op = l.op /\ r.ent = l.ent /\ r.s1 = seq[i] /\ r.i = i
         BY <1>d DEF Locals
      <3>2. pc' = [pc EXCEPT ![p] = "r_state"] /\ loc' = [loc EXCEPT ![p] = r]
         BY <1>3, <2>2 DEF RingSeq, Goto, Set
      <3> HIDE DEF r
      <3>3. ReadOK("r_state", r)
         BY <2>0, <2>2, <3>1 DEF ReadOK
      <3> QED BY <1>g, <3>1, <3>2, <3>3 DEF RingPcs
    <2> QED BY <2>1, <2>2
  <1>4. CASE RingState(p)
    <2>0. i \in SlotIds /\ pc[p] = "r_state"
       BY <1>4, <1>e DEF RingState
    <2>1. CASE state[i] # "DOORBELL"
       BY <1>4, <1>a, <1>c, <2>1, RingSkipSafe DEF RingState
    <2>2. CASE state[i] = "DOORBELL"
      <3>1. pc' = [pc EXCEPT ![p] = "r_copy"] /\ loc' = [loc EXCEPT ![p] = l]
         BY <1>4, <1>f, <2>2 DEF RingState, Goto
      <3>2. SlotOK(i)
         BY <2>0 DEF Core, SlotInv
      <3>3. ReadOK("r_copy", l)
         BY <1>d, <2>0, <2>2, <3>2 DEF ReadOK, SlotOK, Types, Seen, RingPcs
      <3> QED BY <1>g, <3>1, <3>3 DEF RingPcs
    <2> QED BY <2>1, <2>2
  <1>5. CASE RingCopy(p)
    <2> DEFINE r == [l EXCEPT !.body = body[i]]
    <2>0. pc[p] = "r_copy"
       BY <1>5 DEF RingCopy
    <2>1. r.op = l.op /\ r.ent = l.ent /\ r.s1 = l.s1 /\ r.i = i /\ r.body = body[i]
       BY <1>d DEF Locals
    <2>2. pc' = [pc EXCEPT ![p] = "r_send"] /\ loc' = [loc EXCEPT ![p] = r]
       BY <1>5 DEF RingCopy, Goto, Set
    <2> HIDE DEF r
    <2>3. ReadOK("r_send", r)
       BY <1>d, <2>0, <2>1 DEF ReadOK, Seen, RingPcs, Fresh
    <2> QED BY <1>g, <2>1, <2>2, <2>3 DEF RingPcs
  <1>6. CASE RingSend(p)
     BY <1>6, <1>a, <1>c, RingSkipSafe DEF RingSend
  <1>7. CASE RingEnd(p)
    <2>1. CASE l.op = "remove"
      <3>1. pc' = [pc EXCEPT ![p] = "d_close"] /\ loc' = [loc EXCEPT ![p] = l]
         BY <1>7, <1>f, <2>1 DEF RingEnd, Goto
      <3> QED BY <1>b, <1>c, <2>1, <3>1, BeginSafe, SameGeneration DEF handle
    <2>2. CASE l.op # "remove"
      <3>1. Return(p) \/ SweepReturn(p)
         BY <1>7, <2>2 DEF RingEnd
      <3> QED BY <1>b, <1>c, <3>1, ReturnSafe, SweepReturnSafe, SameGeneration DEF handle
    <2> QED BY <2>1, <2>2
  <1> QED BY <1>1, <1>2, <1>3, <1>4, <1>5, <1>6, <1>7 DEF RingStep

(* Octets go to doorbells only.                                             *)
LEMMA RingHits ==
  ASSUME IInv, Core, BellsOnly, NEW p \in Procs, RingSend(p)
  PROVE  BellsOnly'
  <1>1. ReadOK("r_send", loc[p])
     BY DEF RingSend, Core, ReadInv
  <1>2. Fresh(loc[p]) => TypeOf[loc[p].body] = "DOORBELL"
     BY <1>1 DEF ReadOK, Seen, RingPcs
  <1> QED BY <1>2 DEF RingSend, BellsOnly, Fresh

(* registry_query: what lies behind the scan has been taken.                *)
LEMMA QuerySafe ==
  ASSUME IInv, IInv', Core, NEW p \in Procs, QueryStep(p)
  PROVE  Core'
  <1> DEFINE l == loc[p]
             i == loc[p].i
  <1>a. pc[p] \in {"q_hw", "q_scan", "q_take"}
     BY DEF QueryStep, QueryLimit, QuerySlot, QueryTake, QueryEnd
  <1>b. pc[p] \notin OwnPcs \cup {"idle", "dead"}
     BY <1>a DEF OwnPcs, WritePcs, HeldPcs, TearPcs
  <1>c. UNCHANGED <<slots, header, files, handle, committed>> /\ generation <= generation'
     BY SameGeneration DEF QueryStep, QueryLimit, QuerySlot, QueryTake, QueryEnd
  <1>d. l \in Locals /\ l.op = "query" /\ CoverOK(pc[p], l) /\ ReadOK(pc[p], l)
     BY <1>a, LocalFacts DEF Core, CallInv, CallOK, CoverInv, ReadInv
  <1>e. ASSUME NEW c \in {"q_scan", "s_seq"}, NEW r, r.op = l.op, r.ent = l.ent, CoverOK(c, r),
               pc' = [pc EXCEPT ![p] = c], loc' = [loc EXCEPT ![p] = r]
        PROVE  Core'
    <2>1. CallOK(p, c, r)
       BY <1>b, <1>d, <1>e, CallStays DEF SnapPcs
    <2>2. ReadOK(c, r) /\ c \notin OwnPcs /\ c # "dead"
       BY <1>e DEF ReadOK, OwnPcs, WritePcs, HeldPcs, TearPcs
    <2> QED BY <1>b, <1>c, <1>e, <2>1, <2>2, PlainSafe DEF handle
  <1>f. ASSUME NEW e \in Entries, Wanted(e, l.gen)
        PROVE  index[e] \in SlotIds /\ Held(e, index[e]) /\ TypeOf[e] = "DATA"
               /\ committed[e] # Uncommitted
     BY <1>f, LiveSlot DEF Wanted, Core, LiveInv, LiveOK
  <1>g. \A j \in SlotIds : j \in Int /\ 0 <= j
     BY DEF SlotIds
  <1>1. CASE QueryLimit(p)
    <2> DEFINE r == [l EXCEPT !.lim = high_water]
    <2>1. /\ r.op = l.op /\ r.ent = l.ent /\ r.i = i /\ r.gen = l.gen /\ r.acc = l.acc
          /\ r.lim = high_water
       BY <1>d DEF Locals
    <2>2. pc' = [pc EXCEPT ![p] = "q_scan"] /\ loc' = [loc EXCEPT ![p] = r]
       BY <1>1 DEF QueryLimit, Goto, Set
    <2>3. i = 0 /\ l.gen <= generation
       BY <1>1, <1>d DEF CoverOK, QueryLimit
    <2>4. \A e \in Entries : Wanted(e, l.gen) => index[e] < high_water /\ 0 <= index[e]
       BY <1>f, <1>g DEF IInv, HighWaterCovers
    <2> HIDE DEF r
    <2>5. CoverOK("q_scan", r)
       BY <1>d, <2>1, <2>3, <2>4 DEF CoverOK
    <2> QED BY <1>e, <2>1, <2>2, <2>5
  <1>2. CASE QuerySlot(p)
    <2>0. pc[p] = "q_scan"
       BY <1>2 DEF QuerySlot
    <2>1. CASE state[i] # "DATA"
      <3>1. \A e \in Entries : Wanted(e, l.gen) => i # index[e]
         BY <1>f, <2>1 DEF Held
      <3> QED BY <1>2, <1>b, <1>c, <2>0, <2>1, <3>1, SkipSafe DEF QuerySlot
    <2>2. CASE state[i] = "DATA"
      <3>1. pc' = [pc EXCEPT ![p] = "s_seq"] /\ loc' = [loc EXCEPT ![p] = l]
         BY <1>2, <2>2 DEF QuerySlot, Goto, IInv, TypeOK
      <3>2. CoverOK("s_seq", l)
         BY <1>d, <2>0 DEF CoverOK
      <3> QED BY <1>e, <3>1, <3>2
    <2> QED BY <2>1, <2>2
  <1>3. CASE QueryTake(p)
    <2> DEFINE n == NextSlot(l)
               a == IF l.st = "DATA" /\ l.body # NoEntry THEN n.acc \cup {l.body} ELSE n.acc
               r == [n EXCEPT !.acc = a]
    <2>0. pc[p] = "q_take"
       BY <1>3 DEF QueryTake
    <2>1. /\ n \in Locals /\ n.i = i + 1 /\ n.lim = l.lim /\ n.op = l.op /\ n.ent = l.ent
          /\ n.acc = l.acc /\ n.gen = l.gen
       BY <1>d, NextSlotType
    <2>2. pc' = [pc EXCEPT ![p] = "q_scan"] /\ loc' = [loc EXCEPT ![p] = r]
       BY <1>3 DEF QueryTake, Goto, Set
    <2> HIDE DEF n
    <2>3. l.acc \subseteq a /\ (l.st = "DATA" /\ l.body # NoEntry => l.body \in a)
       BY <2>1
    <2> HIDE DEF a
    <2>4. /\ r.i = i + 1 /\ r.lim = l.lim /\ r.op = l.op /\ r.ent = l.ent /\ r.acc = a
          /\ r.gen = l.gen
       BY <2>1 DEF Locals
    <2> HIDE DEF r
    <2>5. ASSUME NEW e \in Entries, Wanted(e, l.gen) PROVE e \in a \/ i + 1 <= index[e]
      <3>1. e \in l.acc \/ i <= index[e]
         BY <1>d, <2>0, <2>5 DEF CoverOK
      <3>2. i = index[e] => l.body = e /\ l.st = "DATA" /\ e # NoEntry
         BY <1>d, <1>f, <2>0, <2>5, RegistryAssumption DEF CoverOK, ReadOK
      <3>3. i \in Nat /\ index[e] \in Int
         BY <1>f, <1>g, <2>5, FieldFacts
      <3> QED BY <2>3, <3>1, <3>2, <3>3
    <2>6. CoverOK("q_scan", r)
       BY <1>d, <2>0, <2>4, <2>5 DEF CoverOK
    <2> QED BY <1>e, <2>2, <2>4, <2>6
  <1>4. CASE QueryEnd(p)
     BY <1>4, <1>b, <1>c, ReturnSafe DEF QueryEnd, handle
  <1> QED BY <1>1, <1>2, <1>3, <1>4 DEF QueryStep

(* A slot that holds an entry nobody counts on is emptied: the CAS of a     *)
(* removal or of a sweep.                                                   *)
LEMMA EmptySafe ==
  ASSUME IInv, IInv', Core, NEW p \in Procs, pc[p] \in {"d_cas", "c_cas"},
         state[loc[p].i] \in Types, Doomed(body[loc[p].i]),
         \A q \in Procs : q # p /\ pc[q] \in {"d_load", "d_cas"} => body[loc[p].i] # loc[q].ent,
         state' = [state EXCEPT ![loc[p].i] = "EMPTY"],
         pc' = [pc EXCEPT ![p] = "t_begin"], loc' = loc,
         UNCHANGED <<seq, pid, body, header, files, handle, committed>>
  PROVE  Core'
  <1> DEFINE i == loc[p].i
  <1>1. /\ pc'[p] = "t_begin" /\ \A q \in Procs : q # p => pc'[q] = pc[q]
        /\ i \in SlotIds /\ state'[i] = "EMPTY" /\ \A j \in SlotIds : j # i => state'[j] = state[j]
     BY FieldFacts DEF SlotPcs, IInv, TypeOK
  <1>2. Alive' = Alive
     BY <1>1 DEF Alive
  <1>3. UNCHANGED <<seq, pid, body, files, stage, index, committed, generation>>
     BY DEF header, handle
  <1>4. \A q \in Procs : pc[q] \in SlotPcs => loc[q].i \in SlotIds
     BY FieldFacts
  <1>5. ASSUME NEW q \in Procs, q # p, pc[q] \in OwnPcs PROVE loc[q].i # i
    <2>1. OwnOK(q, pc[q], loc[q]) /\ CallOK(q, pc[q], loc[q]) /\ LocalOK(pc[q], loc[q])
       BY LocalFacts DEF Core, OwnInv, CallInv
    <2>2. CASE pc[q] \in WritePcs \cup TearPcs
       BY <2>1, <2>2 DEF OwnOK, Types
    <2>3. CASE pc[q] \in HeldPcs
      <3>1. loc[q].op = "add" /\ loc[q].ent \in Entries /\ q \in Alive
         BY <2>1, <2>3 DEF LocalOK, HeldPcs, AddPcs, RingPcs, Alive
      <3>2. OwnerOf[loc[q].ent] = q /\ stage[loc[q].ent] = "adding"
         BY <2>1, <3>1, RegistryAssumption DEF CallOK
      <3> QED BY <2>1, <2>3, <3>1, <3>2 DEF OwnOK, Held, Doomed
    <2> QED BY <1>5, <2>2, <2>3 DEF OwnPcs
  <1>6. pc[p] \notin OwnPcs /\ "t_begin" \in TearPcs /\ "t_begin" \notin OddPcs
     BY DEF OwnPcs, WritePcs, HeldPcs, TearPcs, OddPcs
  <1>7. ExclInv'
     BY <1>1, <1>5 DEF Core, ExclInv
  <1>8. OwnInv'
    <2> SUFFICES ASSUME NEW q \in Procs PROVE OwnOK(q, pc[q], loc[q])'
       BY DEF OwnInv
    <2>1. CASE q = p
       BY <1>1, <1>2, <1>3, <1>6, <2>1 DEF OwnOK, Doomed, WritePcs, HeldPcs, TearPcs
    <2>2. CASE q # p
      <3>1. OwnOK(q, pc[q], loc[q]) /\ (pc[q] \in OwnPcs => loc[q].i \in SlotIds /\ loc[q].i # i)
         BY <1>4, <1>5, <2>2, OwnPcsFacts DEF Core, OwnInv
      <3> QED BY <1>1, <1>2, <1>3, <2>2, <3>1, OwnPcsFacts
              DEF OwnOK, Held, Doomed, OwnPcs, WritePcs, TearPcs
    <2> QED BY <2>1, <2>2
  <1>9. CallInv'
    <2> SUFFICES ASSUME NEW q \in Procs PROVE CallOK(q, pc[q], loc[q])'
       BY DEF CallInv
    <2>1. CallOK(q, pc[q], loc[q])
       BY DEF Core, CallInv
    <2>2. CASE q = p
       BY <1>1, <1>3, <2>1, <2>2 DEF CallOK, SnapPcs
    <2>3. CASE q # p
      <3>1. pc[q] \in {"d_load", "d_cas"} => loc[q].i \in SlotIds /\ loc[q].i # i
         BY <1>4, <2>1, <2>3 DEF SlotPcs, CallOK, Held
      <3> QED BY <1>1, <1>3, <2>1, <2>3, <3>1 DEF CallOK, Held
    <2> QED BY <2>2, <2>3
  <1>10. SlotInv'
    <2> SUFFICES ASSUME NEW j \in SlotIds PROVE SlotOK(j)'
       BY DEF SlotInv
    <2>1. SlotOK(j)
       BY DEF Core, SlotInv
    <2>2. OddAt(j)' <=> OddAt(j)
       BY <1>1, <1>6, OwnPcsFacts DEF OddAt
    <2>3. CASE j = i
      <3>1. TearAt(j)'
         BY <1>1, <1>6, <2>3 DEF TearAt
      <3> QED BY <1>1, <1>3, <2>1, <2>2, <2>3, <3>1 DEF SlotOK, Types
    <2>4. CASE j # i
      <3>1. TearAt(j)' <=> TearAt(j)
         BY <1>1, <1>6, <2>4, OwnPcsFacts DEF TearAt
      <3> QED BY <1>1, <1>3, <2>1, <2>2, <2>4, <3>1 DEF SlotOK, Whole
    <2> QED BY <2>3, <2>4
  <1>11. ReadInv'
    <2> SUFFICES ASSUME NEW q \in Procs PROVE ReadOK(pc[q], loc[q])'
       BY DEF ReadInv
    <2>1. ReadOK(pc[q], loc[q])
       BY DEF Core, ReadInv
    <2>2. CASE q = p
       BY <1>1, <2>2 DEF ReadOK
    <2>3. CASE q # p
      <3>1. loc[q].i \in SlotIds \/ pc[q] \notin SlotPcs
         BY <1>4
      <3> QED BY <1>1, <1>2, <1>3, <2>1, <2>3, <3>1
              DEF ReadOK, Fresh, Whole, Seen, SlotPcs, SnapPcs
    <2> QED BY <2>2, <2>3
  <1>12. LiveInv'
    <2> SUFFICES ASSUME NEW e \in Entries PROVE LiveOK(e)'
       BY DEF LiveInv
    <2>1. LiveOK(e)
       BY DEF Core, LiveInv
    <2>2. stage[e] = "live" => index[e] \in SlotIds
       BY DEF IInv, HandleInv
    <2> QED BY <1>1, <1>2, <1>3, <2>1, <2>2 DEF LiveOK, Held, Doomed
  <1>13. CoverInv'
    <2> SUFFICES ASSUME NEW q \in Procs PROVE CoverOK(pc[q], loc[q])'
       BY DEF CoverInv
    <2>1. CoverOK(pc[q], loc[q]) /\ CallOK(q, pc[q], loc[q])
       BY DEF Core, CoverInv, CallInv
    <2>2. q = p => loc[q].op # "query"
       BY <2>1 DEF CallOK, SnapPcs
    <2> QED BY <1>1, <1>2, <1>3, <2>1, <2>2 DEF CoverOK, Wanted, Fresh
  <1> QED BY <1>7, <1>8, <1>9, <1>10, <1>11, <1>12, <1>13 DEF Core

(* registry_cleanup_stale takes slots of the dead only, if seq has not      *)
(* moved since its guard.                                                   *)
LEMMA SweepTakes ==
  ASSUME IInv, Core, NEW p \in Procs, pc[p] = "c_cas", state[loc[p].i] = loc[p].st, Fresh(loc[p])
  PROVE  /\ state[loc[p].i] \in Types /\ body[loc[p].i] \in Entries
         /\ OwnerOf[body[loc[p].i]] \notin Alive
  <1>1. ReadOK("c_cas", loc[p])
     BY DEF Core, ReadInv
  <1>2. loc[p].st \in Types
     BY <1>1, RegistryAssumption DEF ReadOK
  <1> QED BY <1>1, <1>2 DEF ReadOK, Whole

(* A step of registry_cleanup_stale keeps Core: what it takes is doomed, and *)
(* nobody else removes it.                                                  *)
LEMMA SweepSafe ==
  ASSUME IInv, IInv', Core, NEW p \in Procs, SweepStep(p), ~overtaken'
  PROVE  Core'
  <1> DEFINE l == loc[p]
             i == loc[p].i
  <1>a. pc[p] \in {"c_hw", "c_scan", "c_vet", "c_seq", "c_cas", "c_bump"}
     BY DEF SweepStep, SweepLimit, SweepSlot, SweepVet, SweepSeq, SweepCas, SweepBump, SweepEnd
  <1>b. pc[p] \notin OwnPcs \cup {"idle", "dead", "q_hw"}
     BY <1>a DEF OwnPcs, WritePcs, HeldPcs, TearPcs
  <1>c. l \in Locals /\ l.op # "query" /\ ReadOK(pc[p], l) /\ CallOK(p, pc[p], l)
     BY <1>a, LocalFacts DEF Core, CallInv, CallOK, ReadInv, SnapPcs
  <1>d. UNCHANGED <<files, handle, committed>>
     BY DEF SweepStep, SweepLimit, SweepSlot, SweepVet, SweepSeq, SweepCas, SweepBump, SweepEnd
  <1>e. ASSUME NEW c \in {"c_scan", "s_seq", "c_seq", "c_cas"}, NEW r, r.op = l.op, r.ent = l.ent,
               ReadOK(c, r), pc' = [pc EXCEPT ![p] = c], loc' = [loc EXCEPT ![p] = r],
               UNCHANGED slots, generation <= generation'
        PROVE  Core'
    <2>1. CallOK(p, c, r)
       BY <1>b, <1>c, <1>e, CallStays
    <2>2. CoverOK(c, r) /\ c \notin OwnPcs /\ c # "dead"
       BY <1>c, <1>e DEF CoverOK, OwnPcs, WritePcs, HeldPcs, TearPcs
    <2> QED BY <1>b, <1>d, <1>e, <2>1, <2>2, PlainSafe DEF handle
  <1>f. loc = [loc EXCEPT ![p] = l]
     BY DEF IInv, TypeOK
  <1>g. UNCHANGED header => generation <= generation'
     BY SameGeneration
  <1>1. CASE SweepLimit(p)
    <2> DEFINE r == [l EXCEPT !.lim = high_water]
    <2>1. r.op = l.op /\ r.ent = l.ent
       BY <1>c DEF Locals
    <2>2. pc' = [pc EXCEPT ![p] = "c_scan"] /\ loc' = [loc EXCEPT ![p] = r]
          /\ UNCHANGED <<slots, header>>
       BY <1>1 DEF SweepLimit, Goto, Set
    <2> HIDE DEF r
    <2> QED BY <1>e, <1>g, <2>1, <2>2 DEF ReadOK
  <1>2. CASE SweepSlot(p)
    <2>1. CASE state[i] = "EMPTY"
       BY <1>2, <1>b, <1>c, <2>1, SkipSafe DEF SweepSlot
    <2>2. CASE state[i] # "EMPTY"
      <3>1. pc' = [pc EXCEPT ![p] = "s_seq"] /\ loc' = [loc EXCEPT ![p] = l]
            /\ UNCHANGED <<slots, header>>
         BY <1>2, <1>f, <2>2 DEF SweepSlot, Goto
      <3> QED BY <1>e, <1>g, <3>1 DEF ReadOK
    <2> QED BY <2>1, <2>2
  <1>3. CASE SweepVet(p)
    <2>0. pc[p] = "c_vet"
       BY <1>3 DEF SweepVet
    <2>1. CASE l.pid = NoPid \/ l.pid \in Alive
       BY <1>3, <1>b, <1>c, <2>1, SkipSafe DEF SweepVet
    <2>2. CASE ~(l.pid = NoPid \/ l.pid \in Alive)
      <3>1. pc' = [pc EXCEPT ![p] = "c_seq"] /\ loc' = [loc EXCEPT ![p] = l]
            /\ UNCHANGED <<slots, header>>
         BY <1>3, <1>f, <2>2 DEF SweepVet, Goto
      <3>2. ReadOK("c_seq", l)
         BY <1>c, <2>0, <2>2 DEF ReadOK, Seen, RingPcs
      <3> QED BY <1>e, <1>g, <3>1, <3>2
    <2> QED BY <2>1, <2>2
  <1>4. CASE SweepSeq(p)
    <2>0. pc[p] = "c_seq"
       BY <1>4 DEF SweepSeq
    <2>1. CASE seq[i] # l.s1
       BY <1>4, <1>b, <1>c, <2>1, SkipSafe DEF SweepSeq
    <2>2. CASE seq[i] = l.s1
      <3>1. pc' = [pc EXCEPT ![p] = "c_cas"] /\ loc' = [loc EXCEPT ![p] = l]
            /\ UNCHANGED <<slots, header>>
         BY <1>4, <1>f, <2>2 DEF SweepSeq, Goto
      <3>2. ReadOK("c_cas", l)
         BY <1>c, <2>0, <2>2 DEF ReadOK, Seen, RingPcs, Fresh
      <3> QED BY <1>e, <1>g, <3>1, <3>2
    <2> QED BY <2>1, <2>2
  <1>5. CASE SweepCas(p)
    <2>0. pc[p] = "c_cas" /\ UNCHANGED <<seq, pid, body, header, files, handle, committed>>
       BY <1>5 DEF SweepCas
    <2>1. CASE /\ state[i] = l.st /\ state' = [state EXCEPT ![i] = "EMPTY"]
               /\ Goto(p, "t_begin") /\ UNCHANGED loc
               /\ overtaken' = (overtaken \/ seq[i] # l.s1)
      <3>0. Fresh(l)
         BY <2>1 DEF Fresh
      <3>1. state[i] \in Types /\ Doomed(body[i]) /\ OwnerOf[body[i]] \notin Alive
         BY <2>0, <2>1, <3>0, SweepTakes DEF Doomed
      <3>2. ASSUME NEW q \in Procs, pc[q] \in {"d_load", "d_cas"} PROVE body[i] # loc[q].ent
        <4>1. q \in Alive /\ OwnerOf[loc[q].ent] = q
           BY <3>2 DEF Alive, Core, CallInv, CallOK
        <4> QED BY <3>1, <4>1
      <3> QED BY <2>0, <2>1, <3>1, <3>2, EmptySafe DEF Goto
    <2>2. CASE SkipSlot(p) /\ UNCHANGED state
      <3>1. UNCHANGED slots
         BY <2>0, <2>2 DEF slots
      <3> QED BY <1>b, <1>c, <2>0, <2>2, <3>1, SkipSafe
    <2> QED BY <1>5, <2>1, <2>2 DEF SweepCas
  <1>6. CASE SweepBump(p)
    <2> DEFINE n == NextSlot(l)
               b == n.reclaimed \/ l.st # "DOORBELL"
               r == [n EXCEPT !.reclaimed = b]
    <2>1. n \in Locals /\ n.op = l.op /\ n.ent = l.ent
       BY <1>c, NextSlotType
    <2>2. pc' = [pc EXCEPT ![p] = "c_scan"] /\ loc' = [loc EXCEPT ![p] = r] /\ UNCHANGED slots
       BY <1>6 DEF SweepBump, Goto, Set
    <2> HIDE DEF n, b
    <2>3. r.op = l.op /\ r.ent = l.ent
       BY <2>1 DEF Locals
    <2>4. generation <= generation'
       BY <1>6 DEF SweepBump, IInv, TypeOK
    <2> HIDE DEF r
    <2> QED BY <1>e, <2>2, <2>3, <2>4 DEF ReadOK
  <1>7. CASE SweepEnd(p)
    <2>0. UNCHANGED <<slots, header, files, handle, committed>>
       BY <1>7 DEF SweepEnd
    <2>1. CASE l.reclaimed
      <3> DEFINE r == [NoLocals EXCEPT !.op = l.op, !.ent = l.ent]
      <3>1. r.op = l.op /\ r.ent = l.ent
         BY DEF NoLocals
      <3>2. pc' = [pc EXCEPT ![p] = "ring_hw"] /\ loc' = [loc EXCEPT ![p] = r]
         BY <1>7, <2>1 DEF SweepEnd, Goto, Set
      <3> HIDE DEF r
      <3>3. r.op \in {"add", "remove", "sweep"}
         BY <1>b, <1>c, <3>1, FieldFacts DEF CallOK
      <3> QED BY <1>b, <1>g, <2>0, <3>1, <3>2, <3>3, BeginSafe DEF handle
    <2>2. CASE ~l.reclaimed
       BY <1>7, <1>b, <2>0, <2>2, SweepReturnSafe DEF SweepEnd
    <2> QED BY <2>1, <2>2
  <1> QED BY <1>1, <1>2, <1>3, <1>4, <1>5, <1>6, <1>7 DEF SweepStep

(* The owner of a slot in the middle of a write or of a teardown makes seq  *)
(* odd or even: nobody's snapshot of the slot is fresh any more.            *)
LEMMA SeqSafe ==
  ASSUME IInv, IInv', Core, NEW p \in Procs, NEW c,
         pc[p] \in WritePcs \cup TearPcs,
         c \in WritePcs <=> pc[p] \in WritePcs, c \in TearPcs <=> pc[p] \in TearPcs,
         c \in OddPcs <=> pc[p] \notin OddPcs,
         seq' = [seq EXCEPT ![loc[p].i] = @ + 1], pc' = [pc EXCEPT ![p] = c], loc' = loc,
         OwnOK(p, pc[p], loc[p])',
         UNCHANGED <<state, pid, body, header, files, handle, committed>>
  PROVE  Core'
  <1> DEFINE i == loc[p].i
  <1>0. /\ pc[p] \in OwnPcs /\ c \in OwnPcs /\ pc[p] \notin RingPcs \cup SnapPcs \cup {"idle", "dead"}
        /\ c \notin RingPcs \cup SnapPcs \cup {"idle", "dead"}
        /\ c \notin {"c_vet", "c_seq", "c_cas", "q_take", "q_hw", "q_scan",
                     "d_load", "d_cas", "d_bump", "d_close"}
     BY DEF OwnPcs, WritePcs, HeldPcs, TearPcs, RingPcs, SnapPcs
  <1>1. /\ pc'[p] = c /\ \A q \in Procs : q # p => pc'[q] = pc[q]
        /\ i \in SlotIds /\ seq[i] \in Nat /\ seq'[i] = seq[i] + 1
        /\ \A j \in SlotIds : j # i => seq'[j] = seq[j]
     BY <1>0, FieldFacts, OwnPcsFacts DEF IInv, TypeOK
  <1>2. Alive' = Alive
     BY <1>0, <1>1 DEF Alive
  <1>3. UNCHANGED <<state, pid, body, files, stage, index, committed, generation>>
     BY DEF header, handle
  <1>4. \A q \in Procs : pc[q] \in SlotPcs => loc[q].i \in SlotIds
     BY FieldFacts
  <1>5. \A q \in Procs : q # p /\ pc[q] \in OwnPcs => loc[q].i # i
     BY <1>0 DEF Core, ExclInv
  <1>6. state[i] \in {"RESERVED", "EMPTY"} /\ state[i] \notin Types
     BY DEF Core, OwnInv, OwnOK, Types
  <1>7. ExclInv'
     BY <1>0, <1>1 DEF Core, ExclInv
  <1>8. OwnInv'
    <2> SUFFICES ASSUME NEW q \in Procs PROVE OwnOK(q, pc[q], loc[q])'
       BY DEF OwnInv
    <2>2. CASE q # p
      <3>1. OwnOK(q, pc[q], loc[q]) /\ (pc[q] \in OddPcs => loc[q].i \in SlotIds /\ loc[q].i # i)
         BY <1>4, <1>5, <2>2, OwnPcsFacts DEF Core, OwnInv
      <3> QED BY <1>1, <1>2, <1>3, <2>2, <3>1 DEF OwnOK, Held, Doomed
    <2> QED BY <2>2
  <1>9. CallInv'
    <2> SUFFICES ASSUME NEW q \in Procs PROVE CallOK(q, pc[q], loc[q])'
       BY DEF CallInv
    <2>1. CallOK(q, pc[q], loc[q])
       BY DEF Core, CallInv
    <2>2. CASE q = p
       BY <1>0, <1>1, <1>3, <2>1, <2>2, OwnPcsFacts DEF CallOK, OwnPcs, WritePcs, HeldPcs, TearPcs
    <2>3. CASE q # p
       BY <1>1, <1>3, <2>1, <2>3 DEF CallOK, Held
    <2> QED BY <2>2, <2>3
  <1>10. SlotInv'
    <2> SUFFICES ASSUME NEW j \in SlotIds PROVE SlotOK(j)'
       BY DEF SlotInv
    <2>1. SlotOK(j)
       BY DEF Core, SlotInv
    <2>2. TearAt(j)' <=> TearAt(j)
       BY <1>1 DEF TearAt
    <2>3. CASE j = i
      <3>1. ~OddAt(j)' => seq'[j] % 2 = 0
        <4> SUFFICES ASSUME ~OddAt(j)' PROVE seq'[j] % 2 = 0
           OBVIOUS
        <4>1. pc[p] \in OddPcs
           BY <1>1, <2>3 DEF OddAt
        <4>2. seq[i] % 2 = 1
           BY <4>1 DEF Core, OwnInv, OwnOK
        <4> QED BY <1>1, <2>3, <4>2
      <3> QED BY <1>3, <1>6, <2>1, <2>2, <2>3, <3>1 DEF SlotOK
    <2>4. CASE j # i
      <3>1. OddAt(j)' <=> OddAt(j)
         BY <1>1, <2>4 DEF OddAt
      <3> QED BY <1>1, <1>3, <2>1, <2>2, <2>4, <3>1 DEF SlotOK, Whole
    <2> QED BY <2>3, <2>4
  <1>11. ReadInv'
    <2> SUFFICES ASSUME NEW q \in Procs PROVE ReadOK(pc[q], loc[q])'
       BY DEF ReadInv
    <2>1. ReadOK(pc[q], loc[q])
       BY DEF Core, ReadInv
    <2>2. CASE q = p
       BY <1>0, <1>1, <2>2 DEF ReadOK, SnapPcs, RingPcs
    <2>3. CASE q # p /\ loc[q].i = i
      <3>1. loc[q].s1 \in Nat
         BY FieldFacts
      <3> QED BY <1>1, <1>2, <1>3, <2>1, <2>3, <3>1 DEF ReadOK, Fresh
    <2>4. CASE q # p /\ loc[q].i # i
      <3>1. loc[q].i \in SlotIds \/ pc[q] \notin SlotPcs
         BY <1>4
      <3> QED BY <1>1, <1>2, <1>3, <2>1, <2>4, <3>1
              DEF ReadOK, Fresh, Whole, Seen, SlotPcs, SnapPcs
    <2> QED BY <2>2, <2>3, <2>4
  <1>12. LiveInv'
     BY <1>2, <1>3 DEF Core, LiveInv, LiveOK, Held
  <1>13. CoverInv'
    <2> SUFFICES ASSUME NEW q \in Procs PROVE CoverOK(pc[q], loc[q])'
       BY DEF CoverInv
    <2>1. CoverOK(pc[q], loc[q]) /\ CallOK(q, pc[q], loc[q])
       BY DEF Core, CoverInv, CallInv
    <2>2. CASE q = p
       BY <1>0, <1>1, <2>1, <2>2, OwnPcsFacts DEF CoverOK, CallOK, OwnPcs, WritePcs, HeldPcs, TearPcs
    <2>3. CASE q # p
      <3>1. ASSUME NEW e \in Entries, Wanted(e, loc[q].gen) PROVE index[e] \in SlotIds /\ index[e] # i
         BY <1>6, <3>1, LiveSlot DEF Wanted
      <3> QED BY <1>1, <1>2, <1>3, <2>1, <2>3, <3>1 DEF CoverOK, Wanted, Fresh
    <2> QED BY <2>2, <2>3
  <1> QED BY <1>7, <1>8, <1>9, <1>10, <1>11, <1>12, <1>13 DEF Core

(* It writes a payload word while seq is odd: nobody reads it as fresh.     *)
LEMMA PayloadSafe ==
  ASSUME IInv, IInv', Core, NEW p \in Procs, NEW c, pc[p] \in OddPcs, c \in OddPcs,
         c \in WritePcs <=> pc[p] \in WritePcs, c \in TearPcs <=> pc[p] \in TearPcs,
         \A j \in SlotIds : j # loc[p].i => pid'[j] = pid[j] /\ body'[j] = body[j],
         pc' = [pc EXCEPT ![p] = c], loc' = loc, OwnOK(p, pc[p], loc[p])',
         UNCHANGED <<state, seq, header, files, handle, committed>>
  PROVE  Core'
  <1> DEFINE i == loc[p].i
  <1>0. /\ pc[p] \in OwnPcs /\ c \in OwnPcs /\ pc[p] \in WritePcs \cup TearPcs
        /\ c \notin RingPcs \cup SnapPcs \cup {"idle", "dead"}
        /\ c \notin {"c_vet", "c_seq", "c_cas", "q_take", "q_hw", "q_scan",
                     "d_load", "d_cas", "d_bump", "d_close"}
        /\ pc[p] \notin RingPcs \cup SnapPcs \cup {"idle", "dead"}
     BY DEF OddPcs, OwnPcs, WritePcs, HeldPcs, TearPcs, RingPcs, SnapPcs
  <1>1. /\ pc'[p] = c /\ \A q \in Procs : q # p => pc'[q] = pc[q]
        /\ i \in SlotIds /\ seq[i] % 2 = 1
     BY <1>0, FieldFacts, OwnPcsFacts DEF IInv, TypeOK, Core, OwnInv, OwnOK
  <1>2. Alive' = Alive
     BY <1>0, <1>1 DEF Alive
  <1>3. UNCHANGED <<state, seq, files, stage, index, committed, generation>>
     BY DEF header, handle
  <1>4. \A q \in Procs : pc[q] \in SlotPcs => loc[q].i \in SlotIds
     BY FieldFacts
  <1>5. \A q \in Procs : q # p /\ pc[q] \in OwnPcs => loc[q].i # i
     BY <1>0 DEF Core, ExclInv
  <1>6. state[i] \in {"RESERVED", "EMPTY"} /\ state[i] \notin Types
     BY <1>0 DEF Core, OwnInv, OwnOK, Types
  <1>7. ExclInv'
     BY <1>0, <1>1 DEF Core, ExclInv
  <1>8. OwnInv'
    <2> SUFFICES ASSUME NEW q \in Procs PROVE OwnOK(q, pc[q], loc[q])'
       BY DEF OwnInv
    <2>2. CASE q # p
      <3>1. OwnOK(q, pc[q], loc[q]) /\ (pc[q] \in OwnPcs => loc[q].i \in SlotIds /\ loc[q].i # i)
         BY <1>4, <1>5, <2>2, OwnPcsFacts DEF Core, OwnInv
      <3> QED BY <1>1, <1>2, <1>3, <2>2, <3>1, OwnPcsFacts
              DEF OwnOK, Held, Doomed, OwnPcs, WritePcs, TearPcs
    <2> QED BY <2>2
  <1>9. CallInv'
    <2> SUFFICES ASSUME NEW q \in Procs PROVE CallOK(q, pc[q], loc[q])'
       BY DEF CallInv
    <2>1. CallOK(q, pc[q], loc[q])
       BY DEF Core, CallInv
    <2>2. CASE q = p
       BY <1>0, <1>1, <1>3, <2>1, <2>2, OwnPcsFacts DEF CallOK, OwnPcs, WritePcs, HeldPcs, TearPcs
    <2>3. CASE q # p
      <3>1. pc[q] \in {"d_load", "d_cas"} => loc[q].i \in SlotIds /\ loc[q].i # i
        <4>1. pc[q] \in {"d_load", "d_cas"} => loc[q].ent \in Entries /\ Held(loc[q].ent, loc[q].i)
           BY <2>1 DEF CallOK
        <4> QED BY <1>4, <1>6, <4>1, RegistryAssumption DEF SlotPcs, Held
      <3> QED BY <1>1, <1>3, <2>1, <2>3, <3>1 DEF CallOK, Held
    <2> QED BY <2>2, <2>3
  <1>10. SlotInv'
    <2> SUFFICES ASSUME NEW j \in SlotIds PROVE SlotOK(j)'
       BY DEF SlotInv
    <2>1. SlotOK(j)
       BY DEF Core, SlotInv
    <2>2. (TearAt(j)' <=> TearAt(j)) /\ (OddAt(j)' <=> OddAt(j))
       BY <1>1 DEF TearAt, OddAt
    <2>3. j = i /\ ~TearAt(j) => state[j] # "EMPTY"
       BY <1>0 DEF TearAt, Core, OwnInv, OwnOK
    <2> QED BY <1>3, <1>6, <2>1, <2>2, <2>3 DEF SlotOK, Whole
  <1>11. ReadInv'
    <2> SUFFICES ASSUME NEW q \in Procs PROVE ReadOK(pc[q], loc[q])'
       BY DEF ReadInv
    <2>1. ReadOK(pc[q], loc[q])
       BY DEF Core, ReadInv
    <2>2. CASE q = p
       BY <1>0, <1>1, <2>2 DEF ReadOK, SnapPcs, RingPcs
    <2>3. CASE q # p /\ loc[q].i = i
      <3>1. pc[q] \in {"s_state", "s_pid", "s_body", "s_check", "c_vet", "c_seq", "c_cas",
                       "r_state", "r_copy", "r_send"} => ~Fresh(loc[q])
         BY <1>1, <2>1, <2>3 DEF ReadOK, Fresh
      <3> QED BY <1>1, <1>2, <1>3, <2>1, <2>3, <3>1 DEF ReadOK, Fresh
    <2>4. CASE q # p /\ loc[q].i # i
      <3>1. loc[q].i \in SlotIds \/ pc[q] \notin SlotPcs
         BY <1>4
      <3> QED BY <1>1, <1>2, <1>3, <2>1, <2>4, <3>1
              DEF ReadOK, Fresh, Whole, Seen, SlotPcs, SnapPcs
    <2> QED BY <2>2, <2>3, <2>4
  <1>12. LiveInv'
    <2> SUFFICES ASSUME NEW e \in Entries PROVE LiveOK(e)'
       BY DEF LiveInv
    <2>1. LiveOK(e)
       BY DEF Core, LiveInv
    <2>2. stage[e] = "live" /\ OwnerOf[e] \in Alive => index[e] \in SlotIds /\ index[e] # i
       BY <1>6, LiveSlot
    <2> QED BY <1>2, <1>3, <2>1, <2>2 DEF LiveOK, Held
  <1>13. CoverInv'
    <2> SUFFICES ASSUME NEW q \in Procs PROVE CoverOK(pc[q], loc[q])'
       BY DEF CoverInv
    <2>1. CoverOK(pc[q], loc[q]) /\ CallOK(q, pc[q], loc[q])
       BY DEF Core, CoverInv, CallInv
    <2>2. CASE q = p
       BY <1>0, <1>1, <2>1, <2>2, OwnPcsFacts DEF CoverOK, CallOK, OwnPcs, WritePcs, HeldPcs, TearPcs
    <2>3. CASE q # p
       BY <1>1, <1>2, <1>3, <2>1, <2>3 DEF CoverOK, Wanted, Fresh
    <2> QED BY <2>2, <2>3
  <1> QED BY <1>7, <1>8, <1>9, <1>10, <1>11, <1>12, <1>13 DEF Core

(* A slot that is empty and that nobody is tearing down is claimed; a sweep *)
(* past its guard may be about to take it, but has no fresh view of it.     *)
LEMMA ClaimSafe ==
  ASSUME Quiet, IInv, IInv', Core, NEW p \in Procs, pc[p] = "claim", loc[p].i \in SlotIds,
         state[loc[p].i] = "EMPTY", ReuseInWindow \/ ~InWindow(loc[p].i),
         state' = [state EXCEPT ![loc[p].i] = "RESERVED"],
         pc' = [pc EXCEPT ![p] = "w_begin"], loc' = loc,
         UNCHANGED <<seq, pid, body, header, files, handle, committed>>
  PROVE  Core'
  <1> DEFINE i == loc[p].i
  <1>1. /\ pc'[p] = "w_begin" /\ \A q \in Procs : q # p => pc'[q] = pc[q]
        /\ state'[i] = "RESERVED" /\ \A j \in SlotIds : j # i => state'[j] = state[j]
     BY DEF IInv, TypeOK
  <1>2. Alive' = Alive
     BY <1>1 DEF Alive
  <1>3. UNCHANGED <<seq, pid, body, files, stage, index, committed, generation>>
     BY DEF header, handle
  <1>4. \A q \in Procs : pc[q] \in SlotPcs => loc[q].i \in SlotIds
     BY FieldFacts
  <1>5. \A q \in Procs : loc[q].i = i => pc[q] \notin TearPcs
     BY DEF InWindow, Quiet
  <1>6. body[i] = NoEntry /\ NoEntry \notin Entries
     BY <1>5, RegistryAssumption DEF Core, SlotInv, SlotOK, TearAt
  <1>7. ASSUME NEW q \in Procs, q # p, pc[q] \in OwnPcs PROVE loc[q].i # i
    <2>1. OwnOK(q, pc[q], loc[q]) /\ LocalOK(pc[q], loc[q])
       BY LocalFacts DEF Core, OwnInv
    <2>2. pc[q] \in HeldPcs => loc[q].ent \in Entries
       BY <2>1 DEF LocalOK, HeldPcs, AddPcs, RingPcs
    <2> QED BY <1>5, <1>6, <1>7, <2>1, <2>2 DEF OwnOK, Held, OwnPcs
  <1>8. pc[p] \notin OwnPcs /\ "w_begin" \notin TearPcs \cup OddPcs
     BY DEF OwnPcs, WritePcs, HeldPcs, TearPcs, OddPcs
  <1>9. ExclInv'
     BY <1>1, <1>7 DEF Core, ExclInv
  <1>10. OwnInv'
    <2> SUFFICES ASSUME NEW q \in Procs PROVE OwnOK(q, pc[q], loc[q])'
       BY DEF OwnInv
    <2>1. CASE q = p
       BY <1>1, <1>8, <2>1 DEF OwnOK, HeldPcs
    <2>2. CASE q # p
      <3>1. OwnOK(q, pc[q], loc[q]) /\ (pc[q] \in OwnPcs => loc[q].i \in SlotIds /\ loc[q].i # i)
         BY <1>4, <1>7, <2>2, OwnPcsFacts DEF Core, OwnInv
      <3> QED BY <1>1, <1>2, <1>3, <2>2, <3>1, OwnPcsFacts
              DEF OwnOK, Held, Doomed, OwnPcs, WritePcs, TearPcs
    <2> QED BY <2>1, <2>2
  <1>11. CallInv'
    <2> SUFFICES ASSUME NEW q \in Procs PROVE CallOK(q, pc[q], loc[q])'
       BY DEF CallInv
    <2>1. CallOK(q, pc[q], loc[q])
       BY DEF Core, CallInv
    <2>2. CASE q = p
       BY <1>1, <1>3, <2>1, <2>2 DEF CallOK, SnapPcs
    <2>3. CASE q # p
      <3>1. pc[q] \in {"d_load", "d_cas"} => loc[q].i \in SlotIds /\ loc[q].i # i
         BY <1>4, <1>6, <2>1 DEF SlotPcs, CallOK, Held
      <3> QED BY <1>1, <1>3, <2>1, <2>3, <3>1 DEF CallOK, Held
    <2> QED BY <2>2, <2>3
  <1>12. SlotInv'
    <2> SUFFICES ASSUME NEW j \in SlotIds PROVE SlotOK(j)'
       BY DEF SlotInv
    <2>1. SlotOK(j)
       BY DEF Core, SlotInv
    <2>2. (TearAt(j)' <=> TearAt(j)) /\ (OddAt(j)' <=> OddAt(j))
       BY <1>1, <1>8, OwnPcsFacts DEF TearAt, OddAt
    <2> QED BY <1>1, <1>3, <2>1, <2>2 DEF SlotOK, Whole, Types
  <1>13. ReadInv'
    <2> SUFFICES ASSUME NEW q \in Procs PROVE ReadOK(pc[q], loc[q])'
       BY DEF ReadInv
    <2>1. ReadOK(pc[q], loc[q])
       BY DEF Core, ReadInv
    <2>2. CASE q = p
       BY <1>1, <2>2 DEF ReadOK
    <2>3. CASE q # p /\ loc[q].i = i
       BY <1>1, <1>2, <1>3, <1>5, <1>6, <2>1, <2>3 DEF ReadOK, Fresh, Whole, Seen
    <2>4. CASE q # p /\ loc[q].i # i
      <3>1. loc[q].i \in SlotIds \/ pc[q] \notin SlotPcs
         BY <1>4
      <3> QED BY <1>1, <1>2, <1>3, <2>1, <2>4, <3>1
              DEF ReadOK, Fresh, Whole, Seen, SlotPcs, SnapPcs
    <2> QED BY <2>2, <2>3, <2>4
  <1>14. LiveInv'
    <2> SUFFICES ASSUME NEW e \in Entries PROVE LiveOK(e)'
       BY DEF LiveInv
    <2>1. LiveOK(e)
       BY DEF Core, LiveInv
    <2>2. stage[e] = "live" => index[e] \in SlotIds
       BY DEF IInv, HandleInv
    <2> QED BY <1>1, <1>2, <1>3, <1>6, <2>1, <2>2 DEF LiveOK, Held
  <1>15. CoverInv'
    <2> SUFFICES ASSUME NEW q \in Procs PROVE CoverOK(pc[q], loc[q])'
       BY DEF CoverInv
    <2>1. CoverOK(pc[q], loc[q]) /\ CallOK(q, pc[q], loc[q])
       BY DEF Core, CoverInv, CallInv
    <2>2. q = p => loc[q].op # "query"
       BY <2>1 DEF CallOK, SnapPcs
    <2> QED BY <1>1, <1>2, <1>3, <2>1, <2>2 DEF CoverOK, Wanted, Fresh
  <1> QED BY <1>9, <1>10, <1>11, <1>12, <1>13, <1>14, <1>15 DEF Core

(* The whole entry is published under its type.                             *)
LEMMA PublishSafe ==
  ASSUME IInv, IInv', Core, NEW p \in Procs, Publish(p)
  PROVE  Core'
  <1> DEFINE i == loc[p].i
             e == loc[p].ent
  <1>0. /\ pc[p] = "publish" /\ loc' = loc
        /\ UNCHANGED <<seq, pid, body, files, stage, index, committed, generation>>
     BY DEF Publish, header, handle
  <1>1. /\ pc'[p] = "widen" /\ \A q \in Procs : q # p => pc'[q] = pc[q]
        /\ i \in SlotIds /\ state'[i] = TypeOf[e] /\ \A j \in SlotIds : j # i => state'[j] = state[j]
     BY FieldFacts DEF Publish, Goto, SlotPcs, IInv, TypeOK
  <1>2. Alive' = Alive
     BY <1>0, <1>1 DEF Alive
  <1>3. OwnOK(p, "publish", loc[p]) /\ CallOK(p, "publish", loc[p]) /\ LocalOK("publish", loc[p])
     BY <1>0, LocalFacts DEF Core, OwnInv, CallInv
  <1>4. \A q \in Procs : pc[q] \in SlotPcs => loc[q].i \in SlotIds
     BY FieldFacts
  <1>5. loc[p].op = "add" /\ e \in Entries /\ e # NoEntry
     BY <1>3, RegistryAssumption DEF LocalOK, AddPcs, RingPcs
  <1>6. /\ pid[i] = p /\ body[i] = e /\ state[i] = "RESERVED" /\ OwnerOf[e] = p
        /\ TypeOf[e] \in Types /\ TypeOf[e] # "RESERVED" /\ TypeOf[e] # "EMPTY"
     BY <1>3, <1>5, RegistryAssumption DEF OwnOK, CallOK, WritePcs, Types
  <1>7. "publish" \in OwnPcs /\ "widen" \in OwnPcs
        /\ {"publish", "widen"} \cap (TearPcs \cup OddPcs \cup WritePcs) \subseteq {"publish"}
        /\ {"publish", "widen"} \cap (TearPcs \cup OddPcs) = {}
     BY DEF OwnPcs, WritePcs, HeldPcs, TearPcs, OddPcs
  <1>8. \A q \in Procs : q # p /\ pc[q] \in OwnPcs => loc[q].i # i
     BY <1>0, <1>7 DEF Core, ExclInv
  <1>9. ExclInv'
     BY <1>0, <1>1, <1>7 DEF Core, ExclInv
  <1>10. OwnInv'
    <2> SUFFICES ASSUME NEW q \in Procs PROVE OwnOK(q, pc[q], loc[q])'
       BY DEF OwnInv
    <2>1. CASE q = p
       BY <1>0, <1>1, <1>6, <1>7, <2>1 DEF OwnOK, Held
    <2>2. CASE q # p
      <3>1. OwnOK(q, pc[q], loc[q]) /\ (pc[q] \in OwnPcs => loc[q].i \in SlotIds /\ loc[q].i # i)
         BY <1>4, <1>8, <2>2, OwnPcsFacts DEF Core, OwnInv
      <3> QED BY <1>0, <1>1, <1>2, <2>2, <3>1, OwnPcsFacts
              DEF OwnOK, Held, Doomed, OwnPcs, WritePcs, TearPcs
    <2> QED BY <2>1, <2>2
  <1>11. CallInv'
    <2> SUFFICES ASSUME NEW q \in Procs PROVE CallOK(q, pc[q], loc[q])'
       BY DEF CallInv
    <2>1. CallOK(q, pc[q], loc[q])
       BY DEF Core, CallInv
    <2>2. CASE q = p
       BY <1>0, <1>1, <1>5, <2>1, <2>2 DEF CallOK
    <2>3. CASE q # p
      <3>1. pc[q] \in {"d_load", "d_cas"} => loc[q].i \in SlotIds /\ loc[q].i # i
        <4>1. pc[q] \in {"d_load", "d_cas"} => loc[q].ent \in Entries /\ Held(loc[q].ent, loc[q].i)
           BY <2>1 DEF CallOK
        <4> QED BY <1>4, <1>6, <4>1, RegistryAssumption DEF SlotPcs, Held, Types
      <3> QED BY <1>0, <1>1, <2>1, <2>3, <3>1 DEF CallOK, Held
    <2> QED BY <2>2, <2>3
  <1>12. SlotInv'
    <2> SUFFICES ASSUME NEW j \in SlotIds PROVE SlotOK(j)'
       BY DEF SlotInv
    <2>1. SlotOK(j)
       BY DEF Core, SlotInv
    <2>2. (TearAt(j)' <=> TearAt(j)) /\ (OddAt(j)' <=> OddAt(j))
       BY <1>0, <1>1, <1>7 DEF TearAt, OddAt
    <2> QED BY <1>0, <1>1, <1>5, <1>6, <2>1, <2>2 DEF SlotOK, Whole
  <1>13. ReadInv'
    <2> SUFFICES ASSUME NEW q \in Procs PROVE ReadOK(pc[q], loc[q])'
       BY DEF ReadInv
    <2>1. ReadOK(pc[q], loc[q])
       BY DEF Core, ReadInv
    <2>2. CASE q = p
       BY <1>1, <2>2 DEF ReadOK
    <2>3. CASE q # p /\ loc[q].i = i
       BY <1>0, <1>1, <1>2, <1>6, <2>1, <2>3 DEF ReadOK, Fresh, Whole, Seen
    <2>4. CASE q # p /\ loc[q].i # i
      <3>1. loc[q].i \in SlotIds \/ pc[q] \notin SlotPcs
         BY <1>4
      <3> QED BY <1>0, <1>1, <1>2, <2>1, <2>4, <3>1
              DEF ReadOK, Fresh, Whole, Seen, SlotPcs, SnapPcs
    <2> QED BY <2>2, <2>3, <2>4
  <1>14. LiveInv'
    <2> SUFFICES ASSUME NEW x \in Entries PROVE LiveOK(x)'
       BY DEF LiveInv
    <2>1. LiveOK(x)
       BY DEF Core, LiveInv
    <2>2. stage[x] = "live" /\ OwnerOf[x] \in Alive => index[x] \in SlotIds /\ index[x] # i
       BY <1>6, LiveSlot DEF Types
    <2> QED BY <1>0, <1>1, <1>2, <2>1, <2>2 DEF LiveOK, Held
  <1>15. CoverInv'
    <2> SUFFICES ASSUME NEW q \in Procs PROVE CoverOK(pc[q], loc[q])'
       BY DEF CoverInv
    <2>1. CoverOK(pc[q], loc[q])
       BY DEF Core, CoverInv
    <2> QED BY <1>0, <1>1, <1>2, <1>5, <2>1 DEF CoverOK, Wanted, Fresh
  <1> QED BY <1>9, <1>10, <1>11, <1>12, <1>13, <1>14, <1>15 DEF Core

(* An announced entry is registered and wanted by later queries only.       *)
LEMMA AnnounceSafe ==
  ASSUME IInv, IInv', Core, NEW p \in Procs, AddBump(p)
  PROVE  Core'
  <1> DEFINE i == loc[p].i
             e == loc[p].ent
  <1>0. /\ pc[p] = "a_bump" /\ generation' = generation + 1 /\ generation \in Nat
        /\ UNCHANGED <<state, seq, pid, body, files>>
     BY DEF AddBump, slots, IInv, TypeOK
  <1>a. OwnOK(p, "a_bump", loc[p]) /\ CallOK(p, "a_bump", loc[p]) /\ LocalOK("a_bump", loc[p])
     BY <1>0, LocalFacts DEF Core, OwnInv, CallInv
  <1>b. loc[p].op = "add" /\ e \in Entries /\ e # NoEntry
     BY <1>a, RegistryAssumption DEF LocalOK, AddPcs, RingPcs
  <1>c. Held(e, i) /\ OwnerOf[e] = p /\ stage[e] = "adding" /\ e \in files
     BY <1>a, <1>b DEF OwnOK, CallOK, HeldPcs
  <1>d. /\ stage'[e] = "live" /\ index'[e] = i /\ committed'[e] = generation + 1
        /\ \A x \in Entries : x # e => /\ stage'[x] = stage[x] /\ index'[x] = index[x]
                                       /\ committed'[x] = committed[x]
     BY <1>b DEF AddBump, IInv, TypeOK
  <1>e. /\ pc'[p] \in {"idle", "ring_hw"} /\ (pc'[p] = "idle" <=> loc'[p].op = "none")
        /\ loc'[p].op \in {"none", "add"} /\ loc'[p].ent = NoEntry
        /\ \A q \in Procs : q # p => pc'[q] = pc[q] /\ loc'[q] = loc[q]
    <2>1. CASE TypeOf[e] = "DOORBELL"
       BY <2>1 DEF AddBump, Return, Goto, Set, NoLocals, IInv, TypeOK
    <2>2. CASE TypeOf[e] # "DOORBELL"
      <3> DEFINE r == [NoLocals EXCEPT !.op = "add"]
      <3>1. r.op = "add" /\ r.ent = NoEntry
         BY DEF NoLocals
      <3>2. pc' = [pc EXCEPT ![p] = "ring_hw"] /\ loc' = [loc EXCEPT ![p] = r]
         BY <2>2 DEF AddBump, Goto, Set
      <3> HIDE DEF r
      <3> QED BY <3>1, <3>2 DEF IInv, TypeOK
    <2> QED BY <2>1, <2>2
  <1>f. /\ "a_bump" \notin TearPcs \cup OddPcs \cup {"dead"}
        /\ {"idle", "ring_hw"} \cap (OwnPcs \cup TearPcs \cup OddPcs \cup WritePcs \cup HeldPcs) = {}
     BY DEF OwnPcs, WritePcs, HeldPcs, TearPcs, OddPcs
  <1>1. Alive' = Alive /\ p \in Alive
     BY <1>0, <1>e DEF Alive
  <1>2. \A x \in Entries : Doomed(x) => Doomed(x)'
     BY <1>1, <1>c, <1>d DEF Doomed
  <1>3. ExclInv'
     BY <1>e, <1>f DEF Core, ExclInv
  <1>4. OwnInv'
    <2> SUFFICES ASSUME NEW q \in Procs PROVE OwnOK(q, pc[q], loc[q])'
       BY DEF OwnInv
    <2>1. CASE q = p
       BY <1>e, <1>f, <2>1, OwnPcsFacts DEF OwnOK
    <2>2. CASE q # p
      <3>1. OwnOK(q, pc[q], loc[q])
         BY DEF Core, OwnInv
      <3>2. /\ Doomed(body[loc[q].i]) => Doomed(body[loc[q].i])'
            /\ Doomed(loc[q].body) => Doomed(loc[q].body)'
         BY <1>0, <1>1, <1>c, <1>d, <1>e, <2>2 DEF Doomed
      <3> QED BY <1>0, <1>e, <2>2, <3>1, <3>2 DEF OwnOK, Held
    <2> QED BY <2>1, <2>2
  <1>5. CallInv'
    <2> SUFFICES ASSUME NEW q \in Procs PROVE CallOK(q, pc[q], loc[q])'
       BY DEF CallInv
    <2>1. CallOK(q, pc[q], loc[q])
       BY DEF Core, CallInv
    <2>2. CASE q = p
       BY <1>e, <2>2 DEF CallOK
    <2>3. CASE q # p
      <3>1. loc[q].ent \in Bodies
         BY FieldFacts
      <3>2. loc[q].op = "remove" \/ (loc[q].op = "add" /\ loc[q].ent # NoEntry) =>
              loc[q].ent \in Entries /\ loc[q].ent # e
         BY <1>c, <2>1, <2>3, <3>1 DEF CallOK, Bodies
      <3> QED BY <1>0, <1>d, <1>e, <2>1, <2>3, <3>2 DEF CallOK, Held
    <2> QED BY <2>2, <2>3
  <1>6. SlotInv'
    <2> SUFFICES ASSUME NEW j \in SlotIds PROVE SlotOK(j)'
       BY DEF SlotInv
    <2>1. SlotOK(j)
       BY DEF Core, SlotInv
    <2>2. (TearAt(j)' <=> TearAt(j)) /\ (OddAt(j)' <=> OddAt(j))
       BY <1>0, <1>e, <1>f DEF TearAt, OddAt
    <2> QED BY <1>0, <2>1, <2>2 DEF SlotOK, Whole
  <1>7. ReadInv'
    <2> SUFFICES ASSUME NEW q \in Procs PROVE ReadOK(pc[q], loc[q])'
       BY DEF ReadInv
    <2>1. ReadOK(pc[q], loc[q])
       BY DEF Core, ReadInv
    <2> QED BY <1>0, <1>1, <1>e, <2>1 DEF ReadOK, Fresh, Whole, Seen
  <1>8. LiveInv'
    <2> SUFFICES ASSUME NEW x \in Entries PROVE LiveOK(x)'
       BY DEF LiveInv
    <2>1. LiveOK(x) /\ committed[x] \in {Uncommitted} \cup Nat
       BY DEF Core, LiveInv, IInv, TypeOK
    <2>2. CASE x = e
       BY <1>0, <1>c, <1>d, <2>2 DEF LiveOK, Held, Uncommitted
    <2>3. CASE x # e
       BY <1>0, <1>1, <1>d, <2>1, <2>3 DEF LiveOK, Held, Uncommitted
    <2> QED BY <2>2, <2>3
  <1>9. CoverInv'
    <2> SUFFICES ASSUME NEW q \in Procs PROVE CoverOK(pc[q], loc[q])'
       BY DEF CoverInv
    <2>1. CoverOK(pc[q], loc[q]) /\ loc[q].gen \in Nat
       BY FieldFacts DEF Core, CoverInv
    <2>2. CASE q = p
       BY <1>e, <2>2 DEF CoverOK
    <2>3. CASE q # p
      <3>1. ASSUME NEW x \in Entries, Wanted(x, loc[q].gen)', loc[q].gen <= generation
            PROVE  Wanted(x, loc[q].gen) /\ x # e
         BY <1>0, <1>1, <1>d, <1>e, <2>1, <2>3, <3>1 DEF Wanted
      <3> QED BY <1>0, <1>d, <1>e, <2>1, <2>3, <3>1 DEF CoverOK, Fresh
    <2> QED BY <2>2, <2>3
  <1> QED BY <1>3, <1>4, <1>5, <1>6, <1>7, <1>8, <1>9 DEF Core

(* The owner of entry e begins its creation or its destruction, or ends     *)
(* with it; nobody else is concerned with e.                                *)
LEMMA StageSafe ==
  ASSUME IInv, IInv', Core, NEW p \in Procs, NEW e \in Entries, OwnerOf[e] = p,
         pc[p] \notin OwnPcs \cup {"dead"}, pc'[p] \in {"idle", "claim", "d_load"},
         loc'[p].op # "query", CallOK(p, pc[p], loc[p])',
         \A q \in Procs : q # p => pc'[q] = pc[q] /\ loc'[q] = loc[q],
         NEW s \in {"adding", "removing", "gone"}, s = "adding" => stage[e] = "new",
         stage' = [stage EXCEPT ![e] = s], files' \ {e} = files \ {e},
         UNCHANGED <<slots, generation, index, committed>>
  PROVE  Core'
  <1>0. /\ UNCHANGED <<state, seq, pid, body>> /\ stage'[e] = s
        /\ \A x \in Entries : x # e => stage'[x] = stage[x] /\ (x \in files' <=> x \in files)
     BY DEF slots, IInv, TypeOK
  <1>1. pc'[p] \notin OwnPcs \cup TearPcs \cup OddPcs \cup WritePcs \cup HeldPcs \cup {"dead"}
     BY DEF OwnPcs, WritePcs, HeldPcs, TearPcs, OddPcs
  <1>2. Alive' = Alive /\ p \in Alive
     BY <1>1 DEF Alive
  <1>3. ExclInv'
     BY <1>1 DEF Core, ExclInv
  <1>4. OwnInv'
    <2> SUFFICES ASSUME NEW q \in Procs PROVE OwnOK(q, pc[q], loc[q])'
       BY DEF OwnInv
    <2>1. CASE q = p
       BY <1>1, <2>1 DEF OwnOK, WritePcs, TearPcs
    <2>2. CASE q # p
      <3>1. OwnOK(q, pc[q], loc[q])
         BY DEF Core, OwnInv
      <3>2. /\ Doomed(body[loc[q].i]) => Doomed(body[loc[q].i])'
            /\ Doomed(loc[q].body) => Doomed(loc[q].body)'
         BY <1>0, <1>2, <2>2 DEF Doomed
      <3> QED BY <1>0, <2>2, <3>1, <3>2 DEF OwnOK, Held
    <2> QED BY <2>1, <2>2
  <1>5. CallInv'
    <2> SUFFICES ASSUME NEW q \in Procs, q # p PROVE CallOK(q, pc[q], loc[q])'
       BY DEF CallInv
    <2>1. CallOK(q, pc[q], loc[q]) /\ loc[q].ent \in Bodies
       BY FieldFacts DEF Core, CallInv
    <2>2. loc[q].op = "remove" \/ (loc[q].op = "add" /\ loc[q].ent # NoEntry) =>
            loc[q].ent \in Entries /\ loc[q].ent # e
       BY <2>1 DEF CallOK, Bodies
    <2> QED BY <1>0, <2>1, <2>2 DEF CallOK, Held
  <1>6. SlotInv'
    <2> SUFFICES ASSUME NEW j \in SlotIds PROVE SlotOK(j)'
       BY DEF SlotInv
    <2>1. SlotOK(j)
       BY DEF Core, SlotInv
    <2>2. (TearAt(j)' <=> TearAt(j)) /\ (OddAt(j)' <=> OddAt(j))
       BY <1>1, OwnPcsFacts DEF TearAt, OddAt
    <2> QED BY <1>0, <2>1, <2>2 DEF SlotOK, Whole
  <1>7. ReadInv'
    <2> SUFFICES ASSUME NEW q \in Procs PROVE ReadOK(pc[q], loc[q])'
       BY DEF ReadInv
    <2>1. ReadOK(pc[q], loc[q])
       BY DEF Core, ReadInv
    <2> QED BY <1>0, <1>2, <2>1 DEF ReadOK, Fresh, Whole, Seen
  <1>8. LiveInv'
    <2> SUFFICES ASSUME NEW x \in Entries PROVE LiveOK(x)'
       BY DEF LiveInv
    <2>1. LiveOK(x)
       BY DEF Core, LiveInv
    <2> QED BY <1>0, <1>2, <2>1 DEF LiveOK, Held
  <1>9. CoverInv'
    <2> SUFFICES ASSUME NEW q \in Procs PROVE CoverOK(pc[q], loc[q])'
       BY DEF CoverInv
    <2>1. CoverOK(pc[q], loc[q])
       BY DEF Core, CoverInv
    <2>2. CASE q = p
       BY <2>2 DEF CoverOK
    <2>3. CASE q # p
      <3>1. ASSUME NEW x \in Entries, Wanted(x, loc[q].gen)' PROVE Wanted(x, loc[q].gen)
         BY <1>0, <1>2, <2>3, <3>1 DEF Wanted
      <3> QED BY <1>0, <2>1, <2>3, <3>1 DEF CoverOK, Fresh
    <2> QED BY <2>2, <2>3
  <1> QED BY <1>3, <1>4, <1>5, <1>6, <1>7, <1>8, <1>9 DEF Core

(* A failed creation or a destruction closes the socket of its entry.       *)
LEMMA DropSafe ==
  ASSUME IInv, IInv', Core, NEW p \in Procs, pc[p] \notin OwnPcs \cup {"dead"},
         loc[p].ent \in Entries, OwnerOf[loc[p].ent] = p, Return(p),
         files' = files \ {loc[p].ent}, stage' = [stage EXCEPT ![loc[p].ent] = "gone"],
         UNCHANGED <<slots, generation, index, committed>>
  PROVE  Core'
  <1>1. /\ pc'[p] = "idle" /\ loc'[p] = NoLocals
        /\ \A q \in Procs : q # p => pc'[q] = pc[q] /\ loc'[q] = loc[q]
     BY DEF Return, Goto, Set, IInv, TypeOK
  <1>2. NoLocals.op = "none"
     BY DEF NoLocals
  <1>3. CallOK(p, pc[p], loc[p])'
     BY <1>1, <1>2 DEF CallOK
  <1> QED BY <1>1, <1>2, <1>3, StageSafe

(* The end of a teardown: the slot is clean, and the socket it unlinks is   *)
(* one nobody counts on.                                                    *)
LEMMA UnlinkSafe ==
  ASSUME IInv, IInv', Core, NEW p \in Procs, TearUnlink(p)
  PROVE  Core'
  <1> DEFINE i == loc[p].i
             e == loc[p].body
  <1>0. /\ pc[p] = "t_unlink" /\ loc' = loc /\ files' = files \ {e}
        /\ UNCHANGED <<state, seq, pid, body, stage, index, committed, generation>>
     BY DEF TearUnlink, slots, header, handle
  <1>1. /\ pc'[p] \in {"d_bump", "c_bump"} /\ (pc'[p] = "d_bump" => loc[p].op = "remove")
        /\ \A q \in Procs : q # p => pc'[q] = pc[q]
     BY DEF TearUnlink, Goto, IInv, TypeOK
  <1>2. /\ "t_unlink" \in TearPcs /\ "t_unlink" \notin OddPcs
        /\ {"d_bump", "c_bump"} \cap (OwnPcs \cup TearPcs \cup OddPcs \cup WritePcs \cup HeldPcs) = {}
     BY DEF OwnPcs, WritePcs, HeldPcs, TearPcs, OddPcs
  <1>3. OwnOK(p, "t_unlink", loc[p]) /\ CallOK(p, "t_unlink", loc[p])
     BY <1>0 DEF Core, OwnInv, CallInv
  <1>4. Doomed(e) /\ body[i] = NoEntry
     BY <1>2, <1>3 DEF OwnOK
  <1>5. Alive' = Alive
     BY <1>0, <1>1 DEF Alive
  <1>6. ExclInv'
     BY <1>0, <1>1, <1>2 DEF Core, ExclInv
  <1>7. OwnInv'
    <2> SUFFICES ASSUME NEW q \in Procs PROVE OwnOK(q, pc[q], loc[q])'
       BY DEF OwnInv
    <2>1. CASE q = p
       BY <1>1, <1>2, <2>1 DEF OwnOK
    <2>2. CASE q # p
      <3>1. OwnOK(q, pc[q], loc[q])
         BY DEF Core, OwnInv
      <3> QED BY <1>0, <1>1, <1>5, <2>2, <3>1 DEF OwnOK, Held, Doomed
    <2> QED BY <2>1, <2>2
  <1>8. CallInv'
    <2> SUFFICES ASSUME NEW q \in Procs PROVE CallOK(q, pc[q], loc[q])'
       BY DEF CallInv
    <2>1. CallOK(q, pc[q], loc[q]) /\ loc[q].ent \in Bodies
       BY FieldFacts DEF Core, CallInv
    <2>2. loc[q].op = "add" /\ loc[q].ent # NoEntry => loc[q].ent \in files'
      <3> SUFFICES ASSUME loc[q].op = "add", loc[q].ent # NoEntry PROVE loc[q].ent \in files'
         OBVIOUS
      <3>1. q \in Alive
         BY <2>1 DEF CallOK, Alive
      <3>2. loc[q].ent # e
         BY <1>4, <2>1, <3>1 DEF CallOK, Doomed
      <3> QED BY <1>0, <2>1, <3>2 DEF CallOK
    <2>3. CASE q = p
       BY <1>0, <1>1, <1>3, <2>2, <2>3 DEF CallOK, SnapPcs
    <2>4. CASE q # p
       BY <1>0, <1>1, <2>1, <2>2, <2>4 DEF CallOK, Held
    <2> QED BY <2>3, <2>4
  <1>9. SlotInv'
    <2> SUFFICES ASSUME NEW j \in SlotIds PROVE SlotOK(j)'
       BY DEF SlotInv
    <2>1. SlotOK(j)
       BY DEF Core, SlotInv
    <2>2. OddAt(j)' <=> OddAt(j)
       BY <1>0, <1>1, <1>2 DEF OddAt
    <2>3. j # i => (TearAt(j)' <=> TearAt(j))
       BY <1>0, <1>1, <1>2 DEF TearAt
    <2> QED BY <1>0, <1>4, <2>1, <2>2, <2>3 DEF SlotOK, Whole
  <1>10. ReadInv'
    <2> SUFFICES ASSUME NEW q \in Procs PROVE ReadOK(pc[q], loc[q])'
       BY DEF ReadInv
    <2>1. ReadOK(pc[q], loc[q])
       BY DEF Core, ReadInv
    <2> QED BY <1>0, <1>1, <1>5, <2>1 DEF ReadOK, Fresh, Whole, Seen
  <1>11. LiveInv'
     BY <1>0, <1>4, <1>5 DEF Core, LiveInv, LiveOK, Held, Doomed
  <1>12. CoverInv'
    <2> SUFFICES ASSUME NEW q \in Procs PROVE CoverOK(pc[q], loc[q])'
       BY DEF CoverInv
    <2>1. CoverOK(pc[q], loc[q])
       BY DEF Core, CoverInv
    <2>2. loc[p].op # "query"
       BY <1>3 DEF CallOK, SnapPcs
    <2> QED BY <1>0, <1>1, <1>5, <2>1, <2>2 DEF CoverOK, Wanted, Fresh
  <1> QED BY <1>6, <1>7, <1>8, <1>9, <1>10, <1>11, <1>12 DEF Core

(* A process dies between mutations: it has no slot to itself.              *)
LEMMA CrashSafe ==
  ASSUME Quiet, IInv, IInv', Core, NEW p \in Procs, Crash(p)
  PROVE  Core'
  <1>0. /\ pc[p] # "dead" /\ loc[p].op \notin {"add", "remove", "sweep"}
        /\ UNCHANGED <<state, seq, pid, body, files, stage, index, committed, generation>>
     BY DEF Crash, Quiet, Mutating, slots, header, handle
  <1>1. /\ pc'[p] = "dead" /\ loc'[p] = NoLocals /\ NoLocals.op = "none"
        /\ \A q \in Procs : q # p => pc'[q] = pc[q] /\ loc'[q] = loc[q]
     BY DEF Crash, Goto, Set, NoLocals, IInv, TypeOK
  <1>2. pc[p] \notin OwnPcs
    <2>1. loc[p].op \in {"none", "query"} /\ CallOK(p, pc[p], loc[p])
       BY <1>0, FieldFacts DEF Core, CallInv
    <2> QED BY <2>1, OwnPcsFacts DEF CallOK, OwnPcs, WritePcs, HeldPcs, TearPcs
  <1>3. Alive' \subseteq Alive
     BY <1>1 DEF Alive
  <1>4. "dead" \notin OwnPcs \cup TearPcs \cup OddPcs \cup WritePcs \cup HeldPcs
     BY DEF OwnPcs, WritePcs, HeldPcs, TearPcs, OddPcs
  <1>5. ExclInv'
     BY <1>1, <1>4 DEF Core, ExclInv
  <1>6. OwnInv'
    <2> SUFFICES ASSUME NEW q \in Procs PROVE OwnOK(q, pc[q], loc[q])'
       BY DEF OwnInv
    <2>1. CASE q = p
       BY <1>1, <1>4, <2>1 DEF OwnOK
    <2>2. CASE q # p
      <3>1. OwnOK(q, pc[q], loc[q])
         BY DEF Core, OwnInv
      <3>2. /\ Doomed(body[loc[q].i]) => Doomed(body[loc[q].i])'
            /\ Doomed(loc[q].body) => Doomed(loc[q].body)'
         BY <1>0, <1>1, <1>3, <2>2 DEF Doomed
      <3> QED BY <1>0, <1>1, <2>2, <3>1, <3>2 DEF OwnOK, Held
    <2> QED BY <2>1, <2>2
  <1>7. CallInv'
    <2> SUFFICES ASSUME NEW q \in Procs PROVE CallOK(q, pc[q], loc[q])'
       BY DEF CallInv
    <2>1. CallOK(q, pc[q], loc[q])
       BY DEF Core, CallInv
    <2> QED BY <1>0, <1>1, <2>1 DEF CallOK, Held
  <1>8. SlotInv'
    <2> SUFFICES ASSUME NEW j \in SlotIds PROVE SlotOK(j)'
       BY DEF SlotInv
    <2>1. SlotOK(j)
       BY DEF Core, SlotInv
    <2>2. (TearAt(j)' <=> TearAt(j)) /\ (OddAt(j)' <=> OddAt(j))
       BY <1>1, <1>2, <1>4, OwnPcsFacts DEF TearAt, OddAt
    <2> QED BY <1>0, <2>1, <2>2 DEF SlotOK, Whole
  <1>9. ReadInv'
    <2> SUFFICES ASSUME NEW q \in Procs PROVE ReadOK(pc[q], loc[q])'
       BY DEF ReadInv
    <2>1. ReadOK(pc[q], loc[q])
       BY DEF Core, ReadInv
    <2> QED BY <1>0, <1>1, <1>3, <2>1 DEF ReadOK, Fresh, Whole, Seen
  <1>10. LiveInv'
     BY <1>0, <1>3 DEF Core, LiveInv, LiveOK, Held
  <1>11. CoverInv'
    <2> SUFFICES ASSUME NEW q \in Procs PROVE CoverOK(pc[q], loc[q])'
       BY DEF CoverInv
    <2>1. CoverOK(pc[q], loc[q])
       BY DEF Core, CoverInv
    <2> QED BY <1>0, <1>1, <1>3, <2>1 DEF CoverOK, Wanted, Fresh
  <1> QED BY <1>5, <1>6, <1>7, <1>8, <1>9, <1>10, <1>11 DEF Core

(* A step of registry_add keeps Core.                                       *)
LEMMA AddSafe ==
  ASSUME Quiet, IInv, IInv', Core, NEW p \in Procs, AddStep(p)
  PROVE  Core'
  <1> DEFINE l == loc[p]
             i == loc[p].i
  <1>a. pc[p] \in AddPcs
     BY DEF AddStep, Claim, ClaimFull, WriteBegin, WritePid, WriteBody, WriteEnd, Publish, Widen,
        AddBump, AddPcs
  <1>b. /\ l \in Locals /\ l.op = "add" /\ l.ent \in Entries /\ l.ent # NoEntry
        /\ OwnOK(p, pc[p], l) /\ CallOK(p, pc[p], l) /\ i \in Nat
        /\ OwnerOf[l.ent] = p
    <2>1. l \in Locals /\ l.op = "add" /\ l.ent \in Entries /\ i \in Nat
       BY <1>a, LocalFacts, FieldFacts DEF LocalOK, AddPcs, RingPcs
    <2> QED BY <2>1, RegistryAssumption DEF Core, OwnInv, CallInv, CallOK
  <1>c. pc[p] # "claim" => i \in SlotIds /\ pc[p] \in OwnPcs
     BY <1>a, FieldFacts DEF AddPcs, SlotPcs, OwnPcs, WritePcs, HeldPcs
  <1>d. "claim" \notin OwnPcs \cup {"idle", "dead"} /\ "c_hw" \notin OwnPcs \cup {"idle", "dead"}
     BY DEF OwnPcs, WritePcs, HeldPcs, TearPcs
  <1>1. CASE Claim(p)
    <2>0. pc[p] = "claim" /\ UNCHANGED <<seq, pid, body, header, files, handle, committed>>
       BY <1>1 DEF Claim
    <2>1. CASE /\ state[i] = "EMPTY" /\ (ReuseInWindow \/ ~InWindow(i))
               /\ state' = [state EXCEPT ![i] = "RESERVED"] /\ Goto(p, "w_begin") /\ UNCHANGED loc
      <3>1. i \in SlotIds
         BY <1>1, <1>b, RegistryAssumption DEF Claim, SlotIds
      <3> QED BY <2>0, <2>1, <3>1, ClaimSafe DEF Goto
    <2>2. CASE Set(p, [l EXCEPT !.i = i + 1]) /\ UNCHANGED <<state, pc>>
      <3> DEFINE r == [l EXCEPT !.i = i + 1]
      <3>1. r.op = l.op /\ r.ent = l.ent
         BY <1>b DEF Locals
      <3>2. pc' = [pc EXCEPT ![p] = "claim"] /\ loc' = [loc EXCEPT ![p] = r] /\ UNCHANGED slots
         BY <2>0, <2>2 DEF Set, slots, IInv, TypeOK
      <3> HIDE DEF r
      <3> QED BY <1>b, <1>d, <2>0, <3>1, <3>2, BeginSafe, SameGeneration DEF handle
    <2> QED BY <1>1, <2>1, <2>2 DEF Claim
  <1>2. CASE ClaimFull(p)
    <2>0. pc[p] = "claim" /\ UNCHANGED <<slots, header, index, committed>>
       BY <1>2 DEF ClaimFull
    <2>1. CASE Set(p, [l EXCEPT !.pass = 2, !.i = 0]) /\ Goto(p, "c_hw") /\ UNCHANGED <<files, stage>>
      <3> DEFINE r == [l EXCEPT !.pass = 2, !.i = 0]
      <3>1. r.op = l.op /\ r.ent = l.ent
         BY <1>b DEF Locals
      <3>2. pc' = [pc EXCEPT ![p] = "c_hw"] /\ loc' = [loc EXCEPT ![p] = r]
         BY <2>1 DEF Goto, Set
      <3> HIDE DEF r
      <3> QED BY <1>b, <1>d, <2>0, <2>1, <3>1, <3>2, BeginSafe, SameGeneration
    <2>2. CASE /\ files' = files \ {l.ent} /\ stage' = [stage EXCEPT ![l.ent] = "gone"]
               /\ Return(p)
       BY <1>b, <1>d, <2>0, <2>2, DropSafe DEF header
    <2> QED BY <1>2, <2>1, <2>2 DEF ClaimFull
  <1>e. seq \in [SlotIds -> Nat] /\ pid \in [SlotIds -> Pids] /\ body \in [SlotIds -> Bodies]
        /\ pc \in [Procs -> Pcs]
     BY DEF IInv, TypeOK
  <1>3. CASE WriteBegin(p)
    <2>1. seq[i] % 2 = 0
      <3>1. ~OddAt(i)
         BY <1>3, <1>c, OwnPcsFacts DEF WriteBegin, OddAt, OddPcs, Core, ExclInv
      <3> QED BY <1>3, <1>c, <3>1 DEF WriteBegin, Core, SlotInv, SlotOK
    <2>2. /\ seq' = [seq EXCEPT ![i] = @ + 1] /\ pc' = [pc EXCEPT ![p] = "w_pid"] /\ loc' = loc
          /\ UNCHANGED <<state, pid, body, header, files, handle, committed>>
       BY <1>3 DEF WriteBegin, Goto
    <2>3. OwnOK(p, pc[p], loc[p])'
      <3>1. seq'[i] % 2 = 1 /\ state[i] = "RESERVED"
         BY <1>3, <1>b, <1>c, <1>e, <2>1, <2>2 DEF WriteBegin, OwnOK, WritePcs
      <3> QED BY <1>e, <2>2, <3>1 DEF OwnOK, WritePcs, HeldPcs, TearPcs
    <2> QED BY <1>3, <2>2, <2>3, SeqSafe DEF WriteBegin, WritePcs, TearPcs, OddPcs
  <1>4. CASE WritePid(p)
    <2>1. /\ pid' = [pid EXCEPT ![i] = p] /\ pc' = [pc EXCEPT ![p] = "w_body"] /\ loc' = loc
          /\ UNCHANGED <<state, seq, body, header, files, handle, committed>>
       BY <1>4 DEF WritePid, Goto
    <2>2. OwnOK(p, pc[p], loc[p])'
       BY <1>4, <1>b, <1>c, <1>e, <2>1 DEF WritePid, OwnOK, WritePcs, HeldPcs, TearPcs, OddPcs
    <2> QED BY <1>4, <1>e, <2>1, <2>2, PayloadSafe DEF WritePid, WritePcs, TearPcs, OddPcs
  <1>5. CASE WriteBody(p)
    <2>1. /\ body' = [body EXCEPT ![i] = l.ent] /\ pc' = [pc EXCEPT ![p] = "w_end"] /\ loc' = loc
          /\ UNCHANGED <<state, seq, pid, header, files, handle, committed>>
       BY <1>5 DEF WriteBody, Goto
    <2>2. OwnOK(p, pc[p], loc[p])'
       BY <1>5, <1>b, <1>c, <1>e, <2>1 DEF WriteBody, OwnOK, WritePcs, HeldPcs, TearPcs, OddPcs
    <2> QED BY <1>5, <1>e, <2>1, <2>2, PayloadSafe DEF WriteBody, WritePcs, TearPcs, OddPcs
  <1>6. CASE WriteEnd(p)
    <2>1. /\ seq' = [seq EXCEPT ![i] = @ + 1] /\ pc' = [pc EXCEPT ![p] = "publish"] /\ loc' = loc
          /\ UNCHANGED <<state, pid, body, header, files, handle, committed>>
       BY <1>6 DEF WriteEnd, Goto
    <2>2. OwnOK(p, pc[p], loc[p])'
       BY <1>6, <1>b, <1>e, <2>1 DEF WriteEnd, OwnOK, WritePcs, HeldPcs, TearPcs, OddPcs
    <2> QED BY <1>6, <2>1, <2>2, SeqSafe DEF WriteEnd, WritePcs, TearPcs, OddPcs
  <1>7. CASE Publish(p)
     BY <1>7, PublishSafe
  <1>8. CASE Widen(p)
    <2>1. /\ pc[p] = "widen" /\ pc' = [pc EXCEPT ![p] = "a_bump"] /\ loc' = [loc EXCEPT ![p] = l]
          /\ UNCHANGED <<slots, generation, files, stage, index, committed>>
       BY <1>8 DEF Widen, Goto, handle, IInv, TypeOK
    <2>2. Same(p, "a_bump", l)
       BY <2>1 DEF Same, OwnPcs, WritePcs, HeldPcs, TearPcs, OddPcs
    <2>3. OwnOK(p, "a_bump", l)
       BY <1>b, <2>1 DEF OwnOK, WritePcs, HeldPcs, TearPcs, OddPcs
    <2>4. CallOK(p, "a_bump", l) /\ ReadOK("a_bump", l) /\ CoverOK("a_bump", l)
       BY <1>b, <2>1 DEF CallOK, ReadOK, CoverOK
    <2>5. generation <= generation'
       BY <2>1 DEF IInv, TypeOK
    <2> QED BY <2>1, <2>2, <2>3, <2>4, <2>5, MoveSafe DEF Safe
  <1>9. CASE AddBump(p)
     BY <1>9, AnnounceSafe
  <1> QED BY <1>1, <1>2, <1>3, <1>4, <1>5, <1>6, <1>7, <1>8, <1>9 DEF AddStep

(* A step of registry_remove keeps Core: what it takes is its own.          *)
LEMMA RemoveSafe ==
  ASSUME IInv, IInv', Core, NEW p \in Procs, RemoveStep(p)
  PROVE  Core'
  <1> DEFINE l == loc[p]
             i == loc[p].i
  <1>a. pc[p] \in {"d_load", "d_cas", "d_bump", "d_close"}
     BY DEF RemoveStep, RemoveLoad, RemoveCas, RemoveBump, RemoveClose
  <1>b. /\ l \in Locals /\ l.op = "remove" /\ l.ent \in Entries /\ OwnerOf[l.ent] = p
        /\ stage[l.ent] = "removing" /\ CallOK(p, pc[p], l)
     BY <1>a, LocalFacts DEF Core, CallInv, CallOK
  <1>c. pc[p] \notin OwnPcs \cup {"idle", "dead"}
     BY <1>a DEF OwnPcs, WritePcs, HeldPcs, TearPcs
  <1>1. CASE RemoveLoad(p)
    <2> DEFINE r == [l EXCEPT !.st = state[i]]
               c == IF state[i] = "EMPTY" THEN "d_close" ELSE "d_cas"
    <2>1. r.op = l.op /\ r.ent = l.ent /\ r.i = i
       BY <1>b DEF Locals
    <2>2. /\ pc[p] = "d_load" /\ pc' = [pc EXCEPT ![p] = c] /\ loc' = [loc EXCEPT ![p] = r]
          /\ UNCHANGED <<slots, header, files, handle, committed>>
       BY <1>1 DEF RemoveLoad, Goto, Set
    <2>3. c \in {"d_close", "d_cas"}
       OBVIOUS
    <2> HIDE DEF r, c
    <2>4. CallOK(p, c, r) /\ ReadOK(c, r) /\ CoverOK(c, r)
       BY <1>b, <2>1, <2>2, <2>3 DEF CallOK, ReadOK, CoverOK
    <2>5. c \notin OwnPcs /\ c # "dead"
       BY <2>3 DEF OwnPcs, WritePcs, HeldPcs, TearPcs
    <2> QED BY <1>c, <2>2, <2>4, <2>5, PlainSafe, SameGeneration DEF handle
  <1>2. CASE RemoveCas(p)
    <2>0. /\ pc[p] = "d_cas" /\ loc' = loc
          /\ UNCHANGED <<seq, pid, body, header, files, handle, committed>>
       BY <1>2 DEF RemoveCas
    <2>1. CASE state' = [state EXCEPT ![i] = "EMPTY"] /\ Goto(p, "t_begin")
      <3>1. Held(l.ent, i)
         BY <1>b, <2>0 DEF CallOK
      <3>2. state[i] \in Types /\ Doomed(body[i])
         BY <1>b, <3>1, RegistryAssumption DEF Held, Doomed
      <3>3. ASSUME NEW q \in Procs, q # p, pc[q] \in {"d_load", "d_cas"}
            PROVE  body[i] # loc[q].ent
         BY <1>b, <3>1, <3>3 DEF Held, Core, CallInv, CallOK
      <3> QED BY <2>0, <2>1, <3>2, <3>3, EmptySafe DEF Goto
    <2>2. CASE Goto(p, "d_close") /\ UNCHANGED state
      <3>1. pc' = [pc EXCEPT ![p] = "d_close"] /\ loc' = [loc EXCEPT ![p] = l] /\ UNCHANGED slots
         BY <2>0, <2>2 DEF Goto, slots, IInv, TypeOK
      <3> QED BY <1>b, <1>c, <2>0, <3>1, BeginSafe, SameGeneration DEF handle
    <2> QED BY <1>2, <2>1, <2>2 DEF RemoveCas
  <1>3. CASE RemoveBump(p)
    <2> DEFINE r == [NoLocals EXCEPT !.op = "remove", !.ent = l.ent]
               c == IF l.st = "DOORBELL" THEN "d_close" ELSE "ring_hw"
    <2>1. r.op = "remove" /\ r.ent = l.ent
       BY DEF NoLocals
    <2>2. /\ pc' = [pc EXCEPT ![p] = c] /\ loc' = [loc EXCEPT ![p] = r]
          /\ UNCHANGED <<slots, files, handle, committed>>
       BY <1>3 DEF RemoveBump, Goto, Set
    <2>3. c \in {"claim", "c_hw", "ring_hw", "d_close"}
       OBVIOUS
    <2>4. generation <= generation'
       BY <1>3 DEF RemoveBump, IInv, TypeOK
    <2> HIDE DEF r, c
    <2> QED BY <1>b, <1>c, <2>1, <2>2, <2>3, <2>4, BeginSafe DEF handle
  <1>4. CASE RemoveClose(p)
     BY <1>4, <1>b, <1>c, DropSafe DEF RemoveClose, header
  <1> QED BY <1>1, <1>2, <1>3, <1>4 DEF RemoveStep

(* A step of teardown_slot keeps Core: the slot is its winner's alone.      *)
LEMMA TearSafe ==
  ASSUME IInv, IInv', Core, NEW p \in Procs, TearStep(p)
  PROVE  Core'
  <1> DEFINE l == loc[p]
             i == loc[p].i
  <1>a. pc[p] \in TearPcs
     BY DEF TearStep, TearBegin, TearCopyPath, TearPid, TearBody, TearEnd, TearUnlink, TearPcs
  <1>b. /\ l \in Locals /\ OwnOK(p, pc[p], l) /\ CallOK(p, pc[p], l) /\ i \in SlotIds
        /\ pc[p] \in OwnPcs /\ l.op # "query"
     BY <1>a, LocalFacts, FieldFacts, OwnPcsFacts
        DEF Core, OwnInv, CallInv, CallOK, TearPcs, SnapPcs
  <1>e. seq \in [SlotIds -> Nat] /\ pid \in [SlotIds -> Pids] /\ body \in [SlotIds -> Bodies]
        /\ pc \in [Procs -> Pcs]
     BY DEF IInv, TypeOK
  <1>1. CASE TearBegin(p)
    <2>1. seq[i] % 2 = 0
      <3>1. ~OddAt(i)
         BY <1>1, <1>b, OwnPcsFacts DEF TearBegin, OddAt, OddPcs, Core, ExclInv
      <3> QED BY <1>b, <3>1 DEF Core, SlotInv, SlotOK
    <2>2. /\ pc[p] = "t_begin" /\ seq' = [seq EXCEPT ![i] = @ + 1]
          /\ pc' = [pc EXCEPT ![p] = "t_copy"] /\ loc' = loc
          /\ UNCHANGED <<state, pid, body, header, files, handle, committed>>
       BY <1>1 DEF TearBegin, Goto
    <2>3. OwnOK(p, pc[p], loc[p])'
      <3>1. seq'[i] % 2 = 1 /\ state[i] = "EMPTY" /\ Doomed(body[i]) /\ pc'[p] = "t_copy"
         BY <1>b, <1>e, <2>1, <2>2 DEF OwnOK, TearPcs
      <3>2. Doomed(body[i])'
         BY <1>e, <2>2, <3>1 DEF Doomed, Alive, handle
      <3> QED BY <2>2, <3>1, <3>2 DEF OwnOK, WritePcs, HeldPcs
    <2> QED BY <2>2, <2>3, SeqSafe DEF WritePcs, TearPcs, OddPcs
  <1>2. CASE TearCopyPath(p)
    <2> DEFINE r == [l EXCEPT !.body = body[i]]
    <2>1. r.op = l.op /\ r.ent = l.ent /\ r.i = i /\ r.body = body[i]
       BY <1>b DEF Locals
    <2>2. /\ pc[p] = "t_copy" /\ pc' = [pc EXCEPT ![p] = "t_pid"] /\ loc' = [loc EXCEPT ![p] = r]
          /\ UNCHANGED <<slots, header, files, handle, committed>>
       BY <1>2 DEF TearCopyPath, Goto, Set
    <2> HIDE DEF r
    <2>3. Same(p, "t_pid", r)
       BY <2>1, <2>2 DEF Same, OwnPcs, WritePcs, HeldPcs, TearPcs, OddPcs
    <2>4. OwnOK(p, "t_pid", r)
       BY <1>b, <2>1, <2>2 DEF OwnOK, WritePcs, HeldPcs, TearPcs, OddPcs
    <2>5. CallOK(p, "t_pid", r) /\ ReadOK("t_pid", r) /\ CoverOK("t_pid", r)
       BY <1>b, <2>1, <2>2 DEF CallOK, ReadOK, CoverOK
    <2> QED BY <2>2, <2>3, <2>4, <2>5, MoveSafe, SameGeneration DEF Safe, handle
  <1>3. CASE TearPid(p)
    <2>1. /\ pc[p] = "t_pid" /\ pid' = [pid EXCEPT ![i] = NoPid]
          /\ pc' = [pc EXCEPT ![p] = "t_body"] /\ loc' = loc
          /\ UNCHANGED <<state, seq, body, header, files, handle, committed>>
       BY <1>3 DEF TearPid, Goto
    <2>2. OwnOK(p, pc[p], loc[p])'
      <3>1. seq[i] % 2 = 1 /\ state[i] = "EMPTY" /\ Doomed(l.body) /\ pc'[p] = "t_body"
         BY <1>b, <1>e, <2>1 DEF OwnOK, TearPcs, OddPcs
      <3>2. Doomed(l.body)'
         BY <1>e, <2>1, <3>1 DEF Doomed, Alive, handle
      <3> QED BY <2>1, <3>1, <3>2 DEF OwnOK, WritePcs, HeldPcs
    <2> QED BY <1>e, <2>1, <2>2, PayloadSafe DEF WritePcs, TearPcs, OddPcs
  <1>4. CASE TearBody(p)
    <2>1. /\ pc[p] = "t_body" /\ body' = [body EXCEPT ![i] = NoEntry]
          /\ pc' = [pc EXCEPT ![p] = "t_end"] /\ loc' = loc
          /\ UNCHANGED <<state, seq, pid, header, files, handle, committed>>
       BY <1>4 DEF TearBody, Goto
    <2>2. OwnOK(p, pc[p], loc[p])'
      <3>1. seq[i] % 2 = 1 /\ state[i] = "EMPTY" /\ Doomed(l.body) /\ pc'[p] = "t_end"
            /\ body'[i] = NoEntry
         BY <1>b, <1>e, <2>1 DEF OwnOK, TearPcs, OddPcs
      <3>2. Doomed(l.body)'
         BY <1>e, <2>1, <3>1 DEF Doomed, Alive, handle
      <3> QED BY <2>1, <3>1, <3>2 DEF OwnOK, WritePcs, HeldPcs
    <2> QED BY <1>e, <2>1, <2>2, PayloadSafe DEF WritePcs, TearPcs, OddPcs
  <1>5. CASE TearEnd(p)
    <2>1. /\ pc[p] = "t_end" /\ seq' = [seq EXCEPT ![i] = @ + 1]
          /\ pc' = [pc EXCEPT ![p] = "t_unlink"] /\ loc' = loc
          /\ UNCHANGED <<state, pid, body, header, files, handle, committed>>
       BY <1>5 DEF TearEnd, Goto
    <2>2. OwnOK(p, pc[p], loc[p])'
      <3>1. state[i] = "EMPTY" /\ Doomed(l.body) /\ pc'[p] = "t_unlink" /\ body[i] = NoEntry
         BY <1>b, <1>e, <2>1 DEF OwnOK, TearPcs
      <3>2. Doomed(l.body)'
         BY <1>e, <2>1, <3>1 DEF Doomed, Alive, handle
      <3> QED BY <2>1, <3>1, <3>2 DEF OwnOK, WritePcs, HeldPcs, OddPcs
    <2> QED BY <2>1, <2>2, SeqSafe DEF WritePcs, TearPcs, OddPcs
  <1>6. CASE TearUnlink(p)
     BY <1>6, UnlinkSafe
  <1> QED BY <1>1, <1>2, <1>3, <1>4, <1>5, <1>6 DEF TearStep

(* The beginning of a call keeps Core.                                      *)
LEMMA StartSafe ==
  ASSUME IInv, IInv', Core, NEW p \in Procs,
         \/ \E e \in Entries : StartAdd(p, e) \/ StartRemove(p, e)
         \/ StartSweep(p) \/ StartRefresh(p)
  PROVE  Core'
  <1>0. pc[p] = "idle" /\ pc[p] \notin OwnPcs \cup {"dead"}
     BY OwnPcsFacts DEF StartAdd, StartRemove, StartSweep, StartRefresh
  <1>1. ASSUME NEW e \in Entries, StartAdd(p, e) PROVE Core'
    <2> DEFINE r == [NoLocals EXCEPT !.op = "add", !.ent = e]
    <2>1. r.op = "add" /\ r.ent = e
       BY DEF NoLocals
    <2>2. /\ pc' = [pc EXCEPT ![p] = "claim"] /\ loc' = [loc EXCEPT ![p] = r]
          /\ OwnerOf[e] = p /\ stage[e] = "new" /\ files' = files \cup {e}
          /\ stage' = [stage EXCEPT ![e] = "adding"]
          /\ UNCHANGED <<slots, generation, index, committed>>
       BY <1>1 DEF StartAdd, Goto, Set, header
    <2> HIDE DEF r
    <2>3. /\ pc'[p] = "claim" /\ loc'[p] = r
          /\ \A q \in Procs : q # p => pc'[q] = pc[q] /\ loc'[q] = loc[q]
       BY <2>2 DEF IInv, TypeOK
    <2>4. CallOK(p, pc[p], loc[p])'
       BY <2>1, <2>2, <2>3 DEF CallOK, IInv, TypeOK
    <2> QED BY <1>0, <2>1, <2>2, <2>3, <2>4, StageSafe
  <1>2. ASSUME NEW e \in Entries, StartRemove(p, e) PROVE Core'
    <2> DEFINE r == [NoLocals EXCEPT !.op = "remove", !.ent = e, !.i = index[e]]
    <2>1. r.op = "remove" /\ r.ent = e /\ r.i = index[e]
       BY DEF NoLocals
    <2>2. /\ pc' = [pc EXCEPT ![p] = "d_load"] /\ loc' = [loc EXCEPT ![p] = r]
          /\ OwnerOf[e] = p /\ stage[e] = "live" /\ files' = files
          /\ stage' = [stage EXCEPT ![e] = "removing"]
          /\ UNCHANGED <<slots, generation, index, committed>>
       BY <1>2 DEF StartRemove, Goto, Set, header
    <2> HIDE DEF r
    <2>3. /\ pc'[p] = "d_load" /\ loc'[p] = r
          /\ \A q \in Procs : q # p => pc'[q] = pc[q] /\ loc'[q] = loc[q]
       BY <2>2 DEF IInv, TypeOK
    <2>4. Held(e, index[e])
       BY <1>0, <2>2, LiveSlot DEF Alive
    <2>5. CallOK(p, pc[p], loc[p])'
       BY <2>1, <2>2, <2>3, <2>4 DEF CallOK, Held, slots, IInv, TypeOK
    <2> QED BY <1>0, <2>1, <2>2, <2>3, <2>5, StageSafe
  <1>3. CASE StartSweep(p)
    <2> DEFINE r == [NoLocals EXCEPT !.op = "sweep"]
    <2>1. r.op = "sweep"
       BY DEF NoLocals
    <2>2. /\ pc' = [pc EXCEPT ![p] = "c_hw"] /\ loc' = [loc EXCEPT ![p] = r]
          /\ UNCHANGED <<slots, header, files, handle, committed>>
       BY <1>3 DEF StartSweep, Goto, Set
    <2> HIDE DEF r
    <2> QED BY <1>0, <2>1, <2>2, BeginSafe, SameGeneration DEF handle
  <1>4. CASE StartRefresh(p)
    <2> DEFINE r == [NoLocals EXCEPT !.op = "query", !.gen = generation]
    <2>1. r.op = "query" /\ r.gen = generation /\ r.i = 0
       BY DEF NoLocals
    <2>2. /\ pc' = [pc EXCEPT ![p] = "q_hw"] /\ loc' = [loc EXCEPT ![p] = r]
          /\ UNCHANGED <<slots, header, files, handle, committed>>
       BY <1>4 DEF StartRefresh, Goto, Set
    <2> HIDE DEF r
    <2>3. generation \in Nat /\ "q_hw" \notin OwnPcs
       BY DEF IInv, TypeOK, OwnPcs, WritePcs, HeldPcs, TearPcs
    <2>4. CallOK(p, "q_hw", r) /\ ReadOK("q_hw", r) /\ CoverOK("q_hw", r)
       BY <2>1, <2>3 DEF CallOK, ReadOK, CoverOK
    <2> QED BY <1>0, <2>2, <2>3, <2>4, PlainSafe, SameGeneration DEF handle
  <1> QED BY <1>1, <1>2, <1>3, <1>4

-----------------------------------------------------------------------------
(* What the steps do outside the slots.  A step of p leaves the pcs of the  *)
(* others alone; only RingSend sends, only QueryEnd stores an answer; an    *)
(* entry becomes live with a generation that nobody has seen yet.           *)
Onward(p) ==
  /\ pc[p] # "dead" /\ \A q \in Procs : q # p => pc'[q] = pc[q]
  /\ generation' \in Nat /\ generation <= generation'
  /\ \A e \in Entries : stage'[e] = "live" =>
       \/ stage[e] = "live" /\ committed'[e] = committed[e]
       \/ committed'[e] > generation
Silent == UNCHANGED <<rung, caches>>

(* The calls that change no handle.                                         *)
LEMMA PlainOnward ==
  ASSUME IInv, NEW p \in Procs, NEW c, pc[p] # "dead", Goto(p, c),
         UNCHANGED <<handle, committed>>, UNCHANGED header \/ generation' = generation + 1
  PROVE  Onward(p)
  <1>1. \A q \in Procs : q # p => pc'[q] = pc[q]
     BY DEF IInv, TypeOK, Goto
  <1>2. generation \in Nat /\ generation' \in Nat /\ generation <= generation'
     BY DEF IInv, TypeOK, header
  <1>3. stage' = stage /\ committed' = committed
     BY DEF handle
  <1> QED BY <1>1, <1>2, <1>3 DEF Onward

(* The steps of a sweep and the attempts at a snapshot.                     *)
LEMMA SweepOnward ==
  ASSUME IInv, NEW p \in Procs, SnapStep(p) \/ SweepStep(p)
  PROVE  Onward(p) /\ Silent
  <1>1. pc[p] \in SnapPcs \cup {"c_hw", "c_scan", "c_vet", "c_seq", "c_cas", "c_bump"}
     BY DEF SnapStep, SweepStep, SnapSeq, SnapState, SnapPid, SnapBody, SnapCheck, SweepLimit,
        SweepSlot, SweepVet, SweepSeq, SweepCas, SweepBump, SweepEnd, SnapPcs
  <1>2. UNCHANGED <<handle, committed>> /\ Silent
     BY DEF SnapStep, SweepStep, SnapSeq, SnapState, SnapPid, SnapBody, SnapCheck, SweepLimit,
        SweepSlot, SweepVet, SweepSeq, SweepCas, SweepBump, SweepEnd, Silent
  <1>3. UNCHANGED header \/ generation' = generation + 1
     BY DEF SnapStep, SweepStep, SnapSeq, SnapState, SnapPid, SnapBody, SnapCheck, SweepLimit,
        SweepSlot, SweepVet, SweepSeq, SweepCas, SweepBump, SweepEnd
  <1>4. \E c : Goto(p, c)
    <2>1. CASE SnapStep(p)
       BY <2>1 DEF SnapStep, SnapSeq, SnapState, SnapPid, SnapBody, SnapCheck, Retry, SkipSlot
    <2>2. CASE SweepStep(p)
       BY <2>2 DEF SweepStep, SweepLimit, SweepSlot, SweepVet, SweepSeq, SweepCas, SweepBump,
          SweepEnd, SkipSlot, SweepReturn, Return
    <2> QED BY <2>1, <2>2
  <1>5. pc[p] # "dead"
     BY <1>1 DEF SnapPcs
  <1> QED BY <1>2, <1>3, <1>4, <1>5, PlainOnward

(* The steps of ring_doorbells.                                             *)
LEMMA RingOnward ==
  ASSUME IInv, NEW p \in Procs, RingStep(p)
  PROVE  Onward(p) /\ UNCHANGED caches /\ (UNCHANGED rung \/ RingSend(p))
  <1>1. pc[p] # "dead"
     BY DEF RingStep, RingLimit, RingSlot, RingSeq, RingState, RingCopy, RingSend, RingEnd
  <1>2. UNCHANGED <<handle, committed>> /\ UNCHANGED header /\ UNCHANGED caches
     BY DEF RingStep, RingLimit, RingSlot, RingSeq, RingState, RingCopy, RingSend, RingEnd
  <1>3. UNCHANGED rung \/ RingSend(p)
     BY DEF RingStep, RingLimit, RingSlot, RingSeq, RingState, RingCopy, RingEnd
  <1>4. \E c : Goto(p, c)
     BY DEF RingStep, RingLimit, RingSlot, RingSeq, RingState, RingCopy, RingSend, RingEnd,
        RingSkip, SweepReturn, Return
  <1> QED BY <1>1, <1>2, <1>3, <1>4, PlainOnward

(* The steps of a query.                                                    *)
LEMMA QueryOnward ==
  ASSUME IInv, NEW p \in Procs, QueryStep(p)
  PROVE  Onward(p) /\ UNCHANGED rung /\ (UNCHANGED caches \/ QueryEnd(p))
  <1>1. pc[p] # "dead"
     BY DEF QueryStep, QueryLimit, QuerySlot, QueryTake, QueryEnd
  <1>2. UNCHANGED <<handle, committed>> /\ UNCHANGED header /\ UNCHANGED rung
     BY DEF QueryStep, QueryLimit, QuerySlot, QueryTake, QueryEnd
  <1>3. UNCHANGED caches \/ QueryEnd(p)
     BY DEF QueryStep, QueryLimit, QuerySlot, QueryTake
  <1>4. \E c : Goto(p, c)
     BY DEF QueryStep, QueryLimit, QuerySlot, QueryTake, QueryEnd, SkipSlot, Return
  <1> QED BY <1>1, <1>2, <1>3, <1>4, PlainOnward

(* The steps of a teardown.                                                 *)
LEMMA TearOnward ==
  ASSUME IInv, NEW p \in Procs, TearStep(p)
  PROVE  Onward(p) /\ Silent
  <1>1. pc[p] # "dead"
     BY DEF TearStep, TearBegin, TearCopyPath, TearPid, TearBody, TearEnd, TearUnlink
  <1>2. UNCHANGED <<handle, committed>> /\ UNCHANGED header /\ Silent
     BY DEF TearStep, TearBegin, TearCopyPath, TearPid, TearBody, TearEnd, TearUnlink, Silent
  <1>4. \E c : Goto(p, c)
     BY DEF TearStep, TearBegin, TearCopyPath, TearPid, TearBody, TearEnd, TearUnlink
  <1> QED BY <1>1, <1>2, <1>4, PlainOnward

(* The steps of registry_remove: the entry is no longer live.               *)
LEMMA RemoveOnward ==
  ASSUME IInv, NEW p \in Procs, RemoveStep(p)
  PROVE  Onward(p) /\ Silent
  <1>1. pc[p] # "dead" /\ Silent
     BY DEF RemoveStep, RemoveLoad, RemoveCas, RemoveBump, RemoveClose, Silent
  <1>2. CASE RemoveLoad(p) \/ RemoveCas(p) \/ RemoveBump(p)
    <2>1. UNCHANGED <<handle, committed>> /\ (UNCHANGED header \/ generation' = generation + 1)
       BY <1>2 DEF RemoveLoad, RemoveCas, RemoveBump
    <2>2. \E c : Goto(p, c)
       BY <1>2 DEF RemoveLoad, RemoveCas, RemoveBump
    <2> QED BY <1>1, <2>1, <2>2, PlainOnward
  <1>3. CASE RemoveClose(p)
    <2>1. /\ \A q \in Procs : q # p => pc'[q] = pc[q]
          /\ generation' = generation /\ generation \in Nat /\ committed' = committed
       BY <1>3 DEF RemoveClose, Return, Goto, IInv, TypeOK, header
    <2>2. \A e \in Entries : stage'[e] = "live" => stage[e] = "live"
       BY <1>3 DEF RemoveClose, IInv, TypeOK
    <2> QED BY <1>1, <2>1, <2>2 DEF Onward
  <1> QED BY <1>2, <1>3 DEF RemoveStep

(* The steps of registry_add: it announces its entry with the generation it *)
(* has just made.                                                           *)
LEMMA AddOnward ==
  ASSUME IInv, NEW p \in Procs, AddStep(p)
  PROVE  Onward(p) /\ Silent
  <1>1. pc[p] # "dead" /\ Silent
     BY DEF AddStep, Claim, ClaimFull, WriteBegin, WritePid, WriteBody, WriteEnd, Publish, Widen,
        AddBump, Silent
  <1>2. CASE WriteBegin(p) \/ WritePid(p) \/ WriteBody(p) \/ WriteEnd(p) \/ Publish(p)
    <2>1. UNCHANGED <<handle, committed>> /\ UNCHANGED header
       BY <1>2 DEF WriteBegin, WritePid, WriteBody, WriteEnd, Publish
    <2>2. \E c : Goto(p, c)
       BY <1>2 DEF WriteBegin, WritePid, WriteBody, WriteEnd, Publish
    <2> QED BY <1>1, <2>1, <2>2, PlainOnward
  <1>3. CASE Claim(p) \/ Widen(p)
    <2>1. /\ \A q \in Procs : q # p => pc'[q] = pc[q]
          /\ generation' = generation /\ generation \in Nat /\ stage' = stage
          /\ committed' = committed
       BY <1>3 DEF Claim, Widen, Goto, IInv, TypeOK, header, handle
    <2> QED BY <1>1, <2>1 DEF Onward
  <1>4. CASE ClaimFull(p)
    <2>1. /\ \A q \in Procs : q # p => pc'[q] = pc[q]
          /\ generation' = generation /\ generation \in Nat /\ committed' = committed
       BY <1>4 DEF ClaimFull, Return, Goto, IInv, TypeOK, header
    <2>2. \A e \in Entries : stage'[e] = "live" => stage[e] = "live"
       BY <1>4 DEF ClaimFull, IInv, TypeOK
    <2> QED BY <1>1, <2>1, <2>2 DEF Onward
  <1>5. CASE AddBump(p)
    <2>1. /\ \A q \in Procs : q # p => pc'[q] = pc[q]
          /\ generation' = generation + 1 /\ generation \in Nat
       BY <1>5 DEF AddBump, Return, Goto, IInv, TypeOK
    <2>2. \A e \in Entries : stage'[e] = "live" =>
             (stage[e] = "live" /\ committed'[e] = committed[e]) \/ committed'[e] = generation + 1
       BY <1>5 DEF AddBump, IInv, TypeOK
    <2> QED BY <1>1, <2>1, <2>2 DEF Onward
  <1> QED BY <1>2, <1>3, <1>4, <1>5 DEF AddStep

(* The beginning of a call, and a crash.                                    *)
LEMMA StartOnward ==
  ASSUME IInv, NEW p \in Procs,
         \/ \E e \in Entries : StartAdd(p, e) \/ StartRemove(p, e)
         \/ StartSweep(p) \/ StartRefresh(p) \/ Crash(p)
  PROVE  Onward(p) /\ Silent
  <1>1. ASSUME NEW e \in Entries, StartAdd(p, e) \/ StartRemove(p, e) PROVE Onward(p) /\ Silent
    <2>1. /\ pc[p] # "dead" /\ \A q \in Procs : q # p => pc'[q] = pc[q]
          /\ generation' = generation /\ generation \in Nat /\ committed' = committed
       BY <1>1 DEF StartAdd, StartRemove, Goto, IInv, TypeOK, header
    <2>2. \A f \in Entries : stage'[f] = "live" => stage[f] = "live"
       BY <1>1 DEF StartAdd, StartRemove, IInv, TypeOK
    <2>3. Silent
       BY <1>1 DEF StartAdd, StartRemove, Silent
    <2> QED BY <2>1, <2>2, <2>3 DEF Onward
  <1>2. CASE StartSweep(p) \/ StartRefresh(p) \/ Crash(p)
    <2>1. /\ pc[p] # "dead" /\ UNCHANGED <<handle, committed>> /\ UNCHANGED header /\ Silent
       BY <1>2 DEF StartSweep, StartRefresh, Crash, Silent
    <2>2. \E c : Goto(p, c)
       BY <1>2 DEF StartSweep, StartRefresh, Crash
    <2> QED BY <2>1, <2>2, PlainOnward
  <1> QED BY <1>1, <1>2

(* A cache stays complete while nobody stores an answer: what becomes live  *)
(* is younger than every label.                                             *)
LEMMA CacheStays ==
  ASSUME IInv, IInv', CacheInv, NEW p \in Procs, Onward(p), UNCHANGED caches
  PROVE  CacheInv'
  <1>1. cache' = cache /\ cached_generation' = cached_generation
     BY DEF caches
  <1>2. \A q \in Procs : cached_generation[q] \in Nat /\ cached_generation[q] <= generation
     BY DEF IInv, TypeOK, CacheInv
  <1>3. generation \in Nat /\ generation' \in Nat
     BY DEF IInv, TypeOK
  <1>4. \A e \in Entries : OwnerOf[e] \in Alive' => OwnerOf[e] \in Alive
     BY DEF Onward, Alive
  <1>5. ASSUME NEW q \in Procs, NEW e \in Entries, TypeOf[e] = "DATA", stage'[e] = "live",
               OwnerOf[e] \in Alive', committed'[e] <= cached_generation[q]
        PROVE  e \in cache[q]
    <2>1. committed'[e] \in {Uncommitted} \cup Nat
       BY DEF IInv, TypeOK
    <2>2. ~(committed'[e] > generation)
       BY <1>2, <1>3, <1>5, <2>1 DEF Uncommitted
    <2>3. stage[e] = "live" /\ committed'[e] = committed[e]
       BY <1>5, <2>2 DEF Onward
    <2> QED BY <1>4, <1>5, <2>3 DEF CacheInv, CacheFull
  <1>6. \A q \in Procs : cached_generation[q] <= generation'
     BY <1>2, <1>3 DEF Onward
  <1> QED BY <1>1, <1>5, <1>6 DEF CacheInv, CacheFull

(* The answer that QueryEnd stores holds what its label announces: the scan *)
(* has passed every slot below its limit.                                   *)
LEMMA CacheStored ==
  ASSUME IInv, IInv', Core, CacheInv, NEW p \in Procs, QueryEnd(p)
  PROVE  CacheInv'
  <1>1. /\ pc[p] = "q_scan" /\ loc[p].i >= loc[p].lim /\ UNCHANGED <<stage, index, committed>>
        /\ generation' = generation
     BY DEF QueryEnd, handle, header
  <1>2. /\ cache'[p] = loc[p].acc /\ cached_generation'[p] = loc[p].gen
        /\ \A q \in Procs : q # p => cache'[q] = cache[q]
                                  /\ cached_generation'[q] = cached_generation[q]
     BY DEF QueryEnd, IInv, TypeOK
  <1>3. Alive' = Alive
     BY <1>1 DEF QueryEnd, Return, Goto, Alive, IInv, TypeOK
  <1>4. loc[p].op = "query"
     BY <1>1 DEF Core, CallInv, CallOK
  <1>5. CoverOK("q_scan", loc[p])
     BY <1>1 DEF Core, CoverInv
  <1>6. ASSUME NEW e \in Entries, Wanted(e, loc[p].gen) PROVE e \in loc[p].acc
    <2>1. index[e] < loc[p].lim /\ (e \in loc[p].acc \/ loc[p].i <= index[e])
       BY <1>4, <1>5, <1>6 DEF CoverOK
    <2>2. index[e] \in {-1} \cup SlotIds /\ loc[p].i \in Nat /\ loc[p].lim \in Nat
       BY FieldFacts DEF IInv, TypeOK
    <2>3. index[e] \in Int
       BY <2>2, RegistryAssumption DEF SlotIds
    <2> QED BY <1>1, <2>1, <2>2, <2>3
  <1>7. loc[p].gen <= generation
     BY <1>4, <1>5 DEF CoverOK
  <1>8. CacheFull'
    <2> SUFFICES ASSUME NEW q \in Procs, NEW e \in Entries, TypeOf[e] = "DATA", stage[e] = "live",
                        OwnerOf[e] \in Alive, committed[e] <= cached_generation'[q]
                 PROVE  e \in cache'[q]
       BY <1>1, <1>3 DEF CacheFull
    <2>1. CASE q = p
       BY <2>1, <1>2, <1>6 DEF Wanted
    <2>2. CASE q # p
       BY <2>2, <1>2 DEF CacheInv, CacheFull
    <2> QED BY <2>1, <2>2
  <1>9. \A q \in Procs : cached_generation'[q] <= generation'
     BY <1>1, <1>2, <1>7 DEF CacheInv
  <1> QED BY <1>8, <1>9 DEF CacheInv

(* The registry starts empty.                                               *)
LEMMA InitSInv == Init => SInv
  <1> SUFFICES ASSUME Init PROVE SInv
     OBVIOUS
  <1>1. \A p \in Procs : pc[p] = "idle" /\ loc[p] = NoLocals
     BY DEF Init
  <1>2. \A i \in SlotIds : state[i] = "EMPTY" /\ body[i] = NoEntry /\ seq[i] % 2 = 0
     BY DEF Init
  <1>3. \A e \in Entries : stage[e] = "new" /\ committed[e] = -1
     BY DEF Init, Uncommitted
  <1>4. generation = 0
     BY DEF Init
  <1>5. NoLocals.op = "none"
     BY DEF NoLocals
  <1>6. ExclInv
     BY <1>1, OwnPcsFacts DEF ExclInv
  <1>7. OwnInv
     BY <1>1 DEF OwnInv, OwnOK, WritePcs, HeldPcs, TearPcs, OddPcs
  <1>8. CallInv
     BY <1>1, <1>5 DEF CallInv, CallOK
  <1>9. SlotInv
     BY <1>2 DEF SlotInv, SlotOK, Types
  <1>10. ReadInv
     BY <1>1 DEF ReadInv, ReadOK
  <1>11. LiveInv
     BY <1>3, <1>4 DEF LiveInv, LiveOK
  <1>12. CoverInv
     BY <1>1, <1>5 DEF CoverInv, CoverOK
  <1>13. CacheInv
     BY <1>3, <1>4 DEF CacheInv, CacheFull, Init
  <1>14. BellsOnly
     BY DEF Init, BellsOnly
  <1> QED BY <1>6, <1>7, <1>8, <1>9, <1>10, <1>11, <1>12, <1>13, <1>14 DEF SInv, Core

(* Every step of a process keeps Core, unless a sweep's CAS is overtaken.   *)
LEMMA CoreSafe ==
  ASSUME Quiet, IInv, IInv', Core, NEW p \in Procs, ~overtaken',
         \/ \E e \in Entries : StartAdd(p, e) \/ StartRemove(p, e)
         \/ StartSweep(p) \/ StartRefresh(p) \/ Step(p) \/ Crash(p)
  PROVE  Core'
  <1>1. CASE Step(p)
     BY <1>1, AddSafe, RemoveSafe, TearSafe, SnapSafe, SweepSafe, RingSafe, QuerySafe DEF Step
  <1> QED BY <1>1, StartSafe, CrashSafe

(* Every step of a process keeps the caches complete and the octets on the  *)
(* doorbells.                                                               *)
LEMMA RestSafe ==
  ASSUME IInv, IInv', SInv, NEW p \in Procs,
         \/ \E e \in Entries : StartAdd(p, e) \/ StartRemove(p, e)
         \/ StartSweep(p) \/ StartRefresh(p) \/ Step(p) \/ Crash(p)
  PROVE  CacheInv' /\ BellsOnly'
  <1>1. /\ Onward(p)
        /\ UNCHANGED caches \/ QueryEnd(p)
        /\ UNCHANGED rung \/ RingSend(p)
    <2>1. CASE Step(p)
       BY <2>1, AddOnward, RemoveOnward, TearOnward, SweepOnward, RingOnward, QueryOnward
          DEF Step, Silent
    <2> QED BY <2>1, StartOnward DEF Silent
  <1>2. CacheInv'
     BY <1>1, CacheStays, CacheStored DEF SInv
  <1>3. UNCHANGED rung => BellsOnly'
     BY DEF BellsOnly, SInv
  <1>4. BellsOnly'
     BY <1>1, <1>3, RingHits DEF SInv
  <1> QED BY <1>2, <1>4

(* Unless a sweep's CAS is overtaken, a step keeps SInv.                    *)
LEMMA NextSInv ==
  ASSUME Quiet, IInv, SInv, [Next]_vars, ~overtaken'
  PROVE  SInv'
  <1>0. IInv'
     BY NextIInv
  <1>1. CASE Next
    <2>1. PICK p \in Procs :
            \/ \E e \in Entries : StartAdd(p, e) \/ StartRemove(p, e)
            \/ StartSweep(p) \/ StartRefresh(p) \/ Step(p) \/ Crash(p)
       BY <1>1 DEF Next
    <2>2. Core'
       BY <1>0, <2>1, CoreSafe DEF SInv
    <2> QED BY <1>0, <2>1, <2>2, RestSafe DEF SInv
  <1>2. CASE UNCHANGED vars
    <2>0. UNCHANGED <<state, seq, pid, body, high_water, generation, files, rung, pc, loc, stage,
                      index, cache, cached_generation, committed>>
       BY <1>2 DEF vars, slots, header, handle, caches
    <2>1. Alive' = Alive
       BY <2>0 DEF Alive
    <2>2. ExclInv' /\ OwnInv' /\ CallInv'
       BY <2>0, <2>1 DEF SInv, Core, ExclInv, OwnInv, OwnOK, Held, Doomed, CallInv, CallOK
    <2>3. SlotInv' /\ ReadInv'
       BY <2>0, <2>1 DEF SInv, Core, SlotInv, SlotOK, Whole, TearAt, OddAt, ReadInv, ReadOK, Fresh, Seen
    <2>4. LiveInv' /\ CoverInv'
       BY <2>0, <2>1 DEF SInv, Core, LiveInv, LiveOK, Held, CoverInv, CoverOK, Wanted, Fresh
    <2>5. CacheInv' /\ BellsOnly'
       BY <2>0, <2>1 DEF SInv, CacheInv, CacheFull, BellsOnly
    <2> QED BY <2>2, <2>3, <2>4, <2>5 DEF SInv, Core
  <1> QED BY <1>1, <1>2

(* What has been overtaken stays so.                                        *)
LEMMA OvertakenStays ==
  ASSUME overtaken, [Next]_vars PROVE overtaken'
  <1>1. CASE UNCHANGED vars
     BY <1>1 DEF vars
  <1>2. CASE Next
    <2>1. PICK p \in Procs :
            \/ \E e \in Entries : StartAdd(p, e) \/ StartRemove(p, e)
            \/ StartSweep(p) \/ StartRefresh(p) \/ Step(p) \/ Crash(p)
       BY <1>2 DEF Next
    <2>2. CASE AddStep(p)
       BY <2>2 DEF AddStep, Claim, ClaimFull, WriteBegin, WritePid, WriteBody, WriteEnd, Publish,
          Widen, AddBump
    <2>3. CASE RemoveStep(p) \/ TearStep(p)
       BY <2>3 DEF RemoveStep, RemoveLoad, RemoveCas, RemoveBump, RemoveClose, TearStep, TearBegin,
          TearCopyPath, TearPid, TearBody, TearEnd, TearUnlink
    <2>4. CASE SnapStep(p) \/ QueryStep(p)
       BY <2>4 DEF SnapStep, SnapSeq, SnapState, SnapPid, SnapBody, SnapCheck, QueryStep,
          QueryLimit, QuerySlot, QueryTake, QueryEnd
    <2>5. CASE SweepStep(p)
       BY <2>5 DEF SweepStep, SweepLimit, SweepSlot, SweepVet, SweepSeq, SweepCas, SweepBump,
          SweepEnd
    <2>6. CASE RingStep(p)
       BY <2>6 DEF RingStep, RingLimit, RingSlot, RingSeq, RingState, RingCopy, RingSend, RingEnd
    <2>7. CASE StartSweep(p) \/ StartRefresh(p) \/ Crash(p)
       BY <2>7 DEF StartSweep, StartRefresh, Crash
    <2>8. CASE \E e \in Entries : StartAdd(p, e) \/ StartRemove(p, e)
       BY <2>8 DEF StartAdd, StartRemove
    <2> QED BY <2>1, <2>2, <2>3, <2>4, <2>5, <2>6, <2>7, <2>8 DEF Step
  <1> QED BY <1>1, <1>2

(* The inductive invariant: SInv until a sweep's CAS is overtaken.          *)
XInv == IInv /\ (overtaken \/ SInv)

(* XInv holds in the empty registry ...                                     *)
LEMMA InitXInv == Init => XInv
  BY InitIInv, InitSInv DEF XInv

(* ... and is inductive outside the two windows.                            *)
LEMMA NextXInv ==
  ASSUME Quiet PROVE XInv /\ [Next]_vars => XInv'
  <1> SUFFICES ASSUME XInv, [Next]_vars PROVE XInv'
     OBVIOUS
  <1>1. IInv'
     BY NextIInv DEF XInv
  <1>2. CASE overtaken'
     BY <1>1, <1>2 DEF XInv
  <1>3. CASE ~overtaken'
    <2>1. SInv
       BY <1>3, OvertakenStays DEF XInv
    <2>2. SInv'
       BY <1>3, <2>1, NextSInv DEF XInv
    <2> QED BY <1>1, <2>2 DEF XInv
  <1> QED BY <1>2, <1>3

(* snapshot_slot's promise, for the sweep and for the query: a snapshot it  *)
(* accepts is one entry as its owner wrote it, whatever adds, removals and  *)
(* sweeps ran over the slot meanwhile.                                      *)
THEOREM SnapshotsWhole ==
  ASSUME Quiet PROVE Spec => []NoTornSnapshot
  <1>1. Init => XInv
     BY InitXInv
  <1>2. XInv /\ [Next]_vars => XInv'
     BY NextXInv
  <1>3. XInv => NoTornSnapshot
     BY DEF XInv, SInv, Core, ReadInv, ReadOK, NoTornSnapshot
  <1> QED BY <1>1, <1>2, <1>3, PTL DEF Spec

(* "The winner owns the teardown": no sweep and no other process's teardown *)
(* touches the slot or the socket file of an entry that a live process has  *)
(* registered.                                                              *)
THEOREM LiveEntriesIntact ==
  ASSUME Quiet PROVE Spec => []LiveEntryIntact
  <1>1. Init => XInv
     BY InitXInv
  <1>2. XInv /\ [Next]_vars => XInv'
     BY NextXInv
  <1>3. XInv => LiveEntryIntact
     BY DEF XInv, SInv, Core, LiveInv, LiveOK, Held, LiveEntryIntact
  <1> QED BY <1>1, <1>2, <1>3, PTL DEF Spec

(* The memoization of refresh_sub_paths is sound: paths cached under a      *)
(* generation include every endpoint that this generation announced and     *)
(* that is still registered by a live process.                              *)
THEOREM CacheComplete ==
  ASSUME Quiet PROVE Spec => []CacheCoversGeneration
  <1>1. Init => XInv
     BY InitXInv
  <1>2. XInv /\ [Next]_vars => XInv'
     BY NextXInv
  <1>3. XInv => CacheCoversGeneration
     BY DEF XInv, SInv, CacheInv, CacheFull, CacheCoversGeneration
  <1> QED BY <1>1, <1>2, <1>3, PTL DEF Spec

(* ring_doorbells writes its octet to doorbells only, although it reads the *)
(* slot without a lock.                                                     *)
THEOREM RingsOnlyDoorbells ==
  ASSUME Quiet PROVE Spec => []RingHitsOnlyDoorbells
  <1>1. Init => XInv
     BY InitXInv
  <1>2. XInv /\ [Next]_vars => XInv'
     BY NextXInv
  <1>3. XInv => RingHitsOnlyDoorbells
     BY DEF XInv, SInv, BellsOnly, RingHitsOnlyDoorbells
  <1> QED BY <1>1, <1>2, <1>3, PTL DEF Spec

(* The ABA guard of registry_cleanup_stale: the CAS that empties a slot     *)
(* takes it from an entry whose owner is dead, or the slot was rewritten    *)
(* between the guard and the CAS.                                           *)
THEOREM SweepsTakeOnlyTheDead ==
  ASSUME Quiet PROVE Spec => SweepsOnlyTheDead
  <1>1. Init => XInv
     BY InitXInv
  <1>2. XInv /\ [Next]_vars => XInv'
     BY NextXInv
  <1> DEFINE Sound == \A p \in Procs :
                 (pc[p] = "c_cas" /\ pc'[p] = "t_begin" /\ body[loc[p].i] # NoEntry)
                   => overtaken' \/ OwnerOf[body[loc[p].i]] \notin Alive
  <1>3. XInv /\ [Next]_vars => [Sound]_vars
    <2> SUFFICES ASSUME XInv, Next, NEW p \in Procs, pc[p] = "c_cas", pc'[p] = "t_begin",
                        ~overtaken'
                 PROVE  OwnerOf[body[loc[p].i]] \notin Alive
       OBVIOUS
    <2>0. IInv /\ SInv
       BY OvertakenStays DEF XInv
    <2>1. PICK q \in Procs :
            \/ \E e \in Entries : StartAdd(q, e) \/ StartRemove(q, e)
            \/ StartSweep(q) \/ StartRefresh(q) \/ Step(q) \/ Crash(q)
       BY DEF Next
    <2>2. Onward(q)
      <3>1. CASE Step(q)
         BY <2>0, <3>1, AddOnward, RemoveOnward, TearOnward, SweepOnward, RingOnward, QueryOnward
            DEF Step
      <3> QED BY <2>0, <2>1, <3>1, StartOnward
    <2>3. q = p
       BY <2>2 DEF Onward
    <2>4. SweepStep(p) \/ Crash(p)
      <3>1. ~AddStep(p)
         BY DEF AddStep, Claim, ClaimFull, WriteBegin, WritePid, WriteBody, WriteEnd, Publish,
            Widen, AddBump
      <3>2. ~RemoveStep(p) /\ ~TearStep(p)
         BY DEF RemoveStep, RemoveLoad, RemoveCas, RemoveBump, RemoveClose, TearStep, TearBegin,
            TearCopyPath, TearPid, TearBody, TearEnd, TearUnlink
      <3>3. ~SnapStep(p) /\ ~QueryStep(p)
         BY DEF SnapStep, SnapSeq, SnapState, SnapPid, SnapBody, SnapCheck, QueryStep, QueryLimit,
            QuerySlot, QueryTake, QueryEnd
      <3>4. ~RingStep(p)
         BY DEF RingStep, RingLimit, RingSlot, RingSeq, RingState, RingCopy, RingSend, RingEnd
      <3>5. \A e \in Entries : ~StartAdd(p, e) /\ ~StartRemove(p, e)
         BY DEF StartAdd, StartRemove
      <3>6. ~StartSweep(p) /\ ~StartRefresh(p)
         BY DEF StartSweep, StartRefresh
      <3> QED BY <2>1, <2>3, <3>1, <3>2, <3>3, <3>4, <3>5, <3>6 DEF Step
    <2>5. ~Crash(p)
       BY <2>0 DEF Crash, Goto, IInv, TypeOK
    <2>6. SweepCas(p)
       BY <2>4, <2>5 DEF SweepStep, SweepLimit, SweepSlot, SweepVet, SweepSeq, SweepBump, SweepEnd
    <2>7. state[loc[p].i] = loc[p].st /\ Fresh(loc[p])
      <3>1. Scan(p) # "t_begin"
         BY DEF Scan
      <3>2. pc' # [pc EXCEPT ![p] = Scan(p)]
         BY <2>0, <3>1 DEF IInv, TypeOK
      <3> QED BY <2>6, <3>2 DEF SweepCas, SkipSlot, Goto, Fresh
    <2> QED BY <2>0, <2>7, SweepTakes DEF SInv
  <1> QED BY <1>1, <1>2, <1>3, PTL DEF Spec, SweepsOnlyTheDead

=============================================================================
