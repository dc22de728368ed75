-------------------------- MODULE GraphQueryProofs --------------------------
(***************************************************************************)
(* Nodes of a context, for every set of nodes, entries, threads and slots: *)
(* rmw_wait never triggers a guard condition that rmw_destroy_node freed,  *)
(* and a node is whole or absent: both follow from what the control point  *)
(* of a node says of its guard condition, its place in graph_gcs and its   *)
(* entry (IInv).  A query tells of what was registered throughout, and     *)
(* sweeps are spaced: what its walks have been past, and the ages of the   *)
(* stamp and of the threads' clock readings (QInv).                        *)
(***************************************************************************)
EXTENDS GraphQuery, TLAPS

NodePcs == {"none", "gc", "added", "up", "removed", "unlisted"}

TypesInv ==
  /\ slot \in [SlotIds -> Entries \cup {NoEntry}]
  /\ node \in [Nodes -> NodePcs]

(* The guard condition lives from the first step of rmw_create_node to the  *)
(* last of rmw_destroy_node, and is listed in a part of that time.          *)
GcInv ==
  /\ alive = {n \in Nodes : node[n] # "none"}
  /\ listed = {n \in Nodes : node[n] \in {"up", "removed"}}
  /\ todo \subseteq listed

(* A node's entry is in the registry between registry_add and its removal.  *)
EntryInv ==
  \A n \in Nodes : (\E k \in SlotIds : slot[k] = n) <=> node[n] \in {"added", "up"}

IInv == TypesInv /\ GcInv /\ EntryInv

(* What the registry's other users do: entries of other processes come, go  *)
(* and are swept.                                                           *)
RemoteOnly ==
  /\ slot' \in [SlotIds -> Entries \cup {NoEntry}]
  /\ \A k \in SlotIds, n \in Nodes : slot'[k] = n <=> slot[k] = n

NodesSame == UNCHANGED <<node, alive, listed, todo>>

(* Before the first node is created there is nothing.                       *)
LEMMA InitIInv == Init => IInv
  BY GraphQueryAssumption DEF Init, IInv, TypesInv, GcInv, EntryInv, NodePcs, Entries

(* What other processes do to their own entries keeps IInv.                 *)
LEMMA RemoteKeeps == ASSUME IInv, RemoteOnly, NodesSame PROVE IInv'
  BY DEF IInv, TypesInv, GcInv, EntryInv, RemoteOnly, NodesSame

(* So does a step that touches neither slots nor nodes.                     *)
LEMMA NothingKeeps == ASSUME IInv, UNCHANGED slot, NodesSame PROVE IInv'
  BY DEF IInv, TypesInv, GcInv, EntryInv, NodesSame

(* A sweep takes from the dead, and a node of this context is not dead.     *)
LEMMA NodesNotDead == ASSUME NEW n \in Nodes PROVE ~IsDead(n)
  BY GraphQueryAssumption DEF IsDead

(* A query touches no node: its sweep takes from the dead only.             *)
LEMMA QueriesKeep ==
  ASSUME IInv, NEW t \in Threads, QueryStep(t) \/ AskStep(t) PROVE IInv'
<1>1. CASE LoadLast(t) \/ Cas(t) \/ Scan(t) \/ Return(t) \/ AskStep(t)
  BY <1>1, NothingKeeps
  DEF LoadLast, Cas, Scan, Return, AskStep, Ask, Local, NodesSame
<1>2. CASE Sweep(t)
  <2>1. PICK k : slot' = IF IsDead(slot[k]) THEN [slot EXCEPT ![k] = NoEntry] ELSE slot
    BY <1>2 DEF Sweep
  <2>2. RemoteOnly
    BY <2>1, NodesNotDead, GraphQueryAssumption
    DEF RemoteOnly, IInv, TypesInv, Entries
  <2>3. QED BY <1>2, <2>2, RemoteKeeps DEF Sweep, Local, NodesSame
<1>3. QED BY <1>1, <1>2 DEF QueryStep

(* Other processes add and remove entries that are not nodes of this        *)
(* context.                                                                 *)
LEMMA OthersKeep ==
  ASSUME IInv, NEW e \in Remote, Register(e) \/ Unregister(e) PROVE IInv'
<1>1. e \notin Nodes /\ e \in Entries
  BY GraphQueryAssumption DEF Entries
<1>2. CASE Register(e)
  <2>1. PICK k \in Free : slot' = [slot EXCEPT ![k] = e]
    BY <1>2 DEF Register, Put
  <2>2. RemoteOnly
    BY <2>1, <1>1, GraphQueryAssumption DEF RemoteOnly, IInv, TypesInv, Free, Entries
  <2>3. QED BY <1>2, <2>2, RemoteKeeps DEF Register, NodesSame
<1>3. CASE Unregister(e)
  <2>1. RemoteOnly
    BY <1>3, <1>1, GraphQueryAssumption
    DEF Unregister, Drop, RemoteOnly, IInv, TypesInv, Entries
  <2>2. QED BY <1>3, <2>1, RemoteKeeps DEF Unregister, NodesSame
<1>4. QED BY <1>2, <1>3

(* Each step of a node's creation or destruction, and of the trigger loop.  *)
LEMMA NodesKeep ==
  ASSUME IInv, NEW n \in Nodes,
         \/ CreateGc(n) \/ AddNode(n) \/ AllocFails(n) \/ Publish(n)
         \/ RemoveNode(n) \/ Unpublish(n) \/ DestroyGc(n) \/ Trigger(n)
  PROVE  IInv'
<1> USE DEF IInv, TypesInv, GcInv, EntryInv, NodePcs, NodeStep
<1>0. n \in Entries /\ n # NoEntry
  BY GraphQueryAssumption DEF Entries
<1>1. CASE CreateGc(n)
  BY <1>1 DEF CreateGc
<1>2. CASE AddNode(n)
  <2>1. CASE NodeStep(n, "gc", "added") /\ UNCHANGED alive /\ \E k \in Free : Put(n, k)
    <3>1. PICK k \in Free : slot' = [slot EXCEPT ![k] = n]
      BY <2>1 DEF Put
    <3>2. TypesInv' /\ GcInv'
      BY <1>0, <1>2, <2>1, <3>1 DEF AddNode, Free
    <3>3. slot'[k] = n /\ \A j \in SlotIds \ {k} : slot'[j] = slot[j]
      BY <3>1 DEF Free
    <3>4. EntryInv'
      BY <1>0, <2>1, <3>1, <3>3, GraphQueryAssumption DEF Free, Entries
    <3>5. QED BY <3>2, <3>4
  <2>2. CASE /\ NodeStep(n, "gc", "added") /\ UNCHANGED alive
             /\ \E k \in SlotIds :
                  /\ IsDead(slot[k])
                  /\ slot' = [j \in SlotIds |-> IF j = k THEN n
                                ELSE IF IsDead(slot[j]) THEN NoEntry ELSE slot[j]]
    <3>1. PICK k \in SlotIds :
             /\ IsDead(slot[k])
             /\ slot' = [j \in SlotIds |-> IF j = k THEN n
                           ELSE IF IsDead(slot[j]) THEN NoEntry ELSE slot[j]]
      BY <2>2
    <3>2. TypesInv' /\ GcInv'
      BY <1>0, <1>2, <2>2, <3>1 DEF AddNode
    <3>3. /\ slot'[k] = n /\ slot[k] \notin Nodes
          /\ \A j \in SlotIds \ {k}, m \in Nodes : slot'[j] = m <=> slot[j] = m
      BY <3>1, NodesNotDead, GraphQueryAssumption DEF Entries
    <3>4. EntryInv'
      BY <2>2, <3>3
    <3>5. QED BY <3>2, <3>4
  <2>3. CASE NodeStep(n, "gc", "none") /\ alive' = alive \ {n} /\ UNCHANGED slot
    BY <1>2, <2>3 DEF AddNode
  <2>4. QED BY <1>2, <2>1, <2>2, <2>3 DEF AddNode
<1>3. CASE AllocFails(n)
  <2>1. TypesInv' /\ GcInv'
    BY <1>0, <1>3 DEF AllocFails, Drop
  <2>2. \A j \in SlotIds, m \in Nodes : slot'[j] = m <=> slot[j] = m /\ m # n
    BY <1>0, <1>3, GraphQueryAssumption DEF AllocFails, Drop, Entries
  <2>3. QED BY <1>3, <2>1, <2>2 DEF AllocFails
<1>4. CASE Publish(n)
  BY <1>4 DEF Publish, Unlocked
<1>5. CASE RemoveNode(n)
  <2>1. TypesInv' /\ GcInv'
    BY <1>0, <1>5 DEF RemoveNode, Drop
  <2>2. \A j \in SlotIds, m \in Nodes : slot'[j] = m <=> slot[j] = m /\ m # n
    BY <1>0, <1>5, GraphQueryAssumption DEF RemoveNode, Drop, Entries
  <2>3. QED BY <1>5, <2>1, <2>2 DEF RemoveNode
<1>6. CASE Unpublish(n)
  BY <1>6 DEF Unpublish, Unlocked
<1>7. CASE DestroyGc(n)
  BY <1>7 DEF DestroyGc
<1>8. CASE Trigger(n)
  BY <1>8 DEF Trigger
<1>9. QED BY <1>1, <1>2, <1>3, <1>4, <1>5, <1>6, <1>7, <1>8

(* IInv is inductive.                                                       *)
LEMMA NextKeeps == ASSUME IInv, [Next]_vars PROVE IInv'
<1>1. CASE UNCHANGED vars
  BY <1>1, NothingKeeps DEF vars, NodesSame
<1>2. CASE Tick \/ \E p \in Mortal : Die(p)
  BY <1>2, NothingKeeps DEF Tick, Die, NodesSame
<1>3. CASE TriggerAll
  BY <1>3 DEF TriggerAll, IInv, TypesInv, GcInv, EntryInv
<1>4. QED BY <1>1, <1>2, <1>3, QueriesKeep, OthersKeep, NodesKeep DEF Next

(* IInv holds always.                                                       *)
LEMMA Inductive == Spec => []IInv
<1>1. IInv /\ [Next]_vars => IInv'
  BY NextKeeps
<1>2. QED BY InitIInv, <1>1, PTL DEF Spec

(* The loop of rmw_wait over graph_gcs only meets guard conditions that     *)
(* rmw_destroy_node has not freed: it unlists them under the same mutex.    *)
THEOREM NeverTriggersFreed == Spec => []NoFreedTrigger
<1>1. IInv => NoFreedTrigger
  BY DEF IInv, GcInv, NoFreedTrigger
<1>2. QED BY Inductive, <1>1, PTL

(* After rmw_create_node, failed or not, and after rmw_destroy_node, a node *)
(* has its entry, its guard condition and its place in the list, or none of *)
(* them, whoever sweeps the registry.                                       *)
THEOREM NodeWholeOrAbsent == Spec => []NodeWhole
<1>1. IInv => NodeWhole
  BY GraphQueryAssumption
  DEF IInv, TypesInv, GcInv, EntryInv, NodeWhole, Registered, Entries
<1>2. QED BY Inductive, <1>1, PTL

-----------------------------------------------------------------------------
(* What a query answers, and when it sweeps.                                *)

Pcs == {"idle", "load", "cas", "sweep", "scan", "answer"}
CallRec ==
  [pc : Pcs, q : Queries \cup {NoEntry}, part : Nat, k : SlotIds, nowAge : Nat, fresh : BOOLEAN,
   found : SUBSET Entries, always : SUBSET Entries, ever : SUBSET Entries]

(* A query under way is one of those asked, in one of its parts, and starts *)
(* each walk at the first slot.                                             *)
Asking(c) ==
  /\ c.pc # "idle" => c.q \in Queries /\ c.part \in 1 .. Len(c.q.kinds)
  /\ c.pc \in {"load", "cas"} => c.k = 0

CallsInv ==
  /\ call \in [Threads -> CallRec]
  /\ \A t \in Threads : Asking(call[t])

(* The stamp is an interval older than the clock reading of a thread whose  *)
(* compare_exchange would succeed.                                          *)
AgeOK(c, age) ==
  /\ c.nowAge <= MaxLag
  /\ c.pc = "cas" /\ c.fresh => age - c.nowAge >= Interval

AgeInv ==
  /\ lastAge \in 0 .. MaxAge
  /\ \A t \in Threads : AgeOK(call[t], lastAge)

(* The walks have been past slot j for the type number i of the query.      *)
Passed(c, i, j) ==
  \/ i < c.part
  \/ i = c.part /\ c.pc = "scan" /\ j < c.k
  \/ c.pc = "answer"

Reg(s) == {s[k] : k \in SlotIds} \ {NoEntry}

(* An entry that has been there all the time is found once the walk for its *)
(* type has been past its slot; what is found, or is there, has been there. *)
Walk(c, s) ==
  /\ c.always \subseteq About(c.q, Reg(s))
  /\ About(c.q, Reg(s)) \subseteq c.ever
  /\ c.found \subseteq c.ever
  /\ \A e \in c.always, i \in DOMAIN c.q.kinds, j \in SlotIds :
       c.q.kinds[i] = KindOf[e] /\ s[j] = e /\ Passed(c, i, j) => e \in c.found

WalkInv == \A t \in Threads : Busy(t) => Walk(call[t], slot)

QInv == CallsInv /\ AgeInv /\ WalkInv

(* No entry moves: a slot keeps its entry, becomes empty, or gets an entry  *)
(* that was nowhere.                                                        *)
NoMoves(s, s2) ==
  \A j \in SlotIds : s2[j] = s[j] \/ s2[j] = NoEntry \/ s2[j] \notin Reg(s)

Watched(c, s) == [c EXCEPT !.always = @ \cap Reg(s), !.ever = @ \cup About(c.q, Reg(s))]

(* Slot numbers are naturals below MaxEntries, from 0.                      *)
LEMMA Slots == 0 \in SlotIds /\ \A k \in SlotIds : k \in Nat /\ k < MaxEntries
  BY GraphQueryAssumption DEF SlotIds

(* A query is about registered entries only.                                *)
LEMMA AboutIn == ASSUME NEW q, NEW E, NEW e \in About(q, E) PROVE e \in E
  BY DEF About

(* An entry that stays is still about what it was about.                    *)
LEMMA AboutStays ==
  ASSUME NEW q, NEW E, NEW F, NEW e \in About(q, E), e \in F PROVE e \in About(q, F)
  BY DEF About

(* What a change of the registry does to a call's history, field by field.  *)
LEMMA WatchedFields ==
  ASSUME NEW c \in CallRec, NEW s, Reg(s) \subseteq Entries
  PROVE  /\ Watched(c, s) \in CallRec
         /\ Watched(c, s).always = c.always \cap Reg(s)
         /\ Watched(c, s).ever = c.ever \cup About(c.q, Reg(s))
         /\ Watched(c, s).pc = c.pc /\ Watched(c, s).q = c.q /\ Watched(c, s).part = c.part
         /\ Watched(c, s).k = c.k /\ Watched(c, s).nowAge = c.nowAge
         /\ Watched(c, s).fresh = c.fresh /\ Watched(c, s).found = c.found
<1>1. About(c.q, Reg(s)) \subseteq Entries
  BY AboutIn
<1> DEFINE A == c.always \cap Reg(s)
           B == c.ever \cup About(c.q, Reg(s))
<1>2. A \in SUBSET Entries /\ B \in SUBSET Entries
  BY <1>1 DEF CallRec
<1>3. Watched(c, s) = [c EXCEPT !.always = A, !.ever = B]
  BY DEF Watched, CallRec
<1> HIDE DEF A, B
<1>4. /\ Watched(c, s) \in CallRec /\ Watched(c, s).always = A /\ Watched(c, s).ever = B
      /\ Watched(c, s).pc = c.pc /\ Watched(c, s).q = c.q /\ Watched(c, s).part = c.part
      /\ Watched(c, s).k = c.k /\ Watched(c, s).nowAge = c.nowAge
      /\ Watched(c, s).fresh = c.fresh /\ Watched(c, s).found = c.found
  BY <1>2, <1>3 DEF CallRec
<1>5. QED BY <1>4 DEF A, B

(* The walk of a query stays sound while the registry changes.              *)
LEMMA WatchedWalks ==
  ASSUME NEW c \in CallRec, NEW s, NEW s2, Walk(c, s), NoMoves(s, s2), Reg(s2) \subseteq Entries
  PROVE  Walk(Watched(c, s2), s2)
<1> DEFINE w == Watched(c, s2)
<1>1. /\ w.always = c.always \cap Reg(s2) /\ w.ever = c.ever \cup About(c.q, Reg(s2))
      /\ w.pc = c.pc /\ w.q = c.q /\ w.part = c.part /\ w.k = c.k /\ w.found = c.found
  BY WatchedFields
<1> HIDE DEF w
<1>2. w.always \subseteq About(w.q, Reg(s2))
  <2> SUFFICES ASSUME NEW e \in w.always PROVE e \in About(w.q, Reg(s2))
    OBVIOUS
  <2>1. e \in About(c.q, Reg(s)) /\ e \in Reg(s2)
    BY <1>1 DEF Walk
  <2>2. QED BY <1>1, <2>1, AboutStays
<1>3. About(w.q, Reg(s2)) \subseteq w.ever /\ w.found \subseteq w.ever
  BY <1>1 DEF Walk
<1>4. ASSUME NEW e \in w.always, NEW i \in DOMAIN w.q.kinds, NEW j \in SlotIds,
             w.q.kinds[i] = KindOf[e], s2[j] = e, Passed(w, i, j)
      PROVE  e \in w.found
  <2>1. e \in c.always /\ e \in Reg(s) /\ e # NoEntry
    BY <1>1, AboutIn DEF Walk, Reg
  <2>2. s[j] = e
    BY <1>4, <2>1 DEF NoMoves
  <2>3. Passed(c, i, j)
    BY <1>1, <1>4 DEF Passed
  <2>4. QED BY <1>1, <1>4, <2>1, <2>2, <2>3 DEF Walk
<1>5. QED BY <1>2, <1>3, <1>4 DEF Walk, w

(* Where a walk goes after a slot.                                          *)
LEMMA AdvanceFields ==
  ASSUME NEW r \in CallRec, r.pc \in {"sweep", "scan"}, Asking(r)
  PROVE  /\ Advance(r) \in CallRec /\ Asking(Advance(r))
         /\ Advance(r).q = r.q /\ Advance(r).always = r.always /\ Advance(r).ever = r.ever
         /\ Advance(r).found = r.found /\ Advance(r).nowAge = r.nowAge
         /\ \/ /\ Advance(r).pc = r.pc /\ Advance(r).part = r.part
               /\ Advance(r).k = r.k + 1 /\ r.k + 1 < MaxEntries
            \/ /\ r.pc = "sweep" /\ Advance(r).pc = "scan" /\ Advance(r).part = r.part
               /\ Advance(r).k = 0
            \/ /\ r.pc = "scan" /\ Advance(r).pc = "load" /\ Advance(r).part = r.part + 1
               /\ r.k = MaxEntries - 1
            \/ /\ r.pc = "scan" /\ Advance(r).pc = "answer" /\ Advance(r).part = r.part
               /\ r.part = Len(r.q.kinds) /\ r.k = MaxEntries - 1
<1>1. /\ r.q \in Queries /\ r.part \in 1 .. Len(r.q.kinds) /\ Len(r.q.kinds) \in Nat
      /\ r.k \in Nat /\ r.k < MaxEntries /\ MaxEntries \in Nat
  <2>1. r.q \in Queries /\ r.part \in 1 .. Len(r.q.kinds)
    BY DEF Asking
  <2>2. r.q.kinds \in Seq(EntryKinds)
    BY <2>1, GraphQueryAssumption
  <2>3. QED BY <2>1, <2>2, Slots, GraphQueryAssumption DEF CallRec
<1> HIDE DEF SlotIds
<1>2. CASE r.k + 1 < MaxEntries
  <2>1. Advance(r) = [r EXCEPT !.k = r.k + 1] /\ r.k + 1 \in SlotIds
    BY <1>1, <1>2 DEF Advance, SlotIds, CallRec
  <2>2. /\ Advance(r) \in CallRec
        /\ Advance(r).q = r.q /\ Advance(r).always = r.always /\ Advance(r).ever = r.ever
        /\ Advance(r).found = r.found /\ Advance(r).nowAge = r.nowAge
        /\ Advance(r).pc = r.pc /\ Advance(r).part = r.part /\ Advance(r).k = r.k + 1
    BY <2>1 DEF CallRec
  <2>3. QED BY <1>2, <2>2 DEF Asking
<1>3. CASE ~(r.k + 1 < MaxEntries)
  <2>0. r.k = MaxEntries - 1 /\ Advance(r) = Then(r)
    BY <1>1, <1>3 DEF Advance
  <2>1. CASE r.pc = "sweep"
    <3>1. Advance(r) = [r EXCEPT !.k = 0, !.pc = "scan"]
      BY <2>0, <2>1 DEF Then
    <3>2. /\ Advance(r) \in CallRec
          /\ Advance(r).q = r.q /\ Advance(r).always = r.always /\ Advance(r).ever = r.ever
          /\ Advance(r).found = r.found /\ Advance(r).nowAge = r.nowAge
          /\ Advance(r).pc = "scan" /\ Advance(r).part = r.part /\ Advance(r).k = 0
      BY <3>1, Slots DEF CallRec, Pcs
    <3>3. QED BY <2>1, <3>2 DEF Asking
  <2>2. CASE r.pc = "scan" /\ r.part < Len(r.q.kinds)
    <3> DEFINE n == r.part + 1
    <3>1. Advance(r) = [r EXCEPT !.k = 0, !.pc = "load", !.part = n] /\ n \in Nat
      BY <1>1, <2>0, <2>2 DEF Then, CallRec
    <3> HIDE DEF n
    <3>2. /\ Advance(r) \in CallRec
          /\ Advance(r).q = r.q /\ Advance(r).always = r.always /\ Advance(r).ever = r.ever
          /\ Advance(r).found = r.found /\ Advance(r).nowAge = r.nowAge
          /\ Advance(r).pc = "load" /\ Advance(r).part = n /\ Advance(r).k = 0
      BY <3>1, Slots DEF CallRec, Pcs
    <3>3. n = r.part + 1 /\ n \in 1 .. Len(r.q.kinds)
      BY <1>1, <2>2 DEF n
    <3>4. QED BY <1>1, <2>0, <2>2, <3>2, <3>3 DEF Asking
  <2>3. CASE r.pc = "scan" /\ ~(r.part < Len(r.q.kinds))
    <3>1. Advance(r) = [r EXCEPT !.k = 0, !.pc = "answer"] /\ r.part = Len(r.q.kinds)
      BY <1>1, <2>0, <2>3 DEF Then
    <3>2. /\ Advance(r) \in CallRec
          /\ Advance(r).q = r.q /\ Advance(r).always = r.always /\ Advance(r).ever = r.ever
          /\ Advance(r).found = r.found /\ Advance(r).nowAge = r.nowAge
          /\ Advance(r).pc = "answer" /\ Advance(r).part = r.part
      BY <3>1, Slots DEF CallRec, Pcs
    <3>3. QED BY <1>1, <2>0, <2>3, <3>1, <3>2 DEF Asking
  <2>4. QED BY <2>1, <2>2, <2>3
<1>4. QED BY <1>2, <1>3

(* A slot has been looked at: the walk goes on.                             *)
LEMMA AdvanceWalks ==
  ASSUME NEW r \in CallRec, r.pc \in {"sweep", "scan"}, Asking(r), NEW s, Walk(r, s),
         r.pc = "scan" => \A e \in r.always :
            r.q.kinds[r.part] = KindOf[e] /\ s[r.k] = e => e \in r.found
  PROVE  Walk(Advance(r), s)
<1> DEFINE a == Advance(r)
<1>1. /\ a.q = r.q /\ a.always = r.always /\ a.ever = r.ever /\ a.found = r.found
      /\ \/ a.pc = r.pc /\ a.part = r.part /\ a.k = r.k + 1
         \/ r.pc = "sweep" /\ a.pc = "scan" /\ a.part = r.part /\ a.k = 0
         \/ r.pc = "scan" /\ a.pc = "load" /\ a.part = r.part + 1 /\ r.k = MaxEntries - 1
         \/ /\ r.pc = "scan" /\ a.pc = "answer" /\ a.part = r.part
            /\ r.part = Len(r.q.kinds) /\ r.k = MaxEntries - 1
  BY AdvanceFields
<1> HIDE DEF a
<1>2. /\ r.part \in Nat /\ r.k \in Nat /\ MaxEntries \in Nat
      /\ DOMAIN r.q.kinds = 1 .. Len(r.q.kinds) /\ Len(r.q.kinds) \in Nat
  <2>1. r.q.kinds \in Seq(EntryKinds)
    BY GraphQueryAssumption DEF Asking
  <2>2. QED BY <2>1, Slots, GraphQueryAssumption DEF CallRec
<1>3. ASSUME NEW e \in r.always, NEW i \in DOMAIN r.q.kinds, NEW j \in SlotIds,
             r.q.kinds[i] = KindOf[e], s[j] = e, Passed(a, i, j)
      PROVE  e \in r.found
  <2>0. i \in Nat /\ i <= Len(r.q.kinds) /\ j \in Nat /\ j < MaxEntries
    BY <1>2, Slots
  <2>1. Passed(r, i, j) \/ (r.pc = "scan" /\ i = r.part /\ j = r.k)
    BY <1>1, <1>2, <1>3, <2>0 DEF Passed
  <2>2. QED BY <1>3, <2>1 DEF Walk
<1>4. QED BY <1>1, <1>3 DEF Walk, a

(* The calls after a change of the registry that sweeps nobody out of place.*)
LEMMA WatchKeeps ==
  ASSUME IInv, QInv, slot' \in [SlotIds -> Entries \cup {NoEntry}], NoMoves(slot, slot'),
         NEW t \in Threads
  PROVE  /\ Watch(slot')[t] \in CallRec /\ Asking(Watch(slot')[t])
         /\ Watch(slot')[t].pc = call[t].pc /\ Watch(slot')[t].k = call[t].k
         /\ \A age : AgeOK(call[t], age) => AgeOK(Watch(slot')[t], age)
         /\ call[t].pc # "idle" => Walk(Watch(slot')[t], slot')
<1>1. Reg(slot') \subseteq Entries /\ call[t] \in CallRec /\ Asking(call[t])
  BY DEF Reg, QInv, CallsInv
<1>2. CASE Busy(t)
  <2>1. Watch(slot')[t] = Watched(call[t], slot')
    BY <1>2 DEF Watch, Watched, Reg
  <2>2. /\ Watched(call[t], slot') \in CallRec
        /\ Watched(call[t], slot').pc = call[t].pc /\ Watched(call[t], slot').q = call[t].q
        /\ Watched(call[t], slot').part = call[t].part /\ Watched(call[t], slot').k = call[t].k
        /\ Watched(call[t], slot').nowAge = call[t].nowAge
        /\ Watched(call[t], slot').fresh = call[t].fresh
    BY <1>1, WatchedFields
  <2>3. Walk(call[t], slot)
    BY <1>2 DEF QInv, WalkInv
  <2>4. Walk(Watched(call[t], slot'), slot')
    BY <1>1, <2>3, WatchedWalks
  <2>5. QED BY <1>1, <2>1, <2>2, <2>4 DEF Asking, AgeOK
<1>3. CASE ~Busy(t)
  <2>1. Watch(slot')[t] = call[t]
    BY <1>3 DEF Watch
  <2>2. QED BY <1>1, <1>3, <2>1 DEF Busy
<1>4. QED BY <1>2, <1>3

(* A change of the registry by anyone but a sweeping query.                 *)
LEMMA ChangeKeeps ==
  ASSUME IInv, QInv, slot' \in [SlotIds -> Entries \cup {NoEntry}], NoMoves(slot, slot'),
         call' = Watch(slot'), lastAge' = lastAge
  PROVE  QInv' /\ \A t \in Threads : call'[t].pc = call[t].pc
<1>1. /\ \A t \in Threads :
           /\ call'[t] \in CallRec /\ Asking(call'[t]) /\ call'[t].pc = call[t].pc
           /\ AgeOK(call[t], lastAge) => AgeOK(call'[t], lastAge)
           /\ call[t].pc # "idle" => Walk(call'[t], slot')
  BY WatchKeeps
<1>2. call' \in [Threads -> CallRec]
  <2>1. DOMAIN call' = Threads /\ call' = [t \in Threads |-> call'[t]]
    BY DEF Watch
  <2>2. QED BY <1>1, <2>1
<1>3. CallsInv'
  BY <1>1, <1>2 DEF CallsInv
<1>4. AgeInv'
  BY <1>1 DEF QInv, AgeInv
<1>5. WalkInv'
  BY <1>1 DEF WalkInv, Busy
<1>6. QED BY <1>1, <1>3, <1>4, <1>5 DEF QInv

(* One thread goes on, the registry as it is.                               *)
LEMMA MoveKeeps ==
  ASSUME QInv, NEW t \in Threads, NEW r \in CallRec, Move(t, r), UNCHANGED <<slot, lastAge>>,
         Asking(r), AgeOK(r, lastAge), r.pc # "idle" => Walk(r, slot)
  PROVE  QInv'
<1>1. /\ call \in [Threads -> CallRec] /\ call' = [call EXCEPT ![t] = r]
  BY DEF Move, QInv, CallsInv
<1>2. call' \in [Threads -> CallRec] /\ \A u \in Threads : call'[u] = IF u = t THEN r ELSE call[u]
  BY <1>1
<1>3. CallsInv'
  BY <1>2 DEF QInv, CallsInv
<1>4. AgeInv'
  BY <1>2 DEF QInv, AgeInv
<1>5. WalkInv'
  BY <1>2 DEF QInv, WalkInv, Busy
<1>6. QED BY <1>3, <1>4, <1>5 DEF QInv

(* The entries that this context's and the others' steps put are new.       *)
LEMMA OthersKeepCalls ==
  ASSUME IInv, QInv, NEW e \in Remote, Register(e) \/ Unregister(e)
  PROVE  QInv' /\ \A t \in Threads : call'[t].pc = call[t].pc
<1>0. slot \in [SlotIds -> Entries \cup {NoEntry}] /\ e \in Entries
  BY DEF IInv, TypesInv, Entries
<1>1. CASE Register(e)
  <2>1. PICK k \in Free : slot' = [slot EXCEPT ![k] = e] /\ call' = Watch(slot')
    BY <1>1 DEF Register, Put
  <2>2. slot' \in [SlotIds -> Entries \cup {NoEntry}] /\ NoMoves(slot, slot')
    BY <1>0, <1>1, <2>1 DEF Register, NoMoves, Registered, Reg, Free
  <2>3. QED BY <1>1, <2>1, <2>2, ChangeKeeps DEF Register
<1>2. CASE Unregister(e)
  <2>1. slot' \in [SlotIds -> Entries \cup {NoEntry}] /\ NoMoves(slot, slot')
    BY <1>0, <1>2 DEF Unregister, Drop, NoMoves
  <2>2. QED BY <1>2, <2>1, ChangeKeeps DEF Unregister, Drop
<1>3. QED BY <1>1, <1>2

(* A node that comes or goes keeps QInv and moves no call.                  *)
LEMMA NodesKeepCalls ==
  ASSUME IInv, QInv, NEW n \in Nodes, AddNode(n) \/ AllocFails(n) \/ RemoveNode(n)
  PROVE  QInv' /\ \A t \in Threads : call'[t].pc = call[t].pc
<1>0. slot \in [SlotIds -> Entries \cup {NoEntry}] /\ n \in Entries
  BY DEF IInv, TypesInv, Entries
<1>1. ASSUME node[n] = "gc" PROVE n \notin Reg(slot)
  BY <1>1 DEF IInv, EntryInv, Reg
<1>2. CASE node[n] = "gc" /\ \E k \in Free : Put(n, k)
  <2>1. PICK k \in Free : slot' = [slot EXCEPT ![k] = n] /\ call' = Watch(slot')
    BY <1>2 DEF Put
  <2>2. slot' \in [SlotIds -> Entries \cup {NoEntry}] /\ NoMoves(slot, slot')
    BY <1>0, <1>1, <1>2, <2>1 DEF NoMoves, Free
  <2>3. lastAge' = lastAge
    BY DEF AddNode, AllocFails, RemoveNode
  <2>4. QED BY <2>1, <2>2, <2>3, ChangeKeeps
<1>3. ASSUME node[n] = "gc", NEW k \in SlotIds, call' = Watch(slot'), lastAge' = lastAge,
             slot' = [j \in SlotIds |-> IF j = k THEN n
                        ELSE IF IsDead(slot[j]) THEN NoEntry ELSE slot[j]]
      PROVE  QInv' /\ \A t \in Threads : call'[t].pc = call[t].pc
  <2>1. slot' \in [SlotIds -> Entries \cup {NoEntry}] /\ NoMoves(slot, slot')
    BY <1>0, <1>1, <1>3 DEF NoMoves
  <2>2. QED BY <1>3, <2>1, ChangeKeeps
<1>4. ASSUME Drop(n), lastAge' = lastAge
      PROVE  QInv' /\ \A t \in Threads : call'[t].pc = call[t].pc
  <2>1. slot' \in [SlotIds -> Entries \cup {NoEntry}] /\ NoMoves(slot, slot')
    BY <1>0, <1>4 DEF Drop, NoMoves
  <2>2. QED BY <1>4, <2>1, ChangeKeeps DEF Drop
<1>5. ASSUME UNCHANGED <<slot, call, lastAge>>
      PROVE  QInv' /\ \A t \in Threads : call'[t].pc = call[t].pc
  BY <1>5 DEF QInv, CallsInv, AgeInv, WalkInv, Busy
<1>6. CASE AddNode(n)
  <2>1. CASE NodeStep(n, "gc", "added") /\ \E k \in Free : Put(n, k)
    BY <1>2, <2>1 DEF NodeStep
  <2>2. CASE /\ NodeStep(n, "gc", "added")
             /\ \E k \in SlotIds :
                   /\ IsDead(slot[k])
                   /\ slot' = [j \in SlotIds |-> IF j = k THEN n
                                 ELSE IF IsDead(slot[j]) THEN NoEntry ELSE slot[j]]
                   /\ call' = Watch(slot')
    BY <1>3, <1>6, <2>2 DEF NodeStep, AddNode
  <2>3. CASE UNCHANGED <<slot, call>>
    BY <1>5, <1>6, <2>3 DEF AddNode
  <2>4. QED BY <1>6, <2>1, <2>2, <2>3 DEF AddNode
<1>7. QED BY <1>4, <1>6 DEF AllocFails, RemoveNode

(* Steps of the queries themselves.                                         *)
LEMMA NoCallTyped == NoCall \in CallRec /\ NoCall.pc = "idle"
<1>1. 0 \in SlotIds
  BY Slots
<1>2. QED BY <1>1 DEF NoCall, CallRec, Pcs

(* The beginning of a query: no walk has passed anything.                   *)
LEMMA AskKeeps ==
  ASSUME IInv, QInv, NEW t \in Threads, NEW q \in Asks[t], Ask(t, q) PROVE QInv'
<1> DEFINE A == About(q, Registered)
           r == [NoCall EXCEPT !.pc = "load", !.q = q, !.part = 1, !.always = A, !.ever = A]
<1>1. Move(t, r) /\ UNCHANGED <<slot, lastAge>>
  BY DEF Ask
<1>2. A \in SUBSET Entries /\ A = About(q, Reg(slot))
  <2>1. Registered = Reg(slot) /\ Registered \subseteq Entries
    BY DEF Registered, Reg, IInv, TypesInv
  <2>2. QED BY <2>1 DEF About
<1>3. q \in Queries /\ q.kinds \in Seq(EntryKinds) /\ q.kinds # <<>>
  <2>1. q \in Queries
    BY DEF Queries
  <2>2. QED BY <2>1, GraphQueryAssumption
<1> HIDE DEF A
<1>4. /\ r \in CallRec /\ r.pc = "load" /\ r.q = q /\ r.part = 1 /\ r.always = A /\ r.ever = A
      /\ r.found = {} /\ r.nowAge = 0 /\ r.k = 0
  BY <1>2, <1>3, Slots DEF NoCall, CallRec, Pcs
<1> HIDE DEF r
<1>5. Asking(r)
  BY <1>3, <1>4 DEF Asking
<1>6. AgeOK(r, lastAge)
  BY <1>4, GraphQueryAssumption DEF AgeOK
<1>7. Walk(r, slot)
  <2>1. \A i \in DOMAIN r.q.kinds, j \in SlotIds : ~Passed(r, i, j)
    BY <1>3, <1>4 DEF Passed
  <2>2. QED BY <1>2, <1>4, <2>1 DEF Walk
<1>8. QED BY <1>1, <1>4, <1>5, <1>6, <1>7, MoveKeeps

(* A walk that stays where it is, apart from pc, nowAge and fresh.          *)
LEMMA WalkSame ==
  ASSUME NEW c, NEW r, NEW s, Walk(c, s), r.q = c.q, r.part = c.part, r.always = c.always,
         r.ever = c.ever, r.found = c.found, r.pc # "answer", r.pc = "scan" => r.k = 0,
         r.k \in SlotIds
  PROVE  Walk(r, s)
<1>1. \A i \in DOMAIN c.q.kinds, j \in SlotIds : Passed(r, i, j) => Passed(c, i, j)
  BY Slots DEF Passed
<1>2. QED BY <1>1 DEF Walk

(* Reading the stamp: a call that finds it old has a reading an interval    *)
(* ahead.                                                                   *)
LEMMA LoadLastKeeps == ASSUME IInv, QInv, NEW t \in Threads, LoadLast(t) PROVE QInv'
<1> DEFINE c == call[t]
<1>1. c \in CallRec /\ Asking(c) /\ AgeOK(c, lastAge) /\ c.pc = "load" /\ Walk(c, slot)
  BY DEF LoadLast, QInv, CallsInv, AgeInv, WalkInv, Busy
<1>2. CASE lastAge - c.nowAge >= Interval /\ Move(t, [c EXCEPT !.pc = "cas", !.fresh = TRUE])
  <2> DEFINE r == [c EXCEPT !.pc = "cas", !.fresh = TRUE]
  <2>1. /\ r \in CallRec /\ r.pc = "cas" /\ r.q = c.q /\ r.part = c.part /\ r.k = c.k
        /\ r.nowAge = c.nowAge /\ r.always = c.always /\ r.ever = c.ever /\ r.found = c.found
    BY <1>1 DEF CallRec, Pcs
  <2> HIDE DEF c
  <2>2. Move(t, r) /\ UNCHANGED <<slot, lastAge>> /\ lastAge - r.nowAge >= Interval
    BY <1>2, <2>1 DEF LoadLast
  <2> HIDE DEF r
  <2>3. Asking(r) /\ AgeOK(r, lastAge)
    BY <1>1, <2>1, <2>2 DEF Asking, AgeOK
  <2>4. Walk(r, slot)
    BY <1>1, <2>1, WalkSame DEF CallRec
  <2>5. QED BY <2>1, <2>2, <2>3, <2>4, MoveKeeps
<1>3. CASE Move(t, [c EXCEPT !.pc = "scan", !.nowAge = 0])
  <2> DEFINE r == [c EXCEPT !.pc = "scan", !.nowAge = 0]
  <2>1. /\ r \in CallRec /\ r.pc = "scan" /\ r.q = c.q /\ r.part = c.part /\ r.k = c.k
        /\ r.nowAge = 0 /\ r.always = c.always /\ r.ever = c.ever /\ r.found = c.found
    BY <1>1 DEF CallRec, Pcs
  <2> HIDE DEF c
  <2>2. Move(t, r) /\ UNCHANGED <<slot, lastAge>>
    BY <1>3 DEF LoadLast
  <2> HIDE DEF r
  <2>3. Asking(r) /\ AgeOK(r, lastAge)
    BY <1>1, <2>1, GraphQueryAssumption DEF Asking, AgeOK
  <2>4. Walk(r, slot)
    BY <1>1, <2>1, WalkSame DEF CallRec, Asking
  <2>5. QED BY <2>1, <2>2, <2>3, <2>4, MoveKeeps
<1>4. QED BY <1>2, <1>3 DEF LoadLast

(* Of the threads about to exchange the stamp, the first one wins.          *)
LEMMA CasKeeps ==
  ASSUME IInv, QInv, NEW t \in Threads, Cas(t)
  PROVE  /\ QInv'
         /\ call'[t].pc = "sweep" => lastAge - lastAge' >= Interval
         /\ \A u \in Threads : u # t => call'[u].pc = call[u].pc
<1>0. /\ call \in [Threads -> CallRec] /\ call[t].pc = "cas"
      /\ \A u \in Threads : /\ call[u] \in CallRec /\ Asking(call[u]) /\ AgeOK(call[u], lastAge)
                            /\ call[u].pc # "idle" => Walk(call[u], slot)
  BY DEF Cas, QInv, CallsInv, AgeInv, WalkInv, Busy
<1>1. CASE call[t].fresh /\ Stamp(t)
  <2> DEFINE won == [call[t] EXCEPT !.pc = "sweep", !.nowAge = 0, !.fresh = TRUE]
             late(u) == [call[u] EXCEPT !.fresh = FALSE]
  <2>1. /\ slot' = slot /\ lastAge' = call[t].nowAge
        /\ call' = [u \in Threads |-> IF u = t THEN won
                       ELSE IF call[u].pc = "cas" THEN late(u) ELSE call[u]]
    BY <1>1 DEF Cas, Stamp
  <2>2. /\ won \in CallRec /\ won.pc = "sweep" /\ won.q = call[t].q /\ won.part = call[t].part
        /\ won.k = call[t].k /\ won.nowAge = 0 /\ won.always = call[t].always
        /\ won.ever = call[t].ever /\ won.found = call[t].found
    BY <1>0 DEF CallRec, Pcs
  <2>3. \A u \in Threads :
          /\ late(u) \in CallRec /\ late(u).pc = call[u].pc /\ late(u).q = call[u].q
          /\ late(u).part = call[u].part /\ late(u).k = call[u].k /\ ~late(u).fresh
          /\ late(u).nowAge = call[u].nowAge /\ late(u).always = call[u].always
          /\ late(u).ever = call[u].ever /\ late(u).found = call[u].found
    BY <1>0 DEF CallRec
  <2> HIDE DEF won, late
  <2>4. /\ call'[t] = won
        /\ \A u \in Threads : u # t =>
             call'[u] = IF call[u].pc = "cas" THEN late(u) ELSE call[u]
    BY <2>1
  <2>5. /\ lastAge \in Int /\ MaxLag \in Nat /\ MaxAge \in Nat /\ MaxLag <= MaxAge
        /\ call[t].nowAge \in Nat /\ call[t].nowAge <= MaxLag
        /\ lastAge - call[t].nowAge >= Interval
    BY <1>0, <1>1, GraphQueryAssumption DEF QInv, AgeInv, AgeOK, CallRec, MaxAge
  <2>6. Asking(won) /\ Walk(won, slot) /\ \A age : AgeOK(won, age)
    <3>1. Asking(won)
      BY <1>0, <2>2 DEF Asking
    <3>2. Walk(won, slot)
      BY <1>0, <2>2, WalkSame DEF CallRec
    <3>3. \A age : AgeOK(won, age)
      BY <2>2, GraphQueryAssumption DEF AgeOK
    <3>4. QED BY <3>1, <3>2, <3>3
  <2>7. ASSUME NEW u \in Threads, u # t
        PROVE  /\ call'[u] \in CallRec /\ Asking(call'[u]) /\ AgeOK(call'[u], lastAge')
               /\ call'[u].pc = call[u].pc
               /\ call'[u].pc # "idle" => Walk(call'[u], slot)
    <3>1. CASE call[u].pc = "cas"
      <4>1. call'[u] = late(u)
        BY <2>4, <2>7, <3>1
      <4>2. Asking(late(u)) /\ \A age : AgeOK(late(u), age)
        BY <1>0, <2>3 DEF Asking, AgeOK
      <4>3. Walk(late(u), slot)
        BY <1>0, <2>3, <3>1, WalkSame DEF CallRec
      <4>4. QED BY <2>3, <4>1, <4>2, <4>3
    <3>2. CASE call[u].pc # "cas"
      <4>1. call'[u] = call[u]
        BY <2>4, <2>7, <3>2
      <4>2. AgeOK(call[u], lastAge')
        BY <1>0, <3>2 DEF AgeOK
      <4>3. QED BY <1>0, <4>1, <4>2
    <3>3. QED BY <3>1, <3>2
  <2>8. CallsInv'
    <3>1. call' \in [Threads -> CallRec]
      <4>1. call' = [u \in Threads |-> call'[u]]
        BY <2>1
      <4>2. QED BY <2>2, <2>4, <2>7, <4>1
    <3>2. QED BY <2>4, <2>6, <2>7, <3>1 DEF CallsInv
  <2>9. AgeInv'
    BY <2>1, <2>4, <2>5, <2>6, <2>7 DEF AgeInv
  <2>10. WalkInv'
    BY <2>1, <2>4, <2>6, <2>7 DEF WalkInv, Busy
  <2>11. QED BY <2>1, <2>5, <2>7, <2>8, <2>9, <2>10 DEF QInv
<1>2. CASE /\ UNCHANGED lastAge
           /\ Move(t, [call[t] EXCEPT !.pc = "scan", !.nowAge = 0, !.fresh = TRUE])
  <2> DEFINE c == call[t]
             r == [c EXCEPT !.pc = "scan", !.nowAge = 0, !.fresh = TRUE]
  <2>1. /\ r \in CallRec /\ r.pc = "scan" /\ r.q = c.q /\ r.part = c.part /\ r.k = c.k
        /\ r.nowAge = 0 /\ r.always = c.always /\ r.ever = c.ever /\ r.found = c.found
    BY <1>0 DEF CallRec, Pcs
  <2>2. Move(t, r) /\ UNCHANGED <<slot, lastAge>>
    BY <1>2 DEF Cas
  <2> HIDE DEF r
  <2>3. Asking(r) /\ AgeOK(r, lastAge)
    BY <1>0, <2>1, GraphQueryAssumption DEF Asking, AgeOK
  <2>4. Walk(r, slot)
    BY <1>0, <2>1, WalkSame DEF CallRec, Asking
  <2>5. QInv'
    BY <2>1, <2>2, <2>3, <2>4, MoveKeeps
  <2>6. call'[t].pc = "scan" /\ \A u \in Threads : u # t => call'[u] = call[u]
    BY <1>0, <2>1, <2>2 DEF Move
  <2>7. QED BY <2>5, <2>6
<1>3. QED BY <1>1, <1>2 DEF Cas

(* The sweep keeps QInv: what it takes leaves the entries that were there   *)
(* always.                                                                  *)
LEMMA SweepKeeps ==
  ASSUME IInv, QInv, NEW t \in Threads, Sweep(t)
  PROVE  QInv' /\ \A u \in Threads : call[u].pc = "cas" => call'[u].pc = "cas"
<1>0. slot \in [SlotIds -> Entries \cup {NoEntry}] /\ call[t].pc = "sweep" /\ lastAge' = lastAge
  BY DEF IInv, TypesInv, Sweep
<1>1. slot' \in [SlotIds -> Entries \cup {NoEntry}] /\ NoMoves(slot, slot')
  BY <1>0 DEF Sweep, NoMoves
<1> DEFINE w == Watch(slot')
<1>2. \A u \in Threads :
        /\ w[u] \in CallRec /\ Asking(w[u]) /\ w[u].pc = call[u].pc
        /\ AgeOK(w[u], lastAge)
        /\ call[u].pc # "idle" => Walk(w[u], slot')
  BY <1>1, WatchKeeps DEF QInv, AgeInv
<1>3. w = [u \in Threads |-> w[u]] /\ call' = [w EXCEPT ![t] = Advance(w[t])]
  BY DEF Watch, Sweep
<1> HIDE DEF w
<1>4. call' = [u \in Threads |-> IF u = t THEN Advance(w[t]) ELSE w[u]]
  BY <1>3
<1>5. /\ Advance(w[t]) \in CallRec /\ Asking(Advance(w[t]))
      /\ Advance(w[t]).nowAge = w[t].nowAge /\ Advance(w[t]).pc \in {"sweep", "scan"}
  BY <1>0, <1>2, AdvanceFields
<1>6. Walk(Advance(w[t]), slot') /\ AgeOK(Advance(w[t]), lastAge)
  <2>1. Walk(Advance(w[t]), slot')
    BY <1>0, <1>2, AdvanceWalks
  <2>2. QED BY <1>2, <1>5, <2>1 DEF AgeOK
<1>7. CallsInv'
  BY <1>2, <1>4, <1>5 DEF CallsInv
<1>8. AgeInv'
  BY <1>0, <1>2, <1>4, <1>6 DEF QInv, AgeInv
<1>9. WalkInv'
  BY <1>2, <1>4, <1>6 DEF WalkInv, Busy
<1>10. QED BY <1>0, <1>2, <1>4, <1>7, <1>8, <1>9 DEF QInv

(* One slot of a walk: an entry found there is taken, the walk moves on.    *)
LEMMA ScanKeeps == ASSUME IInv, QInv, NEW t \in Threads, Scan(t) PROVE QInv'
<1> DEFINE c == call[t]
           hit == About(Query(<<c.q.kinds[c.part]>>, c.q.topic, c.q.node), {slot[c.k]} \ {NoEntry})
           F == c.found \cup hit
           r == [c EXCEPT !.found = F]
<1>1. /\ c \in CallRec /\ Asking(c) /\ AgeOK(c, lastAge) /\ c.pc = "scan" /\ Walk(c, slot)
      /\ c.k \in SlotIds /\ slot \in [SlotIds -> Entries \cup {NoEntry}]
  BY DEF Scan, QInv, CallsInv, AgeInv, WalkInv, Busy, CallRec, IInv, TypesInv
<1>2. UNCHANGED <<slot, lastAge>> /\ Move(t, Advance(r))
  <2>1. [c EXCEPT !.found = @ \cup hit] = r
    OBVIOUS
  <2>2. QED BY <2>1 DEF Scan
<1>3. c.q \in Queries /\ c.part \in DOMAIN c.q.kinds
  <2>1. c.q \in Queries /\ c.part \in 1 .. Len(c.q.kinds)
    BY <1>1 DEF Asking
  <2>2. c.q.kinds \in Seq(EntryKinds)
    BY <2>1, GraphQueryAssumption
  <2>3. QED BY <2>1, <2>2
<1>4. hit = {e \in {slot[c.k]} \ {NoEntry} :
               /\ c.q.kinds[c.part] = KindOf[e] /\ c.q.topic \in {NoFilter, TopicOf[e]}
               /\ c.q.node \in {NoFilter, NodeOf[e]}}
  BY DEF About, Query
<1> HIDE DEF hit
<1>5. hit \subseteq About(c.q, Reg(slot))
  BY <1>1, <1>3, <1>4 DEF About, Reg
<1>6. F \in SUBSET Entries /\ F \subseteq c.ever
  <2>1. About(c.q, Reg(slot)) \subseteq c.ever /\ c.found \subseteq c.ever /\ c.ever \subseteq Entries
    BY <1>1 DEF Walk, CallRec
  <2>2. QED BY <1>5, <2>1
<1>7. \A e \in c.always : c.q.kinds[c.part] = KindOf[e] /\ slot[c.k] = e => e \in F
  <2> SUFFICES ASSUME NEW e \in c.always, c.q.kinds[c.part] = KindOf[e], slot[c.k] = e
               PROVE  e \in hit
    OBVIOUS
  <2>1. e \in About(c.q, Reg(slot))
    BY <1>1 DEF Walk
  <2>2. QED BY <1>4, <2>1 DEF About, Reg
<1>8. c.found \subseteq F
  OBVIOUS
<1> HIDE DEF F
<1>9. /\ r \in CallRec /\ r.pc = c.pc /\ r.q = c.q /\ r.part = c.part /\ r.k = c.k
      /\ r.nowAge = c.nowAge /\ r.fresh = c.fresh /\ r.always = c.always /\ r.ever = c.ever
      /\ r.found = F
  BY <1>1, <1>6 DEF CallRec
<1> HIDE DEF r, c
<1>10. Asking(r) /\ AgeOK(r, lastAge) /\ Walk(r, slot)
  <2>1. Asking(r) /\ AgeOK(r, lastAge)
    BY <1>1, <1>9 DEF Asking, AgeOK
  <2>2. \A i, j : Passed(r, i, j) = Passed(c, i, j)
    BY <1>9 DEF Passed
  <2>3. Walk(r, slot)
    BY <1>1, <1>6, <1>8, <1>9, <2>2 DEF Walk
  <2>4. QED BY <2>1, <2>3
<1>11. Walk(Advance(r), slot)
  BY <1>1, <1>7, <1>9, <1>10, AdvanceWalks
<1>12. /\ Advance(r) \in CallRec /\ Asking(Advance(r)) /\ Advance(r).nowAge = r.nowAge
       /\ Advance(r).pc # "cas"
  BY <1>1, <1>9, <1>10, AdvanceFields
<1>13. AgeOK(Advance(r), lastAge)
  BY <1>10, <1>12 DEF AgeOK
<1>14. QED BY <1>2, <1>11, <1>12, <1>13, MoveKeeps

(* The end of a query.                                                      *)
LEMMA ReturnKeeps == ASSUME IInv, QInv, NEW t \in Threads, Return(t) PROVE QInv'
<1>1. Move(t, NoCall) /\ UNCHANGED <<slot, lastAge>>
  BY DEF Return
<1>2. NoCall.pc = "idle" /\ NoCall.nowAge = 0
  BY DEF NoCall
<1>3. Asking(NoCall) /\ AgeOK(NoCall, lastAge)
  BY <1>2, GraphQueryAssumption DEF Asking, AgeOK
<1>4. QED BY <1>1, <1>2, <1>3, NoCallTyped, MoveKeeps

(* Ages grow together; lastAge stops where no comparison can tell.          *)
LEMMA TickKeeps ==
  ASSUME IInv, QInv, Tick PROVE QInv' /\ \A t \in Threads : call'[t].pc = call[t].pc
<1> DEFINE older(t) == [call[t] EXCEPT !.nowAge = call[t].nowAge + 1]
<1>0. /\ call \in [Threads -> CallRec] /\ slot' = slot /\ lastAge \in 0 .. MaxAge
      /\ MaxAge = Interval + MaxLag /\ MaxLag \in Nat /\ Interval \in Nat
      /\ \A t \in Threads : /\ call[t] \in CallRec /\ Asking(call[t]) /\ AgeOK(call[t], lastAge)
                            /\ call[t].pc # "idle" => Walk(call[t], slot)
  BY GraphQueryAssumption DEF Tick, QInv, CallsInv, AgeInv, WalkInv, Busy, MaxAge
<1>1. /\ lastAge' = IF lastAge = MaxAge THEN MaxAge ELSE lastAge + 1
      /\ call' = [t \in Threads |-> IF call[t].pc \in {"load", "cas"} THEN older(t) ELSE call[t]]
      /\ \A t \in Threads : call[t].pc \in {"load", "cas"} => call[t].nowAge < MaxLag
  BY DEF Tick
<1>2. ASSUME NEW t \in Threads
      PROVE  /\ older(t) \in CallRec /\ older(t).pc = call[t].pc /\ older(t).q = call[t].q
             /\ older(t).part = call[t].part /\ older(t).k = call[t].k
             /\ older(t).fresh = call[t].fresh /\ older(t).nowAge = call[t].nowAge + 1
             /\ older(t).always = call[t].always /\ older(t).ever = call[t].ever
             /\ older(t).found = call[t].found
  <2> DEFINE n == call[t].nowAge + 1
  <2>1. n \in Nat /\ older(t) = [call[t] EXCEPT !.nowAge = n]
    BY <1>0 DEF CallRec
  <2> HIDE DEF n
  <2>2. /\ [call[t] EXCEPT !.nowAge = n] \in CallRec
        /\ [call[t] EXCEPT !.nowAge = n].pc = call[t].pc /\ [call[t] EXCEPT !.nowAge = n].q = call[t].q
        /\ [call[t] EXCEPT !.nowAge = n].part = call[t].part
        /\ [call[t] EXCEPT !.nowAge = n].k = call[t].k
        /\ [call[t] EXCEPT !.nowAge = n].fresh = call[t].fresh
        /\ [call[t] EXCEPT !.nowAge = n].nowAge = n
        /\ [call[t] EXCEPT !.nowAge = n].always = call[t].always
        /\ [call[t] EXCEPT !.nowAge = n].ever = call[t].ever
        /\ [call[t] EXCEPT !.nowAge = n].found = call[t].found
    BY <1>0, <2>1 DEF CallRec
  <2>3. QED BY <2>1, <2>2 DEF n
<1> HIDE DEF older
<1>3. ASSUME NEW t \in Threads
      PROVE  /\ call'[t] \in CallRec /\ Asking(call'[t]) /\ AgeOK(call'[t], lastAge')
             /\ call'[t].pc = call[t].pc
             /\ call[t].pc # "idle" => Walk(call'[t], slot)
  <2>0. call[t].nowAge \in Nat
    BY <1>0 DEF CallRec
  <2>1. CASE call[t].pc \in {"load", "cas"}
    <3>1. call'[t] = older(t)
      BY <1>1, <2>1
    <3>2. Asking(older(t))
      BY <1>0, <1>2 DEF Asking
    <3>3. AgeOK(older(t), lastAge')
      <4>1. call[t].nowAge < MaxLag /\ older(t).nowAge = call[t].nowAge + 1
        BY <1>1, <1>2, <2>1
      <4>2. ASSUME call[t].pc = "cas", call[t].fresh PROVE lastAge' - older(t).nowAge >= Interval
        <5>1. lastAge - call[t].nowAge >= Interval
          BY <1>0, <4>2 DEF AgeOK
        <5>2. QED BY <1>0, <1>1, <2>0, <4>1, <5>1
      <4>3. older(t).nowAge <= MaxLag
        BY <1>0, <2>0, <4>1
      <4>4. QED BY <1>2, <4>2, <4>3 DEF AgeOK
    <3>4. Walk(older(t), slot)
      BY <1>0, <1>2, <2>1, WalkSame DEF CallRec
    <3>5. QED BY <1>2, <3>1, <3>2, <3>3, <3>4
  <2>2. CASE call[t].pc \notin {"load", "cas"}
    <3>1. call'[t] = call[t]
      BY <1>1, <2>2
    <3>2. AgeOK(call[t], lastAge')
      BY <1>0, <2>2 DEF AgeOK
    <3>3. QED BY <1>0, <3>1, <3>2
  <2>3. QED BY <2>1, <2>2
<1>4. CallsInv'
  <2>1. call' = [t \in Threads |-> call'[t]]
    BY <1>1
  <2>2. QED BY <1>3, <2>1 DEF CallsInv
<1>5. AgeInv'
  <2>1. lastAge' \in 0 .. MaxAge
    BY <1>0, <1>1
  <2>2. QED BY <1>3, <2>1 DEF AgeInv
<1>6. WalkInv'
  BY <1>0, <1>3 DEF WalkInv, Busy
<1>7. QED BY <1>3, <1>4, <1>5, <1>6 DEF QInv

(* Every step keeps the invariant, and a thread between the load of the     *)
(* stamp and its exchange only begins to sweep with a stamp an interval     *)
(* younger.                                                                 *)
Spaced(t) == call[t].pc = "cas" /\ call'[t].pc = "sweep" => lastAge - lastAge' >= Interval

(* QInv is inductive, and a compare_exchange that succeeds is spaced.       *)
LEMMA NextKeepsCalls ==
  ASSUME IInv, QInv, [Next]_vars PROVE QInv' /\ \A t \in Threads : Spaced(t)
<1>0. call \in [Threads -> CallRec]
  BY DEF QInv, CallsInv
<1>1. ASSUME UNCHANGED <<slot, lastAge, call>> PROVE QInv' /\ \A t \in Threads : Spaced(t)
  BY <1>1 DEF QInv, CallsInv, AgeInv, WalkInv, Busy, Spaced
<1>2. ASSUME QInv', \A t \in Threads : call[t].pc = "cas" => call'[t].pc # "sweep"
      PROVE  QInv' /\ \A t \in Threads : Spaced(t)
  BY <1>2 DEF Spaced
<1>3. ASSUME NEW t \in Threads, LoadLast(t) \/ Scan(t) \/ Return(t) \/ AskStep(t)
      PROVE  QInv' /\ \A u \in Threads : Spaced(u)
  <2>1. QInv'
    BY <1>3, LoadLastKeeps, ScanKeeps, ReturnKeeps, AskKeeps DEF AskStep
  <2>2. call[t].pc # "cas" /\ \A u \in Threads : u # t => call'[u] = call[u]
    BY <1>0, <1>3, NoCallTyped DEF LoadLast, Scan, Return, AskStep, Ask, Move, Busy, NoCall
  <2>3. QED BY <1>2, <2>1, <2>2
<1>4. ASSUME NEW t \in Threads, Cas(t) PROVE QInv' /\ \A u \in Threads : Spaced(u)
  BY <1>4, CasKeeps DEF Spaced
<1>5. ASSUME NEW t \in Threads, Sweep(t) PROVE QInv' /\ \A u \in Threads : Spaced(u)
  BY <1>2, <1>5, SweepKeeps
<1>6. ASSUME NEW e \in Remote, Register(e) \/ Unregister(e)
      PROVE  QInv' /\ \A t \in Threads : Spaced(t)
  BY <1>2, <1>6, OthersKeepCalls
<1>7. ASSUME NEW n \in Nodes,
             \/ CreateGc(n) \/ AddNode(n) \/ AllocFails(n) \/ Publish(n)
             \/ RemoveNode(n) \/ Unpublish(n) \/ DestroyGc(n) \/ Trigger(n)
      PROVE  QInv' /\ \A t \in Threads : Spaced(t)
  <2>1. CASE AddNode(n) \/ AllocFails(n) \/ RemoveNode(n)
    BY <1>2, <2>1, NodesKeepCalls
  <2>2. CASE CreateGc(n) \/ Publish(n) \/ Unpublish(n) \/ DestroyGc(n) \/ Trigger(n)
    BY <1>1, <2>2 DEF CreateGc, Publish, Unpublish, DestroyGc, Trigger
  <2>3. QED BY <1>7, <2>1, <2>2
<1>8. CASE Tick
  BY <1>2, <1>8, TickKeeps
<1>9. CASE TriggerAll \/ \E p \in Mortal : Die(p)
  BY <1>1, <1>9 DEF TriggerAll, Die
<1>10. CASE UNCHANGED vars
  BY <1>1, <1>10 DEF vars
<1>11. QED
  BY <1>3, <1>4, <1>5, <1>6, <1>7, <1>8, <1>9, <1>10 DEF Next, QueryStep

(* Before the first query.                                                  *)
LEMMA InitQInv == Init => QInv
<1> SUFFICES ASSUME Init PROVE QInv
  OBVIOUS
<1>1. call = [t \in Threads |-> NoCall] /\ lastAge = 0
  BY DEF Init
<1>2. NoCall.pc = "idle" /\ NoCall.nowAge = 0
  BY DEF NoCall
<1>3. CallsInv
  BY <1>1, <1>2, NoCallTyped DEF CallsInv, Asking
<1>4. AgeInv
  BY <1>1, <1>2, GraphQueryAssumption DEF AgeInv, AgeOK, MaxAge
<1>5. WalkInv
  BY <1>1, <1>2 DEF WalkInv, Busy
<1>6. QED BY <1>3, <1>4, <1>5 DEF QInv

(* QInv holds always.                                                       *)
LEMMA QueriesInductive == Spec => []QInv
<1>1. IInv /\ QInv /\ [Next]_vars => QInv'
  BY NextKeepsCalls
<1>2. QED BY InitQInv, Inductive, <1>1, PTL DEF Spec

(* The answer of a graph query, put together by query_all from walks over   *)
(* slots that other processes and the sweeps change: it tells of all that   *)
(* was registered throughout the call and of nothing that never was during  *)
(* it, for any number of threads, entries and slots.                        *)
THEOREM AnswersBetween == Spec => []AnswerBetween
<1>1. QInv => AnswerBetween
  <2> SUFFICES ASSUME QInv, NEW t \in Threads, call[t].pc = "answer"
               PROVE  /\ \A e \in call[t].always :
                           <<TopicOf[e], TypeOf[e]>> \in Answer(call[t].found)
                      /\ \A x \in Answer(call[t].found) :
                           \E e \in call[t].ever : x = <<TopicOf[e], TypeOf[e]>>
    BY DEF AnswerBetween
  <2>1. Walk(call[t], slot)
    BY DEF QInv, WalkInv, Busy
  <2>2. ASSUME NEW e \in call[t].always PROVE e \in call[t].found
    <3>1. e \in About(call[t].q, Reg(slot))
      BY <2>1 DEF Walk
    <3>2. PICK i \in DOMAIN call[t].q.kinds : call[t].q.kinds[i] = KindOf[e]
      BY <3>1 DEF About
    <3>3. PICK j \in SlotIds : slot[j] = e
      BY <3>1 DEF About, Reg
    <3>4. Passed(call[t], i, j)
      BY DEF Passed
    <3>5. QED BY <2>1, <3>2, <3>3, <3>4 DEF Walk
  <2>3. call[t].found \subseteq call[t].ever
    BY <2>1 DEF Walk
  <2>4. QED BY <2>2, <2>3 DEF Answer
<1>2. QED BY QueriesInductive, <1>1, PTL

(* maybe_cleanup_stale: the thread that exchanges the stamp found it an     *)
(* interval or more older than its own clock reading, and what it stores is *)
(* that reading.  So sweeps are spaced, however the threads race.           *)
THEOREM SweepsAreSpaced == Spec => SweepsSpaced
<1>1. IInv /\ QInv /\ [Next]_vars =>
        [\A t \in Threads : call[t].pc = "cas" /\ call'[t].pc = "sweep"
            => lastAge - lastAge' >= Interval]_vars
  BY NextKeepsCalls DEF Spaced
<1>2. QED BY Inductive, QueriesInductive, <1>1, PTL DEF Spec, SweepsSpaced
=============================================================================
