---------------------------- MODULE GraphQuery -----------------------------
(***************************************************************************)
(* Graph queries of one context (rmw_graph.cpp) and its nodes              *)
(* (rmw_node.cpp).  A query walks the registry slot by slot, once for each *)
(* type of entry it asks for, while entries come and go; before each walk  *)
(* it may sweep the slots of dead processes, at most once per interval for *)
(* all threads of the context.  Nodes own a guard condition in a list that *)
(* rmw_wait triggers on graph changes.                                     *)
(*                                                                         *)
(* Adding and removing an entry, and one slot of a walk, are single steps: *)
(* module Registry refines them.  A name and its namespace are one value.  *)
(* Clock values are kept as ages, so that the clock never ends.            *)
(***************************************************************************)
EXTENDS Integers, FiniteSets, Sequences

CONSTANTS
  Threads,      \* threads of the context that query the graph
  Pollers,      \* those that go on asking
  Asks,         \* [Threads -> sets of queries]: see Query below
  Nodes,        \* nodes of the context (their entries too)
  Remote,       \* entries of other processes
  OwnerOf,      \* [Remote -> process]
  KindOf, NodeOf, TopicOf, TypeOf,  \* [Entries -> ...]: what an entry says
  Mortal,       \* processes that may die
  MaxEntries,   \* slots of the registry
  Interval,     \* CLEANUP_MIN_INTERVAL_NS, in ticks
  MaxLag,       \* bound: ticks between a thread's clock reading and its use
  NoEntry, NoFilter  \* an empty slot; no filter on a field

Entries == Nodes \cup Remote
SlotIds == 0 .. MaxEntries - 1
Owners  == {OwnerOf[e] : e \in Remote}
MaxAge  == Interval + MaxLag    \* ages of last_cleanup_ns stop here

(* What a query asks: the types it walks for, in order, and its filters.    *)
Query(kinds, topic, n) == [kinds |-> kinds, topic |-> topic, node |-> n]

GetNodeNames                    == Query(<<"NODE">>, NoFilter, NoFilter)
Count(kind, topic)              == Query(<<kind>>, topic, NoFilter)
GetTopicNamesAndTypes           == Query(<<"PUB", "SUB">>, NoFilter, NoFilter)
GetServiceNamesAndTypes         == Query(<<"SERVICE", "CLIENT">>, NoFilter, NoFilter)
GetNamesAndTypesByNode(kind, n) == Query(<<kind>>, NoFilter, n)
GetInfoByTopic(kind, topic)     == Query(<<kind>>, topic, NoFilter)

EntryKinds == {"NODE", "PUB", "SUB", "SERVICE", "CLIENT"}
Queries == UNION {Asks[t] : t \in Threads}

ASSUME GraphQueryAssumption ==
  /\ MaxEntries \in Nat \ {0} /\ Interval \in Nat \ {0} /\ MaxLag \in Nat
  /\ Nodes \cap Remote = {} /\ NoEntry \notin Entries /\ Mortal \subseteq Owners
  /\ Pollers \subseteq Threads
  /\ \A q \in Queries : q.kinds \in Seq(EntryKinds) /\ q.kinds # <<>>

VARIABLES
  slot,     \* the registry: the entry in each slot
  dead,     \* processes that died
  lastAge,  \* ticks since the value of last_cleanup_ns
  call,     \* locals of each thread's query
  node,     \* control point of each node
  alive,    \* nodes whose graph guard condition is allocated
  listed,   \* UdsContext::graph_gcs
  todo      \* guard conditions that the loop of rmw_wait has yet to trigger

vars == <<slot, dead, lastAge, call, node, alive, listed, todo>>

NoCall == [pc |-> "idle", q |-> NoEntry, part |-> 0, k |-> 0, nowAge |-> 0, fresh |-> TRUE,
           found |-> {}, always |-> {}, ever |-> {}]

Init ==
  /\ slot = [k \in SlotIds |-> NoEntry] /\ dead = {} /\ lastAge = 0
  /\ call = [t \in Threads |-> NoCall]
  /\ node = [n \in Nodes |-> "none"] /\ alive = {} /\ listed = {} /\ todo = {}

Registered == {slot[k] : k \in SlotIds} \ {NoEntry}
Free       == {k \in SlotIds : slot[k] = NoEntry}
IsDead(e)  == e \in Remote /\ OwnerOf[e] \in dead
Busy(t)    == call[t].pc # "idle"

(* The entries that query q is about.                                       *)
About(q, E) == {e \in E : /\ \E i \in DOMAIN q.kinds : q.kinds[i] = KindOf[e]
                          /\ q.topic \in {NoFilter, TopicOf[e]}
                          /\ q.node \in {NoFilter, NodeOf[e]}}

(* History of the queries under way while the registry becomes s.           *)
Watch(s) ==
  LET reg == {s[k] : k \in SlotIds} \ {NoEntry} IN
  [t \in Threads |->
     IF Busy(t) THEN [call[t] EXCEPT !.always = @ \cap reg,
                                     !.ever = @ \cup About(call[t].q, reg)]
     ELSE call[t]]

-----------------------------------------------------------------------------
(* Other processes.                                                         *)

Put(e, k) == slot' = [slot EXCEPT ![k] = e] /\ call' = Watch(slot')
Drop(e)   == slot' = [k \in SlotIds |-> IF slot[k] = e THEN NoEntry ELSE slot[k]]
             /\ call' = Watch(slot')

Register(e) ==
  /\ e \notin Registered /\ ~IsDead(e)
  /\ \E k \in Free : Put(e, k)
  /\ UNCHANGED <<dead, lastAge, node, alive, listed, todo>>

Unregister(e) ==
  /\ e \in Registered /\ ~IsDead(e) /\ Drop(e)
  /\ UNCHANGED <<dead, lastAge, node, alive, listed, todo>>

Die(p) ==
  /\ p \notin dead /\ dead' = dead \cup {p}
  /\ UNCHANGED <<slot, lastAge, call, node, alive, listed, todo>>

(* Time passes.  Ages are exact where a comparison can depend on them.      *)
Tick ==
  /\ \A t \in Threads : call[t].pc \in {"load", "cas"} => call[t].nowAge < MaxLag
  /\ lastAge' = IF lastAge = MaxAge THEN MaxAge ELSE lastAge + 1
  /\ call' = [t \in Threads |-> IF call[t].pc \in {"load", "cas"}
                                THEN [call[t] EXCEPT !.nowAge = @ + 1] ELSE call[t]]
  /\ UNCHANGED <<slot, dead, node, alive, listed, todo>>

-----------------------------------------------------------------------------
(* Queries: query_all, maybe_cleanup_stale, registry_query.                 *)

Local == <<dead, node, alive, listed, todo>>
Move(t, r) == call' = [call EXCEPT ![t] = r]

(* The call begins: steady_now_ns of its first query_all.                   *)
Ask(t, q) ==
  /\ ~Busy(t)
  /\ Move(t, [NoCall EXCEPT !.pc = "load", !.q = q, !.part = 1,
                            !.always = About(q, Registered), !.ever = About(q, Registered)])
  /\ UNCHANGED <<slot, lastAge, Local>>

(* Mutant of LoadLast: a query that is too early dates the sweep anew.      *)
LoadLastRenews(t) ==
  /\ call[t].pc = "load"
  /\ \/ /\ lastAge - call[t].nowAge >= Interval /\ UNCHANGED lastAge
        /\ Move(t, [call[t] EXCEPT !.pc = "cas", !.fresh = TRUE])
     \/ /\ lastAge - call[t].nowAge < Interval /\ lastAge' = call[t].nowAge
        /\ Move(t, [call[t] EXCEPT !.pc = "scan", !.nowAge = 0])
  /\ UNCHANGED <<slot, Local>>

(* The stamp is loaded; a sweep is due an interval after it.                *)
LoadLast(t) ==
  /\ call[t].pc = "load"
  /\ \/ /\ lastAge - call[t].nowAge >= Interval
        /\ Move(t, [call[t] EXCEPT !.pc = "cas", !.fresh = TRUE])
     \/ /\ lastAge - call[t].nowAge < Interval
        /\ Move(t, [call[t] EXCEPT !.pc = "scan", !.nowAge = 0])
  /\ UNCHANGED <<slot, lastAge, Local>>

(* The stamp becomes this thread's clock reading: it sweeps.                *)
Stamp(t) ==
  /\ lastAge' = call[t].nowAge
  /\ call' = [u \in Threads |->
                IF u = t THEN [call[u] EXCEPT !.pc = "sweep", !.nowAge = 0, !.fresh = TRUE]
                ELSE IF call[u].pc = "cas" THEN [call[u] EXCEPT !.fresh = FALSE] ELSE call[u]]

(* Mutant of Cas: a plain store, whatever another thread stored meanwhile.  *)
CasStores(t) ==
  /\ call[t].pc = "cas" /\ Stamp(t)
  /\ UNCHANGED <<slot, Local>>

(* compare_exchange_strong: the loser goes on without a sweep.              *)
Cas(t) ==
  /\ call[t].pc = "cas"
  /\ \/ call[t].fresh /\ Stamp(t)
     \/ /\ ~call[t].fresh /\ UNCHANGED lastAge
        /\ Move(t, [call[t] EXCEPT !.pc = "scan", !.nowAge = 0, !.fresh = TRUE])
  /\ UNCHANGED <<slot, Local>>

(* After the last slot of a sweep comes the walk, after that the query_all  *)
(* of the next type, and in the end the answer.                             *)
Then(r) ==
  CASE r.pc = "sweep" -> [r EXCEPT !.k = 0, !.pc = "scan"]
    [] r.pc = "scan" /\ r.part < Len(r.q.kinds) -> [r EXCEPT !.k = 0, !.pc = "load", !.part = @ + 1]
    [] OTHER -> [r EXCEPT !.k = 0, !.pc = "answer"]

Advance(r) == IF r.k + 1 < MaxEntries THEN [r EXCEPT !.k = @ + 1] ELSE Then(r)

(* registry_cleanup_stale, one slot.                                        *)
Sweep(t) ==
  /\ call[t].pc = "sweep"
  /\ LET e == slot[call[t].k] IN
       slot' = IF IsDead(e) THEN [slot EXCEPT ![call[t].k] = NoEntry] ELSE slot
  /\ call' = [Watch(slot') EXCEPT ![t] = Advance(@)]
  /\ UNCHANGED <<lastAge, Local>>

(* Mutant of Scan: the walk ends at the first empty slot.                   *)
ScanStops(t) ==
  /\ call[t].pc = "scan"
  /\ LET c == call[t]
         e == slot[c.k]
         hit == About(Query(<<c.q.kinds[c.part]>>, c.q.topic, c.q.node), {e} \ {NoEntry})
         r == [c EXCEPT !.found = @ \cup hit] IN
       Move(t, IF e = NoEntry THEN Then(r) ELSE Advance(r))
  /\ UNCHANGED <<slot, lastAge, Local>>

(* registry_query, one slot: its entry if it is of this type and matches.   *)
Scan(t) ==
  /\ call[t].pc = "scan"
  /\ LET c == call[t]
         hit == About(Query(<<c.q.kinds[c.part]>>, c.q.topic, c.q.node),
                      {slot[c.k]} \ {NoEntry}) IN
       Move(t, Advance([c EXCEPT !.found = @ \cup hit]))
  /\ UNCHANGED <<slot, lastAge, Local>>

(* fill_names_and_types: every topic once, with all of its types.           *)
Answer(E) == {<<TopicOf[e], TypeOf[e]>> : e \in E}

(* The call returns, also when an allocation failed: then without answer.   *)
Return(t) ==
  /\ call[t].pc = "answer" /\ Move(t, NoCall)
  /\ UNCHANGED <<slot, lastAge, Local>>

-----------------------------------------------------------------------------
(* Nodes, and the trigger loop of rmw_wait under graph_gcs_mutex.           *)

NodeStep(n, from, to) == node[n] = from /\ node' = [node EXCEPT ![n] = to]
Unlocked == todo = {}

(* rmw_create_node: the guard condition, ...                                *)
CreateGc(n) ==
  /\ NodeStep(n, "none", "gc") /\ alive' = alive \cup {n}
  /\ UNCHANGED <<slot, dead, lastAge, call, listed, todo>>

(* ... the entry (a full registry is swept first), or its end, ...          *)
AddNode(n) ==
  /\ \/ /\ NodeStep(n, "gc", "added") /\ UNCHANGED alive
        /\ \/ \E k \in Free : Put(n, k)
           \/ /\ Free = {}
              /\ \E k \in SlotIds :
                   /\ IsDead(slot[k])
                   /\ slot' = [j \in SlotIds |-> IF j = k THEN n
                                 ELSE IF IsDead(slot[j]) THEN NoEntry ELSE slot[j]]
                   /\ call' = Watch(slot')
     \/ /\ NodeStep(n, "gc", "none") /\ alive' = alive \ {n}
        /\ Free = {} /\ ~\E e \in Registered : IsDead(e)
        /\ UNCHANGED <<slot, call>>
  /\ UNCHANGED <<dead, lastAge, listed, todo>>

(* Mutant of AllocFails: the entry stays.                                   *)
AllocFailsKeeps(n) ==
  /\ NodeStep(n, "added", "none") /\ alive' = alive \ {n}
  /\ UNCHANGED <<slot, call, dead, lastAge, listed, todo>>

(* ... undone when the handle or the copies of its names fail, ...          *)
AllocFails(n) ==
  /\ NodeStep(n, "added", "none") /\ Drop(n) /\ alive' = alive \ {n}
  /\ UNCHANGED <<dead, lastAge, listed, todo>>

(* ... and the list, last of all.                                           *)
Publish(n) ==
  /\ NodeStep(n, "added", "up") /\ Unlocked /\ listed' = listed \cup {n}
  /\ UNCHANGED <<slot, dead, lastAge, call, alive, todo>>

(* rmw_destroy_node: the entry, ...                                         *)
RemoveNode(n) ==
  /\ NodeStep(n, "up", "removed") /\ Drop(n)
  /\ UNCHANGED <<dead, lastAge, alive, listed, todo>>

(* Mutant of Unpublish: the list is changed without the mutex.              *)
UnpublishUnlocked(n) ==
  /\ NodeStep(n, "removed", "unlisted") /\ listed' = listed \ {n}
  /\ UNCHANGED <<slot, dead, lastAge, call, alive, todo>>

(* ... the list, ...                                                        *)
Unpublish(n) ==
  /\ NodeStep(n, "removed", "unlisted") /\ Unlocked /\ listed' = listed \ {n}
  /\ UNCHANGED <<slot, dead, lastAge, call, alive, todo>>

(* ... and the guard condition.                                             *)
DestroyGc(n) ==
  /\ NodeStep(n, "unlisted", "none") /\ alive' = alive \ {n}
  /\ UNCHANGED <<slot, dead, lastAge, call, listed, todo>>

(* rmw_wait saw a new generation: it locks the list and triggers each.      *)
TriggerAll ==
  /\ Unlocked /\ todo' = listed
  /\ UNCHANGED <<slot, dead, lastAge, call, node, alive, listed>>

Trigger(n) ==
  /\ n \in todo /\ todo' = todo \ {n}
  /\ UNCHANGED <<slot, dead, lastAge, call, node, alive, listed>>

-----------------------------------------------------------------------------
QueryStep(t) == LoadLast(t) \/ Cas(t) \/ Sweep(t) \/ Scan(t) \/ Return(t)
AskStep(t) == \E q \in Asks[t] : Ask(t, q)

Next ==
  \/ \E t \in Threads : QueryStep(t) \/ AskStep(t)
  \/ \E e \in Remote : Register(e) \/ Unregister(e)
  \/ \E p \in Mortal : Die(p)
  \/ Tick
  \/ \E n \in Nodes : \/ CreateGc(n) \/ AddNode(n) \/ AllocFails(n) \/ Publish(n)
                      \/ RemoveNode(n) \/ Unpublish(n) \/ DestroyGc(n) \/ Trigger(n)
  \/ TriggerAll

Spec == Init /\ [][Next]_vars

(* A query that has begun goes on, time passes, and the pollers go on       *)
(* asking, as a tool that watches the graph does.                           *)
Fairness ==
  /\ WF_vars(Tick)
  /\ \A t \in Pollers : WF_vars(QueryStep(t) \/ AskStep(t))
  /\ \A t \in Threads \ Pollers : WF_vars(QueryStep(t))

FairSpec == Spec /\ Fairness

-----------------------------------------------------------------------------
(* Type invariant.                                                          *)
TypeOK ==
  /\ slot \in [SlotIds -> Entries \cup {NoEntry}] /\ dead \subseteq Owners
  /\ lastAge \in 0 .. MaxAge /\ alive \subseteq Nodes /\ listed \subseteq Nodes
  /\ todo \subseteq Nodes
  /\ node \in [Nodes -> {"none", "gc", "added", "up", "removed", "unlisted"}]
  /\ \A t \in Threads :
       /\ call[t].pc \in {"idle", "load", "cas", "sweep", "scan", "answer"}
       /\ call[t].k \in SlotIds /\ call[t].nowAge \in 0 .. MaxLag

(* What a query returns, walk by walk over slots that others change: every  *)
(* entry that was registered during the whole call is told of, with its     *)
(* topic and its type, and nothing is told of that was not registered at    *)
(* some time during the call.                                               *)
AnswerBetween ==
  \A t \in Threads : call[t].pc = "answer" =>
    LET told == Answer(call[t].found) IN
    /\ \A e \in call[t].always : <<TopicOf[e], TypeOf[e]>> \in told
    /\ \A x \in told : \E e \in call[t].ever : x = <<TopicOf[e], TypeOf[e]>>

(* However the threads of a context race, two sweeps are dated an interval  *)
(* apart or more, and the date never goes back.                             *)
SweepsSpaced ==
  [][\A t \in Threads : call[t].pc = "cas" /\ call'[t].pc = "sweep"
       => lastAge - lastAge' >= Interval]_vars

(* rmw_wait never triggers a guard condition that rmw_destroy_node freed.   *)
NoFreedTrigger == todo \cup listed \subseteq alive

(* Between its calls a node has its entry, its guard condition and its      *)
(* place in the list, or it has none of them: also after a failed creation, *)
(* and whoever sweeps.                                                      *)
NodeWhole ==
  \A n \in Nodes :
    /\ node[n] = "up" => n \in Registered /\ n \in alive /\ n \in listed
    /\ node[n] = "none" => n \notin Registered /\ n \notin alive /\ n \notin listed

(* With one thread that goes on asking, however often, and with another     *)
(* that may win the race for the sweep, the entries of a dead process go    *)
(* away in spite of the throttle.                                           *)
DeadForgotten ==
  \A e \in Remote : IsDead(e) /\ e \in Registered ~> e \notin Registered
=============================================================================
