---------------------------- MODULE Subscription ----------------------------
(***************************************************************************)
(* The receiving side of one subscription.  Any number of threads drain    *)
(* its socket into its queue: rmw_take and its variants with               *)
(* drain_subscription, which tells the listener, and rmw_wait with         *)
(* drain_socket, which does not.  recv_from peeks at the head of the       *)
(* socket to size its thread-local buffer and then receives; another       *)
(* thread may receive in between.                                          *)
(***************************************************************************)
EXTENDS Integers, FiniteSets, Sequences, SequencesExt

CONSTANTS
  Takers, Waiters,   \* threads that take, threads that drain in rmw_wait
  Traffic,           \* the sequences of datagrams that may be sent, by kind
  MaxSets,           \* bound: calls that set or clear the listener
  Depth,             \* queue_depth
  MaxTake            \* messages one rmw_take_sequence asks for

(* "big" exceeds the initial buffer, "corrupt" fails to deserialize, "zero" *)
(* and "runt" hold no header, "alien" is a message the drain filters out.   *)
Kinds    == {"msg", "big", "corrupt", "zero", "runt", "alien"}
Filtered == {"zero", "runt", "alien"}
Threads  == Takers \cup Waiters
NoMsg    == 0

ASSUME SubscriptionAssumption ==
  /\ Takers \cap Waiters = {} /\ IsFiniteSet(Threads) /\ Traffic \subseteq Seq(Kinds)
  /\ MaxSets \in Nat /\ Depth \in Nat \ {0} /\ MaxTake \in Nat \ {0}

VARIABLES
  kind, sent,      \* the datagrams of this run by id, and how many are sent
  socket, queue,   \* ids, oldest first; the queue says whether the tail was cut
  pc, cur, grown,  \* of every thread; grown: its buffer has been resized
  cb, sets, told,  \* the listener, calls that set it, messages it was told of
  pops, taken,     \* history: messages popped, and what the takes delivered:
                   \*   [nth, msg, cut], nth the place among the messages popped
  lost,            \* history: dropped, with the reason
  since,           \* history: datagrams sent when a thread's drain began
  raced,           \* history: did another thread receive since a thread's peek?
  silent, popped   \* history: since the listener was set, pushed by rmw_wait, popped

dataVars == <<kind, sent, socket, queue, pops, taken, lost>>
listener == <<cb, sets, told, silent, popped>>
vars == <<dataVars, pc, cur, grown, since, raced, listener>>

Init ==
  /\ kind \in Traffic /\ sent = 0 /\ socket = <<>> /\ queue = <<>>
  /\ pops = 0 /\ taken = {} /\ lost = {}
  /\ pc = [t \in Threads |-> "idle"] /\ cur = [t \in Threads |-> NoMsg]
  /\ grown = [t \in Threads |-> FALSE]
  /\ since = [t \in Threads |-> 0] /\ raced = [t \in Threads |-> FALSE]
  /\ cb = FALSE /\ sets = 0 /\ told = 0 /\ silent = 0 /\ popped = 0

At(t, from, to) == pc[t] = from /\ pc' = [pc EXCEPT ![t] = to]

Send ==
  /\ sent < Len(kind)
  /\ sent' = sent + 1 /\ socket' = Append(socket, sent + 1)
  /\ UNCHANGED <<kind, queue, pops, taken, lost, pc, cur, grown, since, raced, listener>>

-----------------------------------------------------------------------------
(* A drain: until recv_from finds the socket empty.                         *)

Drained(t) == IF t \in Takers THEN "pop" ELSE "end"
Loses(m, why) == lost' = lost \cup {[msg |-> m, why |-> why]}

Call(t) ==
  /\ At(t, "idle", "peek")
  /\ since' = [since EXCEPT ![t] = sent]
  /\ UNCHANGED <<dataVars, cur, grown, raced, listener>>

(* Mutant of Peek: the buffer keeps its initial size.                       *)
PeekNoResize(t) ==
  /\ \/ socket = <<>> /\ At(t, "peek", Drained(t)) /\ UNCHANGED raced
     \/ /\ socket # <<>> /\ At(t, "peek", "recv")
        /\ raced' = [raced EXCEPT ![t] = FALSE]
  /\ UNCHANGED <<dataVars, cur, grown, since, listener>>

(* recv with MSG_PEEK: the size of the head, and room for it.               *)
Peek(t) ==
  /\ \/ socket = <<>> /\ At(t, "peek", Drained(t)) /\ UNCHANGED <<grown, raced>>
     \/ /\ socket # <<>> /\ At(t, "peek", "recv")
        /\ grown' = [grown EXCEPT ![t] = @ \/ kind[Head(socket)] = "big"]
        /\ raced' = [raced EXCEPT ![t] = FALSE]
  /\ UNCHANGED <<dataVars, cur, since, listener>>

Cut(t, m) == kind[m] = "big" /\ ~grown[t]

(* recv found the socket empty: another thread was faster.                  *)
RecvNothing(t) ==
  /\ socket = <<>> /\ At(t, "recv", Drained(t))
  /\ raced' = [raced EXCEPT ![t] = FALSE]
  /\ UNCHANGED <<dataVars, cur, grown, since, listener>>

Dequeue(t) ==
  /\ socket # <<>> /\ socket' = Tail(socket)
  /\ raced' = [u \in Threads |-> u # t /\ (raced[u] \/ pc[u] = "recv")]

(* Mutant of RecvDrops: the drain stops at a datagram that it drops.        *)
RecvDropsStops(t) ==
  LET m == Head(socket)
  IN /\ Dequeue(t) /\ At(t, "recv", Drained(t))
     /\ \/ Cut(t, m) /\ Loses(m, IF raced[t] THEN "race" ELSE "cut")
        \/ ~Cut(t, m) /\ kind[m] \in Filtered /\ Loses(m, "filter")
     /\ UNCHANGED <<kind, sent, queue, pops, taken, cur, grown, since, listener>>

(* A datagram whose tail was cut, one without a header, one that the drain  *)
(* filters out: consumed, and the drain goes on.                            *)
RecvDrops(t) ==
  LET m == Head(socket)
  IN /\ Dequeue(t) /\ At(t, "recv", "peek")
     /\ \/ Cut(t, m) /\ Loses(m, IF raced[t] THEN "race" ELSE "cut")
        \/ ~Cut(t, m) /\ kind[m] \in Filtered /\ Loses(m, "filter")
     /\ UNCHANGED <<kind, sent, queue, pops, taken, cur, grown, since, listener>>

(* Mutant of RecvKeeps: the size is not compared with the buffer.           *)
RecvKeepsAny(t) ==
  LET m == Head(socket)
  IN /\ Dequeue(t) /\ At(t, "recv", "push")
     /\ kind[m] \notin Filtered
     /\ cur' = [cur EXCEPT ![t] = m]
     /\ UNCHANGED <<kind, sent, queue, pops, taken, lost, grown, since, listener>>

RecvKeeps(t) ==
  LET m == Head(socket)
  IN /\ Dequeue(t) /\ At(t, "recv", "push")
     /\ ~Cut(t, m) /\ kind[m] \notin Filtered
     /\ cur' = [cur EXCEPT ![t] = m]
     /\ UNCHANGED <<kind, sent, queue, pops, taken, lost, grown, since, listener>>

(* The queue keeps its depth by dropping the oldest.                        *)
Trim(q) == IF Len(q) > Depth THEN Tail(q) ELSE q

Push(t) ==
  LET q == Append(queue, [msg |-> cur[t], cut |-> Cut(t, cur[t])])
  IN /\ At(t, "push", IF t \in Takers THEN "notify" ELSE "peek")
     /\ queue' = Trim(q)
     /\ lost' = lost \cup {[msg |-> q[i].msg, why |-> "depth"] : i \in 1 .. Len(q) - Len(Trim(q))}
     /\ cur' = [cur EXCEPT ![t] = NoMsg]
     /\ silent' = IF cb /\ t \in Waiters THEN silent + 1 ELSE silent
     /\ UNCHANGED <<kind, sent, socket, pops, taken, grown, since, raced, cb, sets, told, popped>>

(* Only drain_subscription tells the listener, after the push.              *)
Notify(t) ==
  /\ At(t, "notify", "peek")
  /\ told' = IF cb THEN told + 1 ELSE told
  /\ UNCHANGED <<dataVars, cur, grown, since, raced, cb, sets, silent, popped>>

-----------------------------------------------------------------------------
(* The end of rmw_take and its variants, under queue_mutex: up to n         *)
(* messages are popped; one that fails to deserialize is gone.              *)
Pop(t, n) ==
  LET k    == IF n < Len(queue) THEN n ELSE Len(queue)
      good == {i \in 1 .. k : kind[queue[i].msg] # "corrupt"}
  IN /\ At(t, "pop", "idle")
     /\ queue' = SubSeq(queue, k + 1, Len(queue)) /\ pops' = pops + k
     /\ taken' = taken \cup {[nth |-> pops + i, msg |-> queue[i].msg, cut |-> queue[i].cut] : i \in good}
     /\ lost' = lost \cup {[msg |-> queue[i].msg, why |-> "corrupt"] : i \in (1 .. k) \ good}
     /\ popped' = IF cb THEN popped + k ELSE popped
     /\ since' = [since EXCEPT ![t] = 0]
     /\ UNCHANGED <<kind, sent, socket, cur, grown, raced, cb, sets, told, silent>>

(* rmw_wait only looks at the queue; whoever waited takes later.            *)
Return(t) ==
  /\ At(t, "end", "idle")
  /\ since' = [since EXCEPT ![t] = 0]
  /\ UNCHANGED <<dataVars, cur, grown, raced, listener>>

(* Mutant of SetCallback: what is queued already is not announced.          *)
SetCallbackLate(on) ==
  /\ sets < MaxSets /\ sets' = sets + 1
  /\ cb' = on /\ told' = 0 /\ silent' = 0 /\ popped' = 0
  /\ UNCHANGED <<dataVars, pc, cur, grown, since, raced>>

(* rmw_subscription_set_on_new_message_callback, under both mutexes: a new  *)
(* listener is told of what is queued already.                              *)
SetCallback(on) ==
  /\ sets < MaxSets /\ sets' = sets + 1
  /\ cb' = on /\ told' = (IF on THEN Len(queue) ELSE 0) /\ silent' = 0 /\ popped' = 0
  /\ UNCHANGED <<dataVars, pc, cur, grown, since, raced>>

Step(t) ==
  \/ Peek(t) \/ RecvNothing(t) \/ RecvDrops(t) \/ RecvKeeps(t) \/ Push(t) \/ Notify(t)
  \/ Return(t) \/ \E n \in 1 .. MaxTake : Pop(t, n)

Next ==
  \/ Send
  \/ \E t \in Threads : Call(t) \/ Step(t)
  \/ \E on \in BOOLEAN : SetCallback(on)

Spec == Init /\ [][Next]_vars

-----------------------------------------------------------------------------
Reasons == {"race", "cut", "filter", "depth", "corrupt"}
Ids     == DOMAIN kind
Items   == [msg : Ids, cut : BOOLEAN]

(* Type invariant.                                                          *)
TypeOK ==
  /\ kind \in Traffic /\ sent \in {0} \cup Ids
  /\ socket \in Seq(Ids) /\ queue \in Seq(Items) /\ Len(queue) <= Depth
  /\ pops \in Nat /\ taken \subseteq [nth : Nat, msg : Ids, cut : BOOLEAN]
  /\ lost \subseteq [msg : Ids, why : Reasons]
  /\ pc \in [Threads -> {"idle", "peek", "recv", "push", "notify", "pop", "end"}]
  /\ cur \in [Threads -> Ids \cup {NoMsg}] /\ grown \in [Threads -> BOOLEAN]
  /\ since \in [Threads -> {0} \cup Ids] /\ raced \in [Threads -> BOOLEAN]
  /\ cb \in BOOLEAN /\ sets \in 0 .. MaxSets
  /\ told \in Nat /\ silent \in Nat /\ popped \in Nat

(* A prefix is never delivered as a complete message, although the buffer   *)
(* was sized for the datagram that another thread received meanwhile.       *)
NoPrefixDelivered == \A x \in taken : ~x.cut

(* A good message is lost only to the queue depth or, when it is big, to a  *)
(* thread that received between another's peek and its receive; it is       *)
(* delivered once or lost once.                                             *)
LostOnlyByRule ==
  /\ \A x \in lost : \/ x.why = "filter" /\ kind[x.msg] \in Filtered
                     \/ x.why = "corrupt" /\ kind[x.msg] = "corrupt"
                     \/ x.why = "race" /\ kind[x.msg] = "big"
                     \/ x.why = "depth"
  /\ \A x, y \in taken : x.msg = y.msg => x = y
  /\ \A x \in taken, y \in lost : x.msg # y.msg

(* A drain leaves nothing behind that was in the socket when it began: junk *)
(* in front, and other drains, do not strand a message.                     *)
NothingStranded ==
  \A t \in Threads : pc[t] \in {"pop", "end"} => \A m \in ToSet(socket) : m > since[t]

(* The listener has been told of at least as many messages as there were to *)
(* pop since it was set, or is about to be, not counting the messages that  *)
(* rmw_wait drained.                                                        *)
Untold == Cardinality({t \in Threads : pc[t] = "notify"})
ListenerKeepsUp == cb => told + Untold + silent >= popped + Len(queue)

=============================================================================
