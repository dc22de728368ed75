------------------------------ MODULE WaitSet ------------------------------
(***************************************************************************)
(* rmw_wait on the entities of the caller: arming their descriptors in the *)
(* wait set's epoll instance, the ready check, the epoll loop with its     *)
(* dispatch and its pruning of stale descriptors, and the output pass.     *)
(* What was armed survives from call to call, while entities are created,  *)
(* destroyed, moved between wait sets and their descriptor numbers reused. *)
(*                                                                         *)
(* An entity is a socket (subscription, service and client are treated     *)
(* alike) or a guard condition.  It is created once and destroyed once, so *)
(* it stands for its uid and for its open file description as well.  The   *)
(* doorbell and the generation check are in module Doorbell.               *)
(***************************************************************************)
EXTENDS Integers, FiniteSets, FiniteSetsExt

CONSTANTS
  WaitSets,        \* wait sets, each used by one thread at a time
  MayWait,         \* the entities each may be given
  Timed,           \* those whose callers give a finite timeout
  Socks, Gcs,      \* sockets and guard conditions
  Fds,             \* descriptor numbers
  SockCap,         \* messages a socket holds
  Depth,           \* messages the queue of an entity holds
  MaxEvents,       \* events one epoll_wait reports (64)
  Noisy,           \* sockets that also receive datagrams the drain filters out
  Unwatchable,     \* entities that EPOLL_CTL_ADD may refuse
  Forked,          \* entities whose description a forked child may keep
  ConcurrentTake,  \* may another thread take while a wait holds the entity?
  NoEntity

Entities == Socks \cup Gcs

ASSUME WaitSetAssumption ==
  /\ Socks \cap Gcs = {} /\ NoEntity \notin Entities /\ IsFiniteSet(Entities)
  /\ Fds \subseteq Nat \ {0} /\ IsFiniteSet(Fds)
  /\ SockCap \in Nat \ {0} /\ Depth \in Nat \ {0} /\ MaxEvents \in Nat \ {0}
  /\ MayWait \in [WaitSets -> SUBSET Entities] /\ Timed \subseteq WaitSets /\ Noisy \subseteq Socks
  /\ Unwatchable \subseteq Entities /\ Forked \subseteq Entities
  /\ ConcurrentTake \in BOOLEAN

VARIABLES
  life,        \* "new", "open" or "gone"
  fdOf,        \* descriptor number of an open entity, 0 otherwise
  held,        \* descriptions that a forked child keeps open
  sock, junk,  \* messages on a socket; does it hold datagrams the drain filters?
  queue,       \* messages in the entity's queue
  efd,         \* is the eventfd of a guard condition readable?
  armed,       \* UdsWaitSet::armed: descriptor number -> entity
  interest,    \* the kernel's epoll set: pairs <<number, description>>
  call,        \* locals of rmw_wait of every wait set
  owed         \* history: triggers of guard conditions not reported yet

entityVars == <<life, fdOf, held>>
dataVars   == <<sock, junk, queue, efd>>
vars == <<entityVars, dataVars, armed, interest, call, owed>>

NoCall == [pc |-> "out", waiting |-> {}, armedNow |-> {}, unarmed |-> {}, got |-> {},
           pollOnly |-> FALSE, batch |-> {}, full |-> FALSE,
           progressed |-> FALSE, due |-> {}]

Init ==
  /\ life = [e \in Entities |-> "new"] /\ fdOf = [e \in Entities |-> 0] /\ held = {}
  /\ sock = [s \in Socks |-> 0] /\ junk = [s \in Socks |-> FALSE]
  /\ queue = [s \in Socks |-> 0] /\ efd = [g \in Gcs |-> FALSE]
  /\ armed = [w \in WaitSets |-> [f \in Fds |-> NoEntity]]
  /\ interest = [w \in WaitSets |-> {}]
  /\ call = [w \in WaitSets |-> NoCall]
  /\ owed = {}

Open == {e \in Entities : life[e] = "open"}
Waiting == UNION {call[w].waiting : w \in WaitSets}

(* What epoll sees of a description, and what a taker sees of an entity.    *)
Readable(e) == IF e \in Socks THEN sock[e] > 0 \/ junk[e] ELSE efd[e]
HasData(e)  == IF e \in Socks THEN sock[e] > 0 \/ queue[e] > 0 ELSE efd[e]

(* drain_socket on the sockets S: until EAGAIN, filtered, the oldest        *)
(* messages beyond the depth dropped.                                       *)
Drained(S) == [s \in Socks |-> IF s \in S THEN Min({Depth, queue[s] + sock[s]}) ELSE queue[s]]
Drain(S) ==
  /\ queue' = Drained(S)
  /\ sock' = [s \in Socks |-> IF s \in S THEN 0 ELSE sock[s]]
  /\ junk' = [s \in Socks |-> junk[s] /\ s \notin S]

ReadEventfds(S) == efd' = [g \in Gcs |-> efd[g] /\ g \notin S]

-----------------------------------------------------------------------------
(* Entities.  A new descriptor gets the lowest free number.                 *)
Create(e) ==
  /\ life[e] = "new"
  /\ \E f \in Fds :
       /\ \A o \in Open : fdOf[o] # f
       /\ \A g \in Fds : g < f => \E o \in Open : fdOf[o] = g
       /\ fdOf' = [fdOf EXCEPT ![e] = f]
  /\ life' = [life EXCEPT ![e] = "open"]
  /\ UNCHANGED <<held, dataVars, armed, interest, call, owed>>

(* The caller's duty: nobody waits on an entity that is being destroyed.    *)
(* The last close of a description takes it out of every epoll set.         *)
Destroy(e) ==
  /\ life[e] = "open" /\ e \notin Waiting
  /\ life' = [life EXCEPT ![e] = "gone"] /\ fdOf' = [fdOf EXCEPT ![e] = 0]
  /\ interest' = IF e \in held THEN interest
                 ELSE [w \in WaitSets |-> {i \in interest[w] : i[2] # e}]
  /\ queue' = [s \in Socks |-> IF s = e THEN 0 ELSE queue[s]]
  /\ owed' = owed \ {e}
  /\ UNCHANGED <<held, sock, junk, efd, armed, call>>

Fork(e) ==
  /\ e \in Forked /\ life[e] = "open" /\ held' = held \cup {e}
  /\ UNCHANGED <<life, fdOf, dataVars, armed, interest, call, owed>>

(* A message, or a datagram the drain filters out, arrives.                 *)
Send(s) ==
  /\ life[s] = "open"
  /\ \/ sock[s] < SockCap /\ sock' = [sock EXCEPT ![s] = @ + 1] /\ UNCHANGED junk
     \/ s \in Noisy /\ junk' = [junk EXCEPT ![s] = TRUE] /\ UNCHANGED sock
  /\ UNCHANGED <<entityVars, queue, efd, armed, interest, call, owed>>

Trigger(g) ==
  /\ life[g] = "open"
  /\ efd' = [efd EXCEPT ![g] = TRUE] /\ owed' = owed \cup {g}
  /\ UNCHANGED <<entityVars, sock, junk, queue, armed, interest, call>>

(* A take drains the socket and pops one message.                           *)
Take(s) ==
  /\ life[s] = "open" /\ (ConcurrentTake \/ s \notin Waiting)
  /\ queue' = [queue EXCEPT ![s] = Max({0, Drained({s})[s] - 1})]
  /\ sock' = [sock EXCEPT ![s] = 0] /\ junk' = [junk EXCEPT ![s] = FALSE]
  /\ UNCHANGED <<entityVars, efd, armed, interest, call, owed>>

-----------------------------------------------------------------------------
At(w, from) == call[w].pc = from

(* rmw_destroy_wait_set and rmw_create_wait_set: the new one is empty.      *)
Recreate(w) ==
  /\ At(w, "out")
  /\ armed' = [armed EXCEPT ![w] = [f \in Fds |-> NoEntity]]
  /\ interest' = [interest EXCEPT ![w] = {}]
  /\ UNCHANGED <<entityVars, dataVars, call, owed>>

(* register_fd on the entities S: those not armed for the same entity yet   *)
(* are added to the epoll set; those it refuses (bad) are remembered.       *)

(* Mutant of NotArmed: a number that is armed is taken for the same entity. *)
NotArmedNumber(w, e) == armed[w][fdOf[e]] = NoEntity

NotArmed(w, e) == armed[w][fdOf[e]] # e

Arm(w, S, bad) ==
  LET new == {e \in S \ bad : NotArmed(w, e)}
  IN /\ At(w, "out") /\ S \subseteq Open /\ S \cap Waiting = {}
     /\ \A e \in bad : NotArmed(w, e)
     /\ armed' = [armed EXCEPT ![w] = [f \in Fds |->
                    IF \E e \in new : fdOf[e] = f THEN CHOOSE e \in new : fdOf[e] = f
                    ELSE armed[w][f]]]
     /\ interest' = [interest EXCEPT ![w] = @ \cup {<<fdOf[e], e>> : e \in new}]
     /\ call' = [call EXCEPT ![w] =
                   [NoCall EXCEPT !.pc = "ready", !.waiting = S, !.unarmed = bad,
                                  !.armedNow = {fdOf[e] : e \in S \ bad},
                                  !.due = {e \in S : HasData(e)}]]
     /\ UNCHANGED <<entityVars, dataVars, owed>>

(* Mutant of CheckReady: something is ready, so epoll is not even polled.   *)
CheckReadyReturns(w) ==
  LET S     == call[w].waiting
      got   == {g \in S \cap Gcs : efd[g]}
      ready == got # {} \/ \E s \in S \cap Socks : Drained(call[w].unarmed)[s] > 0
  IN /\ At(w, "ready")
     /\ Drain(call[w].unarmed)
     /\ ReadEventfds(got)
     /\ call' = [call EXCEPT ![w].pc = IF ready THEN "output" ELSE "block", ![w].got = got]
     /\ UNCHANGED <<entityVars, armed, interest, owed>>

(* Entities without a watch are drained, the queues looked at, the caller's *)
(* eventfds read.  With something ready, epoll is only polled.              *)
CheckReady(w) ==
  LET S     == call[w].waiting
      got   == {g \in S \cap Gcs : efd[g]}
      ready == got # {} \/ \E s \in S \cap Socks : Drained(call[w].unarmed)[s] > 0
  IN /\ At(w, "ready")
     /\ Drain(call[w].unarmed)
     /\ ReadEventfds(got)
     /\ call' = [call EXCEPT ![w].pc = "block", ![w].got = got, ![w].pollOnly = ready]
     /\ UNCHANGED <<entityVars, armed, interest, owed>>

(* The locals of an iteration end with it, those of the loop with the loop. *)
Leave(w) == call' = [call EXCEPT ![w].pc = "output", ![w].pollOnly = FALSE, ![w].armedNow = {},
                                 ![w].batch = {}, ![w].progressed = FALSE]
Again(w) == call' = [call EXCEPT ![w].pc = "block", ![w].full = FALSE, ![w].progressed = FALSE]

Events(w) == {i \in interest[w] : Readable(i[2])}

(* epoll_wait reports a batch of readable descriptors ...                   *)
EpollWait(w) ==
  /\ At(w, "block") /\ Events(w) # {}
  /\ \E batch \in kSubset(Min({MaxEvents, Cardinality(Events(w))}), Events(w)) :
       call' = [call EXCEPT ![w].pc = "dispatch", ![w].batch = batch,
                  ![w].full = Cardinality(batch) = MaxEvents]
  /\ UNCHANGED <<entityVars, dataVars, armed, interest, owed>>

(* Mutant of Elapse: a wait with unwatched entities blocks like any other.  *)
ElapseUncapped(w) ==
  /\ At(w, "block") /\ Events(w) = {}
  /\ call[w].pollOnly \/ w \in Timed
  /\ Leave(w)
  /\ UNCHANGED <<entityVars, dataVars, armed, interest, owed>>

(* ... or none: at once when it polls, at the caller's deadline, or after   *)
(* 200 ms while some entity has no watch.                                   *)
Elapse(w) ==
  /\ At(w, "block") /\ Events(w) = {}
  /\ call[w].pollOnly \/ w \in Timed \/ call[w].unarmed # {}
  /\ Leave(w)
  /\ UNCHANGED <<entityVars, dataVars, armed, interest, owed>>

(* One event of the batch.  Only its number f is known: the entity is the   *)
(* one armed for f, and only if this call armed f is it touched.  Otherwise *)
(* f is withdrawn: from the kernel's set, where EPOLL_CTL_DEL finds what is *)
(* open at f now, and from armed.                                           *)
NextEvent(w, i) == At(w, "dispatch") /\ i \in call[w].batch
Mine(w, f)      == f \in call[w].armedNow /\ armed[w][f] # NoEntity
AtNumber(f)     == {<<f, e>> : e \in {o \in Open : fdOf[o] = f}}

(* Mutant of Withdraw: the wait set goes on believing that f is armed.      *)
WithdrawRemembers(w, i) ==
  /\ NextEvent(w, i) /\ ~Mine(w, i[1])
  /\ interest' = [interest EXCEPT ![w] = @ \ AtNumber(i[1])]
  /\ call' = [call EXCEPT ![w].batch = @ \ {i}]
  /\ UNCHANGED <<entityVars, dataVars, armed, owed>>

Withdraw(w, i) ==
  /\ NextEvent(w, i) /\ ~Mine(w, i[1])
  /\ interest' = [interest EXCEPT ![w] = @ \ AtNumber(i[1])]
  /\ armed' = [armed EXCEPT ![w][i[1]] = NoEntity]
  /\ call' = [call EXCEPT ![w].batch = @ \ {i}]
  /\ UNCHANGED <<entityVars, dataVars, owed>>

(* Mutant of DispatchSock: any event is progress.                           *)
DispatchSockAny(w, i) ==
  LET s == armed[w][i[1]]
  IN /\ NextEvent(w, i) /\ Mine(w, i[1]) /\ s \in Socks
     /\ Drain({s})
     /\ call' = [call EXCEPT ![w].batch = @ \ {i}, ![w].progressed = TRUE]
     /\ UNCHANGED <<entityVars, efd, armed, interest, owed>>

(* A socket is drained; only a message in the queue is progress.            *)
DispatchSock(w, i) ==
  LET s == armed[w][i[1]]
  IN /\ NextEvent(w, i) /\ Mine(w, i[1]) /\ s \in Socks
     /\ Drain({s})
     /\ call' = [call EXCEPT ![w].batch = @ \ {i}, ![w].progressed = @ \/ Drained({s})[s] > 0]
     /\ UNCHANGED <<entityVars, efd, armed, interest, owed>>

(* Mutant of DispatchGc: the trigger is consumed whoever armed it.          *)
DispatchGcUngated(w, i) ==
  LET g == armed[w][i[1]]
  IN /\ NextEvent(w, i) /\ g \in Gcs
     /\ ReadEventfds({g})
     /\ call' = [call EXCEPT ![w].batch = @ \ {i}, ![w].progressed = @ \/ efd[g],
                             ![w].got = @ \cup {h \in {g} \cap call[w].waiting : efd[h]}]
     /\ UNCHANGED <<entityVars, sock, junk, queue, armed, interest, owed>>

(* A trigger is consumed, and remembered if gc_index knows its owner.       *)
DispatchGc(w, i) ==
  LET g == armed[w][i[1]]
  IN /\ NextEvent(w, i) /\ Mine(w, i[1]) /\ g \in Gcs
     /\ ReadEventfds({g})
     /\ call' = [call EXCEPT ![w].batch = @ \ {i}, ![w].progressed = @ \/ efd[g],
                             ![w].got = @ \cup {h \in {g} \cap call[w].waiting : efd[h]}]
     /\ UNCHANGED <<entityVars, sock, junk, queue, armed, interest, owed>>

(* The batch is done: a poll goes on only after a full one; a wait ends on  *)
(* progress, at its deadline or when degraded, and blocks again otherwise.  *)
EndBatch(w) ==
  LET c == call[w]
  IN /\ At(w, "dispatch") /\ c.batch = {}
     /\ \/ /\ IF c.pollOnly THEN ~c.full ELSE c.progressed \/ w \in Timed \/ c.unarmed # {}
           /\ Leave(w)
        \/ /\ IF c.pollOnly THEN c.full ELSE ~c.progressed /\ c.unarmed = {}
           /\ Again(w)
     /\ UNCHANGED <<entityVars, dataVars, armed, interest, owed>>

(* The output pass: queues are looked at, the eventfds read once more.      *)
Ready(w) ==
  {e \in call[w].waiting : IF e \in Socks THEN queue[e] > 0 ELSE efd[e] \/ e \in call[w].got}

Output(w) ==
  /\ At(w, "output")
  /\ ReadEventfds(call[w].waiting)
  /\ call' = [call EXCEPT ![w] = NoCall]
  /\ owed' = owed \ Ready(w)
  /\ UNCHANGED <<entityVars, sock, junk, queue, armed, interest>>

WaitStep(w) ==
  \/ CheckReady(w) \/ EpollWait(w) \/ Elapse(w) \/ EndBatch(w) \/ Output(w)
  \/ \E i \in call[w].batch : Withdraw(w, i) \/ DispatchSock(w, i) \/ DispatchGc(w, i)

Next ==
  \/ \E e \in Entities : Create(e) \/ Destroy(e) \/ Fork(e)
  \/ \E s \in Socks : Send(s) \/ Take(s)
  \/ \E g \in Gcs : Trigger(g)
  \/ \E w \in WaitSets :
       \/ WaitStep(w) \/ Recreate(w)
       \/ \E S \in SUBSET (Open \cap MayWait[w]) \ {{}} :
            \E bad \in SUBSET (S \cap Unwatchable) : Arm(w, S, bad)

Spec == Init /\ [][Next]_vars

(* A call to rmw_wait goes on; nothing is assumed of its callers.           *)
FairSpec == Spec /\ \A w \in WaitSets : WF_vars(WaitStep(w))

-----------------------------------------------------------------------------
Pcs == {"out", "ready", "block", "dispatch", "output"}
Calls == [pc : Pcs, waiting : SUBSET Entities, armedNow : SUBSET Fds,
          unarmed : SUBSET Entities, got : SUBSET Gcs, pollOnly : BOOLEAN,
          batch : SUBSET (Fds \X Entities), full : BOOLEAN, progressed : BOOLEAN,
          due : SUBSET Entities]

(* Type invariant.                                                          *)
TypeOK ==
  /\ life \in [Entities -> {"new", "open", "gone"}] /\ fdOf \in [Entities -> Fds \cup {0}]
  /\ held \subseteq Entities /\ owed \subseteq Gcs
  /\ sock \in [Socks -> 0 .. SockCap] /\ junk \in [Socks -> BOOLEAN]
  /\ queue \in [Socks -> 0 .. Depth] /\ efd \in [Gcs -> BOOLEAN]
  /\ armed \in [WaitSets -> [Fds -> Entities \cup {NoEntity}]]
  /\ interest \in [WaitSets -> SUBSET (Fds \X Entities)]
  /\ call \in [WaitSets -> Calls]

(* No use after free and no theft: an event that passes the gate belongs to *)
(* an entity that the caller waits on, whatever was destroyed, moved to     *)
(* another wait set or got a reused number since it was armed.              *)
DispatchesOnlyWaited ==
  \A w \in WaitSets : \A f \in call[w].armedNow : armed[w][f] \in call[w].waiting

(* What the wait set remembers of an open entity is true of the kernel: an  *)
(* arming pass that skips the system call skips it rightly.                 *)
ArmedIsWatched ==
  \A w \in WaitSets, e \in Open : armed[w][fdOf[e]] = e => <<fdOf[e], e>> \in interest[w]

(* A trigger is not lost: until it is reported it is in the eventfd or in   *)
(* the hands of a wait that will report it, although three places of        *)
(* rmw_wait consume the eventfd and several wait sets may have it armed.    *)
TriggerNeverLost ==
  \A g \in owed : efd[g] \/ \E w \in WaitSets : g \in call[w].got \cap call[w].waiting

(* What was there when the call began is reported by it: in the queue, in   *)
(* the socket or in the eventfd, watched or not.  Only a blocking wait that *)
(* ends on a full batch leaves the rest to the next call.                   *)
NothingHeldBack ==
  \A w \in WaitSets : At(w, "output") /\ ~call[w].full => call[w].due \subseteq Ready(w)

(* An untimed wait that is not degraded returns with something to take:     *)
(* filtered datagrams and stale descriptors do not end it.                  *)
NoIdleReturn ==
  \A w \in WaitSets :
    At(w, "output") /\ w \notin Timed /\ call[w].unarmed = {} => Ready(w) # {}

(* A wait with data for one of its entities comes to its end, also when the *)
(* data arrives later and when epoll does not watch the entity.  The        *)
(* exception is a sweep whose every batch is full: it goes on as long as    *)
(* senders refill MaxEvents descriptors during each pass.                   *)
ReadyWaitReturns ==
  \A w \in WaitSets :
    (\E e \in call[w].waiting : HasData(e)) ~> (At(w, "out") \/ call[w].full)
=============================================================================
