--------------------------- MODULE WaitSetProofs ---------------------------
(***************************************************************************)
(* rmw_wait, for any number of wait sets, entities, descriptor numbers and *)
(* events in a batch: events go only to entities the call waits on, no     *)
(* trigger is lost, and, as long as nobody else takes from what it waits   *)
(* on, a call reports what was there and returns with something.           *)
(***************************************************************************)
EXTENDS WaitSet, FiniteSetTheorems, TLAPS

(* The smaller of two numbers.                                              *)
LEMMA MinOfTwo ==
  ASSUME NEW a \in Int, NEW b \in Int
  PROVE  Min({a, b}) = IF a <= b THEN a ELSE b
  BY DEF Min

(* The larger of two numbers.                                               *)
LEMMA MaxOfTwo ==
  ASSUME NEW a \in Int, NEW b \in Int
  PROVE  Max({a, b}) = IF a >= b THEN a ELSE b
  BY DEF Max

(* A drained queue holds what the socket held, up to its depth.             *)
LEMMA DrainedQueue ==
  ASSUME TypeOK, NEW S
  PROVE  /\ Drained(S) \in [Socks -> 0 .. Depth]
         /\ \A s \in Socks \cap S : Drained(S)[s] = 0 <=> queue[s] = 0 /\ sock[s] = 0
         /\ \A s \in Socks \ S : Drained(S)[s] = queue[s]
  <1> DEFINE d(s) == IF s \in S THEN Min({Depth, queue[s] + sock[s]}) ELSE queue[s]
  <1>1. ASSUME NEW s \in Socks
        PROVE  /\ d(s) \in 0 .. Depth
               /\ s \in S => (d(s) = 0 <=> queue[s] = 0 /\ sock[s] = 0)
               /\ s \notin S => d(s) = queue[s]
    <2>1. queue[s] \in 0 .. Depth /\ sock[s] \in Nat /\ Depth \in Nat \ {0}
      BY WaitSetAssumption DEF TypeOK
    <2>2. Min({Depth, queue[s] + sock[s]}) =
            IF Depth <= queue[s] + sock[s] THEN Depth ELSE queue[s] + sock[s]
      BY <2>1, MinOfTwo
    <2> QED BY <2>1, <2>2
  <1>2. Drained(S) = [s \in Socks |-> d(s)]
    BY DEF Drained
  <1> HIDE DEF d
  <1> QED BY <1>1, <1>2

-----------------------------------------------------------------------------
(* Types.                                                                   *)

(* A drain leaves queues and sockets of their types.                        *)
LEMMA DrainType ==
  ASSUME TypeOK, NEW S, Drain(S)
  PROVE  /\ queue' \in [Socks -> 0 .. Depth] /\ sock' \in [Socks -> 0 .. SockCap]
         /\ junk' \in [Socks -> BOOLEAN]
  <1>1. queue' \in [Socks -> 0 .. Depth]
    BY DrainedQueue DEF Drain
  <1>2. sock' \in [Socks -> 0 .. SockCap]
    BY WaitSetAssumption DEF Drain, TypeOK
  <1>3. junk' \in [Socks -> BOOLEAN]
    BY DEF Drain, TypeOK
  <1> QED BY <1>1, <1>2, <1>3

(* Reading eventfds keeps their type.                                       *)
LEMMA ReadType == ASSUME TypeOK, NEW S, ReadEventfds(S) PROVE efd' \in [Gcs -> BOOLEAN]
  BY DEF ReadEventfds, TypeOK

(* A call record keeps its type.                                            *)
LEMMA NoCallType == NoCall \in Calls
  BY DEF NoCall, Calls, Pcs


(* The other wait sets do not notice a step of w.                           *)
OthersSame(w) == \A v \in WaitSets \ {w} : call'[v] = call[v]

(* What each step of a call does to its locals.                             *)
CallArmed(w, S, bad) ==
  /\ call' \in [WaitSets -> Calls] /\ OthersSame(w)
  /\ call'[w].pc = "ready" /\ call'[w].waiting = S
  /\ call'[w].armedNow = {fdOf[e] : e \in S \ bad} /\ call'[w].unarmed = bad
  /\ call'[w].got = {} /\ call'[w].pollOnly = FALSE /\ call'[w].batch = {}
  /\ call'[w].full = FALSE /\ call'[w].progressed = FALSE
  /\ call'[w].due = {e \in S : HasData(e)}

(* The locals of a call after Arm.                                          *)
LEMMA ArmCall ==
  ASSUME TypeOK, NEW w \in WaitSets, NEW S \in SUBSET (Open \cap MayWait[w]),
         NEW bad \in SUBSET (S \cap Unwatchable), Arm(w, S, bad),
         \A e \in Open : fdOf[e] \in Fds
  PROVE  CallArmed(w, S, bad)
  <1> DEFINE D == {e \in S : HasData(e)}
             N == {fdOf[e] : e \in S \ bad}
             c == [NoCall EXCEPT !.pc = "ready", !.waiting = S, !.unarmed = bad,
                                 !.armedNow = N, !.due = D]
  <1>1. call' = [call EXCEPT ![w] = c]
    BY DEF Arm
  <1>2. c \in Calls
    <2>1. S \in SUBSET Entities /\ bad \in SUBSET Entities /\ N \in SUBSET Fds /\ D \in SUBSET Entities
      BY DEF Open
    <2> HIDE DEF D, N
    <2> QED BY <2>1, NoCallType DEF Calls, Pcs
  <1>3. /\ c.pc = "ready" /\ c.waiting = S /\ c.armedNow = N /\ c.unarmed = bad /\ c.got = {}
        /\ c.pollOnly = FALSE /\ c.batch = {} /\ c.full = FALSE /\ c.progressed = FALSE /\ c.due = D
    <2> HIDE DEF D, N
    <2> QED BY DEF NoCall
  <1> HIDE DEF c
  <1>4. call' \in [WaitSets -> Calls] /\ OthersSame(w) /\ call'[w] = c
    BY <1>1, <1>2 DEF TypeOK, OthersSame
  <1> QED BY <1>3, <1>4 DEF CallArmed

(* Is something ready before epoll is asked?                                *)
PollOnly(w) ==
  \/ {g \in call[w].waiting \cap Gcs : efd[g]} # {}
  \/ \E s \in call[w].waiting \cap Socks : Drained(call[w].unarmed)[s] > 0

CallChecked(w) ==
  /\ call' \in [WaitSets -> Calls] /\ OthersSame(w)
  /\ call'[w].pc = "block" /\ call'[w].waiting = call[w].waiting
  /\ call'[w].armedNow = call[w].armedNow /\ call'[w].unarmed = call[w].unarmed
  /\ call'[w].got = {g \in call[w].waiting \cap Gcs : efd[g]}
  /\ call'[w].pollOnly = PollOnly(w) /\ call'[w].batch = call[w].batch
  /\ call'[w].full = call[w].full /\ call'[w].progressed = call[w].progressed
  /\ call'[w].due = call[w].due

(* The locals of a call after CheckReady.                                   *)
LEMMA CheckReadyCall ==
  ASSUME TypeOK, NEW w \in WaitSets, CheckReady(w)
  PROVE  CallChecked(w)
  <1> DEFINE G == {g \in call[w].waiting \cap Gcs : efd[g]}
             r == PollOnly(w)
             c == [call[w] EXCEPT !.pc = "block", !.got = G, !.pollOnly = r]
  <1>1. call' = [call EXCEPT ![w] = c]
    BY DEF CheckReady, PollOnly
  <1>2. call[w] \in Calls /\ G \in SUBSET Gcs /\ r \in BOOLEAN
    BY DEF TypeOK, PollOnly
  <1> HIDE DEF G, r
  <1>3. c \in Calls
    BY <1>2 DEF Calls, Pcs
  <1>4. /\ c.pc = "block" /\ c.waiting = call[w].waiting /\ c.armedNow = call[w].armedNow
        /\ c.unarmed = call[w].unarmed /\ c.got = G /\ c.pollOnly = r
        /\ c.batch = call[w].batch /\ c.full = call[w].full
        /\ c.progressed = call[w].progressed /\ c.due = call[w].due
    BY <1>2 DEF Calls
  <1> HIDE DEF c
  <1>5. call' \in [WaitSets -> Calls] /\ OthersSame(w) /\ call'[w] = c
    BY <1>1, <1>3 DEF TypeOK, OthersSame
  <1> QED BY <1>4, <1>5 DEF G, r, CallChecked

(* The locals of a call after epoll_wait.                                   *)
LEMMA EpollWaitCall ==
  ASSUME TypeOK, NEW w \in WaitSets, EpollWait(w)
  PROVE  \E batch \in SUBSET Events(w) :
           /\ call' \in [WaitSets -> Calls] /\ OthersSame(w)
           /\ Cardinality(batch) = Min({MaxEvents, Cardinality(Events(w))})
           /\ call'[w].pc = "dispatch" /\ call'[w].waiting = call[w].waiting
           /\ call'[w].armedNow = call[w].armedNow /\ call'[w].unarmed = call[w].unarmed
           /\ call'[w].got = call[w].got /\ call'[w].pollOnly = call[w].pollOnly
           /\ call'[w].batch = batch /\ call'[w].full = (Cardinality(batch) = MaxEvents)
           /\ call'[w].progressed = call[w].progressed /\ call'[w].due = call[w].due
  <1>0. PICK batch \in kSubset(Min({MaxEvents, Cardinality(Events(w))}), Events(w)) :
          call' = [call EXCEPT ![w].pc = "dispatch", ![w].batch = batch,
                     ![w].full = Cardinality(batch) = MaxEvents]
    BY DEF EpollWait
  <1> DEFINE full == Cardinality(batch) = MaxEvents
             c == [call[w] EXCEPT !.pc = "dispatch", !.batch = batch, !.full = full]
  <1>a. batch \subseteq Events(w) /\ Cardinality(batch) = Min({MaxEvents, Cardinality(Events(w))})
    BY DEF kSubset
  <1>1. call' = [call EXCEPT ![w] = c]
    BY <1>0
  <1>2. call[w] \in Calls /\ batch \in SUBSET (Fds \X Entities) /\ full \in BOOLEAN
    BY <1>a DEF TypeOK, Events
  <1> HIDE DEF full
  <1>3. c \in Calls
    BY <1>2 DEF Calls, Pcs
  <1>4. /\ c.pc = "dispatch" /\ c.waiting = call[w].waiting /\ c.armedNow = call[w].armedNow
        /\ c.unarmed = call[w].unarmed /\ c.got = call[w].got
        /\ c.pollOnly = call[w].pollOnly /\ c.batch = batch /\ c.full = full
        /\ c.progressed = call[w].progressed /\ c.due = call[w].due
    BY <1>2 DEF Calls
  <1> HIDE DEF c
  <1>5. call' \in [WaitSets -> Calls] /\ OthersSame(w) /\ call'[w] = c
    BY <1>1, <1>3 DEF TypeOK, OthersSame
  <1> QED BY <1>a, <1>4, <1>5 DEF full

(* The locals of a call that leaves its loop.                               *)
LEMMA LeaveCall ==
  ASSUME TypeOK, NEW w \in WaitSets, Leave(w)
  PROVE  /\ call' \in [WaitSets -> Calls] /\ OthersSame(w)
         /\ call'[w].pc = "output" /\ call'[w].waiting = call[w].waiting
         /\ call'[w].armedNow = {} /\ call'[w].unarmed = call[w].unarmed
         /\ call'[w].got = call[w].got /\ call'[w].pollOnly = FALSE /\ call'[w].batch = {}
         /\ call'[w].full = call[w].full /\ call'[w].progressed = FALSE
         /\ call'[w].due = call[w].due
  <1> DEFINE c == [call[w] EXCEPT !.pc = "output", !.pollOnly = FALSE, !.armedNow = {}, !.batch = {}, !.progressed = FALSE]
  <1>1. call' = [call EXCEPT ![w] = c]
    BY DEF Leave
  <1>2. call[w] \in Calls
    BY DEF TypeOK
  <1>3. c \in Calls
    BY <1>2 DEF Calls, Pcs
  <1>4. /\ c.pc = "output" /\ c.waiting = call[w].waiting /\ c.armedNow = {}
        /\ c.unarmed = call[w].unarmed /\ c.got = call[w].got /\ c.pollOnly = FALSE
        /\ c.batch = {} /\ c.full = call[w].full /\ c.progressed = FALSE
        /\ c.due = call[w].due
    BY <1>2 DEF Calls
  <1> HIDE DEF c
  <1>5. call' \in [WaitSets -> Calls] /\ OthersSame(w) /\ call'[w] = c
    BY <1>1, <1>3 DEF TypeOK, OthersSame
  <1> QED BY <1>4, <1>5

(* The locals of a call that goes round again.                              *)
LEMMA AgainCall ==
  ASSUME TypeOK, NEW w \in WaitSets, Again(w)
  PROVE  /\ call' \in [WaitSets -> Calls] /\ OthersSame(w)
         /\ call'[w].pc = "block" /\ call'[w].waiting = call[w].waiting
         /\ call'[w].armedNow = call[w].armedNow /\ call'[w].unarmed = call[w].unarmed
         /\ call'[w].got = call[w].got /\ call'[w].pollOnly = call[w].pollOnly
         /\ call'[w].batch = call[w].batch /\ call'[w].full = FALSE
         /\ call'[w].progressed = FALSE /\ call'[w].due = call[w].due
  <1> DEFINE c == [call[w] EXCEPT !.pc = "block", !.full = FALSE, !.progressed = FALSE]
  <1>1. call' = [call EXCEPT ![w] = c]
    BY DEF Again
  <1>2. call[w] \in Calls
    BY DEF TypeOK
  <1>3. c \in Calls
    BY <1>2 DEF Calls, Pcs
  <1>4. /\ c.pc = "block" /\ c.waiting = call[w].waiting /\ c.armedNow = call[w].armedNow
        /\ c.unarmed = call[w].unarmed /\ c.got = call[w].got
        /\ c.pollOnly = call[w].pollOnly /\ c.batch = call[w].batch /\ c.full = FALSE
        /\ c.progressed = FALSE /\ c.due = call[w].due
    BY <1>2 DEF Calls
  <1> HIDE DEF c
  <1>5. call' \in [WaitSets -> Calls] /\ OthersSame(w) /\ call'[w] = c
    BY <1>1, <1>3 DEF TypeOK, OthersSame
  <1> QED BY <1>4, <1>5

(* The locals of a call after an event nobody waits for.                    *)
LEMMA WithdrawCall ==
  ASSUME TypeOK, NEW w \in WaitSets, NEW i, Withdraw(w, i)
  PROVE  /\ call' \in [WaitSets -> Calls] /\ OthersSame(w)
         /\ call'[w].pc = call[w].pc /\ call'[w].waiting = call[w].waiting
         /\ call'[w].armedNow = call[w].armedNow /\ call'[w].unarmed = call[w].unarmed
         /\ call'[w].got = call[w].got /\ call'[w].pollOnly = call[w].pollOnly
         /\ call'[w].batch = call[w].batch \ {i} /\ call'[w].full = call[w].full
         /\ call'[w].progressed = call[w].progressed /\ call'[w].due = call[w].due
  <1> DEFINE b == call[w].batch \ {i}
             c == [call[w] EXCEPT !.batch = b]
  <1>1. call' = [call EXCEPT ![w] = c]
    BY DEF Withdraw
  <1>2. call[w] \in Calls /\ b \in SUBSET (Fds \X Entities)
    BY DEF TypeOK, Calls
  <1> HIDE DEF b
  <1>3. c \in Calls
    BY <1>2 DEF Calls, Pcs
  <1>4. /\ c.pc = call[w].pc /\ c.waiting = call[w].waiting /\ c.armedNow = call[w].armedNow
        /\ c.unarmed = call[w].unarmed /\ c.got = call[w].got
        /\ c.pollOnly = call[w].pollOnly /\ c.batch = b /\ c.full = call[w].full
        /\ c.progressed = call[w].progressed /\ c.due = call[w].due
    BY <1>2 DEF Calls
  <1> HIDE DEF c
  <1>5. call' \in [WaitSets -> Calls] /\ OthersSame(w) /\ call'[w] = c
    BY <1>1, <1>3 DEF TypeOK, OthersSame
  <1> QED BY <1>4, <1>5 DEF b

(* The locals of a call after an event of a socket.                         *)
LEMMA DispatchSockCall ==
  ASSUME TypeOK, NEW w \in WaitSets, NEW i, DispatchSock(w, i)
  PROVE  /\ call' \in [WaitSets -> Calls] /\ OthersSame(w)
         /\ call'[w].pc = call[w].pc /\ call'[w].waiting = call[w].waiting
         /\ call'[w].armedNow = call[w].armedNow /\ call'[w].unarmed = call[w].unarmed
         /\ call'[w].got = call[w].got /\ call'[w].pollOnly = call[w].pollOnly
         /\ call'[w].batch = call[w].batch \ {i} /\ call'[w].full = call[w].full
         /\ call'[w].progressed = (call[w].progressed \/ Drained({armed[w][i[1]]})[armed[w][i[1]]] > 0)
         /\ call'[w].due = call[w].due
  <1> DEFINE b == call[w].batch \ {i}
             p == call[w].progressed \/ Drained({armed[w][i[1]]})[armed[w][i[1]]] > 0
             c == [call[w] EXCEPT !.batch = b, !.progressed = p]
  <1>1. call' = [call EXCEPT ![w] = c]
    BY DEF DispatchSock
  <1>2. call[w] \in Calls /\ b \in SUBSET (Fds \X Entities) /\ p \in BOOLEAN
    BY DEF TypeOK, Calls
  <1> HIDE DEF b, p
  <1>3. c \in Calls
    BY <1>2 DEF Calls, Pcs
  <1>4. /\ c.pc = call[w].pc /\ c.waiting = call[w].waiting /\ c.armedNow = call[w].armedNow
        /\ c.unarmed = call[w].unarmed /\ c.got = call[w].got
        /\ c.pollOnly = call[w].pollOnly /\ c.batch = b /\ c.full = call[w].full
        /\ c.progressed = p /\ c.due = call[w].due
    BY <1>2 DEF Calls
  <1> HIDE DEF c
  <1>5. call' \in [WaitSets -> Calls] /\ OthersSame(w) /\ call'[w] = c
    BY <1>1, <1>3 DEF TypeOK, OthersSame
  <1> QED BY <1>4, <1>5 DEF b, p

(* The locals of a call after an event of a guard condition.                *)
LEMMA DispatchGcCall ==
  ASSUME TypeOK, NEW w \in WaitSets, NEW i, DispatchGc(w, i)
  PROVE  /\ call' \in [WaitSets -> Calls] /\ OthersSame(w)
         /\ call'[w].pc = call[w].pc /\ call'[w].waiting = call[w].waiting
         /\ call'[w].armedNow = call[w].armedNow /\ call'[w].unarmed = call[w].unarmed
         /\ call'[w].got = call[w].got \cup {h \in {armed[w][i[1]]} \cap call[w].waiting : efd[h]}
         /\ call'[w].pollOnly = call[w].pollOnly /\ call'[w].batch = call[w].batch \ {i}
         /\ call'[w].full = call[w].full
         /\ call'[w].progressed = (call[w].progressed \/ efd[armed[w][i[1]]])
         /\ call'[w].due = call[w].due
  <1> DEFINE b == call[w].batch \ {i}
             p == call[w].progressed \/ efd[armed[w][i[1]]]
             G == call[w].got \cup {h \in {armed[w][i[1]]} \cap call[w].waiting : efd[h]}
             c == [call[w] EXCEPT !.batch = b, !.progressed = p, !.got = G]
  <1>1. call' = [call EXCEPT ![w] = c]
    BY DEF DispatchGc
  <1>2. /\ call[w] \in Calls /\ b \in SUBSET (Fds \X Entities) /\ p \in BOOLEAN
        /\ G \in SUBSET Gcs
    BY DEF TypeOK, Calls, DispatchGc
  <1> HIDE DEF b, p, G
  <1>3. c \in Calls
    BY <1>2 DEF Calls, Pcs
  <1>4. /\ c.pc = call[w].pc /\ c.waiting = call[w].waiting /\ c.armedNow = call[w].armedNow
        /\ c.unarmed = call[w].unarmed /\ c.got = G /\ c.pollOnly = call[w].pollOnly
        /\ c.batch = b /\ c.full = call[w].full /\ c.progressed = p /\ c.due = call[w].due
    BY <1>2 DEF Calls
  <1> HIDE DEF c
  <1>5. call' \in [WaitSets -> Calls] /\ OthersSame(w) /\ call'[w] = c
    BY <1>1, <1>3 DEF TypeOK, OthersSame
  <1> QED BY <1>4, <1>5 DEF b, p, G
-----------------------------------------------------------------------------
(* The inductive invariant.                                                 *)

(* Open entities have descriptor numbers, each its own, and only entities   *)
(* that were created are armed.                                             *)
FdInv ==
  /\ \A e \in Open : fdOf[e] \in Fds
  /\ \A e, o \in Open : fdOf[e] = fdOf[o] => e = o
  /\ \A w \in WaitSets, f \in Fds : armed[w][f] # NoEntity => life[armed[w][f]] # "new"

(* A wait is on open entities, each in one wait set, and has no trigger in  *)
(* its hands before it looked at the eventfds.                              *)
CallInv ==
  \A w \in WaitSets :
    /\ call[w].waiting \subseteq Open
    /\ call[w].unarmed \subseteq call[w].waiting /\ call[w].due \subseteq call[w].waiting
    /\ call[w].pc \in {"out", "ready"} => call[w].got = {}
    /\ \A v \in WaitSets \ {w} : call[v].waiting \cap call[w].waiting = {}

(* What passes the gate: the numbers this call armed are armed for the very *)
(* entities it waits on.                                                    *)
GateInv ==
  \A w \in WaitSets :
    /\ call[w].armedNow \subseteq {fdOf[e] : e \in call[w].waiting \ call[w].unarmed}
    /\ call[w].pc \in {"ready", "block", "dispatch"} =>
         \A e \in call[w].waiting \ call[w].unarmed :
           armed[w][fdOf[e]] = e /\ fdOf[e] \in call[w].armedNow
    /\ call[w].pc \in {"out", "output"} => call[w].armedNow = {}

IInv == TypeOK /\ FdInv /\ CallInv /\ GateInv /\ ArmedIsWatched /\ TriggerNeverLost

(* Before the first entity is created.                                      *)
LEMMA InitIInv == Init => IInv
  <1> SUFFICES ASSUME Init PROVE IInv
    OBVIOUS
  <1>1. call \in [WaitSets -> Calls] /\ \A w \in WaitSets : call[w] = NoCall
    BY NoCallType DEF Init
  <1>2. TypeOK
    BY <1>1, WaitSetAssumption DEF Init, TypeOK
  <1>3. Open = {}
    BY DEF Init, Open
  <1>4. FdInv
    BY <1>3 DEF Init, FdInv
  <1>5. CallInv
    BY <1>1, <1>3 DEF CallInv, NoCall
  <1>6. GateInv
    BY <1>1 DEF GateInv, NoCall
  <1>7. ArmedIsWatched /\ TriggerNeverLost
    BY <1>3 DEF Init, ArmedIsWatched, TriggerNeverLost
  <1> QED BY <1>2, <1>4, <1>5, <1>6, <1>7 DEF IInv

(* What an arming pass does to armed and to the epoll set: every entity it  *)
(* could watch is armed for its number, whatever was armed there before.    *)
NewlyArmed(w, S, bad) ==
  /\ armed' \in [WaitSets -> [Fds -> Entities \cup {NoEntity}]]
  /\ interest' \in [WaitSets -> SUBSET (Fds \X Entities)]
  /\ \A v \in WaitSets \ {w} : armed'[v] = armed[v] /\ interest'[v] = interest[v]
  /\ \A e \in S \ bad : armed'[w][fdOf[e]] = e
  /\ \A f \in Fds : \/ armed'[w][f] = armed[w][f]
                    \/ \E e \in S \ bad : /\ armed'[w][f] = e /\ fdOf[e] = f
                                          /\ <<f, e>> \in interest'[w]
  /\ interest[w] \subseteq interest'[w]

(* Arm leaves what it could arm armed and watched.                          *)
LEMMA ArmArmed ==
  ASSUME TypeOK, FdInv, NEW w \in WaitSets, NEW S \in SUBSET (Open \cap MayWait[w]),
         NEW bad \in SUBSET (S \cap Unwatchable), Arm(w, S, bad)
  PROVE  NewlyArmed(w, S, bad)
  <1> DEFINE new == {e \in S \ bad : NotArmed(w, e)}
             A == [f \in Fds |-> IF \E e \in new : fdOf[e] = f THEN CHOOSE e \in new : fdOf[e] = f
                                 ELSE armed[w][f]]
             J == {<<fdOf[e], e>> : e \in new}
  <1>1. armed' = [armed EXCEPT ![w] = A] /\ interest' = [interest EXCEPT ![w] = @ \cup J]
    BY DEF Arm
  <1>2. new \subseteq Open /\ S \subseteq Open /\ Open \subseteq Entities
    BY DEF Open
  <1>3. ASSUME NEW e \in new PROVE fdOf[e] \in Fds /\ A[fdOf[e]] = e
    <2>1. fdOf[e] \in Fds /\ \A o \in new : fdOf[o] = fdOf[e] => o = e
      BY <1>2 DEF FdInv
    <2>2. (CHOOSE o \in new : fdOf[o] = fdOf[e]) = e
      <3> HIDE DEF new
      <3> QED BY <1>3, <2>1
    <2> HIDE DEF new
    <2> QED BY <1>3, <2>1, <2>2
  <1>4. ASSUME NEW f \in Fds, ~(\E e \in new : fdOf[e] = f) PROVE A[f] = armed[w][f]
    <2> HIDE DEF new
    <2> QED BY <1>4
  <1> HIDE DEF A
  <1>5. \A f \in Fds : A[f] = armed[w][f] \/ \E e \in new : A[f] = e /\ fdOf[e] = f
    BY <1>3, <1>4
  <1>6. J \in SUBSET (Fds \X Entities)
    BY <1>2, <1>3
  <1>7. A \in [Fds -> Entities \cup {NoEntity}]
    <2>1. \A f \in Fds : A[f] \in Entities \cup {NoEntity}
      BY <1>2, <1>5 DEF TypeOK
    <2> QED BY <2>1 DEF A
  <1>8. \A e \in S \ bad : A[fdOf[e]] = e
    <2> SUFFICES ASSUME NEW e \in S \ bad PROVE A[fdOf[e]] = e
      OBVIOUS
    <2>1. CASE e \in new
      BY <1>3, <2>1
    <2>2. CASE e \notin new
      <3>1. armed[w][fdOf[e]] = e
        BY <2>2 DEF NotArmed
      <3>2. \A o \in new : fdOf[o] # fdOf[e]
        BY <1>2, <2>2 DEF FdInv
      <3>3. fdOf[e] \in Fds
        BY <1>2 DEF FdInv
      <3> QED BY <1>4, <3>1, <3>2, <3>3
    <2> QED BY <2>1, <2>2
  <1>9. armed'[w] = A /\ interest'[w] = interest[w] \cup J
    BY <1>1 DEF TypeOK
  <1>10. \A v \in WaitSets \ {w} : armed'[v] = armed[v] /\ interest'[v] = interest[v]
    BY <1>1 DEF TypeOK
  <1>11. /\ armed' \in [WaitSets -> [Fds -> Entities \cup {NoEntity}]]
         /\ interest' \in [WaitSets -> SUBSET (Fds \X Entities)]
    <2> HIDE DEF J
    <2> QED BY <1>1, <1>6, <1>7 DEF TypeOK
  <1>12. \A f \in Fds : \/ A[f] = armed[w][f]
                        \/ \E e \in S \ bad : A[f] = e /\ fdOf[e] = f /\ <<f, e>> \in J
    BY <1>5
  <1> HIDE DEF J, new
  <1> QED BY <1>8, <1>9, <1>10, <1>11, <1>12 DEF NewlyArmed
(* Withdrawing a number clears it in armed, and takes nobody else out of    *)
(* the epoll set.                                                           *)
LEMMA WithdrawArmed ==
  ASSUME TypeOK, NEW w \in WaitSets, NEW i \in call[w].batch, Withdraw(w, i)
  PROVE  /\ i[1] \in Fds
         /\ armed' \in [WaitSets -> [Fds -> Entities \cup {NoEntity}]]
         /\ interest' \in [WaitSets -> SUBSET (Fds \X Entities)]
         /\ \A v \in WaitSets, f \in Fds :
              armed'[v][f] = IF v = w /\ f = i[1] THEN NoEntity ELSE armed[v][f]
         /\ \A v \in WaitSets, f \in Fds, e \in Entities :
              <<f, e>> \in interest[v] /\ ~(v = w /\ f = i[1]) => <<f, e>> \in interest'[v]
  <1>1. i[1] \in Fds
    BY DEF TypeOK, Calls
  <1>2. /\ armed' = [armed EXCEPT ![w][i[1]] = NoEntity]
        /\ interest' = [interest EXCEPT ![w] = @ \ AtNumber(i[1])]
    BY DEF Withdraw
  <1>3. \A f \in Fds, e \in Entities : <<f, e>> \in AtNumber(i[1]) => f = i[1]
    BY DEF AtNumber
  <1>4. armed' \in [WaitSets -> [Fds -> Entities \cup {NoEntity}]]
    BY <1>1, <1>2 DEF TypeOK
  <1>5. interest' \in [WaitSets -> SUBSET (Fds \X Entities)]
    BY <1>2 DEF TypeOK
  <1>6. \A v \in WaitSets, f \in Fds :
          armed'[v][f] = IF v = w /\ f = i[1] THEN NoEntity ELSE armed[v][f]
    BY <1>1, <1>2 DEF TypeOK
  <1>7. \A v \in WaitSets, f \in Fds, e \in Entities :
          <<f, e>> \in interest[v] /\ ~(v = w /\ f = i[1]) => <<f, e>> \in interest'[v]
    BY <1>2, <1>3 DEF TypeOK
  <1> QED BY <1>1, <1>4, <1>5, <1>6, <1>7

(* The types are kept.                                                      *)
LEMMA NextType == ASSUME TypeOK, FdInv, [Next]_vars PROVE TypeOK'
  <1>1. ASSUME NEW e \in Entities, Create(e) PROVE TypeOK'
    BY <1>1 DEF Create, TypeOK, dataVars
  <1>2. ASSUME NEW e \in Entities, Destroy(e) PROVE TypeOK'
    BY <1>2, WaitSetAssumption DEF Destroy, TypeOK
  <1>3. ASSUME NEW e \in Entities, Fork(e) PROVE TypeOK'
    BY <1>3 DEF Fork, TypeOK, dataVars
  <1>4. ASSUME NEW s \in Socks, Send(s) PROVE TypeOK'
    <2>1. sock' \in [Socks -> 0 .. SockCap]
      BY <1>4, WaitSetAssumption DEF Send, TypeOK
    <2>2. junk' \in [Socks -> BOOLEAN]
      BY <1>4 DEF Send, TypeOK
    <2> QED BY <1>4, <2>1, <2>2 DEF Send, TypeOK, entityVars
  <1>5. ASSUME NEW s \in Socks, Take(s) PROVE TypeOK'
    <2>1. Drained({s})[s] \in 0 .. Depth
      BY DrainedQueue
    <2>2. Max({0, Drained({s})[s] - 1}) \in 0 .. Depth
      <3> DEFINE x == Drained({s})[s] - 1
      <3>1. x \in Int /\ x <= Depth
        BY <2>1, WaitSetAssumption
      <3> HIDE DEF x
      <3>2. Max({0, x}) = IF 0 >= x THEN 0 ELSE x
        BY <3>1, MaxOfTwo
      <3>3. Max({0, x}) \in 0 .. Depth
        BY <3>1, <3>2, WaitSetAssumption
      <3> QED BY <3>3 DEF x
    <2>3. queue' \in [Socks -> 0 .. Depth]
      BY <1>5, <2>2 DEF Take, TypeOK
    <2>4. sock' \in [Socks -> 0 .. SockCap] /\ junk' \in [Socks -> BOOLEAN]
      BY <1>5, WaitSetAssumption DEF Take, TypeOK
    <2> QED BY <1>5, <2>3, <2>4 DEF Take, TypeOK, entityVars
  <1>6. ASSUME NEW g \in Gcs, Trigger(g) PROVE TypeOK'
    BY <1>6 DEF Trigger, TypeOK, entityVars
  <1>7. ASSUME NEW w \in WaitSets, Recreate(w) PROVE TypeOK'
    BY <1>7 DEF Recreate, TypeOK, entityVars, dataVars
  <1>8. ASSUME NEW w \in WaitSets, NEW S \in SUBSET (Open \cap MayWait[w]),
               NEW bad \in SUBSET (S \cap Unwatchable), Arm(w, S, bad)
        PROVE  TypeOK'
    <2>1. CallArmed(w, S, bad) /\ NewlyArmed(w, S, bad)
      BY <1>8, ArmCall, ArmArmed DEF FdInv
    <2> QED BY <1>8, <2>1 DEF CallArmed, NewlyArmed, Arm, TypeOK, entityVars, dataVars
  <1>9. ASSUME NEW w \in WaitSets, CheckReady(w) PROVE TypeOK'
    <2>1. call' \in [WaitSets -> Calls]
      BY <1>9, CheckReadyCall DEF CallChecked
    <2>2. /\ queue' \in [Socks -> 0 .. Depth] /\ sock' \in [Socks -> 0 .. SockCap]
          /\ junk' \in [Socks -> BOOLEAN] /\ efd' \in [Gcs -> BOOLEAN]
      BY <1>9, DrainType, ReadType DEF CheckReady
    <2> QED BY <1>9, <2>1, <2>2 DEF CheckReady, TypeOK, entityVars
  <1>10. ASSUME NEW w \in WaitSets, EpollWait(w) PROVE TypeOK'
    <2>1. call' \in [WaitSets -> Calls]
      BY <1>10, EpollWaitCall
    <2> QED BY <1>10, <2>1 DEF EpollWait, TypeOK, entityVars, dataVars
  <1>11. ASSUME NEW w \in WaitSets, Elapse(w) \/ EndBatch(w) PROVE TypeOK'
    <2>1. call' \in [WaitSets -> Calls]
      BY <1>11, LeaveCall, AgainCall DEF Elapse, EndBatch
    <2> QED BY <1>11, <2>1 DEF Elapse, EndBatch, TypeOK, entityVars, dataVars
  <1>12. ASSUME NEW w \in WaitSets, NEW i \in call[w].batch, Withdraw(w, i) PROVE TypeOK'
    BY <1>12, WithdrawCall, WithdrawArmed DEF Withdraw, TypeOK, entityVars, dataVars
  <1>13. ASSUME NEW w \in WaitSets, NEW i \in call[w].batch, DispatchSock(w, i) PROVE TypeOK'
    BY <1>13, DispatchSockCall, DrainType DEF DispatchSock, TypeOK, entityVars
  <1>14. ASSUME NEW w \in WaitSets, NEW i \in call[w].batch, DispatchGc(w, i) PROVE TypeOK'
    BY <1>14, DispatchGcCall, ReadType DEF DispatchGc, TypeOK, entityVars
  <1>15. ASSUME NEW w \in WaitSets, Output(w) PROVE TypeOK'
    BY <1>15, ReadType, NoCallType DEF Output, TypeOK, entityVars
  <1>16. CASE UNCHANGED vars
    BY <1>16 DEF vars, TypeOK, entityVars, dataVars
  <1> QED BY <1>1, <1>2, <1>3, <1>4, <1>5, <1>6, <1>7, <1>8, <1>9, <1>10, <1>11, <1>12, <1>13,
             <1>14, <1>15, <1>16
         DEF Next, WaitStep

(* Numbers are given to one open entity at a time.                          *)
LEMMA NextFd == ASSUME TypeOK, FdInv, [Next]_vars PROVE FdInv'
  <1>1. ASSUME NEW e \in Entities, Create(e) PROVE FdInv'
    <2>1. Open' = Open \cup {e} /\ e \notin Open
      BY <1>1 DEF Create, Open, TypeOK
    <2>2. fdOf'[e] \in Fds /\ \A o \in Open : fdOf'[o] = fdOf[o] /\ fdOf'[o] # fdOf'[e]
      BY <1>1 DEF Create, Open, TypeOK
    <2>3. \A o \in Entities : life'[o] = "new" => life[o] = "new"
      BY <1>1 DEF Create, TypeOK
    <2> QED BY <1>1, <2>1, <2>2, <2>3 DEF Create, FdInv, TypeOK
  <1>2. ASSUME NEW e \in Entities, Destroy(e) PROVE FdInv'
    <2>1. Open' = Open \ {e} /\ \A o \in Open \ {e} : fdOf'[o] = fdOf[o]
      BY <1>2 DEF Destroy, Open, TypeOK
    <2>2. \A o \in Entities : life'[o] = "new" => life[o] = "new"
      BY <1>2 DEF Destroy, TypeOK
    <2> QED BY <1>2, <2>1, <2>2 DEF Destroy, FdInv, TypeOK
  <1>3. ASSUME UNCHANGED <<life, fdOf, armed>> PROVE FdInv'
    BY <1>3 DEF FdInv, Open
  <1>4. ASSUME NEW e \in Entities, Fork(e) PROVE FdInv'
    BY <1>3, <1>4 DEF Fork
  <1>5. ASSUME NEW s \in Socks, Send(s) \/ Take(s) PROVE FdInv'
    BY <1>3, <1>5 DEF Send, Take, entityVars
  <1>6. ASSUME NEW g \in Gcs, Trigger(g) PROVE FdInv'
    BY <1>3, <1>6 DEF Trigger, entityVars
  <1>7. ASSUME NEW w \in WaitSets, Recreate(w) PROVE FdInv'
    BY <1>7 DEF Recreate, FdInv, Open, TypeOK, entityVars
  <1>8. ASSUME NEW w \in WaitSets, NEW S \in SUBSET (Open \cap MayWait[w]),
               NEW bad \in SUBSET (S \cap Unwatchable), Arm(w, S, bad)
        PROVE  FdInv'
    <2>0. NewlyArmed(w, S, bad)
      BY <1>8, ArmArmed
    <2>1. /\ \A v \in WaitSets \ {w} : armed'[v] = armed[v]
          /\ \A f \in Fds : armed'[w][f] = armed[w][f] \/ \E e \in S \ bad : armed'[w][f] = e
      BY <2>0 DEF NewlyArmed
    <2>2. UNCHANGED <<life, fdOf>> /\ Open' = Open
      BY <1>8 DEF Arm, entityVars, Open
    <2>3. \A v \in WaitSets, f \in Fds : armed'[v][f] # NoEntity => life[armed'[v][f]] # "new"
      BY <2>1 DEF FdInv, Open
    <2> QED BY <2>2, <2>3 DEF FdInv
  <1>9. ASSUME NEW w \in WaitSets, CheckReady(w) \/ EpollWait(w) \/ Elapse(w) \/ EndBatch(w)
                                   \/ Output(w)
        PROVE  FdInv'
    BY <1>3, <1>9 DEF CheckReady, EpollWait, Elapse, EndBatch, Output, entityVars
  <1>10. ASSUME NEW w \in WaitSets, NEW i \in call[w].batch, Withdraw(w, i) PROVE FdInv'
    <2>1. UNCHANGED <<life, fdOf>> /\ Open' = Open
      BY <1>10 DEF Withdraw, entityVars, Open
    <2> QED BY <1>10, <2>1, WithdrawArmed DEF FdInv
  <1>11. ASSUME NEW w \in WaitSets, NEW i \in call[w].batch, DispatchSock(w, i) \/ DispatchGc(w, i)
         PROVE  FdInv'
    BY <1>3, <1>11 DEF DispatchSock, DispatchGc, entityVars
  <1>12. CASE UNCHANGED vars
    BY <1>3, <1>12 DEF vars, entityVars
  <1> QED BY <1>1, <1>2, <1>4, <1>5, <1>6, <1>7, <1>8, <1>9, <1>10, <1>11, <1>12
         DEF Next, WaitStep
(* The steps of a call between its arming and its output.                   *)
InnerStep(w) ==
  \/ CheckReady(w) \/ EpollWait(w) \/ Elapse(w) \/ EndBatch(w)
  \/ \E i \in call[w].batch : Withdraw(w, i) \/ DispatchSock(w, i) \/ DispatchGc(w, i)

(* They leave alone what the call waits on, and close the gate at the end.  *)
LEMMA InnerCall ==
  ASSUME TypeOK, NEW w \in WaitSets, InnerStep(w)
  PROVE  /\ OthersSame(w) /\ UNCHANGED entityVars
         /\ call'[w].waiting = call[w].waiting /\ call'[w].unarmed = call[w].unarmed
         /\ call'[w].due = call[w].due
         /\ call[w].pc \in {"ready", "block", "dispatch"}
         /\ call'[w].pc \in {"block", "dispatch", "output"}
         /\ call'[w].armedNow = IF call'[w].pc = "output" THEN {} ELSE call[w].armedNow
  <1>1. CASE CheckReady(w)
    <2>1. CallChecked(w)
      BY <1>1, CheckReadyCall
    <2> QED BY <1>1, <2>1 DEF CallChecked, CheckReady, At
  <1>2. CASE EpollWait(w)
    BY <1>2, EpollWaitCall DEF EpollWait, At
  <1>3. CASE Elapse(w)
    BY <1>3, LeaveCall DEF Elapse, At
  <1>4. CASE EndBatch(w)
    BY <1>4, LeaveCall, AgainCall DEF EndBatch, At
  <1>5. ASSUME NEW i \in call[w].batch, Withdraw(w, i)
        PROVE  UNCHANGED entityVars /\ call[w].pc = "dispatch"
    BY <1>5 DEF Withdraw, NextEvent, At
  <1>6. ASSUME NEW i \in call[w].batch, DispatchSock(w, i)
        PROVE  UNCHANGED entityVars /\ call[w].pc = "dispatch"
    BY <1>6 DEF DispatchSock, NextEvent, At
  <1>7. ASSUME NEW i \in call[w].batch, DispatchGc(w, i)
        PROVE  UNCHANGED entityVars /\ call[w].pc = "dispatch"
    BY <1>7 DEF DispatchGc, NextEvent, At
  <1> QED BY <1>1, <1>2, <1>3, <1>4, <1>5, <1>6, <1>7, WithdrawCall, DispatchSockCall, DispatchGcCall
         DEF InnerStep

(* The steps that touch no call.                                            *)
LEMMA NextCases ==
  ASSUME [Next]_vars
  PROVE  \/ \E e \in Entities : Create(e) \/ Destroy(e) \/ Fork(e)
         \/ \E s \in Socks : Send(s) \/ Take(s)
         \/ \E g \in Gcs : Trigger(g)
         \/ \E w \in WaitSets : InnerStep(w) \/ Output(w) \/ Recreate(w)
         \/ \E w \in WaitSets : \E S \in SUBSET (Open \cap MayWait[w]) :
              \E bad \in SUBSET (S \cap Unwatchable) : Arm(w, S, bad)
         \/ UNCHANGED vars
  BY DEF Next, WaitStep, InnerStep

(* A wait is on open entities, nobody else's.                               *)
LEMMA NextCall == ASSUME TypeOK, FdInv, CallInv, [Next]_vars PROVE CallInv'
  <1>1. ASSUME call' = call, \A w \in WaitSets : call[w].waiting \subseteq Open' PROVE CallInv'
    BY <1>1 DEF CallInv
  <1>2. ASSUME call' = call, UNCHANGED life PROVE CallInv'
    <2>1. Open' = Open
      BY <1>2 DEF Open
    <2> QED BY <1>2, <2>1 DEF CallInv
  <1>3. ASSUME NEW e \in Entities, Create(e) PROVE CallInv'
    <2>1. Open \subseteq Open' /\ call' = call
      BY <1>3 DEF Create, Open, TypeOK
    <2> QED BY <1>1, <2>1 DEF CallInv
  <1>4. ASSUME NEW e \in Entities, Destroy(e) PROVE CallInv'
    <2>1. Open \ {e} \subseteq Open' /\ call' = call /\ e \notin Waiting
      BY <1>4 DEF Destroy, Open, TypeOK
    <2> QED BY <1>1, <2>1 DEF CallInv, Waiting
  <1>5. ASSUME NEW e \in Entities, Fork(e) PROVE CallInv'
    BY <1>2, <1>5 DEF Fork
  <1>6. ASSUME NEW s \in Socks, Send(s) \/ Take(s) PROVE CallInv'
    BY <1>2, <1>6 DEF Send, Take, entityVars
  <1>7. ASSUME NEW g \in Gcs, Trigger(g) PROVE CallInv'
    BY <1>2, <1>7 DEF Trigger, entityVars
  <1>8. ASSUME NEW w \in WaitSets, InnerStep(w) PROVE CallInv'
    <2>1. Open' = Open
      BY <1>8, InnerCall DEF Open, entityVars
    <2>2. \A v \in WaitSets : /\ call'[v].waiting = call[v].waiting /\ call'[v].due = call[v].due
                              /\ call'[v].unarmed = call[v].unarmed
      BY <1>8, InnerCall DEF OthersSame
    <2>3. \A v \in WaitSets : call'[v].pc \in {"out", "ready"} => call'[v].got = {}
      BY <1>8, InnerCall DEF OthersSame, CallInv
    <2> QED BY <2>1, <2>2, <2>3 DEF CallInv
  <1>9. ASSUME NEW w \in WaitSets, Output(w) PROVE CallInv'
    <2>1. Open' = Open
      BY <1>9 DEF Output, Open, entityVars
    <2>2. call'[w] = NoCall /\ \A v \in WaitSets \ {w} : call'[v] = call[v]
      BY <1>9 DEF Output, TypeOK
    <2>3. /\ call'[w].waiting = {} /\ call'[w].unarmed = {} /\ call'[w].due = {}
          /\ call'[w].got = {}
      BY <2>2 DEF NoCall
    <2> QED BY <2>1, <2>2, <2>3 DEF CallInv
  <1>10. ASSUME NEW w \in WaitSets, Recreate(w) PROVE CallInv'
    BY <1>2, <1>10 DEF Recreate, entityVars
  <1>11. ASSUME NEW w \in WaitSets, NEW S \in SUBSET (Open \cap MayWait[w]),
                NEW bad \in SUBSET (S \cap Unwatchable), Arm(w, S, bad)
         PROVE  CallInv'
    <2>1. Open' = Open /\ S \cap Waiting = {}
      BY <1>11 DEF Arm, Open, entityVars
    <2>2. \A e \in Open : fdOf[e] \in Fds
      BY DEF FdInv
    <2>3. CallArmed(w, S, bad)
      BY <1>11, <2>2, ArmCall
    <2>4. \A v \in WaitSets \ {w} : call[v].waiting \cap S = {}
      BY <2>1 DEF Waiting
    <2> QED BY <2>1, <2>3, <2>4 DEF CallArmed, CallInv, OthersSame
  <1>12. CASE UNCHANGED vars
    BY <1>2, <1>12 DEF vars, entityVars
  <1> QED BY <1>3, <1>4, <1>5, <1>6, <1>7, <1>8, <1>9, <1>10, <1>11, <1>12, NextCases
(* Nothing that happens between two steps of a call opens its gate to an    *)
(* entity it does not wait on.                                              *)
LEMMA NextGate == ASSUME TypeOK, FdInv, CallInv, GateInv, [Next]_vars PROVE GateInv'
  <1>0. \A w \in WaitSets : call[w].waiting \subseteq Open /\ Open \subseteq Entities
    BY DEF CallInv, Open
  <1>1. ASSUME UNCHANGED <<call, armed>>,
               \A w \in WaitSets : \A e \in call[w].waiting : fdOf'[e] = fdOf[e]
        PROVE  GateInv'
    BY <1>1 DEF GateInv
  <1>2. ASSUME NEW e \in Entities, Create(e) PROVE GateInv'
    <2>1. \A o \in Open : fdOf'[o] = fdOf[o]
      BY <1>2 DEF Create, Open, TypeOK
    <2> QED BY <1>0, <1>1, <1>2, <2>1 DEF Create
  <1>3. ASSUME NEW e \in Entities, Destroy(e) PROVE GateInv'
    <2>1. e \notin Waiting /\ \A o \in Open \ {e} : fdOf'[o] = fdOf[o]
      BY <1>3 DEF Destroy, Open, TypeOK
    <2> QED BY <1>0, <1>1, <1>3, <2>1 DEF Destroy, Waiting
  <1>4. ASSUME UNCHANGED <<call, armed, fdOf>> PROVE GateInv'
    BY <1>4 DEF GateInv
  <1>5. ASSUME NEW e \in Entities, Fork(e) PROVE GateInv'
    BY <1>4, <1>5 DEF Fork
  <1>6. ASSUME NEW s \in Socks, Send(s) \/ Take(s) PROVE GateInv'
    BY <1>4, <1>6 DEF Send, Take, entityVars
  <1>7. ASSUME NEW g \in Gcs, Trigger(g) PROVE GateInv'
    BY <1>4, <1>7 DEF Trigger, entityVars
  <1>8. ASSUME NEW w \in WaitSets, InnerStep(w),
               \A v \in WaitSets, f \in Fds :
                 v # w \/ f \in call[w].armedNow => armed'[v][f] = armed[v][f]
        PROVE  GateInv'
    <2>1. fdOf' = fdOf /\ \A v \in WaitSets : /\ call'[v].waiting = call[v].waiting
                                              /\ call'[v].unarmed = call[v].unarmed
      BY <1>8, InnerCall DEF OthersSame, entityVars
    <2>2. call'[w].armedNow = IF call'[w].pc = "output" THEN {} ELSE call[w].armedNow
      BY <1>8, InnerCall
    <2>3. /\ call[w].pc \in {"ready", "block", "dispatch"}
          /\ call'[w].pc \in {"block", "dispatch", "output"}
      BY <1>8, InnerCall
    <2>4. \A v \in WaitSets \ {w} : call'[v] = call[v]
      BY <1>8, InnerCall DEF OthersSame
    <2>5. \A v \in WaitSets : \A e \in call[v].waiting : fdOf[e] \in Fds
      BY <1>0 DEF FdInv
    <2> SUFFICES ASSUME NEW v \in WaitSets
                 PROVE /\ call'[v].armedNow
                            \subseteq {fdOf[e] : e \in call[v].waiting \ call[v].unarmed}
                       /\ call'[v].pc \in {"ready", "block", "dispatch"} =>
                            \A e \in call[v].waiting \ call[v].unarmed :
                              armed'[v][fdOf[e]] = e /\ fdOf[e] \in call'[v].armedNow
                       /\ call'[v].pc \in {"out", "output"} => call'[v].armedNow = {}
      BY <2>1 DEF GateInv
    <2>6. CASE v = w
      BY <1>8, <2>2, <2>3, <2>5, <2>6 DEF GateInv
    <2>7. CASE v # w
      BY <1>8, <2>4, <2>5, <2>7 DEF GateInv
    <2> QED BY <2>6, <2>7
  <1>9. ASSUME NEW w \in WaitSets, InnerStep(w) PROVE GateInv'
    <2>1. CASE \E i \in call[w].batch : Withdraw(w, i)
      <3>1. PICK i \in call[w].batch : Withdraw(w, i)
        BY <2>1
      <3>2. call[w].pc = "dispatch" /\ ~Mine(w, i[1])
        BY <3>1 DEF Withdraw, NextEvent, At
      <3>3. i[1] \notin call[w].armedNow
        <4>1. \A f \in call[w].armedNow : armed[w][f] \in Entities
          BY <1>0, <3>2 DEF GateInv
        <4> QED BY <3>2, <4>1, WaitSetAssumption DEF Mine
      <3>4. \A v \in WaitSets, f \in Fds :
              armed'[v][f] = IF v = w /\ f = i[1] THEN NoEntity ELSE armed[v][f]
        BY <3>1, WithdrawArmed
      <3> QED BY <1>8, <1>9, <3>3, <3>4
    <2>2. CASE armed' = armed
      BY <1>8, <1>9, <2>2
    <2> QED BY <1>9, <2>1, <2>2
           DEF InnerStep, CheckReady, EpollWait, Elapse, EndBatch, DispatchSock, DispatchGc
  <1>10. ASSUME NEW w \in WaitSets, Output(w) PROVE GateInv'
    <2>1. call'[w].waiting = {} /\ call'[w].armedNow = {} /\ call'[w].pc = "out"
      BY <1>10 DEF Output, TypeOK, NoCall
    <2>2. \A v \in WaitSets \ {w} : call'[v] = call[v]
      BY <1>10 DEF Output, TypeOK
    <2> QED BY <1>10, <2>1, <2>2 DEF Output, GateInv, entityVars
  <1>11. ASSUME NEW w \in WaitSets, Recreate(w) PROVE GateInv'
    <2>1. call[w].pc = "out" /\ call' = call /\ fdOf' = fdOf
      BY <1>11 DEF Recreate, At, entityVars
    <2>2. \A v \in WaitSets \ {w} : armed'[v] = armed[v]
      BY <1>11 DEF Recreate, TypeOK
    <2> QED BY <2>1, <2>2 DEF GateInv
  <1>12. ASSUME NEW w \in WaitSets, NEW S \in SUBSET (Open \cap MayWait[w]),
                NEW bad \in SUBSET (S \cap Unwatchable), Arm(w, S, bad)
         PROVE  GateInv'
    <2>1. CallArmed(w, S, bad) /\ NewlyArmed(w, S, bad)
      BY <1>12, ArmCall, ArmArmed DEF FdInv
    <2>2. fdOf' = fdOf
      BY <1>12 DEF Arm, entityVars
    <2>3. /\ call'[w].waiting = S /\ call'[w].unarmed = bad /\ call'[w].pc = "ready"
          /\ call'[w].armedNow = {fdOf[e] : e \in S \ bad}
      BY <2>1 DEF CallArmed
    <2>4. \A e \in S \ bad : armed'[w][fdOf[e]] = e
      BY <2>1 DEF NewlyArmed
    <2>5. \A v \in WaitSets \ {w} : call'[v] = call[v] /\ armed'[v] = armed[v]
      BY <2>1 DEF NewlyArmed, CallArmed, OthersSame
    <2> QED BY <2>2, <2>3, <2>4, <2>5 DEF GateInv
  <1>13. CASE UNCHANGED vars
    BY <1>4, <1>13 DEF vars, entityVars
  <1> QED BY <1>2, <1>3, <1>5, <1>6, <1>7, <1>9, <1>10, <1>11, <1>12, <1>13, NextCases

(* The gate is as the property says.                                        *)
LEMMA GateIsRight == ASSUME TypeOK, CallInv, FdInv, GateInv PROVE DispatchesOnlyWaited
  <1>1. ASSUME NEW w \in WaitSets, NEW f \in call[w].armedNow PROVE armed[w][f] \in call[w].waiting
    <2>1. call[w].pc \in Pcs
      BY DEF TypeOK, Calls
    <2> QED BY <2>1 DEF GateInv, Pcs
  <1> QED BY <1>1 DEF DispatchesOnlyWaited
(* What armed remembers of an open entity stays true of the epoll set.      *)
LEMMA NextWatched ==
  ASSUME TypeOK, FdInv, CallInv, GateInv, ArmedIsWatched, [Next]_vars PROVE ArmedIsWatched'
  <1>0. Open \subseteq Entities /\ \A e \in Open : fdOf[e] \in Fds /\ e # NoEntity
    BY WaitSetAssumption DEF Open, FdInv
  <1>1. ASSUME UNCHANGED <<life, fdOf, armed, interest>> PROVE ArmedIsWatched'
    BY <1>1 DEF ArmedIsWatched, Open
  <1>2. ASSUME NEW e \in Entities, Create(e) PROVE ArmedIsWatched'
    <2>1. Open' = Open \cup {e} /\ fdOf'[e] \in Fds /\ \A o \in Open : fdOf'[o] = fdOf[o]
      BY <1>2 DEF Create, Open, TypeOK
    <2>2. \A w \in WaitSets, f \in Fds : armed[w][f] # e
      <3>1. e # NoEntity /\ life[e] = "new"
        BY <1>2, WaitSetAssumption DEF Create
      <3> QED BY <3>1 DEF FdInv
    <2>3. armed' = armed /\ interest' = interest
      BY <1>2 DEF Create
    <2> QED BY <2>1, <2>2, <2>3 DEF ArmedIsWatched
  <1>3. ASSUME NEW e \in Entities, Destroy(e) PROVE ArmedIsWatched'
    <2>1. Open' = Open \ {e} /\ \A o \in Open \ {e} : fdOf'[o] = fdOf[o]
      BY <1>3 DEF Destroy, Open, TypeOK
    <2>2. \A w \in WaitSets : \A o \in Open \ {e} :
            <<fdOf[o], o>> \in interest[w] => <<fdOf[o], o>> \in interest'[w]
      BY <1>3 DEF Destroy
    <2> QED BY <1>3, <2>1, <2>2 DEF Destroy, ArmedIsWatched
  <1>4. ASSUME NEW e \in Entities, Fork(e) PROVE ArmedIsWatched'
    BY <1>1, <1>4 DEF Fork
  <1>5. ASSUME NEW s \in Socks, Send(s) \/ Take(s) PROVE ArmedIsWatched'
    BY <1>1, <1>5 DEF Send, Take, entityVars
  <1>6. ASSUME NEW g \in Gcs, Trigger(g) PROVE ArmedIsWatched'
    BY <1>1, <1>6 DEF Trigger, entityVars
  <1>7. ASSUME NEW w \in WaitSets, InnerStep(w) PROVE ArmedIsWatched'
    <2>1. CASE \E i \in call[w].batch : Withdraw(w, i)
      <3>1. PICK i \in call[w].batch : Withdraw(w, i)
        BY <2>1
      <3>2. Open' = Open /\ fdOf' = fdOf
        BY <3>1 DEF Withdraw, entityVars, Open
      <3>3. \A v \in WaitSets, f \in Fds :
              armed'[v][f] = IF v = w /\ f = i[1] THEN NoEntity ELSE armed[v][f]
        BY <3>1, WithdrawArmed
      <3>4. \A v \in WaitSets, f \in Fds, e \in Entities :
              <<f, e>> \in interest[v] /\ ~(v = w /\ f = i[1]) => <<f, e>> \in interest'[v]
        BY <3>1, WithdrawArmed
      <3> SUFFICES ASSUME NEW v \in WaitSets, NEW e \in Open, armed'[v][fdOf[e]] = e
                   PROVE  <<fdOf[e], e>> \in interest'[v]
        BY <3>2 DEF ArmedIsWatched
      <3>5. ~(v = w /\ fdOf[e] = i[1]) /\ armed[v][fdOf[e]] = e
        BY <1>0, <3>3
      <3> QED BY <1>0, <3>4, <3>5 DEF ArmedIsWatched
    <2>2. CASE UNCHANGED <<entityVars, armed, interest>>
      BY <1>1, <2>2 DEF entityVars
    <2> QED BY <1>7, <2>1, <2>2
           DEF InnerStep, CheckReady, EpollWait, Elapse, EndBatch, DispatchSock, DispatchGc
  <1>8. ASSUME NEW w \in WaitSets, Output(w) PROVE ArmedIsWatched'
    BY <1>1, <1>8 DEF Output, entityVars
  <1>9. ASSUME NEW w \in WaitSets, Recreate(w) PROVE ArmedIsWatched'
    <2>1. UNCHANGED <<life, fdOf>> /\ Open' = Open
      BY <1>9 DEF Recreate, entityVars, Open
    <2>2. \A f \in Fds : armed'[w][f] = NoEntity
      BY <1>9 DEF Recreate, TypeOK
    <2>3. \A v \in WaitSets \ {w} : armed'[v] = armed[v] /\ interest'[v] = interest[v]
      BY <1>9 DEF Recreate, TypeOK
    <2> SUFFICES ASSUME NEW v \in WaitSets, NEW e \in Open, armed'[v][fdOf[e]] = e
                 PROVE  <<fdOf[e], e>> \in interest'[v]
      BY <2>1 DEF ArmedIsWatched
    <2>4. v # w
      BY <1>0, <2>2
    <2> QED BY <2>3, <2>4 DEF ArmedIsWatched
  <1>10. ASSUME NEW w \in WaitSets, NEW S \in SUBSET (Open \cap MayWait[w]),
                NEW bad \in SUBSET (S \cap Unwatchable), Arm(w, S, bad)
         PROVE  ArmedIsWatched'
    <2>1. NewlyArmed(w, S, bad)
      BY <1>10, ArmArmed
    <2>2. fdOf' = fdOf /\ Open' = Open
      BY <1>10 DEF Arm, entityVars, Open
    <2>3. \A f \in Fds : \/ armed'[w][f] = armed[w][f]
                         \/ \E e \in S \ bad : /\ armed'[w][f] = e /\ fdOf[e] = f
                                               /\ <<f, e>> \in interest'[w]
      BY <2>1 DEF NewlyArmed
    <2>4. interest[w] \subseteq interest'[w]
      BY <2>1 DEF NewlyArmed
    <2>5. \A v \in WaitSets \ {w} : armed'[v] = armed[v] /\ interest'[v] = interest[v]
      BY <2>1 DEF NewlyArmed
    <2> SUFFICES ASSUME NEW v \in WaitSets, NEW e \in Open, armed'[v][fdOf[e]] = e
                 PROVE  <<fdOf[e], e>> \in interest'[v]
      BY <2>2 DEF ArmedIsWatched
    <2>6. CASE v # w
      BY <2>5, <2>6 DEF ArmedIsWatched
    <2>7. CASE v = w
      <3>1. CASE armed[w][fdOf[e]] = e
        BY <2>4, <2>7, <3>1 DEF ArmedIsWatched
      <3>2. CASE armed[w][fdOf[e]] # e
        BY <1>0, <2>3, <2>7, <3>2
      <3> QED BY <3>1, <3>2
    <2> QED BY <2>6, <2>7
  <1>11. CASE UNCHANGED vars
    BY <1>1, <1>11 DEF vars, entityVars
  <1> QED BY <1>2, <1>3, <1>4, <1>5, <1>6, <1>7, <1>8, <1>9, <1>10, <1>11, NextCases

(* Whoever reads an eventfd keeps the trigger for the call that reports it. *)
LEMMA NextTrigger ==
  ASSUME TypeOK, CallInv, FdInv, GateInv, TriggerNeverLost, [Next]_vars PROVE TriggerNeverLost'
  <1> DEFINE InHand(g) == \E w \in WaitSets : g \in call[w].got \cap call[w].waiting
  <1>0. owed \subseteq Gcs /\ Socks \cap Gcs = {}
    BY WaitSetAssumption DEF TypeOK
  <1>1. ASSUME owed' \subseteq owed, UNCHANGED <<efd, call>> PROVE TriggerNeverLost'
    BY <1>1 DEF TriggerNeverLost
  <1>2. ASSUME NEW e \in Entities, Create(e) \/ Destroy(e) \/ Fork(e) PROVE TriggerNeverLost'
    BY <1>1, <1>2 DEF Create, Destroy, Fork, dataVars
  <1>3. ASSUME NEW s \in Socks, Send(s) \/ Take(s) PROVE TriggerNeverLost'
    BY <1>1, <1>3 DEF Send, Take
  <1>4. ASSUME NEW g \in Gcs, Trigger(g) PROVE TriggerNeverLost'
    BY <1>4 DEF Trigger, TriggerNeverLost, TypeOK
  <1>5. ASSUME NEW w \in WaitSets, owed' = owed, OthersSame(w),
               call'[w].waiting = call[w].waiting,
               call[w].got \subseteq call'[w].got,
               \A g \in Gcs : efd[g] => efd'[g] \/ g \in call'[w].got \cap call[w].waiting
        PROVE  TriggerNeverLost'
    <2> SUFFICES ASSUME NEW g \in owed PROVE efd'[g] \/ InHand(g)'
      BY <1>5 DEF TriggerNeverLost
    <2>1. CASE efd[g]
      BY <1>0, <1>5, <2>1
    <2>2. CASE InHand(g)
      <3>1. PICK v \in WaitSets : g \in call[v].got \cap call[v].waiting
        BY <2>2
      <3>2. g \in call'[v].got \cap call'[v].waiting
        BY <1>5, <3>1 DEF OthersSame
      <3> QED BY <3>2
    <2> QED BY <2>1, <2>2 DEF TriggerNeverLost
  <1>6. ASSUME NEW w \in WaitSets, CheckReady(w) PROVE TriggerNeverLost'
    <2>1. CallChecked(w)
      BY <1>6, CheckReadyCall
    <2>2. call[w].got = {}
      BY <1>6 DEF CheckReady, At, CallInv
    <2>3. \A g \in Gcs : efd[g] => efd'[g] \/ g \in call'[w].got \cap call[w].waiting
      BY <1>6, <2>1 DEF CheckReady, ReadEventfds, CallChecked
    <2> QED BY <1>5, <1>6, <2>1, <2>2, <2>3 DEF CheckReady, CallChecked
  <1>7. ASSUME NEW w \in WaitSets, NEW i \in call[w].batch, DispatchGc(w, i) PROVE TriggerNeverLost'
    <2> DEFINE h == armed[w][i[1]]
    <2>1. h \in call[w].waiting
      BY <1>7, GateIsRight DEF DispatchGc, Mine, DispatchesOnlyWaited
    <2>2. /\ call'[w].got = call[w].got \cup {g \in {h} \cap call[w].waiting : efd[g]}
          /\ OthersSame(w) /\ call'[w].waiting = call[w].waiting
      BY <1>7, DispatchGcCall
    <2>3. efd' = [g \in Gcs |-> efd[g] /\ g \notin {h}] /\ owed' = owed
      BY <1>7 DEF DispatchGc, ReadEventfds
    <2> HIDE DEF h
    <2>4. \A g \in Gcs : efd[g] => efd'[g] \/ g \in call'[w].got \cap call[w].waiting
      BY <2>1, <2>2, <2>3
    <2> QED BY <1>5, <2>2, <2>3, <2>4
  <1>8. ASSUME NEW w \in WaitSets, UNCHANGED <<owed, efd>>, OthersSame(w),
               call'[w].waiting = call[w].waiting, call'[w].got = call[w].got
        PROVE  TriggerNeverLost'
    BY <1>5, <1>8
  <1>9. ASSUME NEW w \in WaitSets, InnerStep(w) PROVE TriggerNeverLost'
    <2>1. CASE EpollWait(w)
      BY <1>8, <2>1, EpollWaitCall DEF EpollWait, dataVars
    <2>2. CASE Elapse(w) \/ EndBatch(w)
      BY <1>8, <2>2, LeaveCall, AgainCall DEF Elapse, EndBatch, dataVars
    <2>3. ASSUME NEW i \in call[w].batch, Withdraw(w, i) PROVE TriggerNeverLost'
      BY <1>8, <2>3, WithdrawCall DEF Withdraw, dataVars
    <2>4. ASSUME NEW i \in call[w].batch, DispatchSock(w, i) PROVE TriggerNeverLost'
      BY <1>8, <2>4, DispatchSockCall DEF DispatchSock
    <2> QED BY <1>6, <1>7, <1>9, <2>1, <2>2, <2>3, <2>4 DEF InnerStep
  <1>10. ASSUME NEW w \in WaitSets, Output(w) PROVE TriggerNeverLost'
    <2> SUFFICES ASSUME NEW g \in owed' PROVE efd'[g] \/ InHand(g)'
      BY DEF TriggerNeverLost
    <2>1. g \in owed /\ g \in Gcs /\ g \notin Socks /\ g \notin Ready(w)
      BY <1>0, <1>10 DEF Output
    <2>2. g \in call[w].waiting => ~efd[g] /\ g \notin call[w].got
      BY <2>1 DEF Ready
    <2>3. \A v \in WaitSets \ {w} : call'[v] = call[v]
      BY <1>10 DEF Output, TypeOK
    <2>4. CASE efd[g]
      <3>1. g \notin call[w].waiting
        BY <2>2, <2>4
      <3> QED BY <1>10, <2>1, <2>4, <3>1 DEF Output, ReadEventfds
    <2>5. CASE InHand(g)
      <3>1. PICK v \in WaitSets : g \in call[v].got \cap call[v].waiting
        BY <2>5
      <3>2. v # w
        BY <2>2, <3>1
      <3> QED BY <2>3, <3>1, <3>2
    <2> QED BY <2>1, <2>4, <2>5 DEF TriggerNeverLost
  <1>11. ASSUME NEW w \in WaitSets, Recreate(w) PROVE TriggerNeverLost'
    BY <1>1, <1>11 DEF Recreate, dataVars
  <1>12. ASSUME NEW w \in WaitSets, NEW S \in SUBSET (Open \cap MayWait[w]),
                NEW bad \in SUBSET (S \cap Unwatchable), Arm(w, S, bad)
         PROVE  TriggerNeverLost'
    <2>1. CallArmed(w, S, bad)
      BY <1>12, ArmCall DEF FdInv
    <2>2. \A v \in WaitSets \ {w} : call'[v] = call[v]
      BY <2>1 DEF CallArmed, OthersSame
    <2>3. call[w].got = {} /\ owed' = owed /\ efd' = efd
      BY <1>12 DEF Arm, At, CallInv, dataVars
    <2> QED BY <2>2, <2>3 DEF TriggerNeverLost
  <1>13. CASE UNCHANGED vars
    BY <1>1, <1>13 DEF vars, dataVars
  <1> QED BY <1>2, <1>3, <1>4, <1>9, <1>10, <1>11, <1>12, <1>13, NextCases

(* IInv holds always.                                                       *)
LEMMA Inductive == Spec => []IInv
  <1>1. IInv /\ [Next]_vars => IInv'
    BY NextType, NextFd, NextCall, NextGate, NextWatched, NextTrigger DEF IInv
  <1> QED BY InitIInv, <1>1, PTL DEF Spec

(* An event is dispatched only to an entity the caller waits on: no use     *)
(* after free and no theft, whatever was destroyed, moved or got a reused   *)
(* number (rmw_wait.cpp, the armed map and the dispatch).                   *)
THEOREM DispatchSafe == Spec => []DispatchesOnlyWaited
  <1>1. IInv => DispatchesOnlyWaited
    BY GateIsRight DEF IInv
  <1> QED BY Inductive, <1>1, PTL

(* An arming pass that skips EPOLL_CTL_ADD skips it rightly (register_fd).  *)
THEOREM ArmedWatched == Spec => []ArmedIsWatched
  <1>1. IInv => ArmedIsWatched
    BY DEF IInv
  <1> QED BY Inductive, <1>1, PTL

(* No trigger of a guard condition is lost between the three places of      *)
(* rmw_wait that read its eventfd.                                          *)
THEOREM TriggersKept == Spec => []TriggerNeverLost
  <1>1. IInv => TriggerNeverLost
    BY DEF IInv
  <1> QED BY Inductive, <1>1, PTL

-----------------------------------------------------------------------------
(* What a call finds it reports, as long as nobody else takes from the      *)
(* entities it waits on.                                                    *)

(* A drain loses no message that was the only one.                          *)
LEMMA DrainKeeps ==
  ASSUME TypeOK, NEW S, Drain(S), NEW s \in Socks
  PROVE  /\ queue[s] > 0 => queue'[s] > 0
         /\ queue[s] > 0 \/ sock[s] > 0 => queue'[s] > 0 \/ sock'[s] > 0
         /\ s \in S => (queue[s] > 0 \/ sock[s] > 0 => queue'[s] > 0)
  <1>1. queue[s] \in Nat /\ sock[s] \in Nat /\ queue'[s] \in Nat
    BY DrainType, WaitSetAssumption DEF TypeOK
  <1>2. CASE s \in S
    <2>1. queue'[s] = 0 <=> queue[s] = 0 /\ sock[s] = 0
      BY <1>2, DrainedQueue DEF Drain
    <2> QED BY <1>1, <2>1
  <1>3. CASE s \notin S
    <2>1. queue'[s] = queue[s] /\ sock'[s] = sock[s]
      BY <1>3, DrainedQueue DEF Drain
    <2> QED BY <1>1, <1>3, <2>1
  <1> QED BY <1>2, <1>3

(* What is there for a waited-on socket stays there, and once in the queue  *)
(* it stays in the queue.                                                   *)
LEMMA SocketsKept ==
  ASSUME ~ConcurrentTake, IInv, [Next]_vars, NEW v \in WaitSets,
         NEW s \in call[v].waiting, s \in Socks
  PROVE  /\ queue[s] > 0 => queue'[s] > 0
         /\ queue[s] > 0 \/ sock[s] > 0 => queue'[s] > 0 \/ sock'[s] > 0
  <1> DEFINE Kept == /\ queue[s] > 0 => queue'[s] > 0
                     /\ queue[s] > 0 \/ sock[s] > 0 => queue'[s] > 0 \/ sock'[s] > 0
  <1>0. s \in Waiting /\ TypeOK
    BY DEF Waiting, IInv
  <1>1. ASSUME queue'[s] = queue[s], sock'[s] = sock[s] PROVE Kept
    BY <1>1
  <1>2. ASSUME NEW e \in Entities, Create(e) \/ Fork(e) PROVE Kept
    BY <1>2 DEF Create, Fork, dataVars
  <1>3. ASSUME NEW e \in Entities, Destroy(e) PROVE Kept
    BY <1>0, <1>3 DEF Destroy
  <1>4. ASSUME NEW t \in Socks, Send(t) PROVE Kept
    <2>1. sock[s] \in Nat /\ sock[t] \in Nat
      BY <1>0, WaitSetAssumption DEF TypeOK
    <2>2. queue' = queue /\ (sock[s] > 0 => sock'[s] > 0)
      BY <1>0, <1>4, <2>1 DEF Send, TypeOK
    <2> QED BY <2>2
  <1>5. ASSUME NEW t \in Socks, Take(t) PROVE Kept
    <2>1. t # s
      BY <1>0, <1>5 DEF Take
    <2> QED BY <1>0, <1>5, <2>1 DEF Take, TypeOK
  <1>6. ASSUME NEW g \in Gcs, Trigger(g) PROVE Kept
    BY <1>6 DEF Trigger
  <1>7. ASSUME NEW w \in WaitSets, InnerStep(w) PROVE Kept
    <2>1. ASSUME NEW S, Drain(S) PROVE Kept
      BY <1>0, <2>1, DrainKeeps
    <2>2. CASE UNCHANGED <<queue, sock>>
      BY <1>1, <2>2
    <2> QED BY <1>7, <2>1, <2>2
           DEF InnerStep, CheckReady, EpollWait, Elapse, EndBatch, Withdraw, DispatchSock,
               DispatchGc, dataVars
  <1>8. ASSUME NEW w \in WaitSets, Output(w) \/ Recreate(w) PROVE Kept
    BY <1>8 DEF Output, Recreate, dataVars
  <1>9. ASSUME NEW w \in WaitSets, NEW S, NEW bad, Arm(w, S, bad) PROVE Kept
    BY <1>9 DEF Arm, dataVars
  <1>10. CASE UNCHANGED vars
    BY <1>10 DEF vars, dataVars
  <1> QED BY <1>2, <1>3, <1>4, <1>5, <1>6, <1>7, <1>8, <1>9, <1>10, NextCases

(* A trigger that the call may count on is read by nobody else.             *)
LEMMA TriggersKeptFor ==
  ASSUME IInv, [Next]_vars, NEW v \in WaitSets, NEW g \in call[v].waiting, g \in Gcs, ~Output(v),
         call'[v] = call[v] \/ InnerStep(v)
  PROVE  efd[g] \/ g \in call[v].got => efd'[g] \/ g \in call'[v].got
  <1> DEFINE Kept == efd[g] \/ g \in call[v].got => efd'[g] \/ g \in call'[v].got
  <1>0. TypeOK /\ DispatchesOnlyWaited
    BY GateIsRight DEF IInv
  <1>1. \A w \in WaitSets \ {v} : g \notin call[w].waiting
    BY DEF IInv, CallInv
  <1>2. ASSUME NEW w \in WaitSets, CheckReady(w) PROVE Kept
    <2>1. CallChecked(w)
      BY <1>0, <1>2, CheckReadyCall
    <2>2. call[w].got = {}
      BY <1>2 DEF CheckReady, At, IInv, CallInv
    <2>3. CASE w = v
      BY <1>2, <2>1, <2>2, <2>3 DEF CheckReady, ReadEventfds, CallChecked
    <2>4. CASE w # v
      BY <1>1, <1>2, <2>1, <2>4 DEF CheckReady, ReadEventfds, CallChecked, OthersSame
    <2> QED BY <2>3, <2>4
  <1>3. ASSUME NEW w \in WaitSets, NEW i \in call[w].batch, DispatchGc(w, i) PROVE Kept
    <2> DEFINE h == armed[w][i[1]]
    <2>1. h \in call[w].waiting
      BY <1>0, <1>3 DEF DispatchGc, Mine, DispatchesOnlyWaited
    <2>2. /\ call'[w].got = call[w].got \cup {x \in {h} \cap call[w].waiting : efd[x]}
          /\ OthersSame(w)
      BY <1>0, <1>3, DispatchGcCall
    <2>3. efd' = [x \in Gcs |-> efd[x] /\ x \notin {h}]
      BY <1>3 DEF DispatchGc, ReadEventfds
    <2> HIDE DEF h
    <2>4. CASE w = v
      BY <2>1, <2>2, <2>3, <2>4
    <2>5. CASE w # v
      BY <1>1, <2>1, <2>2, <2>3, <2>5 DEF OthersSame
    <2> QED BY <2>4, <2>5
  <1>4. ASSUME efd[g] => efd'[g], call[v].got \subseteq call'[v].got PROVE Kept
    BY <1>4
  <1>5. ASSUME NEW w \in WaitSets, InnerStep(w) PROVE Kept
    <2>1. CASE EpollWait(w)
      BY <1>0, <1>4, <2>1, EpollWaitCall DEF EpollWait, dataVars, OthersSame
    <2>2. CASE Elapse(w) \/ EndBatch(w)
      BY <1>0, <1>4, <2>2, LeaveCall, AgainCall DEF Elapse, EndBatch, dataVars, OthersSame
    <2>3. ASSUME NEW i \in call[w].batch, Withdraw(w, i) PROVE Kept
      BY <1>0, <1>4, <2>3, WithdrawCall DEF Withdraw, dataVars, OthersSame
    <2>4. ASSUME NEW i \in call[w].batch, DispatchSock(w, i) PROVE Kept
      BY <1>0, <1>4, <2>4, DispatchSockCall DEF DispatchSock, OthersSame
    <2> QED BY <1>2, <1>3, <1>5, <2>1, <2>2, <2>3, <2>4 DEF InnerStep
  <1>6. ASSUME NEW w \in WaitSets, Output(w) PROVE Kept
    <2>1. w # v
      BY <1>6
    <2>2. call'[v] = call[v]
      BY <1>0, <1>6, <2>1 DEF Output, TypeOK
    <2> QED BY <1>1, <1>6, <2>1, <2>2 DEF Output, ReadEventfds
  <1>7. ASSUME NEW e \in Entities, Create(e) \/ Destroy(e) \/ Fork(e) PROVE Kept
    BY <1>7 DEF Create, Destroy, Fork, dataVars
  <1>8. ASSUME NEW s \in Socks, Send(s) \/ Take(s) PROVE Kept
    BY <1>8 DEF Send, Take
  <1>9. ASSUME NEW x \in Gcs, Trigger(x) PROVE Kept
    <2>1. call' = call /\ (efd[g] => efd'[g])
      BY <1>0, <1>9 DEF Trigger, TypeOK
    <2> QED BY <2>1
  <1>10. ASSUME NEW w \in WaitSets, Recreate(w) PROVE Kept
    BY <1>10 DEF Recreate, dataVars
  <1>11. ASSUME NEW w \in WaitSets, NEW S \in SUBSET (Open \cap MayWait[w]),
                NEW bad \in SUBSET (S \cap Unwatchable), Arm(w, S, bad)
         PROVE  Kept
    <2>1. efd' = efd /\ call[w].pc = "out"
      BY <1>11 DEF Arm, At, dataVars
    <2>2. CallArmed(w, S, bad)
      BY <1>0, <1>11, ArmCall DEF IInv, FdInv
    <2>3. w # v \/ g \notin call[v].got
      BY <2>1 DEF IInv, CallInv
    <2> QED BY <2>1, <2>2, <2>3 DEF CallArmed, OthersSame
  <1>12. CASE UNCHANGED vars
    BY <1>12 DEF vars, dataVars
  <1> QED BY <1>5, <1>6, <1>7, <1>8, <1>9, <1>10, <1>11, <1>12, NextCases
(* A batch that is not full holds every event there was.                    *)
LEMMA NotFullIsAll ==
  ASSUME TypeOK, NEW w \in WaitSets, NEW batch \in SUBSET Events(w),
         Cardinality(batch) = Min({MaxEvents, Cardinality(Events(w))}),
         Cardinality(batch) # MaxEvents
  PROVE  batch = Events(w)
  <1>1. IsFiniteSet(Fds \X Entities)
    BY FS_Product, WaitSetAssumption
  <1>2. Events(w) \in SUBSET (Fds \X Entities)
    BY DEF Events, TypeOK
  <1>3. IsFiniteSet(Events(w))
    BY <1>1, <1>2, FS_Subset
  <1>4. Cardinality(Events(w)) \in Nat /\ MaxEvents \in Nat
    BY <1>3, FS_CardinalityType, WaitSetAssumption
  <1>5. Cardinality(batch) = Cardinality(Events(w))
    BY <1>4, MinOfTwo
  <1> QED BY <1>3, <1>5, FS_Subset

(* What the call owes its caller for what was there when it began.          *)
Due(w) ==
  /\ \A g \in call[w].due \cap Gcs : efd[g] \/ g \in call[w].got
  /\ call[w].pc \in {"ready", "block", "dispatch"} =>
       \A s \in call[w].due \cap Socks : queue[s] > 0 \/ sock[s] > 0
  /\ call[w].pc \in {"block", "dispatch", "output"} =>
       \A s \in call[w].due \cap call[w].unarmed \cap Socks : queue[s] > 0
  /\ call[w].pc = "dispatch" /\ ~call[w].full =>
       \A s \in (call[w].due \ call[w].unarmed) \cap Socks :
         queue[s] > 0 \/ <<fdOf[s], s>> \in call[w].batch
  /\ call[w].pc = "output" /\ ~call[w].full =>
       \A s \in call[w].due \cap Socks : queue[s] > 0

(* A step seen from the wait set v.                                         *)
LEMMA StepOf ==
  ASSUME IInv, [Next]_vars, NEW v \in WaitSets
  PROVE  \/ call'[v] = call[v] \/ InnerStep(v) \/ Output(v)
         \/ \E S \in SUBSET (Open \cap MayWait[v]) :
              \E bad \in SUBSET (S \cap Unwatchable) : Arm(v, S, bad)
  <1>0. TypeOK
    BY DEF IInv
  <1>1. ASSUME NEW w \in WaitSets \ {v}, InnerStep(w) \/ Output(w) PROVE call'[v] = call[v]
    BY <1>0, <1>1, InnerCall DEF Output, OthersSame, TypeOK
  <1>2. ASSUME NEW w \in WaitSets \ {v}, NEW S, NEW bad, Arm(w, S, bad) PROVE call'[v] = call[v]
    BY <1>0, <1>2 DEF Arm, TypeOK
  <1>3. ASSUME NEW e \in Entities, Create(e) \/ Destroy(e) \/ Fork(e) PROVE call'[v] = call[v]
    BY <1>3 DEF Create, Destroy, Fork
  <1>4. ASSUME NEW s \in Socks, Send(s) \/ Take(s) PROVE call'[v] = call[v]
    BY <1>4 DEF Send, Take
  <1>5. ASSUME NEW g \in Gcs, Trigger(g) PROVE call'[v] = call[v]
    BY <1>5 DEF Trigger
  <1>6. ASSUME NEW w \in WaitSets, Recreate(w) PROVE call'[v] = call[v]
    BY <1>6 DEF Recreate
  <1>7. CASE UNCHANGED vars
    BY <1>7 DEF vars
  <1> QED BY <1>1, <1>2, <1>3, <1>4, <1>5, <1>6, <1>7, NextCases

(* Waited-on entities keep their numbers.                                   *)
LEMMA NumbersKept ==
  ASSUME IInv, [Next]_vars, NEW v \in WaitSets, NEW e \in call[v].waiting
  PROVE  fdOf'[e] = fdOf[e]
  <1>0. TypeOK /\ e \in Open /\ e \in Waiting
    BY DEF IInv, CallInv, Waiting
  <1>1. ASSUME NEW o \in Entities, Create(o) \/ Destroy(o) \/ Fork(o) PROVE fdOf'[e] = fdOf[e]
    BY <1>0, <1>1 DEF Create, Destroy, Fork, TypeOK, Open
  <1>2. ASSUME NEW s \in Socks, Send(s) \/ Take(s) PROVE fdOf'[e] = fdOf[e]
    BY <1>2 DEF Send, Take, entityVars
  <1>3. ASSUME NEW g \in Gcs, Trigger(g) PROVE fdOf'[e] = fdOf[e]
    BY <1>3 DEF Trigger, entityVars
  <1>4. ASSUME NEW w \in WaitSets, InnerStep(w) \/ Output(w) \/ Recreate(w) PROVE fdOf'[e] = fdOf[e]
    BY <1>0, <1>4, InnerCall DEF Output, Recreate, entityVars
  <1>5. ASSUME NEW w \in WaitSets, NEW S, NEW bad, Arm(w, S, bad) PROVE fdOf'[e] = fdOf[e]
    BY <1>5 DEF Arm, entityVars
  <1>6. CASE UNCHANGED vars
    BY <1>6 DEF vars, entityVars
  <1> QED BY <1>1, <1>2, <1>3, <1>4, <1>5, <1>6, NextCases

(* A call goes on owing, and reports in the end.                            *)
LEMMA InnerDue ==
  ASSUME ~ConcurrentTake, IInv, [Next]_vars, NEW v \in WaitSets, InnerStep(v), Due(v)
  PROVE  Due(v)'
  <1>0. TypeOK /\ call[v].due \subseteq call[v].waiting /\ fdOf' = fdOf
    BY InnerCall DEF IInv, CallInv, entityVars
  <1>1. /\ call'[v].waiting = call[v].waiting /\ call'[v].unarmed = call[v].unarmed
        /\ call'[v].due = call[v].due
    BY <1>0, InnerCall
  <1>2. ~Output(v)
    BY <1>0, InnerCall DEF Output, At
  <1>3. \A g \in call[v].due \cap Gcs : efd'[g] \/ g \in call'[v].got
    BY <1>0, <1>2, TriggersKeptFor DEF Due
  <1>4. \A s \in call[v].due \cap Socks : (queue[s] > 0 => queue'[s] > 0)
    BY <1>0, SocketsKept
  <1>5. \A s \in call[v].due \cap Socks :
          queue[s] > 0 \/ sock[s] > 0 => queue'[s] > 0 \/ sock'[s] > 0
    BY <1>0, SocketsKept
  <1>6. \A s \in (call[v].due \ call[v].unarmed) \cap Socks :
          call[v].pc \in {"ready", "block", "dispatch"} =>
            armed[v][fdOf[s]] = s /\ fdOf[s] \in call[v].armedNow /\ <<fdOf[s], s>> \in interest[v]
    BY <1>0 DEF IInv, CallInv, GateInv, ArmedIsWatched
  <1>7. CASE CheckReady(v)
    <2>1. CallChecked(v)
      BY <1>0, <1>7, CheckReadyCall
    <2>2. call[v].pc = "ready" /\ call'[v].pc = "block"
      BY <1>7, <2>1 DEF CheckReady, At, CallChecked
    <2>3. \A s \in call[v].due \cap Socks : queue'[s] > 0 \/ sock'[s] > 0
      BY <1>5, <2>2 DEF Due
    <2>4. \A s \in call[v].due \cap call[v].unarmed \cap Socks : queue'[s] > 0
      BY <1>0, <1>7, <2>2, DrainKeeps DEF Due, CheckReady
    <2> QED BY <1>1, <1>3, <2>2, <2>3, <2>4 DEF Due
  <1>8. CASE EpollWait(v)
    <2>1. PICK batch \in SUBSET Events(v) :
            /\ Cardinality(batch) = Min({MaxEvents, Cardinality(Events(v))})
            /\ call'[v].pc = "dispatch" /\ call'[v].batch = batch
            /\ call'[v].full = (Cardinality(batch) = MaxEvents)
      BY <1>0, <1>8, EpollWaitCall
    <2>2. call[v].pc = "block"
      BY <1>8 DEF EpollWait, At
    <2>3. ASSUME ~call'[v].full, NEW s \in (call[v].due \ call[v].unarmed) \cap Socks
          PROVE  queue'[s] > 0 \/ <<fdOf[s], s>> \in call'[v].batch
      <3>1. queue[s] > 0 \/ sock[s] > 0
        BY <2>2 DEF Due
      <3>2. CASE queue[s] > 0
        BY <1>4, <3>2
      <3>3. CASE sock[s] > 0
        <4>1. <<fdOf[s], s>> \in Events(v)
          BY <1>6, <2>2, <3>3 DEF Events, Readable
        <4>2. batch = Events(v)
          BY <1>0, <2>1, <2>3, NotFullIsAll
        <4> QED BY <2>1, <4>1, <4>2
      <3> QED BY <3>1, <3>2, <3>3
    <2> QED BY <1>0, <1>1, <1>3, <1>4, <1>5, <2>1, <2>2, <2>3 DEF Due
  <1>9. CASE Elapse(v)
    <2>1. call'[v].pc = "output" /\ call[v].pc = "block"
      BY <1>0, <1>9, LeaveCall DEF Elapse, At
    <2>2. ASSUME NEW s \in call[v].due \cap Socks PROVE queue'[s] > 0
      <3>1. CASE s \in call[v].unarmed
        BY <1>4, <2>1, <3>1 DEF Due
      <3>2. CASE s \notin call[v].unarmed
        <4>1. ~(sock[s] > 0)
          <5> SUFFICES ASSUME sock[s] > 0 PROVE FALSE
            OBVIOUS
          <5>1. <<fdOf[s], s>> \in Events(v)
            BY <1>6, <2>1, <3>2 DEF Events, Readable
          <5> QED BY <1>9, <5>1 DEF Elapse
        <4> QED BY <1>4, <2>1, <4>1 DEF Due
      <3> QED BY <3>1, <3>2
    <2> QED BY <1>1, <1>3, <2>1, <2>2 DEF Due
  <1>10. CASE EndBatch(v)
    <2>1. call[v].pc = "dispatch" /\ call[v].batch = {}
      BY <1>10 DEF EndBatch, At
    <2>2. CASE Leave(v)
      <3>1. call'[v].pc = "output" /\ call'[v].full = call[v].full
        BY <1>0, <2>2, LeaveCall
      <3>2. ASSUME ~call[v].full, NEW s \in call[v].due \cap Socks PROVE queue'[s] > 0
        BY <1>4, <2>1, <3>2 DEF Due
      <3>3. \A s \in call[v].due \cap call[v].unarmed \cap Socks : queue'[s] > 0
        BY <1>4, <2>1 DEF Due
      <3> QED BY <1>1, <1>3, <3>1, <3>2, <3>3 DEF Due
    <2>3. CASE Again(v)
      <3>1. call'[v].pc = "block"
        BY <1>0, <2>3, AgainCall
      <3> QED BY <1>1, <1>3, <1>4, <1>5, <2>1, <3>1 DEF Due
    <2> QED BY <1>10, <2>2, <2>3 DEF EndBatch
  <1>11. ASSUME NEW i \in call[v].batch, call[v].pc = "dispatch", call'[v].pc = "dispatch",
                call'[v].full = call[v].full, call'[v].batch = call[v].batch \ {i},
                \A s \in (call[v].due \ call[v].unarmed) \cap Socks :
                  i = <<fdOf[s], s>> => queue'[s] > 0
         PROVE  Due(v)'
    <2>1. ASSUME ~call[v].full, NEW s \in (call[v].due \ call[v].unarmed) \cap Socks
          PROVE  queue'[s] > 0 \/ <<fdOf[s], s>> \in call[v].batch \ {i}
      BY <1>4, <1>11, <2>1 DEF Due
    <2> QED BY <1>0, <1>1, <1>3, <1>4, <1>5, <1>11, <2>1 DEF Due
  <1>12. ASSUME NEW i \in call[v].batch, Withdraw(v, i) PROVE Due(v)'
    <2>1. call[v].pc = "dispatch" /\ ~Mine(v, i[1])
      BY <1>12 DEF Withdraw, NextEvent, At
    <2>2. \A s \in (call[v].due \ call[v].unarmed) \cap Socks : i # <<fdOf[s], s>>
      BY <1>6, <2>1, WaitSetAssumption DEF Mine, Entities
    <2> QED BY <1>0, <1>11, <1>12, <2>1, <2>2, WithdrawCall
  <1>13. ASSUME NEW i \in call[v].batch, DispatchSock(v, i) PROVE Due(v)'
    <2>1. call[v].pc = "dispatch" /\ Drain({armed[v][i[1]]})
      BY <1>13 DEF DispatchSock, NextEvent, At
    <2>2. ASSUME NEW s \in (call[v].due \ call[v].unarmed) \cap Socks, i = <<fdOf[s], s>>
          PROVE  queue'[s] > 0
      <3>1. armed[v][i[1]] = s
        BY <1>6, <2>1, <2>2
      <3>2. queue[s] > 0 \/ sock[s] > 0
        BY <2>1 DEF Due
      <3> QED BY <1>0, <2>1, <3>1, <3>2, DrainKeeps
    <2> QED BY <1>0, <1>11, <1>13, <2>1, <2>2, DispatchSockCall
  <1>14. ASSUME NEW i \in call[v].batch, DispatchGc(v, i) PROVE Due(v)'
    <2>1. call[v].pc = "dispatch" /\ armed[v][i[1]] \in Gcs
      BY <1>14 DEF DispatchGc, NextEvent, At
    <2>2. \A s \in (call[v].due \ call[v].unarmed) \cap Socks : i # <<fdOf[s], s>>
      BY <1>6, <2>1, WaitSetAssumption
    <2> QED BY <1>0, <1>11, <1>14, <2>1, <2>2, DispatchGcCall
  <1> QED BY <1>7, <1>8, <1>9, <1>10, <1>12, <1>13, <1>14 DEF InnerStep
(* Due is inductive: what was there goes to a queue or to the call's hands. *)
LEMMA NextDue ==
  ASSUME ~ConcurrentTake, IInv, [Next]_vars, NEW v \in WaitSets, Due(v)
  PROVE  Due(v)'
  <1>0. TypeOK /\ call[v].due \subseteq call[v].waiting /\ Socks \cap Gcs = {}
    BY WaitSetAssumption DEF IInv, CallInv
  <1>1. CASE call'[v] = call[v] /\ ~Output(v)
    <2>1. \A g \in call[v].due \cap Gcs : efd'[g] \/ g \in call[v].got
      BY <1>0, <1>1, TriggersKeptFor DEF Due
    <2>2. \A s \in call[v].due \cap Socks : (queue[s] > 0 => queue'[s] > 0)
      BY <1>0, SocketsKept
    <2>3. \A s \in call[v].due \cap Socks :
            queue[s] > 0 \/ sock[s] > 0 => queue'[s] > 0 \/ sock'[s] > 0
      BY <1>0, SocketsKept
    <2>4. \A s \in call[v].due : fdOf'[s] = fdOf[s]
      BY <1>0, NumbersKept
    <2> QED BY <1>1, <2>1, <2>2, <2>3, <2>4 DEF Due
  <1>2. CASE Output(v)
    <2>1. call'[v].due = {}
      BY <1>0, <1>2 DEF Output, TypeOK, NoCall
    <2> QED BY <2>1 DEF Due
  <1>3. ASSUME NEW S \in SUBSET (Open \cap MayWait[v]), NEW bad \in SUBSET (S \cap Unwatchable),
               Arm(v, S, bad)
        PROVE  Due(v)'
    <2>1. CallArmed(v, S, bad)
      BY <1>0, <1>3, ArmCall DEF IInv, FdInv
    <2>2. call'[v].pc = "ready" /\ call'[v].due = {e \in S : HasData(e)}
      BY <2>1 DEF CallArmed
    <2>3. UNCHANGED <<efd, queue, sock>>
      BY <1>3 DEF Arm, dataVars
    <2>4. \A g \in call'[v].due \cap Gcs : efd[g]
      BY <1>0, <2>2 DEF HasData
    <2>5. \A s \in call'[v].due \cap Socks : queue[s] > 0 \/ sock[s] > 0
      BY <2>2 DEF HasData
    <2> QED BY <2>2, <2>3, <2>4, <2>5 DEF Due
  <1> QED BY <1>1, <1>2, <1>3, StepOf, InnerDue

(* Something the caller can take is in the hands of the call.               *)
SomeReady(w) == \E e \in call[w].waiting : (e \in Socks /\ queue[e] > 0) \/ e \in call[w].got

(* A call polls, sees progress or ends without a timeout only with that.    *)
Earned(w) ==
  /\ call[w].pollOnly => SomeReady(w)
  /\ call[w].progressed => SomeReady(w)
  /\ call[w].pc = "output" /\ w \notin Timed /\ call[w].unarmed = {} => SomeReady(w)

(* What is ready stays so: only the call itself takes it.                   *)
LEMMA SomeKept ==
  ASSUME ~ConcurrentTake, IInv, [Next]_vars, NEW v \in WaitSets, SomeReady(v),
         call'[v].waiting = call[v].waiting, call[v].got \subseteq call'[v].got
  PROVE  SomeReady(v)'
  <1>1. PICK e \in call[v].waiting : (e \in Socks /\ queue[e] > 0) \/ e \in call[v].got
    BY DEF SomeReady
  <1>2. CASE e \in Socks /\ queue[e] > 0
    BY <1>2, SocketsKept DEF SomeReady
  <1>3. CASE e \in call[v].got
    BY <1>3 DEF SomeReady
  <1> QED BY <1>1, <1>2, <1>3

(* Earned is inductive.                                                     *)
LEMMA NextEarned ==
  ASSUME ~ConcurrentTake, IInv, [Next]_vars, NEW v \in WaitSets, Earned(v)
  PROVE  Earned(v)'
  <1>0. TypeOK
    BY DEF IInv
  <1>1. CASE call'[v] = call[v]
    BY <1>1, SomeKept DEF Earned
  <1>2. CASE Output(v)
    <2>1. call'[v].pc = "out" /\ call'[v].pollOnly = FALSE /\ call'[v].progressed = FALSE
      BY <1>0, <1>2 DEF Output, TypeOK, NoCall
    <2> QED BY <2>1 DEF Earned
  <1>3. ASSUME NEW S \in SUBSET (Open \cap MayWait[v]), NEW bad \in SUBSET (S \cap Unwatchable),
               Arm(v, S, bad)
        PROVE  Earned(v)'
    <2>1. CallArmed(v, S, bad)
      BY <1>0, <1>3, ArmCall DEF IInv, FdInv
    <2>2. call'[v].pc = "ready" /\ call'[v].pollOnly = FALSE /\ call'[v].progressed = FALSE
      BY <2>1 DEF CallArmed
    <2> QED BY <2>2 DEF Earned
  <1>4. CASE CheckReady(v)
    <2>1. CallChecked(v)
      BY <1>0, <1>4, CheckReadyCall
    <2>2. /\ call'[v].pc = "block" /\ call'[v].waiting = call[v].waiting
          /\ call'[v].got = {g \in call[v].waiting \cap Gcs : efd[g]}
          /\ call'[v].progressed = call[v].progressed /\ call'[v].pollOnly = PollOnly(v)
      BY <2>1 DEF CallChecked
    <2>3. call[v].got = {} /\ queue' = Drained(call[v].unarmed)
      BY <1>4 DEF CheckReady, At, IInv, CallInv, Drain
    <2>4. PollOnly(v) => SomeReady(v)'
      BY <2>2, <2>3 DEF PollOnly, SomeReady
    <2>5. call[v].progressed => SomeReady(v)'
      BY <2>2, <2>3, SomeKept DEF Earned
    <2> QED BY <2>2, <2>4, <2>5 DEF Earned
  <1>5. CASE EpollWait(v)
    <2>1. /\ call'[v].pc = "dispatch" /\ call'[v].waiting = call[v].waiting
          /\ call'[v].got = call[v].got /\ call'[v].pollOnly = call[v].pollOnly
          /\ call'[v].progressed = call[v].progressed
      BY <1>0, <1>5, EpollWaitCall
    <2> QED BY <2>1, SomeKept DEF Earned
  <1>6. ASSUME Leave(v), call[v].pollOnly \/ call[v].progressed \/ v \in Timed \/ call[v].unarmed # {}
        PROVE  Earned(v)'
    <2>1. /\ call'[v].waiting = call[v].waiting /\ call'[v].got = call[v].got
          /\ call'[v].unarmed = call[v].unarmed
          /\ call'[v].pollOnly = FALSE /\ call'[v].progressed = FALSE
      BY <1>0, <1>6, LeaveCall
    <2> QED BY <1>6, <2>1, SomeKept DEF Earned
  <1>7. CASE Elapse(v)
    BY <1>6, <1>7 DEF Elapse
  <1>8. CASE EndBatch(v)
    <2>1. CASE Leave(v) /\ IF call[v].pollOnly THEN ~call[v].full
                           ELSE call[v].progressed \/ v \in Timed \/ call[v].unarmed # {}
      BY <1>6, <2>1
    <2>2. CASE Again(v)
      <3>1. /\ call'[v].waiting = call[v].waiting /\ call'[v].got = call[v].got
            /\ call'[v].pc = "block" /\ call'[v].progressed = FALSE
            /\ call'[v].pollOnly = call[v].pollOnly
        BY <1>0, <2>2, AgainCall
      <3> QED BY <3>1, SomeKept DEF Earned
    <2> QED BY <1>8, <2>1, <2>2 DEF EndBatch
  <1>9. ASSUME NEW i \in call[v].batch, Withdraw(v, i) PROVE Earned(v)'
    <2>1. /\ call'[v].waiting = call[v].waiting /\ call'[v].got = call[v].got
          /\ call'[v].pc = call[v].pc /\ call'[v].progressed = call[v].progressed
          /\ call'[v].pollOnly = call[v].pollOnly /\ call'[v].unarmed = call[v].unarmed
      BY <1>0, <1>9, WithdrawCall
    <2> QED BY <2>1, SomeKept DEF Earned
  <1>10. ASSUME NEW i \in call[v].batch, DispatchSock(v, i) PROVE Earned(v)'
    <2> DEFINE s == armed[v][i[1]]
    <2>1. /\ call'[v].waiting = call[v].waiting /\ call'[v].got = call[v].got
          /\ call'[v].pc = call[v].pc /\ call'[v].pollOnly = call[v].pollOnly
          /\ call'[v].progressed = (call[v].progressed \/ Drained({s})[s] > 0)
      BY <1>0, <1>10, DispatchSockCall
    <2>2. call[v].pc = "dispatch" /\ s \in Socks /\ queue' = Drained({s})
      BY <1>10 DEF DispatchSock, NextEvent, At, Drain
    <2>3. s \in call[v].waiting
      BY <1>10, GateIsRight DEF DispatchSock, Mine, DispatchesOnlyWaited, IInv
    <2> HIDE DEF s
    <2>4. Drained({s})[s] > 0 => SomeReady(v)'
      BY <2>1, <2>2, <2>3 DEF SomeReady
    <2> QED BY <2>1, <2>2, <2>4, SomeKept DEF Earned
  <1>11. ASSUME NEW i \in call[v].batch, DispatchGc(v, i) PROVE Earned(v)'
    <2> DEFINE g == armed[v][i[1]]
    <2>1. /\ call'[v].waiting = call[v].waiting
          /\ call'[v].got = call[v].got \cup {h \in {g} \cap call[v].waiting : efd[h]}
          /\ call'[v].pc = call[v].pc /\ call'[v].pollOnly = call[v].pollOnly
          /\ call'[v].progressed = (call[v].progressed \/ efd[g])
      BY <1>0, <1>11, DispatchGcCall
    <2>2. call[v].pc = "dispatch"
      BY <1>11 DEF DispatchGc, NextEvent, At
    <2>3. g \in call[v].waiting
      BY <1>11, GateIsRight DEF DispatchGc, Mine, DispatchesOnlyWaited, IInv
    <2> HIDE DEF g
    <2>4. efd[g] => SomeReady(v)'
      BY <2>1, <2>3 DEF SomeReady
    <2> QED BY <2>1, <2>2, <2>4, SomeKept DEF Earned
  <1> QED BY <1>1, <1>2, <1>3, <1>4, <1>5, <1>7, <1>8, <1>9, <1>10, <1>11, StepOf DEF InnerStep

ReportInv == \A w \in WaitSets : Due(w) /\ Earned(w)

(* Both invariants hold always, when only the call takes.                   *)
LEMMA ReportInductive == ASSUME ~ConcurrentTake PROVE Spec => [](IInv /\ ReportInv)
  <1>1. Init => ReportInv
    <2> SUFFICES ASSUME Init, NEW w \in WaitSets PROVE Due(w) /\ Earned(w)
      BY DEF ReportInv
    <2>1. /\ call[w].pc = "out" /\ call[w].due = {} /\ call[w].pollOnly = FALSE
          /\ call[w].progressed = FALSE
      BY DEF Init, NoCall
    <2> QED BY <2>1 DEF Due, Earned
  <1>2. IInv /\ ReportInv /\ [Next]_vars => ReportInv'
    BY NextDue, NextEarned DEF ReportInv
  <1> QED BY Inductive, <1>1, <1>2, PTL DEF Spec

(* A call to rmw_wait reports what was there when it began, watched by      *)
(* epoll or not, unless a full batch ended it; nobody else takes meanwhile. *)
THEOREM CallsReportWhatWasThere == ASSUME ~ConcurrentTake PROVE Spec => []NothingHeldBack
  <1>1. IInv /\ ReportInv => NothingHeldBack
    <2> SUFFICES ASSUME IInv, ReportInv, NEW w \in WaitSets, At(w, "output"), ~call[w].full,
                        NEW e \in call[w].due
                 PROVE  e \in Ready(w)
      BY DEF NothingHeldBack
    <2>1. e \in call[w].waiting /\ e \in Socks \cup Gcs
      BY DEF IInv, CallInv, Open, Entities
    <2>2. CASE e \in Socks
      BY <2>1, <2>2 DEF ReportInv, Due, At, Ready
    <2>3. CASE e \in Gcs /\ e \notin Socks
      BY <2>1, <2>3 DEF ReportInv, Due, Ready
    <2> QED BY <2>1, <2>2, <2>3
  <1> QED BY ReportInductive, <1>1, PTL

(* An untimed rmw_wait whose entities are all watched returns with          *)
(* something to take: filtered datagrams, stale descriptors and events of   *)
(* entities waited on earlier do not end it.                                *)
THEOREM UntimedWaitsEarnTheirReturn == ASSUME ~ConcurrentTake PROVE Spec => []NoIdleReturn
  <1>1. IInv /\ ReportInv => NoIdleReturn
    <2> SUFFICES ASSUME IInv, ReportInv, NEW w \in WaitSets, At(w, "output"), w \notin Timed,
                        call[w].unarmed = {}
                 PROVE  Ready(w) # {}
      BY DEF NoIdleReturn
    <2>1. PICK e \in call[w].waiting : (e \in Socks /\ queue[e] > 0) \/ e \in call[w].got
      BY DEF ReportInv, Earned, At, SomeReady
    <2>2. call[w].got \cap Socks = {}
      BY WaitSetAssumption DEF IInv, TypeOK, Calls
    <2>3. e \in Ready(w)
      BY <2>1, <2>2 DEF Ready
    <2> QED BY <2>3
  <1> QED BY ReportInductive, <1>1, PTL
=============================================================================
