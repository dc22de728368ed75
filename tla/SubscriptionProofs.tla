------------------------- MODULE SubscriptionProofs -------------------------
(***************************************************************************)
(* The receiving side of a subscription, for any number of threads and any *)
(* traffic: no prefix is delivered, nothing is stranded in the socket,     *)
(* messages are lost only by the rules and delivered once, and the         *)
(* listener hears of every message.                                        *)
(***************************************************************************)
EXTENDS Subscription, FiniteSetTheorems, SequenceTheorems, TLAPS

(* Datagrams leave the socket in the order of their ids: those up to        *)
(* Received are out of it, the others are in it.                            *)
Received == sent - Len(socket)

Entry == [msg : Nat, cut : BOOLEAN]

(* Types, as far as the proofs need them.                                   *)
TypesInv ==
  /\ kind \in Traffic /\ sent \in Nat /\ sent <= Len(kind)
  /\ socket \in Seq(Nat) /\ queue \in Seq(Entry)
  /\ pops \in Nat /\ taken \subseteq [nth : Nat, msg : Nat, cut : BOOLEAN]
  /\ lost \subseteq [msg : Nat, why : Reasons]
  /\ pc \in [Threads -> {"idle", "peek", "recv", "push", "notify", "pop", "end"}]
  /\ cur \in [Threads -> Nat] /\ grown \in [Threads -> BOOLEAN]
  /\ since \in [Threads -> Nat] /\ raced \in [Threads -> BOOLEAN]
  /\ cb \in BOOLEAN /\ sets \in 0 .. MaxSets
  /\ told \in Nat /\ silent \in Nat /\ popped \in Nat

(* The socket holds the last ids sent, in order.                            *)
SocketInv ==
  /\ Len(socket) <= sent
  /\ \A i \in 1 .. Len(socket) : socket[i] = Received + i

(* Drains that ended left nothing behind.                                   *)
SinceInv ==
  \A t \in Threads :
    /\ since[t] <= sent
    /\ pc[t] \in {"pop", "end"} => \A i \in 1 .. Len(socket) : socket[i] > since[t]

IInv == TypesInv /\ SocketInv /\ SinceInv

(* A sequence of datagrams has as many ids as its length says.              *)
LEMMA KindType == ASSUME kind \in Traffic PROVE kind \in Seq(Kinds) /\ Len(kind) \in Nat
  BY SubscriptionAssumption

(* The elements of a sequence, and its end from the element after k on.     *)
LEMMA SeqElement == ASSUME NEW S, NEW s \in Seq(S), NEW i \in 1 .. Len(s) PROVE s[i] \in S
  OBVIOUS

(* The rest of a sequence after its first k elements.                       *)
LEMMA SeqRest ==
  ASSUME NEW S, NEW s \in Seq(S), NEW k \in 0 .. Len(s)
  PROVE  /\ SubSeq(s, k + 1, Len(s)) \in Seq(S)
         /\ Len(SubSeq(s, k + 1, Len(s))) = Len(s) - k
         /\ \A i \in 1 .. Len(s) - k : SubSeq(s, k + 1, Len(s))[i] = s[k + i]
  <1>1. Len(s) \in Nat /\ k + 1 \in 1 .. Len(s) + 1 /\ Len(s) \in (k + 1) - 1 .. Len(s)
    OBVIOUS
  <1> DEFINE r == SubSeq(s, k + 1, Len(s))
  <1>2. /\ r \in Seq(S)
        /\ Len(r) = IF k + 1 <= Len(s) THEN Len(s) - (k + 1) + 1 ELSE 0
        /\ \A i \in 1 .. Len(s) - (k + 1) + 1 : r[i] = s[k + 1 + i - 1]
    BY <1>1, SubSeqProperties
  <1> HIDE DEF r
  <1>3. Len(r) = Len(s) - k
    BY <1>1, <1>2
  <1>4. ASSUME NEW i \in 1 .. Len(s) - k PROVE r[i] = s[k + i]
    <2>1. i \in 1 .. Len(s) - (k + 1) + 1 /\ k + 1 + i - 1 = k + i
      BY <1>1
    <2> QED BY <1>2, <2>1
  <1> QED BY <1>2, <1>3, <1>4 DEF r

(* Before the first datagram.                                               *)
LEMMA InitIInv == Init => IInv
  <1> SUFFICES ASSUME Init PROVE IInv
    OBVIOUS
  <1>1. TypesInv
    <2>1. kind \in Traffic /\ sent = 0 /\ sent \in Nat /\ sent <= Len(kind)
      BY KindType DEF Init
    <2>2. /\ socket \in Seq(Nat) /\ queue \in Seq(Entry) /\ pops \in Nat
          /\ taken \subseteq [nth : Nat, msg : Nat, cut : BOOLEAN]
          /\ lost \subseteq [msg : Nat, why : Reasons]
      BY DEF Init
    <2>3. /\ pc \in [Threads -> {"idle", "peek", "recv", "push", "notify", "pop", "end"}]
          /\ cur \in [Threads -> Nat] /\ since \in [Threads -> Nat]
      BY DEF Init, NoMsg
    <2>4. grown \in [Threads -> BOOLEAN] /\ raced \in [Threads -> BOOLEAN]
      BY DEF Init
    <2>5. cb \in BOOLEAN /\ told \in Nat /\ silent \in Nat /\ popped \in Nat
      BY DEF Init
    <2>6. sets \in 0 .. MaxSets
      <3>1. MaxSets \in Nat /\ sets = 0
        BY SubscriptionAssumption DEF Init
      <3> QED BY <3>1
    <2> QED BY <2>1, <2>2, <2>3, <2>4, <2>5, <2>6 DEF TypesInv
  <1>2. SocketInv /\ SinceInv
    BY DEF Init, SocketInv, SinceInv
  <1> QED BY <1>1, <1>2 DEF IInv

(* What is queued is typed.                                                 *)
LEMMA QueueElement ==
  ASSUME TypesInv
  PROVE  /\ queue \in Seq(Entry) /\ Len(queue) \in Nat
         /\ \A i \in 1 .. Len(queue) :
              queue[i] \in Entry /\ queue[i].msg \in Nat /\ queue[i].cut \in BOOLEAN
  <1>1. queue \in Seq(Entry) /\ Len(queue) \in Nat
    BY DEF TypesInv
  <1>2. \A i \in 1 .. Len(queue) : queue[i] \in Entry
    BY <1>1, SeqElement
  <1>3. \A e \in Entry : e.msg \in Nat /\ e.cut \in BOOLEAN
    BY DEF Entry
  <1> QED BY <1>1, <1>2, <1>3

(* The head of the socket is received.                                      *)
LEMMA DequeueSocket ==
  ASSUME TypesInv, SocketInv, NEW t \in Threads, Dequeue(t)
  PROVE  /\ socket' \in Seq(Nat) /\ Len(socket') = Len(socket) - 1 /\ Len(socket) \in Nat
         /\ Len(socket) > 0
         /\ \A i \in 1 .. Len(socket') : socket'[i] = socket[i + 1]
         /\ Head(socket) = Received + 1 /\ Head(socket) \in Nat
         /\ raced' \in [Threads -> BOOLEAN]
  <1>1. socket \in Seq(Nat) /\ socket # <<>> /\ socket' = Tail(socket)
    BY DEF Dequeue, TypesInv
  <1>2. /\ socket' \in Seq(Nat) /\ Len(socket') = Len(socket) - 1 /\ Len(socket) \in Nat
        /\ Len(socket) > 0 /\ \A i \in 1 .. Len(socket') : socket'[i] = socket[i + 1]
    BY <1>1
  <1>3. Head(socket) = Received + 1 /\ Head(socket) \in Nat
    BY <1>1, <1>2 DEF SocketInv, TypesInv, Received
  <1>4. raced' \in [Threads -> BOOLEAN]
    BY DEF Dequeue, TypesInv
  <1> QED BY <1>2, <1>3, <1>4

(* What a push does to the queue: it grows, or its oldest message goes.     *)
Pushed(t) == [msg |-> cur[t], cut |-> Cut(t, cur[t])]

(* A push adds its message at the end, and drops the oldest of a full       *)
(* queue.                                                                   *)
LEMMA PushQueue ==
  ASSUME TypesInv, NEW t \in Threads, Push(t)
  PROVE  /\ queue' \in Seq(Entry) /\ Len(queue) \in Nat
         /\ Len(queue') <= Len(queue) + 1
         /\ \/ /\ lost' = lost /\ Len(queue') = Len(queue) + 1
               /\ \A i \in 1 .. Len(queue) : queue'[i] = queue[i]
               /\ queue'[Len(queue) + 1] = Pushed(t)
            \/ /\ Len(queue') = Len(queue) /\ Len(queue) > 0
               /\ lost' = lost \cup {[msg |-> queue[1].msg, why |-> "depth"]}
               /\ \A i \in 1 .. Len(queue) - 1 : queue'[i] = queue[i + 1]
               /\ queue'[Len(queue)] = Pushed(t)
  <1> DEFINE q == Append(queue, Pushed(t))
  <1>1. /\ queue' = Trim(q)
        /\ lost' = lost \cup {[msg |-> q[i].msg, why |-> "depth"] : i \in 1 .. Len(q) - Len(Trim(q))}
    BY DEF Push, Pushed
  <1>2. Pushed(t) \in Entry
    BY DEF Pushed, Cut, TypesInv, Entry
  <1>3. /\ q \in Seq(Entry) /\ Len(q) = Len(queue) + 1 /\ Len(queue) \in Nat
        /\ \A i \in 1 .. Len(queue) : q[i] = queue[i]
        /\ q[Len(queue) + 1] = Pushed(t)
    BY <1>2 DEF TypesInv
  <1> HIDE DEF q
  <1>4. CASE Len(q) > Depth
    <2>1. Trim(q) = Tail(q) /\ q # <<>>
      BY <1>3, <1>4, SubscriptionAssumption DEF Trim
    <2>2. /\ Tail(q) \in Seq(Entry) /\ Len(Tail(q)) = Len(queue)
          /\ \A i \in 1 .. Len(queue) : Tail(q)[i] = q[i + 1]
      BY <1>3, <2>1
    <2>3. Len(queue) > 0
      BY <1>3, <1>4, SubscriptionAssumption
    <2>4. lost' = lost \cup {[msg |-> q[1].msg, why |-> "depth"]}
      <3>1. 1 .. Len(q) - Len(Trim(q)) = {1}
        BY <1>3, <2>1, <2>2
      <3> QED BY <1>1, <3>1
    <2>5. q[1] = queue[1] /\ \A i \in 1 .. Len(queue) - 1 : q[i + 1] = queue[i + 1]
      BY <1>3, <2>3
    <2> QED BY <1>1, <1>3, <2>1, <2>2, <2>3, <2>4, <2>5
  <1>5. CASE ~(Len(q) > Depth)
    <2>1. Trim(q) = q
      BY <1>5 DEF Trim
    <2>2. 1 .. Len(q) - Len(Trim(q)) = {}
      BY <1>3, <2>1
    <2> QED BY <1>1, <1>3, <2>1, <2>2
  <1> QED BY <1>4, <1>5
(* What a take does: the oldest k messages go, the good ones to the caller. *)
PopCount(n) == IF n < Len(queue) THEN n ELSE Len(queue)

(* A pop takes messages from the front.                                     *)
LEMMA PopQueue ==
  ASSUME TypesInv, NEW t \in Threads, NEW n \in Nat, Pop(t, n)
  PROVE  /\ PopCount(n) \in 0 .. Len(queue) /\ Len(queue) \in Nat
         /\ queue' \in Seq(Entry)
         /\ Len(queue') = Len(queue) - PopCount(n)
         /\ \A i \in 1 .. Len(queue') : queue'[i] = queue[PopCount(n) + i]
  <1> DEFINE k == PopCount(n)
  <1>1. k \in 0 .. Len(queue) /\ Len(queue) \in Nat
    BY DEF PopCount, TypesInv
  <1>2. queue' = SubSeq(queue, k + 1, Len(queue))
    BY DEF Pop, PopCount
  <1> HIDE DEF k
  <1>3. /\ SubSeq(queue, k + 1, Len(queue)) \in Seq(Entry)
        /\ Len(SubSeq(queue, k + 1, Len(queue))) = Len(queue) - k
        /\ \A i \in 1 .. Len(queue) - k : SubSeq(queue, k + 1, Len(queue))[i] = queue[k + i]
    <2>1. queue \in Seq(Entry)
      BY DEF TypesInv
    <2> QED BY <1>1, <2>1, SeqRest
  <1> QED BY <1>1, <1>2, <1>3 DEF k

(* The types are kept.                                                      *)
LEMMA NextTypes == ASSUME TypesInv, SocketInv, [Next]_vars PROVE TypesInv'
  <1>0. kind \in Seq(Kinds) /\ Len(kind) \in Nat
    BY KindType DEF TypesInv
  <1> USE DEF dataVars, listener
  <1>1. CASE Send
    BY <1>0, <1>1 DEF Send, TypesInv
  <1>2. ASSUME NEW t \in Threads, Call(t) PROVE TypesInv'
    BY <1>2 DEF Call, At, TypesInv
  <1>3. ASSUME NEW t \in Threads, Peek(t) PROVE TypesInv'
    <2>1. /\ pc' \in [Threads -> {"idle", "peek", "recv", "push", "notify", "pop", "end"}]
      BY <1>3 DEF Peek, At, Drained, TypesInv
    <2>2. grown' \in [Threads -> BOOLEAN] /\ raced' \in [Threads -> BOOLEAN]
      BY <1>3 DEF Peek, TypesInv
    <2> QED BY <1>3, <2>1, <2>2 DEF Peek, TypesInv
  <1>4. ASSUME NEW t \in Threads, RecvNothing(t) PROVE TypesInv'
    <2>1. /\ pc' \in [Threads -> {"idle", "peek", "recv", "push", "notify", "pop", "end"}]
      BY <1>4 DEF RecvNothing, At, Drained, TypesInv
    <2>2. raced' \in [Threads -> BOOLEAN]
      BY <1>4 DEF RecvNothing, TypesInv
    <2> QED BY <1>4, <2>1, <2>2 DEF RecvNothing, TypesInv
  <1>5. ASSUME NEW t \in Threads, RecvDrops(t) PROVE TypesInv'
    <2>1. /\ socket' \in Seq(Nat) /\ raced' \in [Threads -> BOOLEAN] /\ Head(socket) \in Nat
      BY <1>5, DequeueSocket DEF RecvDrops
    <2>2. lost' \subseteq [msg : Nat, why : Reasons]
      BY <1>5, <2>1 DEF RecvDrops, Loses, TypesInv, Reasons
    <2>3. /\ pc' \in [Threads -> {"idle", "peek", "recv", "push", "notify", "pop", "end"}]
      BY <1>5 DEF RecvDrops, At, TypesInv
    <2> QED BY <1>5, <2>1, <2>2, <2>3 DEF RecvDrops, TypesInv
  <1>6. ASSUME NEW t \in Threads, RecvKeeps(t) PROVE TypesInv'
    <2>1. /\ socket' \in Seq(Nat) /\ raced' \in [Threads -> BOOLEAN] /\ Head(socket) \in Nat
      BY <1>6, DequeueSocket DEF RecvKeeps
    <2>2. cur' \in [Threads -> Nat]
      BY <1>6, <2>1 DEF RecvKeeps, TypesInv
    <2>3. /\ pc' \in [Threads -> {"idle", "peek", "recv", "push", "notify", "pop", "end"}]
      BY <1>6 DEF RecvKeeps, At, TypesInv
    <2> QED BY <1>6, <2>1, <2>2, <2>3 DEF RecvKeeps, TypesInv
  <1>7. ASSUME NEW t \in Threads, Push(t) PROVE TypesInv'
    <2>1. queue' \in Seq(Entry)
      BY <1>7, PushQueue
    <2>2. lost' \subseteq [msg : Nat, why : Reasons]
      <3>1. \/ lost' = lost
            \/ Len(queue) > 0 /\ lost' = lost \cup {[msg |-> queue[1].msg, why |-> "depth"]}
        BY <1>7, PushQueue
      <3>2. Len(queue) > 0 => queue[1].msg \in Nat
        BY QueueElement
      <3> QED BY <3>1, <3>2 DEF TypesInv, Reasons
    <2>3. /\ pc' \in [Threads -> {"idle", "peek", "recv", "push", "notify", "pop", "end"}]
      BY <1>7 DEF Push, At, TypesInv
    <2>4. cur' \in [Threads -> Nat] /\ silent' \in Nat
      BY <1>7 DEF Push, TypesInv, NoMsg
    <2> QED BY <1>7, <2>1, <2>2, <2>3, <2>4 DEF Push, TypesInv
  <1>8. ASSUME NEW t \in Threads, Notify(t) PROVE TypesInv'
    BY <1>8 DEF Notify, At, TypesInv
  <1>9. ASSUME NEW t \in Threads, Return(t) PROVE TypesInv'
    BY <1>9 DEF Return, At, TypesInv
  <1>10. ASSUME NEW t \in Threads, NEW n \in 1 .. MaxTake, Pop(t, n) PROVE TypesInv'
    <2> DEFINE k == PopCount(n)
               good == {i \in 1 .. k : kind[queue[i].msg] # "corrupt"}
    <2>1. k \in 0 .. Len(queue) /\ Len(queue) \in Nat /\ queue' \in Seq(Entry)
      BY <1>10, PopQueue, SubscriptionAssumption
    <2>2. /\ taken' = taken \cup
                {[nth |-> pops + i, msg |-> queue[i].msg, cut |-> queue[i].cut] : i \in good}
          /\ lost' = lost \cup {[msg |-> queue[i].msg, why |-> "corrupt"] : i \in (1 .. k) \ good}
          /\ pops' = pops + k /\ popped' = IF cb THEN popped + k ELSE popped
      BY <1>10 DEF Pop, PopCount
    <2>3. good \subseteq 1 .. k
      OBVIOUS
    <2> HIDE DEF k, good
    <2>4. \A i \in 1 .. k : queue[i].msg \in Nat /\ queue[i].cut \in BOOLEAN /\ i \in Nat
      <3>1. \A i \in 1 .. k : i \in 1 .. Len(queue) /\ i \in Nat
        BY <2>1
      <3> QED BY <3>1, QueueElement
    <2>5. taken' \subseteq [nth : Nat, msg : Nat, cut : BOOLEAN]
      <3>1. \A i \in good : pops + i \in Nat /\ queue[i].msg \in Nat /\ queue[i].cut \in BOOLEAN
        <4>1. \A i \in good : i \in Nat /\ queue[i].msg \in Nat /\ queue[i].cut \in BOOLEAN
          BY <2>3, <2>4
        <4>2. \A i \in Nat : pops + i \in Nat
          BY DEF TypesInv
        <4> QED BY <4>1, <4>2
      <3>2. \A i \in good : [nth |-> pops + i, msg |-> queue[i].msg, cut |-> queue[i].cut]
                              \in [nth : Nat, msg : Nat, cut : BOOLEAN]
        BY <3>1, Zenon
      <3>3. taken \subseteq [nth : Nat, msg : Nat, cut : BOOLEAN]
        BY DEF TypesInv
      <3> QED BY <2>2, <3>2, <3>3, Zenon
    <2>6. lost' \subseteq [msg : Nat, why : Reasons]
      BY <2>2, <2>4 DEF TypesInv, Reasons
    <2>7. pops' \in Nat /\ popped' \in Nat
      BY <2>1, <2>2 DEF TypesInv
    <2>8. /\ pc' \in [Threads -> {"idle", "peek", "recv", "push", "notify", "pop", "end"}]
          /\ since' \in [Threads -> Nat]
      BY <1>10 DEF Pop, At, TypesInv
    <2> QED BY <1>10, <2>1, <2>5, <2>6, <2>7, <2>8 DEF Pop, TypesInv
  <1>11. ASSUME NEW on \in BOOLEAN, SetCallback(on) PROVE TypesInv'
    <2>1. sets' \in 0 .. MaxSets /\ cb' \in BOOLEAN
      BY <1>11, SubscriptionAssumption DEF SetCallback, TypesInv
    <2>2. told' \in Nat /\ silent' \in Nat /\ popped' \in Nat
      BY <1>11 DEF SetCallback, TypesInv
    <2> QED BY <1>11, <2>1, <2>2 DEF SetCallback, TypesInv
  <1>12. CASE UNCHANGED vars
    BY <1>12 DEF vars, TypesInv
  <1> QED BY <1>1, <1>2, <1>3, <1>4, <1>5, <1>6, <1>7, <1>8, <1>9, <1>10, <1>11, <1>12
         DEF Next, Step

(* Ids leave the socket in the order they entered it, one at a time.        *)
LEMMA NextSocket == ASSUME TypesInv, SocketInv, [Next]_vars PROVE SocketInv'
  <1> USE DEF dataVars, listener
  <1>0. socket \in Seq(Nat) /\ Len(socket) \in Nat /\ sent \in Nat
    BY DEF TypesInv
  <1>1. CASE Send
    <2>1. /\ sent' = sent + 1 /\ Len(socket') = Len(socket) + 1
          /\ \A i \in 1 .. Len(socket) : socket'[i] = socket[i]
          /\ socket'[Len(socket) + 1] = sent + 1
      BY <1>0, <1>1 DEF Send
    <2>2. \A i \in 1 .. Len(socket) : socket[i] = Received + i
      BY DEF SocketInv
    <2>3. Received' = Received /\ Received + Len(socket) = sent
      BY <1>0, <2>1 DEF Received
    <2>4. Len(socket') <= sent'
      BY <1>0, <2>1 DEF SocketInv
    <2>5. \A i \in 1 .. Len(socket') : i \in 1 .. Len(socket) \/ i = Len(socket) + 1
      BY <1>0, <2>1
    <2>6. ASSUME NEW i \in 1 .. Len(socket') PROVE socket'[i] = Received + i
      <3>1. CASE i \in 1 .. Len(socket)
        BY <2>1, <2>2, <3>1
      <3>2. CASE i = Len(socket) + 1
        BY <1>0, <2>1, <3>2 DEF Received
      <3> QED BY <2>5, <2>6, <3>1, <3>2
    <2> QED BY <2>3, <2>4, <2>6, Zenon DEF SocketInv
  <1>2. ASSUME NEW t \in Threads, Dequeue(t), sent' = sent PROVE SocketInv'
    <2>1. /\ Len(socket') = Len(socket) - 1 /\ Len(socket) > 0
          /\ \A i \in 1 .. Len(socket') : socket'[i] = socket[i + 1]
      BY <1>2, DequeueSocket
    <2> QED BY <1>0, <1>2, <2>1 DEF SocketInv, Received
  <1>3. ASSUME UNCHANGED <<sent, socket>> PROVE SocketInv'
    BY <1>3 DEF SocketInv, Received
  <1>4. ASSUME NEW t \in Threads, RecvDrops(t) \/ RecvKeeps(t) PROVE SocketInv'
    BY <1>2, <1>4 DEF RecvDrops, RecvKeeps
  <1>5. ASSUME NEW t \in Threads,
               \/ Call(t) \/ Peek(t) \/ RecvNothing(t) \/ Push(t) \/ Notify(t) \/ Return(t)
               \/ \E n \in 1 .. MaxTake : Pop(t, n)
        PROVE  SocketInv'
    BY <1>3, <1>5 DEF Call, Peek, RecvNothing, Push, Notify, Return, Pop
  <1>6. ASSUME NEW on \in BOOLEAN, SetCallback(on) PROVE SocketInv'
    BY <1>3, <1>6 DEF SetCallback
  <1>7. CASE UNCHANGED vars
    BY <1>3, <1>7 DEF vars
  <1> QED BY <1>1, <1>4, <1>5, <1>6, <1>7 DEF Next, Step

(* A drain ends at an empty socket, and what is sent later is newer.        *)
LEMMA NextSince == ASSUME TypesInv, SocketInv, SinceInv, [Next]_vars PROVE SinceInv'
  <1> USE DEF dataVars, listener
  <1>0. /\ socket \in Seq(Nat) /\ Len(socket) \in Nat /\ sent \in Nat
        /\ since \in [Threads -> Nat] /\ DOMAIN pc = Threads
    BY DEF TypesInv
  <1>1. CASE Send
    <2>1. /\ sent' = sent + 1 /\ Len(socket') = Len(socket) + 1 /\ since' = since /\ pc' = pc
          /\ \A i \in 1 .. Len(socket) : socket'[i] = socket[i]
          /\ socket'[Len(socket) + 1] = sent + 1
      BY <1>0, <1>1 DEF Send
    <2>2. \A t \in Threads : since[t] \in Nat /\ since[t] <= sent
      BY <1>0 DEF SinceInv
    <2> QED BY <1>0, <2>1, <2>2 DEF SinceInv
  <1>2. ASSUME NEW t \in Threads, RecvDrops(t) \/ RecvKeeps(t) PROVE SinceInv'
    <2>1. /\ Len(socket') = Len(socket) - 1 /\ Len(socket) > 0
          /\ \A i \in 1 .. Len(socket') : socket'[i] = socket[i + 1]
      BY <1>2, DequeueSocket DEF RecvDrops, RecvKeeps
    <2>2. /\ sent' = sent /\ since' = since
          /\ \A u \in Threads : pc'[u] \in {"pop", "end"} => pc[u] \in {"pop", "end"}
      BY <1>0, <1>2 DEF RecvDrops, RecvKeeps, At
    <2> SUFFICES ASSUME NEW u \in Threads
                 PROVE  /\ since[u] <= sent
                        /\ pc[u] \in {"pop", "end"} =>
                             \A i \in 1 .. Len(socket') : socket'[i] > since[u]
      BY <2>2 DEF SinceInv
    <2>3. \A i \in 1 .. Len(socket') : i + 1 \in 1 .. Len(socket)
      BY <1>0, <2>1
    <2> QED BY <2>1, <2>3 DEF SinceInv
  <1>3. ASSUME NEW t \in Threads, Peek(t) \/ RecvNothing(t) PROVE SinceInv'
    <2>1. CASE socket = <<>>
      <3>1. Len(socket') = 0 /\ sent' = sent /\ since' = since
        BY <1>3, <2>1 DEF Peek, RecvNothing
      <3> QED BY <1>0, <3>1 DEF SinceInv
    <2>2. CASE socket # <<>>
      <3>1. /\ socket' = socket /\ sent' = sent /\ since' = since
            /\ \A u \in Threads : pc'[u] \in {"pop", "end"} => pc[u] \in {"pop", "end"}
        BY <1>0, <1>3, <2>2 DEF Peek, RecvNothing, At
      <3> QED BY <3>1 DEF SinceInv
    <2> QED BY <2>1, <2>2
  <1>4. ASSUME NEW t \in Threads, Call(t) PROVE SinceInv'
    <2>1. /\ socket' = socket /\ sent' = sent /\ since' = [since EXCEPT ![t] = sent]
          /\ \A u \in Threads : pc'[u] \in {"pop", "end"} => pc[u] \in {"pop", "end"} /\ u # t
      BY <1>0, <1>4 DEF Call, At
    <2> QED BY <1>0, <2>1 DEF SinceInv
  <1>5. ASSUME NEW t \in Threads, Return(t) \/ \E n \in 1 .. MaxTake : Pop(t, n) PROVE SinceInv'
    <2>1. /\ socket' = socket /\ sent' = sent /\ since' = [since EXCEPT ![t] = 0]
          /\ \A u \in Threads : pc'[u] \in {"pop", "end"} => pc[u] \in {"pop", "end"} /\ u # t
      BY <1>0, <1>5 DEF Return, Pop, At
    <2> QED BY <1>0, <2>1 DEF SinceInv
  <1>6. ASSUME NEW t \in Threads, Push(t) \/ Notify(t) PROVE SinceInv'
    <2>1. /\ socket' = socket /\ sent' = sent /\ since' = since
          /\ \A u \in Threads : pc'[u] \in {"pop", "end"} => pc[u] \in {"pop", "end"}
      BY <1>0, <1>6 DEF Push, Notify, At
    <2> QED BY <2>1 DEF SinceInv
  <1>7. ASSUME UNCHANGED <<sent, socket, since, pc>> PROVE SinceInv'
    BY <1>7 DEF SinceInv
  <1>8. ASSUME NEW on \in BOOLEAN, SetCallback(on) PROVE SinceInv'
    BY <1>7, <1>8 DEF SetCallback
  <1>9. CASE UNCHANGED vars
    BY <1>7, <1>9 DEF vars
  <1> QED BY <1>1, <1>2, <1>3, <1>4, <1>5, <1>6, <1>8, <1>9 DEF Next, Step

(* The inductive invariant of the drains.                                   *)
LEMMA DrainsInvariant == Spec => []IInv
  <1>1. IInv /\ [Next]_vars => IInv'
    BY NextTypes, NextSocket, NextSince DEF IInv
  <1> QED BY InitIInv, <1>1, PTL DEF Spec

(* rmw_take and rmw_wait leave nothing in the socket that was there when    *)
(* their drain began, whatever the traffic and however many threads drain.  *)
THEOREM NothingIsStranded == Spec => []NothingStranded
  <1>1. IInv => NothingStranded
    <2> SUFFICES ASSUME IInv, NEW t \in Threads, pc[t] \in {"pop", "end"},
                        NEW m \in ToSet(socket)
                 PROVE  m > since[t]
      BY DEF NothingStranded
    <2>1. socket \in Seq(Nat)
      BY DEF IInv, TypesInv
    <2>2. PICK i \in 1 .. Len(socket) : m = socket[i]
      BY <2>1 DEF ToSet
    <2> QED BY <2>2 DEF IInv, SinceInv
  <1> QED BY DrainsInvariant, <1>1, PTL

-----------------------------------------------------------------------------
(* The listener.                                                            *)

Notifying == {t \in Threads : pc[t] = "notify"}

(* How the number of pushed messages about to be announced changes.         *)
LEMMA UntoldFinite == IsFiniteSet(Notifying) /\ Untold \in Nat
  <1>1. IsFiniteSet(Threads) /\ Notifying \subseteq Threads
    BY SubscriptionAssumption DEF Notifying
  <1>2. IsFiniteSet(Notifying)
    BY <1>1, FS_Subset
  <1> QED BY <1>2, FS_CardinalityType DEF Untold, Notifying

(* One more message queued, and one more thread about to tell or one more   *)
(* silent message, keep the count.                                          *)
LEMMA OneMore ==
  ASSUME NEW a \in Nat, NEW b \in Nat, NEW c \in Nat, NEW d \in Nat, NEW m \in Nat,
         NEW n \in Nat, n <= m + 1, a + b + c >= d + m
  PROVE  a + (b + 1) + c >= d + n /\ a + b + (c + 1) >= d + n
  OBVIOUS

(* ListenerKeepsUp is inductive given the types.                            *)
LEMMA ListenerStep ==
  ASSUME TypesInv, SocketInv, ListenerKeepsUp, [Next]_vars PROVE ListenerKeepsUp'
  <1> USE DEF dataVars, listener
  <1>0. /\ Len(queue) \in Nat /\ told \in Nat /\ silent \in Nat /\ popped \in Nat
        /\ cb \in BOOLEAN /\ Untold \in Nat /\ IsFiniteSet(Notifying) /\ DOMAIN pc = Threads
        /\ Untold = Cardinality(Notifying)
    BY QueueElement, UntoldFinite DEF TypesInv, Untold, Notifying
  <1>1. ASSUME UNCHANGED <<queue, cb, told, silent, popped>>, Notifying' = Notifying
        PROVE  ListenerKeepsUp'
    <2>1. Untold' = Untold
      BY <1>1 DEF Untold, Notifying
    <2> QED BY <1>1, <2>1 DEF ListenerKeepsUp
  <1>2. CASE Send
    BY <1>1, <1>2 DEF Send, Notifying
  <1>3. ASSUME NEW t \in Threads,
               Call(t) \/ Peek(t) \/ RecvNothing(t) \/ RecvDrops(t) \/ RecvKeeps(t) \/ Return(t)
        PROVE  ListenerKeepsUp'
    <2>1. \A u \in Threads : (pc'[u] = "notify") <=> (pc[u] = "notify")
      BY <1>0, <1>3 DEF Call, Peek, RecvNothing, RecvDrops, RecvKeeps, Return, At, Drained
    <2>2. Notifying' = Notifying
      BY <2>1 DEF Notifying
    <2>3. UNCHANGED <<queue, cb, told, silent, popped>>
      BY <1>3 DEF Call, Peek, RecvNothing, RecvDrops, RecvKeeps, Return
    <2> QED BY <1>1, <2>2, <2>3
  <1>4. ASSUME NEW t \in Threads, Push(t) PROVE ListenerKeepsUp'
    <2>1. Len(queue') \in Nat /\ Len(queue') <= Len(queue) + 1
      <3>1. queue' \in Seq(Entry) /\ Len(queue') <= Len(queue) + 1
        BY <1>4, PushQueue
      <3> QED BY <3>1
    <2>2. cb' = cb /\ told' = told /\ popped' = popped
      BY <1>4 DEF Push
    <2>3. CASE t \in Takers
      <3>1. t \notin Notifying /\ Notifying' = Notifying \cup {t}
        BY <1>0, <1>4, <2>3 DEF Push, At, Notifying
      <3>2. Untold' = Untold + 1
        BY <1>0, <3>1, FS_AddElement DEF Untold, Notifying
      <3>3. silent' = silent
        BY <1>4, <2>3, SubscriptionAssumption DEF Push
      <3>4. cb => told + Untold + silent >= popped + Len(queue)
        BY DEF ListenerKeepsUp
      <3>5. cb => told' + Untold' + silent' >= popped' + Len(queue')
        <4> SUFFICES ASSUME cb PROVE told' + Untold' + silent' >= popped' + Len(queue')
          OBVIOUS
        <4>1. told + Untold + silent >= popped + Len(queue)
          BY <3>4
        <4>2. told \in Nat /\ Untold \in Nat /\ silent \in Nat /\ popped \in Nat /\ Len(queue) \in Nat
          BY <1>0
        <4>3. told + (Untold + 1) + silent >= popped + Len(queue')
          BY <2>1, <4>1, <4>2, OneMore
        <4> QED BY <2>2, <3>2, <3>3, <4>3, Zenon
      <3> QED BY <2>2, <3>5, Zenon DEF ListenerKeepsUp
    <2>4. CASE t \notin Takers
      <3>1. Notifying' = Notifying
        BY <1>0, <1>4, <2>4 DEF Push, At, Notifying
      <3>2. Untold' = Untold
        BY <3>1 DEF Untold, Notifying
      <3>3. silent' = IF cb THEN silent + 1 ELSE silent
        BY <1>4, <2>4 DEF Push, Threads
      <3>4. cb => told' + Untold' + silent' >= popped' + Len(queue')
        <4> SUFFICES ASSUME cb PROVE told' + Untold' + silent' >= popped' + Len(queue')
          OBVIOUS
        <4>1. told + Untold + silent >= popped + Len(queue)
          BY DEF ListenerKeepsUp
        <4>2. told \in Nat /\ Untold \in Nat /\ silent \in Nat /\ popped \in Nat /\ Len(queue) \in Nat
          BY <1>0
        <4>3. told + Untold + (silent + 1) >= popped + Len(queue')
          BY <2>1, <4>1, <4>2, OneMore
        <4>4. silent' = silent + 1
          BY <3>3
        <4> QED BY <2>2, <3>2, <4>3, <4>4, Zenon
      <3> QED BY <2>2, <3>4, Zenon DEF ListenerKeepsUp
    <2> QED BY <2>3, <2>4
  <1>5. ASSUME NEW t \in Threads, Notify(t) PROVE ListenerKeepsUp'
    <2>1. t \in Notifying /\ Notifying' = Notifying \ {t}
      BY <1>0, <1>5 DEF Notify, At, Notifying
    <2>2. Untold' = Untold - 1
      <3>1. Cardinality(Notifying \ {t}) = Cardinality(Notifying) - 1
        BY <1>0, <2>1, FS_RemoveElement
      <3>2. Untold' = Cardinality(Notifying')
        BY DEF Untold, Notifying
      <3> QED BY <1>0, <2>1, <3>1, <3>2
    <2>3. /\ UNCHANGED <<queue, cb, silent, popped>>
          /\ told' = IF cb THEN told + 1 ELSE told
      BY <1>5 DEF Notify
    <2> QED BY <1>0, <2>2, <2>3 DEF ListenerKeepsUp
  <1>6. ASSUME NEW t \in Threads, NEW n \in 1 .. MaxTake, Pop(t, n) PROVE ListenerKeepsUp'
    <2>1. /\ PopCount(n) \in 0 .. Len(queue) /\ Len(queue') = Len(queue) - PopCount(n)
      BY <1>6, PopQueue, SubscriptionAssumption
    <2>2. Notifying' = Notifying
      BY <1>0, <1>6 DEF Pop, At, Notifying
    <2>3. Untold' = Untold
      BY <2>2 DEF Untold, Notifying
    <2>4. /\ UNCHANGED <<cb, silent, told>>
          /\ popped' = IF cb THEN popped + PopCount(n) ELSE popped
      BY <1>6 DEF Pop, PopCount
    <2> QED BY <1>0, <2>1, <2>3, <2>4 DEF ListenerKeepsUp
  <1>7. ASSUME NEW on \in BOOLEAN, SetCallback(on) PROVE ListenerKeepsUp'
    <2>1. /\ cb' = on /\ told' = (IF on THEN Len(queue) ELSE 0) /\ silent' = 0 /\ popped' = 0
          /\ queue' = queue /\ Notifying' = Notifying
      BY <1>7 DEF SetCallback, Notifying
    <2>2. Untold' = Untold
      BY <2>1 DEF Untold, Notifying
    <2> QED BY <1>0, <2>1, <2>2 DEF ListenerKeepsUp
  <1>8. CASE UNCHANGED vars
    BY <1>1, <1>8 DEF vars, Notifying
  <1> QED BY <1>2, <1>3, <1>4, <1>5, <1>6, <1>7, <1>8 DEF Next, Step

(* Every message that can be popped has been announced to the listener set  *)
(* by rmw_subscription_set_on_new_message_callback, or is about to be, save *)
(* those that rmw_wait drained.                                             *)
THEOREM ListenerHearsOfAll == Spec => []ListenerKeepsUp
  <1>1. Init => ListenerKeepsUp
    BY DEF Init, ListenerKeepsUp
  <1>2. IInv /\ ListenerKeepsUp /\ [Next]_vars => ListenerKeepsUp'
    BY ListenerStep DEF IInv
  <1> QED BY DrainsInvariant, <1>1, <1>2, PTL DEF Spec

-----------------------------------------------------------------------------
(* Prefixes.                                                                *)

(* What is about to be pushed, what is queued and what was delivered is     *)
(* whole.                                                                   *)
WholeInv ==
  /\ \A t \in Threads : pc[t] = "push" => ~Cut(t, cur[t])
  /\ \A i \in 1 .. Len(queue) : ~queue[i].cut
  /\ NoPrefixDelivered

(* WholeInv is inductive.                                                   *)
LEMMA WholeStep == ASSUME TypesInv, SocketInv, WholeInv, [Next]_vars PROVE WholeInv'
  <1> USE DEF dataVars, listener
  <1>0. /\ DOMAIN pc = Threads /\ DOMAIN cur = Threads /\ DOMAIN grown = Threads
        /\ Len(queue) \in Nat
    BY QueueElement DEF TypesInv
  <1>1. ASSUME UNCHANGED <<kind, queue, taken>>,
               \A t \in Threads : pc'[t] = "push" => pc[t] = "push" /\ UNCHANGED <<cur[t], grown[t]>>
        PROVE  WholeInv'
    BY <1>1 DEF WholeInv, Cut, NoPrefixDelivered
  <1>2. CASE Send
    BY <1>1, <1>2 DEF Send
  <1>3. ASSUME NEW t \in Threads,
               Call(t) \/ RecvNothing(t) \/ RecvDrops(t) \/ Notify(t) \/ Return(t)
        PROVE  WholeInv'
    <2>1. \A u \in Threads : pc'[u] = "push" => pc[u] = "push" /\ UNCHANGED <<cur[u], grown[u]>>
      BY <1>0, <1>3 DEF Call, RecvNothing, RecvDrops, Notify, Return, At, Drained
    <2> QED BY <1>1, <1>3, <2>1 DEF Call, RecvNothing, RecvDrops, Notify, Return
  <1>4. ASSUME NEW t \in Threads, Peek(t) PROVE WholeInv'
    <2>1. \A u \in Threads : pc'[u] = "push" => pc[u] = "push" /\ UNCHANGED <<cur[u], grown[u]>>
      BY <1>0, <1>4 DEF Peek, At, Drained
    <2> QED BY <1>1, <1>4, <2>1 DEF Peek
  <1>5. ASSUME NEW t \in Threads, RecvKeeps(t) PROVE WholeInv'
    <2>1. UNCHANGED <<kind, queue, taken, grown>>
      BY <1>5 DEF RecvKeeps
    <2>2. ~Cut(t, cur[t])'
      BY <1>0, <1>5 DEF RecvKeeps, Cut
    <2>3. \A u \in Threads : u # t => pc'[u] = pc[u] /\ cur'[u] = cur[u]
      BY <1>0, <1>5 DEF RecvKeeps, At
    <2>4. \A u \in Threads : pc'[u] = "push" => ~Cut(u, cur[u])'
      BY <2>1, <2>2, <2>3 DEF WholeInv, Cut
    <2> QED BY <2>1, <2>4 DEF WholeInv, NoPrefixDelivered
  <1>6. ASSUME NEW t \in Threads, Push(t) PROVE WholeInv'
    <2>1. UNCHANGED <<kind, taken, grown>>
      BY <1>6 DEF Push
    <2>2. \A u \in Threads : pc'[u] = "push" => pc[u] = "push" /\ cur'[u] = cur[u]
      BY <1>0, <1>6 DEF Push, At
    <2>3. ~Pushed(t).cut
      BY <1>6 DEF Push, At, Pushed, WholeInv
    <2>4. \A i \in 1 .. Len(queue') :
            \/ queue'[i] = Pushed(t)
            \/ \E j \in 1 .. Len(queue) : queue'[i] = queue[j]
      <3>1. CASE /\ Len(queue') = Len(queue) + 1
                 /\ \A i \in 1 .. Len(queue) : queue'[i] = queue[i]
                 /\ queue'[Len(queue) + 1] = Pushed(t)
        BY <1>0, <3>1
      <3>2. CASE /\ Len(queue') = Len(queue) /\ Len(queue) > 0
                 /\ \A i \in 1 .. Len(queue) - 1 : queue'[i] = queue[i + 1]
                 /\ queue'[Len(queue)] = Pushed(t)
        <4>1. \A i \in 1 .. Len(queue) :
                i = Len(queue) \/ (i \in 1 .. Len(queue) - 1 /\ i + 1 \in 1 .. Len(queue))
          BY <1>0
        <4> QED BY <3>2, <4>1
      <3> QED BY <1>6, <3>1, <3>2, PushQueue
    <2>5. \A i \in 1 .. Len(queue') : ~queue'[i].cut
      BY <2>3, <2>4 DEF WholeInv
    <2>6. \A u \in Threads : pc'[u] = "push" => ~Cut(u, cur[u])'
      BY <2>1, <2>2 DEF WholeInv, Cut
    <2> QED BY <2>1, <2>5, <2>6 DEF WholeInv, NoPrefixDelivered
  <1>7. ASSUME NEW t \in Threads, NEW n \in 1 .. MaxTake, Pop(t, n) PROVE WholeInv'
    <2> DEFINE k == PopCount(n)
               good == {i \in 1 .. k : kind[queue[i].msg] # "corrupt"}
    <2>1. /\ k \in 0 .. Len(queue) /\ Len(queue') = Len(queue) - k
          /\ \A i \in 1 .. Len(queue') : queue'[i] = queue[k + i]
      BY <1>7, PopQueue, SubscriptionAssumption
    <2>2. taken' = taken \cup
            {[nth |-> pops + i, msg |-> queue[i].msg, cut |-> queue[i].cut] : i \in good}
      BY <1>7 DEF Pop, PopCount
    <2>3. good \subseteq 1 .. k
      OBVIOUS
    <2>4. UNCHANGED <<kind, cur, grown>> /\ \A u \in Threads : pc'[u] = "push" => pc[u] = "push"
      BY <1>0, <1>7 DEF Pop, At
    <2> HIDE DEF k, good
    <2>5. /\ \A i \in good : i \in 1 .. Len(queue)
          /\ \A i \in 1 .. Len(queue') : k + i \in 1 .. Len(queue)
      BY <1>0, <2>1, <2>3
    <2>6. \A i \in 1 .. Len(queue') : ~queue'[i].cut
      BY <2>1, <2>5 DEF WholeInv
    <2>7. \A i \in good : ~[nth |-> pops + i, msg |-> queue[i].msg, cut |-> queue[i].cut].cut
      BY <2>5 DEF WholeInv
    <2>8. \A x \in taken' : ~x.cut
      BY <2>2, <2>7, Zenon DEF WholeInv, NoPrefixDelivered
    <2>9. \A u \in Threads : pc'[u] = "push" => ~Cut(u, cur[u])'
      BY <2>4 DEF WholeInv, Cut
    <2> QED BY <2>6, <2>8, <2>9 DEF WholeInv, NoPrefixDelivered
  <1>8. ASSUME NEW on \in BOOLEAN, SetCallback(on) PROVE WholeInv'
    BY <1>1, <1>8 DEF SetCallback
  <1>9. CASE UNCHANGED vars
    BY <1>1, <1>9 DEF vars
  <1> QED BY <1>2, <1>3, <1>4, <1>5, <1>6, <1>7, <1>8, <1>9 DEF Next, Step

(* recv_from compares the size of the datagram with the buffer it received  *)
(* into: no take delivers a prefix, whatever was received between the peek  *)
(* that sized the buffer and the receive.                                   *)
THEOREM DeliversWholeMessages == Spec => []NoPrefixDelivered
  <1>1. Init => WholeInv
    BY DEF Init, WholeInv, NoPrefixDelivered
  <1>2. IInv /\ WholeInv /\ [Next]_vars => WholeInv'
    BY WholeStep DEF IInv
  <1>3. WholeInv => NoPrefixDelivered
    BY DEF WholeInv
  <1> QED BY DrainsInvariant, <1>1, <1>2, <1>3, PTL DEF Spec

-----------------------------------------------------------------------------
(* Losses.                                                                  *)

(* A thread that peeked, and was not overtaken since, has a buffer with     *)
(* room for the head of the socket.                                         *)
RoomInv ==
  \A t \in Threads :
    pc[t] = "recv" /\ ~raced[t] =>
      Len(socket) > 0 /\ (kind[socket[1]] = "big" => grown[t])

(* The first part of LostOnlyByRule.                                        *)
RuleInv ==
  \A x \in lost : \/ x.why = "filter" /\ kind[x.msg] \in Filtered
                  \/ x.why = "corrupt" /\ kind[x.msg] = "corrupt"
                  \/ x.why = "race" /\ kind[x.msg] = "big"
                  \/ x.why = "depth"

(* The places a datagram that left the socket can be in: in the hand of one *)
(* thread, once in the queue, delivered, or lost.                           *)
TakenIds == {x.msg : x \in taken}
LostIds  == {x.msg : x \in lost}
Gone     == TakenIds \cup LostIds
Out      == 1 .. Received

HandInv ==
  \A t \in Threads : pc[t] = "push" =>
    /\ cur[t] \in Out /\ cur[t] \notin Gone
    /\ \A u \in Threads : pc[u] = "push" /\ cur[u] = cur[t] => u = t
    /\ \A i \in 1 .. Len(queue) : queue[i].msg # cur[t]

QueuedInv ==
  \A i \in 1 .. Len(queue) :
    /\ queue[i].msg \in Out /\ queue[i].msg \notin Gone
    /\ \A j \in 1 .. Len(queue) : queue[j].msg = queue[i].msg => j = i

GoneInv ==
  /\ Gone \subseteq Out /\ TakenIds \cap LostIds = {}
  /\ \A x, y \in taken : x.msg = y.msg => x = y

OnceInv == HandInv /\ QueuedInv /\ GoneInv

(* A receive marks every other thread that stands between its peek and its  *)
(* receive as overtaken; a peek makes room for the head.                    *)
LEMMA RoomStep == ASSUME TypesInv, SocketInv, RoomInv, [Next]_vars PROVE RoomInv'
  <1> USE DEF dataVars, listener
  <1>0. /\ DOMAIN pc = Threads /\ raced \in [Threads -> BOOLEAN] /\ grown \in [Threads -> BOOLEAN]
        /\ socket \in Seq(Nat) /\ Len(socket) \in Nat
    BY DEF TypesInv
  <1>1. ASSUME UNCHANGED <<kind, socket>>,
               \A t \in Threads : pc'[t] = "recv" => pc[t] = "recv" /\ UNCHANGED <<raced[t], grown[t]>>
        PROVE  RoomInv'
    BY <1>1 DEF RoomInv
  <1>2. CASE Send
    <2>1. Len(socket') = Len(socket) + 1 /\ \A i \in 1 .. Len(socket) : socket'[i] = socket[i]
      BY <1>0, <1>2 DEF Send
    <2>2. Len(socket) > 0 => socket'[1] = socket[1]
      BY <1>0, <2>1
    <2>3. UNCHANGED <<kind, pc, raced, grown>>
      BY <1>2 DEF Send
    <2> QED BY <1>0, <2>1, <2>2, <2>3 DEF RoomInv
  <1>3. ASSUME NEW t \in Threads,
               Call(t) \/ RecvNothing(t) \/ Push(t) \/ Notify(t) \/ Return(t)
        PROVE  RoomInv'
    <2>1. \A u \in Threads : pc'[u] = "recv" => pc[u] = "recv" /\ UNCHANGED <<raced[u], grown[u]>>
      BY <1>0, <1>3 DEF Call, RecvNothing, Push, Notify, Return, At, Drained
    <2> QED BY <1>1, <1>3, <2>1 DEF Call, RecvNothing, Push, Notify, Return
  <1>4. ASSUME NEW t \in Threads, Peek(t) PROVE RoomInv'
    <2>1. CASE socket = <<>>
      <3>1. \A u \in Threads : pc'[u] = "recv" => pc[u] = "recv" /\ UNCHANGED <<raced[u], grown[u]>>
        BY <1>0, <1>4, <2>1 DEF Peek, At, Drained
      <3> QED BY <1>1, <1>4, <3>1 DEF Peek
    <2>2. CASE socket # <<>>
      <3>1. UNCHANGED <<kind, socket>>
        BY <1>4 DEF Peek
      <3>2. Len(socket) > 0 /\ Head(socket) = socket[1]
        BY <1>0, <2>2
      <3>3. kind[socket[1]] = "big" => grown'[t]
        BY <1>0, <1>4, <2>2, <3>2 DEF Peek
      <3>4. \A u \in Threads : u # t => UNCHANGED <<pc[u], raced[u], grown[u]>>
        BY <1>0, <1>4 DEF Peek, At
      <3> QED BY <3>1, <3>2, <3>3, <3>4 DEF RoomInv
    <2> QED BY <2>1, <2>2
  <1>5. ASSUME NEW t \in Threads, RecvDrops(t) \/ RecvKeeps(t) PROVE RoomInv'
    <2>1. \A u \in Threads : pc'[u] = "recv" => u # t /\ pc[u] = "recv"
      BY <1>0, <1>5 DEF RecvDrops, RecvKeeps, At
    <2>2. raced' = [u \in Threads |-> u # t /\ (raced[u] \/ pc[u] = "recv")]
      BY <1>5 DEF RecvDrops, RecvKeeps, Dequeue
    <2>3. \A u \in Threads : pc'[u] = "recv" => raced'[u]
      BY <2>1, <2>2
    <2> QED BY <2>3 DEF RoomInv
  <1>6. ASSUME NEW t \in Threads, NEW n \in 1 .. MaxTake, Pop(t, n) PROVE RoomInv'
    <2>1. \A u \in Threads : pc'[u] = "recv" => pc[u] = "recv" /\ UNCHANGED <<raced[u], grown[u]>>
      BY <1>0, <1>6 DEF Pop, At
    <2> QED BY <1>1, <1>6, <2>1 DEF Pop
  <1>7. ASSUME NEW on \in BOOLEAN, SetCallback(on) PROVE RoomInv'
    BY <1>1, <1>7 DEF SetCallback
  <1>8. CASE UNCHANGED vars
    BY <1>1, <1>8 DEF vars
  <1> QED BY <1>2, <1>3, <1>4, <1>5, <1>6, <1>7, <1>8 DEF Next, Step

(* What a take does to the histories.                                       *)
PopGood(n) == {i \in 1 .. PopCount(n) : kind[queue[i].msg] # "corrupt"}
PopBad(n)  == {i \in 1 .. PopCount(n) : kind[queue[i].msg] = "corrupt"}
Delivery(i) == [nth |-> pops + i, msg |-> queue[i].msg, cut |-> queue[i].cut]

(* What a pop adds to the history.                                          *)
LEMMA PopHistory ==
  ASSUME NEW t \in Threads, NEW n \in Nat, Pop(t, n)
  PROVE  /\ taken' = taken \cup {Delivery(i) : i \in PopGood(n)}
         /\ lost' = lost \cup {[msg |-> queue[i].msg, why |-> "corrupt"] : i \in PopBad(n)}
  <1>1. (1 .. PopCount(n)) \ PopGood(n) = PopBad(n)
    BY DEF PopGood, PopBad
  <1>2. /\ taken' = taken \cup {Delivery(i) : i \in PopGood(n)}
        /\ lost' = lost \cup
             {[msg |-> queue[i].msg, why |-> "corrupt"] : i \in (1 .. PopCount(n)) \ PopGood(n)}
    BY DEF Pop, PopGood, PopCount, Delivery
  <1> QED BY <1>1, <1>2

(* Every loss has its reason; "cut" is none, since a thread that was not    *)
(* overtaken has room.                                                      *)
LEMMA RuleStep ==
  ASSUME TypesInv, SocketInv, RoomInv, RuleInv, [Next]_vars PROVE RuleInv'
  <1> USE DEF dataVars, listener
  <1>1. ASSUME UNCHANGED <<kind, lost>> PROVE RuleInv'
    BY <1>1 DEF RuleInv
  <1>2. CASE Send
    BY <1>1, <1>2 DEF Send
  <1>3. ASSUME NEW t \in Threads,
               Call(t) \/ Peek(t) \/ RecvNothing(t) \/ RecvKeeps(t) \/ Notify(t) \/ Return(t)
        PROVE  RuleInv'
    BY <1>1, <1>3 DEF Call, Peek, RecvNothing, RecvKeeps, Notify, Return
  <1>4. ASSUME NEW t \in Threads, RecvDrops(t) PROVE RuleInv'
    <2> DEFINE m == Head(socket)
    <2>1. kind' = kind /\ pc[t] = "recv" /\ socket \in Seq(Nat) /\ socket # <<>>
      BY <1>4 DEF RecvDrops, At, Dequeue, TypesInv
    <2>2. m = socket[1]
      BY <2>1
    <2>3. CASE Cut(t, m)
      <3>1. kind[m] = "big" /\ ~grown[t]
        BY <2>3 DEF Cut
      <3>2. raced[t]
        BY <2>1, <2>2, <3>1 DEF RoomInv
      <3>3. lost' = lost \cup {[msg |-> m, why |-> "race"]}
        BY <1>4, <2>3, <3>2 DEF RecvDrops, Loses
      <3> HIDE DEF m
      <3> QED BY <2>1, <3>1, <3>3 DEF RuleInv
    <2>4. CASE ~Cut(t, m)
      <3>1. kind[m] \in Filtered /\ lost' = lost \cup {[msg |-> m, why |-> "filter"]}
        BY <1>4, <2>4 DEF RecvDrops, Loses
      <3> HIDE DEF m
      <3> QED BY <2>1, <3>1 DEF RuleInv
    <2> QED BY <2>3, <2>4
  <1>5. ASSUME NEW t \in Threads, Push(t) PROVE RuleInv'
    <2>1. kind' = kind
      BY <1>5 DEF Push
    <2>2. lost' = lost \/ lost' = lost \cup {[msg |-> queue[1].msg, why |-> "depth"]}
      BY <1>5, PushQueue
    <2> QED BY <2>1, <2>2 DEF RuleInv
  <1>6. ASSUME NEW t \in Threads, NEW n \in 1 .. MaxTake, Pop(t, n) PROVE RuleInv'
    <2>1. lost' = lost \cup {[msg |-> queue[i].msg, why |-> "corrupt"] : i \in PopBad(n)}
      BY <1>6, PopHistory, SubscriptionAssumption
    <2>2. kind' = kind /\ \A i \in PopBad(n) : kind[queue[i].msg] = "corrupt"
      BY <1>6 DEF Pop, PopBad
    <2> QED BY <2>1, <2>2 DEF RuleInv
  <1>7. ASSUME NEW on \in BOOLEAN, SetCallback(on) PROVE RuleInv'
    BY <1>1, <1>7 DEF SetCallback
  <1>8. CASE UNCHANGED vars
    BY <1>1, <1>8 DEF vars
  <1> QED BY <1>2, <1>3, <1>4, <1>5, <1>6, <1>7, <1>8 DEF Next, Step

(* The ids of a history that grew.                                          *)
Loss(m, why) == [msg |-> m, why |-> why]

(* The message of a loss.                                                   *)
LEMMA LossMsg == \A m, why : Loss(m, why).msg = m
  BY DEF Loss

(* One more loss is one more lost id.                                       *)
LEMMA LostOne ==
  ASSUME NEW m, NEW why, lost' = lost \cup {[msg |-> m, why |-> why]}
  PROVE  LostIds' = LostIds \cup {m}
  <1>1. lost' = lost \cup {Loss(m, why)}
    BY DEF Loss
  <1> QED BY <1>1, LossMsg DEF LostIds

(* A step that moves no datagram.                                           *)
LEMMA OnceIdle ==
  ASSUME UNCHANGED <<queue, taken, lost>>, Received' = Received, OnceInv,
         \A t \in Threads : pc'[t] = "push" => pc[t] = "push" /\ cur'[t] = cur[t]
  PROVE  OnceInv'
  <1>1. Gone' = Gone /\ TakenIds' = TakenIds /\ LostIds' = LostIds /\ Out' = Out
    BY DEF Gone, TakenIds, LostIds, Out
  <1>2. HandInv'
    BY <1>1 DEF OnceInv, HandInv
  <1>3. QueuedInv'
    BY <1>1 DEF OnceInv, QueuedInv
  <1>4. GoneInv'
    BY <1>1 DEF OnceInv, GoneInv
  <1> QED BY <1>2, <1>3, <1>4 DEF OnceInv

(* What the queue holds after a push comes from the queue or the hand.      *)
LEMMA OncePush == ASSUME TypesInv, OnceInv, NEW t \in Threads, Push(t) PROVE OnceInv'
  <1>0. /\ DOMAIN pc = Threads /\ DOMAIN cur = Threads /\ Len(queue) \in Nat
    BY QueueElement DEF TypesInv
  <1>1. /\ pc[t] = "push" /\ Pushed(t).msg = cur[t]
        /\ Out' = Out /\ TakenIds' = TakenIds /\ taken' = taken
        /\ \A u \in Threads : pc'[u] = "push" => u # t /\ pc[u] = "push" /\ cur'[u] = cur[u]
    BY <1>0 DEF Push, At, Pushed, Out, Received, TakenIds
  <1>2. /\ cur[t] \in Out /\ cur[t] \notin Gone
        /\ \A u \in Threads : pc[u] = "push" /\ cur[u] = cur[t] => u = t
        /\ \A i \in 1 .. Len(queue) : queue[i].msg # cur[t]
    BY <1>1 DEF OnceInv, HandInv
  <1>3. CASE /\ lost' = lost /\ Len(queue') = Len(queue) + 1
             /\ \A i \in 1 .. Len(queue) : queue'[i] = queue[i]
             /\ queue'[Len(queue) + 1] = Pushed(t)
    <2>1. Gone' = Gone /\ LostIds' = LostIds
      BY <1>1, <1>3 DEF Gone, LostIds
    <2>2. \A i \in 1 .. Len(queue') : \/ i \in 1 .. Len(queue) /\ queue'[i].msg = queue[i].msg
                                      \/ i = Len(queue) + 1 /\ queue'[i].msg = cur[t]
      BY <1>0, <1>1, <1>3
    <2>3. QueuedInv'
      BY <1>1, <1>2, <2>1, <2>2 DEF OnceInv, QueuedInv
    <2>4. HandInv'
      BY <1>1, <1>2, <2>1, <2>2 DEF OnceInv, HandInv
    <2>5. GoneInv'
      BY <1>1, <2>1 DEF OnceInv, GoneInv
    <2> QED BY <2>3, <2>4, <2>5 DEF OnceInv
  <1>4. CASE /\ Len(queue') = Len(queue) /\ Len(queue) > 0
             /\ lost' = lost \cup {[msg |-> queue[1].msg, why |-> "depth"]}
             /\ \A i \in 1 .. Len(queue) - 1 : queue'[i] = queue[i + 1]
             /\ queue'[Len(queue)] = Pushed(t)
    <2>0. 1 \in 1 .. Len(queue)
      BY <1>0, <1>4
    <2>1. LostIds' = LostIds \cup {queue[1].msg} /\ Gone' = Gone \cup {queue[1].msg}
      <3>1. LostIds' = LostIds \cup {queue[1].msg}
        BY <1>4, LostOne
      <3> QED BY <1>1, <3>1 DEF Gone
    <2>2. \A i \in 1 .. Len(queue') :
            \/ i + 1 \in 1 .. Len(queue) /\ i + 1 # 1 /\ queue'[i].msg = queue[i + 1].msg
            \/ i = Len(queue) /\ queue'[i].msg = cur[t]
      <3>1. \A i \in 1 .. Len(queue) :
              \/ i = Len(queue)
              \/ i \in 1 .. Len(queue) - 1 /\ i + 1 \in 1 .. Len(queue) /\ i + 1 # 1
        BY <1>0
      <3> QED BY <1>1, <1>4, <3>1
    <2>3. QueuedInv'
      <3>1. \A i \in 1 .. Len(queue') : queue'[i].msg \in Out /\ queue'[i].msg \notin Gone'
        BY <1>1, <1>2, <2>0, <2>1, <2>2 DEF OnceInv, QueuedInv
      <3>2. ASSUME NEW i \in 1 .. Len(queue'), NEW j \in 1 .. Len(queue'),
                   queue'[j].msg = queue'[i].msg
            PROVE  j = i
        <4>1. i \in Nat /\ j \in Nat
          BY <1>0, <1>4
        <4>2. (j + 1 = i + 1) => j = i
          BY <4>1
        <4> QED BY <1>2, <2>2, <3>2, <4>2 DEF OnceInv, QueuedInv
      <3> QED BY <1>1, <3>1, <3>2 DEF QueuedInv
    <2>4. HandInv'
      <3> SUFFICES ASSUME NEW u \in Threads, pc'[u] = "push"
                   PROVE  /\ cur'[u] \in Out /\ cur'[u] \notin Gone'
                          /\ \A v \in Threads : pc'[v] = "push" /\ cur'[v] = cur'[u] => v = u
                          /\ \A i \in 1 .. Len(queue') : queue'[i].msg # cur'[u]
        BY <1>1 DEF HandInv
      <3>1. u # t /\ pc[u] = "push" /\ cur'[u] = cur[u]
        BY <1>1
      <3>2. /\ cur[u] \in Out /\ cur[u] \notin Gone /\ cur[u] # cur[t]
            /\ \A v \in Threads : pc[v] = "push" /\ cur[v] = cur[u] => v = u
            /\ \A i \in 1 .. Len(queue) : queue[i].msg # cur[u]
        BY <1>1, <3>1 DEF OnceInv, HandInv
      <3> QED BY <1>1, <2>0, <2>1, <2>2, <3>1, <3>2
    <2>5. GoneInv'
      BY <1>1, <2>0, <2>1 DEF OnceInv, GoneInv, QueuedInv, Gone
    <2> QED BY <2>3, <2>4, <2>5 DEF OnceInv
  <1> QED BY <1>3, <1>4, PushQueue

(* A take moves the oldest messages of the queue to the delivered or, the   *)
(* corrupt ones, to the lost.                                               *)
LEMMA OncePop ==
  ASSUME TypesInv, OnceInv, NEW t \in Threads, NEW n \in Nat, Pop(t, n) PROVE OnceInv'
  <1> DEFINE k == PopCount(n)
  <1>0. /\ DOMAIN pc = Threads /\ Len(queue) \in Nat
    BY QueueElement DEF TypesInv
  <1>1. /\ k \in 0 .. Len(queue) /\ Len(queue') = Len(queue) - k
        /\ \A i \in 1 .. Len(queue') : queue'[i] = queue[k + i]
    BY PopQueue
  <1>2. /\ taken' = taken \cup {Delivery(i) : i \in PopGood(n)}
        /\ lost' = lost \cup {[msg |-> queue[i].msg, why |-> "corrupt"] : i \in PopBad(n)}
    BY PopHistory
  <1>3. /\ PopGood(n) \subseteq 1 .. k /\ PopBad(n) \subseteq 1 .. k /\ PopGood(n) \cap PopBad(n) = {}
    BY DEF PopGood, PopBad
  <1>4. /\ Out' = Out /\ cur' = cur
        /\ \A u \in Threads : pc'[u] = "push" => pc[u] = "push"
    BY <1>0 DEF Pop, At, Out, Received
  <1> HIDE DEF k
  <1>5. /\ \A i \in 1 .. k : i \in 1 .. Len(queue)
        /\ \A i \in 1 .. Len(queue') : /\ k + i \in 1 .. Len(queue) /\ k + i \notin 1 .. k
                                        /\ \A j \in 1 .. Len(queue') : k + i = k + j => i = j
    BY <1>0, <1>1
  <1>6. \A i : Delivery(i).msg = queue[i].msg
    BY DEF Delivery
  <1>7. /\ TakenIds' = TakenIds \cup {queue[i].msg : i \in PopGood(n)}
        /\ LostIds' = LostIds \cup {queue[i].msg : i \in PopBad(n)}
    <2>1. TakenIds' = TakenIds \cup {queue[i].msg : i \in PopGood(n)}
      BY <1>2, <1>6 DEF TakenIds
    <2>2. LostIds' = LostIds \cup {queue[i].msg : i \in PopBad(n)}
      <3>1. lost' = lost \cup {Loss(queue[i].msg, "corrupt") : i \in PopBad(n)}
        BY <1>2 DEF Loss
      <3> QED BY <3>1, LossMsg DEF LostIds
    <2> QED BY <2>1, <2>2
  <1>8. \A m \in Gone' : m \in Gone \/ \E i \in 1 .. k : m = queue[i].msg
    BY <1>3, <1>7 DEF Gone
  <1>9. HandInv'
    BY <1>1, <1>4, <1>5, <1>8 DEF OnceInv, HandInv
  <1>10. QueuedInv'
    <2>1. ASSUME NEW i \in 1 .. Len(queue')
          PROVE  /\ queue'[i].msg \in Out /\ queue'[i].msg \notin Gone'
                 /\ \A j \in 1 .. Len(queue') : queue'[j].msg = queue'[i].msg => j = i
      <3>1. /\ queue'[i] = queue[k + i] /\ k + i \in 1 .. Len(queue)
            /\ \A j \in 1 .. Len(queue') : queue'[j] = queue[k + j] /\ k + j \in 1 .. Len(queue)
        BY <1>1, <1>5
      <3>2. \A m \in 1 .. Len(queue) : queue[m].msg = queue[k + i].msg => m = k + i
        BY <3>1 DEF OnceInv, QueuedInv
      <3>3. \A m \in 1 .. k : queue[m].msg # queue[k + i].msg
        BY <1>5, <3>2
      <3>4. queue[k + i].msg \in Out /\ queue[k + i].msg \notin Gone
        BY <3>1 DEF OnceInv, QueuedInv
      <3> QED BY <1>5, <1>8, <3>1, <3>2, <3>3, <3>4
    <2> QED BY <1>4, <2>1 DEF QueuedInv
  <1>11. GoneInv'
    <2>1. \A i \in 1 .. k : queue[i].msg \in Out /\ queue[i].msg \notin Gone
      BY <1>5 DEF OnceInv, QueuedInv
    <2>2. Gone' \subseteq Out'
      BY <1>4, <1>8, <2>1 DEF OnceInv, GoneInv
    <2>3. \A i, j \in 1 .. k : queue[i].msg = queue[j].msg => i = j
      BY <1>5 DEF OnceInv, QueuedInv
    <2>4. TakenIds' \cap LostIds' = {}
      BY <1>3, <1>7, <2>1, <2>3 DEF OnceInv, GoneInv, Gone
    <2>5. ASSUME NEW x \in taken', NEW y \in taken', x.msg = y.msg PROVE x = y
      <3>1. x \in taken \/ \E i \in 1 .. k : x = Delivery(i) /\ x.msg = queue[i].msg
        BY <1>2, <1>3, <1>6
      <3>2. y \in taken \/ \E i \in 1 .. k : y = Delivery(i) /\ y.msg = queue[i].msg
        BY <1>2, <1>3, <1>6
      <3>3. \A z \in taken : z.msg \in Gone
        BY DEF Gone, TakenIds
      <3> QED BY <2>1, <2>3, <2>5, <3>1, <3>2, <3>3 DEF OnceInv, GoneInv
    <2> QED BY <2>2, <2>4, <2>5 DEF GoneInv
  <1> QED BY <1>9, <1>10, <1>11 DEF OnceInv

(* A receive brings a datagram out of the socket that was nowhere else: to  *)
(* the lost, or into the thread's hand.                                     *)
LEMMA OnceRecv ==
  ASSUME TypesInv, SocketInv, OnceInv, NEW t \in Threads, RecvDrops(t) \/ RecvKeeps(t)
  PROVE  OnceInv'
  <1> USE DEF dataVars, listener
  <1> DEFINE m == Head(socket)
  <1>0. /\ DOMAIN pc = Threads /\ DOMAIN cur = Threads
        /\ sent \in Nat /\ Len(socket) \in Nat /\ Len(socket) <= sent
    BY DEF TypesInv, SocketInv
  <1>1. m = Received + 1 /\ Len(socket') = Len(socket) - 1
    BY DequeueSocket DEF RecvDrops, RecvKeeps
  <1>2. Received' = Received + 1 /\ Received \in Nat
    <2>1. sent' = sent
      BY DEF RecvDrops, RecvKeeps
    <2> QED BY <1>0, <1>1, <2>1 DEF Received
  <1> HIDE DEF m
  <1>3. Out \subseteq Out' /\ m \in Out' /\ m \notin Out
    BY <1>1, <1>2 DEF Out
  <1>4. /\ m \notin Gone /\ \A i \in 1 .. Len(queue) : queue[i].msg # m
        /\ \A u \in Threads : pc[u] = "push" => cur[u] # m
    BY <1>3 DEF OnceInv, GoneInv, QueuedInv, HandInv
  <1>5. queue' = queue /\ taken' = taken /\ TakenIds' = TakenIds
    BY DEF RecvDrops, RecvKeeps, TakenIds
  <1>6. CASE RecvDrops(t)
    <2>1. \E why : lost' = lost \cup {[msg |-> m, why |-> why]}
      BY <1>6 DEF RecvDrops, Loses, m
    <2>2. LostIds' = LostIds \cup {m}
      BY <2>1, LostOne
    <2>3. Gone' = Gone \cup {m}
      BY <1>5, <2>2 DEF Gone
    <2>4. \A u \in Threads : pc'[u] = "push" => pc[u] = "push" /\ cur'[u] = cur[u]
      BY <1>0, <1>6 DEF RecvDrops, At
    <2>5. HandInv'
      BY <1>3, <1>4, <1>5, <2>3, <2>4 DEF OnceInv, HandInv
    <2>6. QueuedInv'
      BY <1>3, <1>4, <1>5, <2>3 DEF OnceInv, QueuedInv
    <2>7. GoneInv'
      BY <1>3, <1>4, <1>5, <2>2, <2>3 DEF OnceInv, GoneInv, Gone
    <2> QED BY <2>5, <2>6, <2>7 DEF OnceInv
  <1>7. CASE RecvKeeps(t)
    <2>1. lost' = lost /\ cur' = [cur EXCEPT ![t] = m]
      BY <1>7 DEF RecvKeeps, m
    <2>2. LostIds' = LostIds /\ Gone' = Gone
      BY <1>5, <2>1 DEF LostIds, Gone
    <2>3. /\ cur'[t] = m
          /\ \A u \in Threads : u # t => pc'[u] = pc[u] /\ cur'[u] = cur[u]
      BY <1>0, <1>7, <2>1 DEF RecvKeeps, At
    <2>4. HandInv'
      BY <1>3, <1>4, <1>5, <2>2, <2>3 DEF OnceInv, HandInv
    <2>5. QueuedInv'
      BY <1>3, <1>5, <2>2 DEF OnceInv, QueuedInv
    <2>6. GoneInv'
      BY <1>3, <1>5, <2>2 DEF OnceInv, GoneInv
    <2> QED BY <2>4, <2>5, <2>6 DEF OnceInv
  <1> QED BY <1>6, <1>7

(* OnceInv is inductive.                                                    *)
LEMMA OnceStep == ASSUME TypesInv, SocketInv, OnceInv, [Next]_vars PROVE OnceInv'
  <1> USE DEF dataVars, listener
  <1>0. /\ DOMAIN pc = Threads /\ socket \in Seq(Nat) /\ Len(socket) \in Nat /\ sent \in Nat
    BY DEF TypesInv
  <1>1. CASE Send
    <2>1. Received' = Received
      BY <1>0, <1>1 DEF Send, Received
    <2> QED BY <1>1, <2>1, OnceIdle DEF Send
  <1>2. ASSUME NEW t \in Threads,
               Call(t) \/ Peek(t) \/ RecvNothing(t) \/ Notify(t) \/ Return(t)
        PROVE  OnceInv'
    <2>1. Received' = Received /\ UNCHANGED <<queue, taken, lost, cur>>
      BY <1>2 DEF Call, Peek, RecvNothing, Notify, Return, Received
    <2>2. \A u \in Threads : pc'[u] = "push" => pc[u] = "push" /\ cur'[u] = cur[u]
      BY <1>0, <1>2, <2>1 DEF Call, Peek, RecvNothing, Notify, Return, At, Drained
    <2> QED BY <2>1, <2>2, OnceIdle
  <1>3. ASSUME NEW on \in BOOLEAN, SetCallback(on) PROVE OnceInv'
    <2>1. Received' = Received
      BY <1>3 DEF SetCallback, Received
    <2> QED BY <1>3, <2>1, OnceIdle DEF SetCallback
  <1>4. CASE UNCHANGED vars
    <2>1. Received' = Received
      BY <1>4 DEF vars, Received
    <2> QED BY <1>4, <2>1, OnceIdle DEF vars
  <1>5. ASSUME NEW t \in Threads, NEW n \in 1 .. MaxTake, Pop(t, n) PROVE OnceInv'
    <2>1. n \in Nat
      BY SubscriptionAssumption
    <2> QED BY <1>5, <2>1, OncePop
  <1> QED BY <1>1, <1>2, <1>3, <1>4, <1>5, OncePush, OnceRecv DEF Next, Step

(* Of the datagrams that rmw_take and rmw_wait receive, each is delivered   *)
(* at most once and not lost as well, and one is lost only because it is    *)
(* junk, the queue is full, or a thread was overtaken between the peek and  *)
(* the receive of recv_from by another, with a buffer too small.            *)
THEOREM LosesOnlyByRule == Spec => []LostOnlyByRule
  <1>1. Init => RoomInv /\ RuleInv /\ OnceInv
    <2> SUFFICES ASSUME Init PROVE RoomInv /\ RuleInv /\ OnceInv
      OBVIOUS
    <2>1. RoomInv /\ RuleInv
      BY DEF Init, RoomInv, RuleInv
    <2>2. HandInv /\ QueuedInv
      BY DEF Init, HandInv, QueuedInv
    <2>3. GoneInv
      BY DEF Init, GoneInv, Gone, TakenIds, LostIds
    <2> QED BY <2>1, <2>2, <2>3 DEF OnceInv
  <1>2. IInv /\ RoomInv /\ RuleInv /\ OnceInv /\ [Next]_vars => RoomInv' /\ RuleInv' /\ OnceInv'
    BY RoomStep, RuleStep, OnceStep DEF IInv
  <1>3. RuleInv /\ OnceInv => LostOnlyByRule
    <2> SUFFICES ASSUME RuleInv, OnceInv PROVE LostOnlyByRule
      OBVIOUS
    <2>1. \A x \in taken, y \in lost : x.msg # y.msg
      BY DEF OnceInv, GoneInv, TakenIds, LostIds
    <2> QED BY <2>1 DEF LostOnlyByRule, RuleInv, OnceInv, GoneInv
  <1> QED BY DrainsInvariant, <1>1, <1>2, <1>3, PTL DEF Spec

=============================================================================
