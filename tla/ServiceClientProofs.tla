------------------------ MODULE ServiceClientProofs ------------------------
(***************************************************************************)
(* Requests and responses, for any number of clients, servers and          *)
(* requests, any depth, and endpoints that come and go: a request goes to  *)
(* no server whose removal was announced before, and to some server when   *)
(* one was announced and stays; an application is given responses to its   *)
(* own requests only, and each at most once.                               *)
(***************************************************************************)
EXTENDS ServiceClient, SequenceTheorems, WellFoundedInduction, TLAPS

(* A set of numbers that is not empty has a least one.                      *)
LEMMA Least ==
  ASSUME NEW S \in SUBSET Nat, S # {}
  PROVE  \E m \in S : \A t \in S : m <= t
  <1>1. OpToRel(<, Nat) = {ss \in Nat \X Nat : ss[1] < ss[2]}
    BY Zenon DEF OpToRel
  <1> DEFINE R == {ss \in Nat \X Nat : ss[1] < ss[2]}
  <1>2. IsWellFoundedOn(R, Nat)
    BY <1>1, NatLessThanWellFounded, Zenon
  <1> HIDE DEF R
  <1>3. PICK m \in S : \A y \in S : ~(<<y, m>> \in R)
    BY <1>2, WFMin, Zenon
  <1>4. ASSUME NEW t \in S PROVE m <= t
    <2>1. m \in Nat /\ t \in Nat /\ <<t, m>> \in Nat \X Nat
      OBVIOUS
    <2>2. <<t, m>>[1] = t /\ <<t, m>>[2] = m
      OBVIOUS
    <2>3. ~(t < m)
      BY <1>3, <2>1, <2>2, Zenon DEF R
    <2> QED BY <2>1, <2>3
  <1> QED BY <1>4

(* The first server of a query is one of its results.                       *)
LEMMA FirstOf ==
  ASSUME NEW S \in SUBSET Services, S # {} PROVE First(S) \in S
  <1>1. \E m \in S : \A t \in S : m <= t
    BY Least, ServiceClientAssumption
  <1> QED BY <1>1 DEF First

(* Types of what routing uses.                                              *)
RouteType ==
  /\ life \in [Endpoints -> {"none", "visible", "up", "unlisted", "unlinked", "gone"}]
  /\ generation \in Nat
  /\ cpc \in [Clients -> {"idle", "refresh", "send"}] /\ cgen \in [Clients -> Nat]
  /\ path \in [Clients -> Services \cup {NoService}]
  /\ agen \in [Clients -> Nat] /\ cached_generation \in [Clients -> Nat]
  /\ cached_path \in [Clients -> Services \cup {NoService}]
  /\ upAtLoad \in [Clients -> SUBSET Services] /\ goneAtLoad \in [Clients -> SUBSET Services]

(* Every generation a client knows has been.                                *)
GenInv ==
  \A c \in Clients : cgen[c] <= generation /\ agen[c] <= generation
                     /\ cached_generation[c] <= generation

(* Servers gone stay gone, and one that was up does not come up again.      *)
WasUp == {"up", "unlisted", "unlinked", "gone"}
LoadInv ==
  \A c \in Clients :
    /\ \A s \in goneAtLoad[c] : life[s] = "gone"
    /\ \A s \in upAtLoad[c] : life[s] \in WasUp

(* A path serves the servers up and gone at some time.                      *)
Serves(p, up, gone) ==
  /\ p \notin gone
  /\ (\E s \in up : life[s] = "up") => p # NoService

(* A cache filled for the current generation serves a load made now.        *)
FreshInv ==
  \A c \in Clients : cached_generation[c] = generation =>
    Serves(cached_path[c], Services, {s \in Services : life[s] = "gone"})

(* A cache filled for the generation a request has loaded serves the        *)
(* request, whichever thread filled it and however long ago.                *)
PendingInv ==
  \A c \in Clients : cpc[c] = "refresh" /\ cached_generation[c] = cgen[c] =>
    Serves(cached_path[c], upAtLoad[c], goneAtLoad[c])

RouteInv == RouteType /\ GenInv /\ LoadInv /\ FreshInv /\ PendingInv /\ RequestRouted

(* No endpoint exists and no generation has passed.                         *)
LEMMA InitRoute == Init => RouteInv
  <1> SUFFICES ASSUME Init PROVE RouteInv
    OBVIOUS
  <1> USE ServiceClientAssumption DEF Init, Endpoints
  <1>1. RouteType
    BY DEF RouteType
  <1>2. GenInv /\ LoadInv
    BY DEF GenInv, LoadInv
  <1>3. FreshInv
    BY DEF FreshInv, Serves
  <1>4. PendingInv /\ RequestRouted
    BY DEF PendingInv, RequestRouted
  <1> QED BY <1>1, <1>2, <1>3, <1>4 DEF RouteInv

(* What the cache holds after a refresh is the old path, or a server listed *)
(* now, or nothing when none is.                                            *)
LEMMA RefreshedPath ==
  ASSUME RouteType, NEW c \in Clients, NEW g \in Nat
  PROVE  /\ Refreshed(c, g) \in Services \cup {NoService}
         /\ g = cached_generation[c] => Refreshed(c, g) = cached_path[c]
         /\ g # cached_generation[c] =>
              \A up \in SUBSET Services, gone \in SUBSET Services :
                (\A s \in gone : life[s] = "gone") => Serves(Refreshed(c, g), up, gone)
  <1>1. ListedServices \in SUBSET Services /\ \A s \in ListedServices : life[s] \in {"visible", "up"}
    BY DEF ListedServices, Listed
  <1>2. ListedServices # {} => First(ListedServices) \in ListedServices
    BY <1>1, FirstOf
  <1>3. ListedServices = {} => First(ListedServices) = NoService
    BY DEF First
  <1>4. \A s \in Services : life[s] = "up" => s \in ListedServices
    BY DEF ListedServices, Listed
  <1>5. NoService \notin Services
    BY ServiceClientAssumption
  <1> QED BY <1>1, <1>2, <1>3, <1>4, <1>5 DEF Refreshed, RouteType, Serves

(* Steps that leave the registry and the client's sending alone.            *)
LEMMA RouteSame ==
  ASSUME RouteInv, UNCHANGED <<regVars, sendVars, agen, cacheVars>> PROVE RouteInv'
  BY DEF RouteInv, RouteType, GenInv, LoadInv, FreshInv, PendingInv, RequestRouted, Serves,
      regVars, sendVars, cacheVars

(* A life step of an endpoint: only an announcement brings a server up, and *)
(* only a close, which is announced too, makes one gone.                    *)
LEMMA RouteLife ==
  ASSUME RouteInv, NEW e \in Endpoints,
         \/ Live(e, "none", "visible") /\ generation' = generation
         \/ Live(e, "visible", "up") /\ generation' = generation + 1
         \/ Live(e, "up", "unlisted") /\ generation' = generation
         \/ Live(e, "unlisted", "unlinked") /\ generation' = generation
         \/ Live(e, "unlinked", "gone") /\ generation' = generation + 1,
         UNCHANGED <<sendVars, agen, cacheVars>>
  PROVE  RouteInv'
  <1> USE DEF RouteInv, RouteType, sendVars, cacheVars, Endpoints
  <1>1. RouteType'
    BY DEF Live
  <1>2. GenInv'
    BY DEF GenInv
  <1>3. \A s \in Services : /\ life[s] = "gone" => life'[s] = "gone"
                            /\ life[s] \in WasUp => life'[s] \in WasUp
                            /\ life'[s] = "up" /\ life[s] \in WasUp => life[s] = "up"
    BY DEF Live, WasUp
  <1>4. LoadInv'
    BY <1>3 DEF LoadInv
  <1>5. FreshInv'
    <2>1. CASE generation' = generation + 1
      BY <2>1, <1>1 DEF FreshInv, GenInv
    <2>2. CASE generation' = generation
      <3>1. \A s \in Services : (life'[s] = "gone" => life[s] = "gone")
                               /\ (life'[s] = "up" => life[s] = "up")
        BY <2>2 DEF Live
      <3> QED BY <2>2, <3>1 DEF FreshInv, Serves
    <2> QED BY <2>1, <2>2
  <1>6. PendingInv'
    BY <1>3 DEF PendingInv, Serves, LoadInv
  <1>7. RequestRouted'
    BY <1>3 DEF RequestRouted, LoadInv
  <1> QED BY <1>1, <1>2, <1>4, <1>5, <1>6, <1>7

(* rmw_send_request loads the generation, and with it what is up and gone.  *)
LEMMA RouteBegin ==
  ASSUME RouteInv, NEW c \in Clients, SendBegin(c) PROVE RouteInv'
  <1> USE DEF RouteInv, RouteType, regVars, sendVars, avVars, cacheVars, Endpoints
  <1>1. CASE UNCHANGED <<cpc, cgen, upAtLoad, goneAtLoad>>
    BY <1>1 DEF SendBegin, GenInv, LoadInv, FreshInv, PendingInv, RequestRouted, Serves
  <1>2. CASE /\ cpc' = [cpc EXCEPT ![c] = "refresh"]
             /\ cgen' = [cgen EXCEPT ![c] = generation]
             /\ upAtLoad' = [upAtLoad EXCEPT ![c] = {s \in Services : life[s] = "up"}]
             /\ goneAtLoad' = [goneAtLoad EXCEPT ![c] = {s \in Services : life[s] = "gone"}]
    <2>1. RouteType' /\ GenInv'
      BY <1>2 DEF SendBegin, GenInv
    <2>2. LoadInv'
      BY <1>2 DEF SendBegin, LoadInv, WasUp
    <2>3. FreshInv'
      BY <1>2 DEF SendBegin, FreshInv, Serves
    <2>4. PendingInv'
      BY <1>2 DEF SendBegin, FreshInv, PendingInv, Serves
    <2>5. RequestRouted'
      BY <1>2 DEF SendBegin, RequestRouted
    <2> QED BY <2>1, <2>2, <2>3, <2>4, <2>5
  <1> QED BY <1>1, <1>2 DEF SendBegin

(* The cache after a refresh by either thread, for a generation that was    *)
(* loaded before.                                                           *)
LEMMA RouteRefresh ==
  ASSUME RouteInv, NEW c \in Clients, NEW g \in Nat, g <= generation, Refresh(c, g),
         UNCHANGED <<life, generation, upAtLoad, goneAtLoad>>
  PROVE  /\ cached_path' \in [Clients -> Services \cup {NoService}]
         /\ cached_generation' \in [Clients -> Nat] /\ cached_path'[c] = Refreshed(c, g)
         /\ \A d \in Clients : cached_generation'[d] <= generation
         /\ FreshInv'
         /\ \A d \in Clients : cpc[d] = "refresh" /\ cached_generation'[d] = cgen[d] =>
               Serves(cached_path'[d], upAtLoad[d], goneAtLoad[d])
         /\ \A d \in Clients \ {c} : /\ cached_generation'[d] = cached_generation[d]
                                     /\ cached_path'[d] = cached_path[d]
  <1> USE DEF RouteInv, RouteType
  <1> DEFINE p == Refreshed(c, g)
  <1>1. /\ p \in Services \cup {NoService}
        /\ g = cached_generation[c] => p = cached_path[c]
        /\ g # cached_generation[c] =>
             \A up \in SUBSET Services, gone \in SUBSET Services :
               (\A s \in gone : life[s] = "gone") => Serves(p, up, gone)
    BY RefreshedPath
  <1> HIDE DEF p
  <1>2. /\ cached_path' = [cached_path EXCEPT ![c] = p]
        /\ cached_generation' = [cached_generation EXCEPT ![c] = g]
    BY DEF Refresh, p
  <1>3. \A d \in Clients \ {c} : /\ cached_generation'[d] = cached_generation[d]
                                 /\ cached_path'[d] = cached_path[d]
    BY <1>2
  <1>4. cached_path'[c] = p /\ cached_generation'[c] = g
    BY <1>2
  <1>5. Serves(p, Services, {s \in Services : life[s] = "gone"}) \/ g # generation
    BY <1>1 DEF FreshInv
  <1>6. FreshInv'
    <2> SUFFICES ASSUME NEW d \in Clients, cached_generation'[d] = generation
                 PROVE  Serves(cached_path'[d], Services, {s \in Services : life[s] = "gone"})
      BY DEF FreshInv, Serves
    <2> QED BY <1>3, <1>4, <1>5 DEF FreshInv
  <1>7. ASSUME NEW d \in Clients, cpc[d] = "refresh", cached_generation'[d] = cgen[d]
        PROVE  Serves(cached_path'[d], upAtLoad[d], goneAtLoad[d])
    <2>1. CASE d # c
      BY <2>1, <1>3, <1>7 DEF PendingInv
    <2>2. CASE d = c /\ g = cached_generation[c]
      BY <2>2, <1>1, <1>4, <1>7 DEF PendingInv
    <2>3. CASE d = c /\ g # cached_generation[c]
      BY <2>3, <1>1, <1>4 DEF LoadInv
    <2> QED BY <2>1, <2>2, <2>3
  <1> QED BY <1>1, <1>2, <1>3, <1>4, <1>6, <1>7 DEF p, GenInv

(* The request takes the refreshed path.                                    *)
LEMMA RouteSendRefresh ==
  ASSUME RouteInv, NEW c \in Clients, SendRefresh(c) PROVE RouteInv'
  <1> USE DEF RouteInv, RouteType, regVars, avVars
  <1>0. cgen[c] \in Nat /\ cgen[c] <= generation
    BY DEF GenInv
  <1>1. /\ Refresh(c, cgen[c]) /\ cpc[c] = "refresh" /\ cpc' = [cpc EXCEPT ![c] = "send"]
        /\ path' = [path EXCEPT ![c] = Refreshed(c, cgen[c])]
        /\ cgen' = [cgen EXCEPT ![c] = 0]
        /\ UNCHANGED <<life, generation, upAtLoad, goneAtLoad, agen>>
    BY DEF SendRefresh
  <1>2. /\ cached_path' \in [Clients -> Services \cup {NoService}]
        /\ cached_generation' \in [Clients -> Nat] /\ cached_path'[c] = Refreshed(c, cgen[c])
        /\ \A d \in Clients : cached_generation'[d] <= generation
        /\ FreshInv'
        /\ \A d \in Clients : cpc[d] = "refresh" /\ cached_generation'[d] = cgen[d] =>
              Serves(cached_path'[d], upAtLoad[d], goneAtLoad[d])
        /\ \A d \in Clients \ {c} : /\ cached_generation'[d] = cached_generation[d]
                                    /\ cached_path'[d] = cached_path[d]
    BY <1>0, <1>1, RouteRefresh
  <1>3. cached_generation'[c] = cgen[c]
    BY <1>1 DEF Refresh
  <1>4. RouteType' /\ GenInv'
    <2>1. Refreshed(c, cgen[c]) \in Services \cup {NoService}
      BY <1>2
    <2>2. path' \in [Clients -> Services \cup {NoService}] /\ cgen' \in [Clients -> Nat]
      BY <1>1, <2>1
    <2>3. RouteType'
      BY <1>1, <1>2, <2>2
    <2>4. \A d \in Clients : cgen'[d] <= generation
      BY <1>1 DEF GenInv
    <2>5. GenInv'
      BY <1>1, <1>2, <2>4 DEF GenInv
    <2> QED BY <2>3, <2>5
  <1>5. LoadInv'
    BY <1>1 DEF LoadInv
  <1>6. PendingInv'
    BY <1>1, <1>2 DEF PendingInv, Serves
  <1>7. Serves(Refreshed(c, cgen[c]), upAtLoad[c], goneAtLoad[c])
    BY <1>1, <1>2, <1>3
  <1>8. RequestRouted'
    BY <1>1, <1>7 DEF RequestRouted, Serves
  <1> QED BY <1>2, <1>4, <1>5, <1>6, <1>8

(* rmw_service_server_is_available refreshes the same cache.                *)
LEMMA RouteAvailable ==
  ASSUME RouteInv, NEW c \in Clients, AvailableRefresh(c) PROVE RouteInv'
  <1> USE DEF RouteInv, RouteType, regVars, sendVars
  <1>0. agen[c] \in Nat /\ agen[c] <= generation
    BY DEF GenInv
  <1>1. /\ Refresh(c, agen[c]) /\ agen' = [agen EXCEPT ![c] = 0]
        /\ UNCHANGED <<life, generation, upAtLoad, goneAtLoad, cpc, cgen, path>>
    BY DEF AvailableRefresh
  <1>2. /\ cached_path' \in [Clients -> Services \cup {NoService}]
        /\ cached_generation' \in [Clients -> Nat]
        /\ \A d \in Clients : cached_generation'[d] <= generation
        /\ FreshInv'
        /\ \A d \in Clients : cpc[d] = "refresh" /\ cached_generation'[d] = cgen[d] =>
              Serves(cached_path'[d], upAtLoad[d], goneAtLoad[d])
    BY <1>0, <1>1, RouteRefresh
  <1>3. RouteType' /\ GenInv'
    <2>1. RouteType'
      BY <1>1, <1>2
    <2>2. \A d \in Clients : agen'[d] <= generation
      BY <1>1 DEF GenInv
    <2>3. GenInv'
      BY <1>1, <1>2, <2>2 DEF GenInv
    <2> QED BY <2>1, <2>3
  <1>4. LoadInv' /\ RequestRouted'
    BY <1>1 DEF LoadInv, RequestRouted
  <1>5. PendingInv'
    BY <1>1, <1>2 DEF PendingInv, Serves
  <1> QED BY <1>2, <1>3, <1>4, <1>5

(* Every step keeps RouteInv.                                               *)
LEMMA NextRoute == ASSUME RouteInv, [Next]_vars PROVE RouteInv'
  <1>1. ASSUME NEW e \in Endpoints,
               Publish(e) \/ Announce(e) \/ Unlist(e) \/ Unlink(e) \/ Close(e)
        PROVE  RouteInv'
    BY <1>1, RouteLife DEF Publish, Announce, Unlist, Unlink, Close, avVars
  <1>2. ASSUME NEW e \in Endpoints,
               \/ WaitDrain(e) \/ TakeBegin(e) \/ TakeDrain(e) \/ TakeNothing(e)
               \/ TakeGarbage(e)
        PROVE  RouteInv'
    BY <1>2, RouteSame DEF WaitDrain, TakeBegin, TakeDrain, TakeNothing, TakeGarbage, avVars
  <1>3. ASSUME NEW c \in Clients, SendBegin(c) PROVE RouteInv'
    BY <1>3, RouteBegin
  <1>4. ASSUME NEW c \in Clients, SendRefresh(c) PROVE RouteInv'
    BY <1>4, RouteSendRefresh
  <1>5. ASSUME NEW c \in Clients, SendRequest(c) PROVE RouteInv'
    BY <1>5, ServiceClientAssumption DEF SendRequest, RouteInv, RouteType, GenInv, LoadInv, FreshInv, PendingInv,
       RequestRouted, Serves, regVars, avVars, cacheVars
  <1>6. ASSUME NEW c \in Clients, TakeResponse(c) PROVE RouteInv'
    BY <1>6, RouteSame DEF TakeResponse, PopFront, avVars
  <1>7. ASSUME NEW c \in Clients, AvailableBegin(c) PROVE RouteInv'
    BY <1>7 DEF AvailableBegin, RouteInv, RouteType, GenInv, LoadInv, FreshInv, PendingInv,
       RequestRouted, Serves, regVars, sendVars, cacheVars
  <1>8. ASSUME NEW c \in Clients, AvailableRefresh(c) PROVE RouteInv'
    BY <1>8, RouteAvailable
  <1>9. ASSUME NEW s \in Services, TakeRequest(s) PROVE RouteInv'
    BY <1>9, RouteSame DEF TakeRequest, PopFront, avVars
  <1>10. ASSUME NEW s \in Services, NEW r \in held[s], RespondBegin(s, r) PROVE RouteInv'
    BY <1>10, RouteSame DEF RespondBegin, avVars
  <1>11. ASSUME NEW s \in Services, RespondRefresh(s) PROVE RouteInv'
    BY <1>11, RouteSame DEF RespondRefresh, avVars
  <1>12. ASSUME NEW s \in Services, Respond(s) \/ RespondGone(s) PROVE RouteInv'
    BY <1>12, RouteSame DEF Respond, RespondGone, Answered, avVars
  <1>13. CASE UNCHANGED vars
    BY <1>13, RouteSame DEF vars, avVars
  <1> QED BY <1>1, <1>2, <1>3, <1>4, <1>5, <1>6, <1>7, <1>8, <1>9, <1>10, <1>11, <1>12, <1>13
      DEF Next, CreateStep, DestroyStep, TakeStep, SendStep, RespondStep

(* A request is sent to no server whose removal was announced before        *)
(* rmw_send_request loaded the generation, and to some server when one was  *)
(* announced before and still is, although rmw_service_server_is_available  *)
(* refreshes the same cache from another thread between the load and the    *)
(* use (rmw_client.cpp, refresh of the service cache).                      *)
THEOREM RequestsRouted == Spec => []RequestRouted
  <1>1. RouteInv /\ [Next]_vars => RouteInv'
    BY NextRoute
  <1>2. RouteInv => RequestRouted
    BY DEF RouteInv
  <1> QED BY InitRoute, <1>1, <1>2, PTL DEF Spec

-----------------------------------------------------------------------------
(* Where messages are: a request or the response to it is in one place at a *)
(* time, on its way from the client to a server and back.                   *)

Elems(q)    == {q[i] : i \in DOMAIN q}
Distinct(q) == \A i, j \in DOMAIN q : q[i] = q[j] => i = j

Kinds  == {"sock", "queue", "held", "answer", "responses"}
Places == Kinds \X Endpoints

Contents ==
  [p \in Places |->
     CASE p[1] = "sock"      -> Elems(sock[p[2]])
       [] p[1] = "queue"     -> Elems(queue[p[2]])
       [] p[1] = "held"      -> IF p[2] \in Services THEN held[p[2]] ELSE {}
       [] p[1] = "answer"    -> IF p[2] \in Services THEN {answer[p[2]]} \ {NoRequest} ELSE {}
       [] p[1] = "responses" -> IF p[2] \in Clients THEN Elems(responses[p[2]]) ELSE {}]

Unique(F) == \A p, q \in Places : p # q => F[p] \cap F[q] = {}

(* One message leaves a place for another.                                  *)
Moves(F, G, m, a, b) ==
  /\ G[a] \subseteq F[a] \ {m} /\ G[b] \subseteq F[b] \cup {m}
  /\ \A p \in Places \ {a, b} : G[p] \subseteq F[p]

(* Requests whose number is below this one have been sent.                  *)
Begun(c) == IF cpc[c] = "idle" THEN next_seq[c] ELSE next_seq[c] - 1

MsgType ==
  /\ next_seq \in [Clients -> 1 .. MaxRequests + 1]
  /\ sock \in [Endpoints -> Seq(Requests)] /\ queue \in [Endpoints -> Seq(Requests)]
  /\ held \in [Services -> SUBSET Requests]
  /\ spc \in [Services -> {"idle", "refresh", "match"}]
  /\ answer \in [Services -> Requests \cup {NoRequest}]
  /\ responses \in [Clients -> Seq(Requests)]

(* A server that answers has a request to answer, and a client that sends   *)
(* has taken a number for it.                                               *)
AnswerInv ==
  /\ \A s \in Services : spc[s] # "idle" => answer[s] \in Requests
  /\ \A c \in Clients : cpc[c] # "idle" => next_seq[c] > 1

(* What reaches a client answers that client.                               *)
AddrInv ==
  \A c \in Clients :
    \A m \in Elems(sock[c]) \cup Elems(queue[c]) \cup Elems(responses[c]) : m.c = c

NumberInv == \A p \in Places : \A m \in Contents[p] : m.n < Begun(m.c)

DistinctInv ==
  /\ \A e \in Endpoints : Distinct(sock[e]) /\ Distinct(queue[e])
  /\ \A c \in Clients : Distinct(responses[c])

MsgInv == MsgType /\ AnswerInv /\ AddrInv /\ NumberInv /\ DistinctInv /\ Unique(Contents)

(* What is at each place, before and after a step.                          *)
LEMMA ContentsAt ==
  \A e \in Endpoints :
    /\ Contents[<<"sock", e>>] = Elems(sock[e])
    /\ Contents[<<"queue", e>>] = Elems(queue[e])
    /\ Contents[<<"held", e>>] = (IF e \in Services THEN held[e] ELSE {})
    /\ Contents[<<"answer", e>>] = (IF e \in Services THEN {answer[e]} \ {NoRequest} ELSE {})
    /\ Contents[<<"responses", e>>] = (IF e \in Clients THEN Elems(responses[e]) ELSE {})
    /\ Contents'[<<"sock", e>>] = Elems(sock'[e])
    /\ Contents'[<<"queue", e>>] = Elems(queue'[e])
    /\ Contents'[<<"held", e>>] = (IF e \in Services THEN held'[e] ELSE {})
    /\ Contents'[<<"answer", e>>] = (IF e \in Services THEN {answer'[e]} \ {NoRequest} ELSE {})
    /\ Contents'[<<"responses", e>>] = (IF e \in Clients THEN Elems(responses'[e]) ELSE {})
  <1> SUFFICES ASSUME NEW e \in Endpoints
               PROVE  /\ Contents[<<"sock", e>>] = Elems(sock[e])
                      /\ Contents[<<"queue", e>>] = Elems(queue[e])
                      /\ Contents[<<"held", e>>] = (IF e \in Services THEN held[e] ELSE {})
                      /\ Contents[<<"answer", e>>] =
                           (IF e \in Services THEN {answer[e]} \ {NoRequest} ELSE {})
                      /\ Contents[<<"responses", e>>] =
                           (IF e \in Clients THEN Elems(responses[e]) ELSE {})
                      /\ Contents'[<<"sock", e>>] = Elems(sock'[e])
                      /\ Contents'[<<"queue", e>>] = Elems(queue'[e])
                      /\ Contents'[<<"held", e>>] = (IF e \in Services THEN held'[e] ELSE {})
                      /\ Contents'[<<"answer", e>>] =
                           (IF e \in Services THEN {answer'[e]} \ {NoRequest} ELSE {})
                      /\ Contents'[<<"responses", e>>] =
                           (IF e \in Clients THEN Elems(responses'[e]) ELSE {})
    OBVIOUS
  <1>1. \A k \in Kinds : <<k, e>> \in Places /\ <<k, e>>[1] = k /\ <<k, e>>[2] = e
    BY DEF Places
  <1> QED BY <1>1 DEF Contents, Kinds

(* There are no other places.                                               *)
LEMMA PlaceCases ==
  \A p \in Places : \E e \in Endpoints :
    \/ p = <<"sock", e>> \/ p = <<"queue", e>> \/ p = <<"held", e>>
    \/ p = <<"answer", e>> \/ p = <<"responses", e>>
  BY DEF Places, Kinds

(* Sequences: what joining the end and leaving the front do.                *)
LEMMA AppendElems ==
  ASSUME NEW q \in Seq(Requests), NEW m \in Requests
  PROVE  /\ Append(q, m) \in Seq(Requests) /\ Elems(Append(q, m)) = Elems(q) \cup {m}
         /\ Distinct(q) /\ m \notin Elems(q) => Distinct(Append(q, m))
  <1>1. /\ Append(q, m) \in Seq(Requests) /\ DOMAIN Append(q, m) = 1 .. Len(q) + 1
        /\ DOMAIN q = 1 .. Len(q) /\ Len(q) \in Nat
        /\ \A i \in 1 .. Len(q) : Append(q, m)[i] = q[i]
        /\ Append(q, m)[Len(q) + 1] = m
    OBVIOUS
  <1>2. Elems(Append(q, m)) = Elems(q) \cup {m}
    BY <1>1 DEF Elems
  <1>3. Distinct(q) /\ m \notin Elems(q) => Distinct(Append(q, m))
    BY <1>1 DEF Elems, Distinct
  <1> QED BY <1>1, <1>2, <1>3

(* The front of a queue is one of its elements, and in a queue of distinct  *)
(* elements it is not among the rest.                                       *)
LEMMA TailElems ==
  ASSUME NEW q \in Seq(Requests), q # <<>>
  PROVE  /\ Head(q) \in Elems(q) /\ Head(q) \in Requests /\ Tail(q) \in Seq(Requests)
         /\ Elems(Tail(q)) \subseteq Elems(q)
         /\ Distinct(q) => Distinct(Tail(q)) /\ Head(q) \notin Elems(Tail(q))
  <1>1. /\ Tail(q) \in Seq(Requests) /\ DOMAIN q = 1 .. Len(q) /\ Len(q) \in Nat \ {0}
        /\ DOMAIN Tail(q) = 1 .. Len(q) - 1 /\ Head(q) = q[1] /\ Head(q) \in Requests
        /\ \A i \in 1 .. Len(q) - 1 : Tail(q)[i] = q[i + 1]
    OBVIOUS
  <1>2. Head(q) \in Elems(q) /\ Elems(Tail(q)) \subseteq Elems(q)
    BY <1>1 DEF Elems
  <1>3. Distinct(q) => Distinct(Tail(q)) /\ Head(q) \notin Elems(Tail(q))
    BY <1>1 DEF Elems, Distinct
  <1> QED BY <1>1, <1>2, <1>3

(* The elements of a sequence have its type.                                *)
LEMMA ElemsType ==
  ASSUME NEW q \in Seq(Requests) PROVE Elems(q) \subseteq Requests
  BY DEF Elems

(* Every message is a request.                                              *)
LEMMA ContentsType == ASSUME MsgType PROVE \A p \in Places : Contents[p] \subseteq Requests
  <1> SUFFICES ASSUME NEW p \in Places PROVE Contents[p] \subseteq Requests
    OBVIOUS
  <1>1. PICK e \in Endpoints :
          \/ p = <<"sock", e>> \/ p = <<"queue", e>> \/ p = <<"held", e>>
          \/ p = <<"answer", e>> \/ p = <<"responses", e>>
    BY PlaceCases
  <1>2. Elems(sock[e]) \subseteq Requests /\ Elems(queue[e]) \subseteq Requests
    BY ElemsType DEF MsgType
  <1>3. e \in Clients => Elems(responses[e]) \subseteq Requests
    BY ElemsType DEF MsgType
  <1>4. /\ Contents[<<"sock", e>>] = Elems(sock[e]) /\ Contents[<<"queue", e>>] = Elems(queue[e])
        /\ Contents[<<"held", e>>] = (IF e \in Services THEN held[e] ELSE {})
        /\ Contents[<<"answer", e>>] =
             (IF e \in Services THEN {answer[e]} \ {NoRequest} ELSE {})
        /\ Contents[<<"responses", e>>] = (IF e \in Clients THEN Elems(responses[e]) ELSE {})
    BY ContentsAt, Zenon
  <1>5. e \in Services => held[e] \subseteq Requests /\ {answer[e]} \ {NoRequest} \subseteq Requests
    BY DEF MsgType
  <1>6. CASE p = <<"sock", e>> \/ p = <<"queue", e>>
    BY <1>2, <1>4, <1>6
  <1>7. CASE p = <<"held", e>> \/ p = <<"answer", e>> \/ p = <<"responses", e>>
    BY <1>3, <1>4, <1>5, <1>7
  <1> QED BY <1>1, <1>6, <1>7

(* What a step leaves alone.                                                *)
LEMMA Frame ==
  ASSUME NEW A \in SUBSET Places,
         \A d \in Endpoints : <<"sock", d>> \notin A => sock'[d] = sock[d],
         \A d \in Endpoints : <<"queue", d>> \notin A => queue'[d] = queue[d],
         \A d \in Services : <<"held", d>> \notin A => held'[d] = held[d],
         \A d \in Services : <<"answer", d>> \notin A => answer'[d] = answer[d],
         \A d \in Clients : <<"responses", d>> \notin A => responses'[d] = responses[d]
  PROVE  \A p \in Places \ A : Contents'[p] \subseteq Contents[p]
  <1> SUFFICES ASSUME NEW p \in Places \ A PROVE Contents'[p] = Contents[p]
    OBVIOUS
  <1>1. PICK d \in Endpoints :
          \/ p = <<"sock", d>> \/ p = <<"queue", d>> \/ p = <<"held", d>>
          \/ p = <<"answer", d>> \/ p = <<"responses", d>>
    BY PlaceCases
  <1>2. CASE p = <<"sock", d>>
    <2>1. Contents[p] = Elems(sock[d]) /\ Contents'[p] = Elems(sock'[d])
      BY <1>2, ContentsAt, Zenon
    <2> QED BY <1>2, <2>1
  <1>3. CASE p = <<"queue", d>>
    <2>1. Contents[p] = Elems(queue[d]) /\ Contents'[p] = Elems(queue'[d])
      BY <1>3, ContentsAt, Zenon
    <2> QED BY <1>3, <2>1
  <1>4. CASE p = <<"held", d>>
    <2>1. /\ Contents[p] = (IF d \in Services THEN held[d] ELSE {})
          /\ Contents'[p] = (IF d \in Services THEN held'[d] ELSE {})
      BY <1>4, ContentsAt, Zenon
    <2> QED BY <1>4, <2>1
  <1>5. CASE p = <<"answer", d>>
    <2>1. /\ Contents[p] = (IF d \in Services THEN {answer[d]} \ {NoRequest} ELSE {})
          /\ Contents'[p] = (IF d \in Services THEN {answer'[d]} \ {NoRequest} ELSE {})
      BY <1>5, ContentsAt, Zenon
    <2> QED BY <1>5, <2>1
  <1>6. CASE p = <<"responses", d>>
    <2>1. /\ Contents[p] = (IF d \in Clients THEN Elems(responses[d]) ELSE {})
          /\ Contents'[p] = (IF d \in Clients THEN Elems(responses'[d]) ELSE {})
      BY <1>6, ContentsAt, Zenon
    <2> QED BY <1>6, <2>1
  <1> QED BY <1>1, <1>2, <1>3, <1>4, <1>5, <1>6

(* Numbers are not taken back.                                              *)
Onward == \A c \in Clients : Begun(c) \in Int /\ Begun(c)' \in Int /\ Begun(c) <= Begun(c)'

(* A step that takes no number and begins or ends no send.                  *)
LEMMA OnwardSame ==
  ASSUME MsgType, UNCHANGED <<cpc, next_seq>> PROVE Onward
  BY ServiceClientAssumption DEF Onward, Begun, MsgType

(* Messages that stay or are lost.                                          *)
LEMMA LessUnique ==
  ASSUME MsgInv, Onward, \A p \in Places : Contents'[p] \subseteq Contents[p]
  PROVE  Unique(Contents') /\ NumberInv'
  <1>1. Unique(Contents')
    BY DEF MsgInv, Unique
  <1>2. ASSUME NEW p \in Places, NEW x \in Contents'[p] PROVE x.n < Begun(x.c)'
    <2>1. x \in Requests /\ x.n < Begun(x.c)
      BY <1>2, ContentsType DEF MsgInv, NumberInv
    <2>2. x.c \in Clients /\ x.n \in Int
      BY <2>1 DEF Requests
    <2> QED BY <2>1, <2>2 DEF Onward
  <1> QED BY <1>1, <1>2 DEF NumberInv

(* A message that moves stays in one place.                                 *)
LEMMA MoveUnique ==
  ASSUME MsgInv, Onward, NEW a \in Places, NEW b \in Places, a # b, NEW m \in Contents[a],
         Moves(Contents, Contents', m, a, b)
  PROVE  Unique(Contents') /\ NumberInv'
  <1>1. \A p \in Places \ {b} : m \notin Contents'[p] /\ Contents'[p] \subseteq Contents[p]
    BY DEF MsgInv, Unique, Moves
  <1>2. Contents'[b] \subseteq Contents[b] \cup {m}
    BY DEF Moves
  <1>3. Unique(Contents')
    BY <1>1, <1>2 DEF MsgInv, Unique
  <1>4. ASSUME NEW p \in Places, NEW x \in Contents'[p] PROVE x.n < Begun(x.c)'
    <2>1. PICK q \in Places : x \in Contents[q]
      BY <1>1, <1>2, <1>4
    <2>2. x \in Requests /\ x.n < Begun(x.c)
      BY <2>1, ContentsType DEF MsgInv, NumberInv
    <2>3. x.c \in Clients /\ x.n \in Int
      BY <2>2 DEF Requests
    <2> QED BY <2>2, <2>3 DEF Onward
  <1> QED BY <1>3, <1>4 DEF NumberInv

(* Nothing is sent yet.                                                     *)
LEMMA InitMsg == Init => MsgInv
  <1> SUFFICES ASSUME Init PROVE MsgInv
    OBVIOUS
  <1>0. \A q : q = <<>> => q \in Seq(Requests) /\ Elems(q) = {} /\ Distinct(q)
    BY DEF Elems, Distinct
  <1>1. MsgType
    BY ServiceClientAssumption DEF Init, MsgType
  <1>2. AnswerInv
    BY DEF Init, AnswerInv
  <1>3. AddrInv /\ DistinctInv
    BY <1>0 DEF Init, AddrInv, DistinctInv, Endpoints
  <1>4. ASSUME NEW p \in Places PROVE Contents[p] = {}
    <2>1. PICK e \in Endpoints :
            \/ p = <<"sock", e>> \/ p = <<"queue", e>> \/ p = <<"held", e>>
            \/ p = <<"answer", e>> \/ p = <<"responses", e>>
      BY PlaceCases
    <2> QED BY <2>1, <1>0, ContentsAt DEF Init
  <1>5. NumberInv /\ Unique(Contents)
    BY <1>4 DEF NumberInv, Unique
  <1> QED BY <1>1, <1>2, <1>3, <1>5 DEF MsgInv

(* Steps that leave every message where it is.                              *)
LEMMA MsgSame ==
  ASSUME MsgInv, UNCHANGED <<sock, queue, held, answer, responses>>, Onward, MsgType', AnswerInv'
  PROVE  MsgInv'
  <1>1. AddrInv' /\ DistinctInv'
    BY DEF MsgInv, AddrInv, DistinctInv
  <1>2. Contents' = Contents
    BY DEF Contents
  <1>3. Unique(Contents') /\ NumberInv'
    BY <1>2, LessUnique
  <1> QED BY <1>1, <1>3 DEF MsgInv, Unique

(* A drain moves the front of the socket to the queue, which may lose its   *)
(* own front.                                                               *)
LEMMA MsgDrain ==
  ASSUME MsgInv, NEW e \in Endpoints, sock[e] # <<>>,
         \/ queue' = [queue EXCEPT ![e] = Append(@, Head(sock[e]))]
         \/ queue' = [queue EXCEPT ![e] = Tail(Append(@, Head(sock[e])))],
         sock' = [sock EXCEPT ![e] = Tail(@)],
         UNCHANGED <<held, answer, responses, spc, cpc, next_seq>>
  PROVE  MsgInv'
  <1> DEFINE m == Head(sock[e])
             q == Append(queue[e], m)
             a == <<"sock", e>>
             b == <<"queue", e>>
  <1>0. sock[e] \in Seq(Requests) /\ queue[e] \in Seq(Requests)
    BY DEF MsgInv, MsgType
  <1>1. a \in Places /\ b \in Places /\ a # b
    BY DEF Places, Kinds
  <1>2. /\ m \in Elems(sock[e]) /\ m \in Requests /\ Tail(sock[e]) \in Seq(Requests)
        /\ Elems(Tail(sock[e])) \subseteq Elems(sock[e]) \ {m} /\ Distinct(Tail(sock[e]))
    BY <1>0, TailElems DEF MsgInv, DistinctInv
  <1>a. /\ Contents[a] = Elems(sock[e]) /\ Contents[b] = Elems(queue[e])
        /\ Contents'[a] = Elems(sock'[e]) /\ Contents'[b] = Elems(queue'[e])
    BY ContentsAt, Zenon
  <1> HIDE DEF a, b
  <1>3. m \in Contents[a] /\ m \notin Contents[b] /\ m \notin Elems(queue[e])
    BY <1>1, <1>2, <1>a DEF MsgInv, Unique
  <1>4. q \in Seq(Requests) /\ Elems(q) = Elems(queue[e]) \cup {m} /\ Distinct(q) /\ q # <<>>
    <2>1. Distinct(queue[e])
      BY DEF MsgInv, DistinctInv
    <2>2. q \in Seq(Requests) /\ Elems(q) = Elems(queue[e]) \cup {m} /\ Distinct(q)
      BY <1>0, <1>2, <1>3, <2>1, AppendElems
    <2>3. Len(q) = Len(queue[e]) + 1 /\ Len(queue[e]) \in Nat
      BY <1>0
    <2>4. q # <<>>
      BY <2>3
    <2> QED BY <2>2, <2>4
  <1>5. /\ Tail(q) \in Seq(Requests) /\ Distinct(Tail(q))
        /\ Elems(Tail(q)) \subseteq Elems(queue[e]) \cup {m}
    BY <1>4, TailElems
  <1>6. PICK r \in Seq(Requests) : /\ queue' = [queue EXCEPT ![e] = r] /\ Distinct(r)
                                   /\ Elems(r) \subseteq Elems(queue[e]) \cup {m}
    BY <1>4, <1>5
  <1> HIDE DEF m, q
  <1>7. /\ \A d \in Endpoints \ {e} : sock'[d] = sock[d] /\ queue'[d] = queue[d]
        /\ sock'[e] = Tail(sock[e]) /\ queue'[e] = r
    BY <1>6 DEF MsgInv, MsgType
  <1>8. MsgType' /\ AnswerInv' /\ Onward
    BY <1>2, <1>6, OnwardSame DEF MsgInv, MsgType, AnswerInv
  <1>9. DistinctInv'
    BY <1>2, <1>6, <1>7 DEF MsgInv, DistinctInv
  <1>10. AddrInv'
    BY <1>2, <1>6, <1>7 DEF MsgInv, AddrInv
  <1>11. Moves(Contents, Contents', m, a, b)
    <2>1. Contents'[a] \subseteq Contents[a] \ {m} /\ Contents'[b] \subseteq Contents[b] \cup {m}
      BY <1>2, <1>6, <1>7, <1>a
    <2>2. \A p \in Places \ {a, b} : Contents'[p] \subseteq Contents[p]
      <3>1. \A d \in Endpoints : <<"sock", d>> \notin {a, b} => sock'[d] = sock[d]
        BY <1>7 DEF a
      <3>2. \A d \in Endpoints : <<"queue", d>> \notin {a, b} => queue'[d] = queue[d]
        BY <1>7 DEF b
      <3> QED BY <1>1, <3>1, <3>2, Frame
    <2> QED BY <2>1, <2>2 DEF Moves
  <1>12. Unique(Contents') /\ NumberInv'
    BY <1>1, <1>3, <1>8, <1>11, MoveUnique
  <1> QED BY <1>8, <1>9, <1>10, <1>12 DEF MsgInv, Unique

(* Close empties an endpoint, and a take drops what it cannot deserialise.  *)
LEMMA MsgLost ==
  ASSUME MsgInv, NEW e \in Endpoints,
         \/ sock' = [sock EXCEPT ![e] = <<>>] /\ queue' = [queue EXCEPT ![e] = <<>>]
         \/ queue[e] # <<>> /\ queue' = [queue EXCEPT ![e] = Tail(@)] /\ UNCHANGED sock,
         UNCHANGED <<held, answer, responses, spc, cpc, next_seq>>
  PROVE  MsgInv'
  <1>0. sock[e] \in Seq(Requests) /\ queue[e] \in Seq(Requests)
    BY DEF MsgInv, MsgType
  <1>1. Distinct(sock[e]) /\ Distinct(queue[e])
    BY DEF MsgInv, DistinctInv
  <1>2. <<>> \in Seq(Requests) /\ Distinct(<<>>) /\ Elems(<<>>) = {}
    BY DEF Distinct, Elems
  <1>3. PICK x \in Seq(Requests), r \in Seq(Requests) :
          /\ sock' = [sock EXCEPT ![e] = x] /\ queue' = [queue EXCEPT ![e] = r]
          /\ Distinct(x) /\ Elems(x) \subseteq Elems(sock[e])
          /\ Distinct(r) /\ Elems(r) \subseteq Elems(queue[e])
    <2>1. CASE sock' = [sock EXCEPT ![e] = <<>>] /\ queue' = [queue EXCEPT ![e] = <<>>]
      BY <2>1, <1>2
    <2>2. CASE queue[e] # <<>> /\ queue' = [queue EXCEPT ![e] = Tail(@)] /\ UNCHANGED sock
      <3>1. sock' = [sock EXCEPT ![e] = sock[e]]
        BY <2>2 DEF MsgInv, MsgType
      <3>2. /\ Tail(queue[e]) \in Seq(Requests) /\ Distinct(Tail(queue[e]))
            /\ Elems(Tail(queue[e])) \subseteq Elems(queue[e])
        BY <2>2, <1>0, <1>1, TailElems
      <3> QED BY <2>2, <3>1, <3>2, <1>0, <1>1
    <2> QED BY <2>1, <2>2
  <1>4. /\ \A d \in Endpoints \ {e} : sock'[d] = sock[d] /\ queue'[d] = queue[d]
        /\ sock'[e] = x /\ queue'[e] = r
    BY <1>3 DEF MsgInv, MsgType
  <1>5. MsgType' /\ AnswerInv' /\ Onward
    BY <1>3, OnwardSame DEF MsgInv, MsgType, AnswerInv
  <1>6. DistinctInv'
    BY <1>3, <1>4 DEF MsgInv, DistinctInv
  <1>7. AddrInv'
    BY <1>3, <1>4 DEF MsgInv, AddrInv
  <1>8. \A p \in Places : Contents'[p] \subseteq Contents[p]
    <2> DEFINE a == <<"sock", e>>
               b == <<"queue", e>>
    <2>1. a \in Places /\ b \in Places
      BY DEF Places, Kinds
    <2>2. \A p \in Places \ {a, b} : Contents'[p] \subseteq Contents[p]
      <3>1. \A d \in Endpoints : <<"sock", d>> \notin {a, b} => sock'[d] = sock[d]
        BY <1>4
      <3>2. \A d \in Endpoints : <<"queue", d>> \notin {a, b} => queue'[d] = queue[d]
        BY <1>4
      <3> HIDE DEF a, b
      <3> QED BY <2>1, <3>1, <3>2, Frame
    <2>3. /\ Contents[a] = Elems(sock[e]) /\ Contents[b] = Elems(queue[e])
          /\ Contents'[a] = Elems(sock'[e]) /\ Contents'[b] = Elems(queue'[e])
      BY ContentsAt, Zenon
    <2> HIDE DEF a, b
    <2> QED BY <1>3, <1>4, <2>2, <2>3
  <1>9. Unique(Contents') /\ NumberInv'
    BY <1>5, <1>8, LessUnique
  <1> QED BY <1>5, <1>6, <1>7, <1>9 DEF MsgInv, Unique

(* rmw_take_request and rmw_take_response hand the front of the queue to    *)
(* the application.                                                         *)
LEMMA MsgTakeRequest ==
  ASSUME MsgInv, NEW s \in Services, TakeRequest(s) PROVE MsgInv'
  <1> DEFINE m == Head(queue[s])
             a == <<"queue", s>>
             b == <<"held", s>>
  <1>0. /\ queue[s] # <<>> /\ queue' = [queue EXCEPT ![s] = Tail(@)]
        /\ held' = [held EXCEPT ![s] = @ \cup {m}]
        /\ UNCHANGED <<sock, answer, responses, spc, cpc, next_seq>>
    BY DEF TakeRequest, PopFront, sendVars
  <1>1. a \in Places /\ b \in Places /\ a # b /\ s \in Endpoints
    BY DEF Places, Kinds, Endpoints
  <1>2. queue[s] \in Seq(Requests) /\ Distinct(queue[s])
    BY <1>1 DEF MsgInv, MsgType, DistinctInv
  <1>3. /\ m \in Elems(queue[s]) /\ m \in Requests /\ Tail(queue[s]) \in Seq(Requests)
        /\ Elems(Tail(queue[s])) \subseteq Elems(queue[s]) \ {m} /\ Distinct(Tail(queue[s]))
    BY <1>0, <1>2, TailElems
  <1>4. /\ Contents[a] = Elems(queue[s]) /\ Contents'[a] = Elems(queue'[s])
        /\ Contents[b] = held[s] /\ Contents'[b] = held'[s]
    BY <1>1, ContentsAt, Zenon
  <1> HIDE DEF m, a, b
  <1>5. /\ \A d \in Endpoints \ {s} : queue'[d] = queue[d]
        /\ \A d \in Services \ {s} : held'[d] = held[d]
        /\ queue'[s] = Tail(queue[s]) /\ held'[s] = held[s] \cup {m}
    BY <1>0, <1>1 DEF MsgInv, MsgType
  <1>6. MsgType' /\ AnswerInv' /\ Onward
    BY <1>0, <1>3, OnwardSame DEF MsgInv, MsgType, AnswerInv
  <1>7. DistinctInv' /\ AddrInv'
    BY <1>0, <1>3, <1>5 DEF MsgInv, DistinctInv, AddrInv, Endpoints
  <1>8. Moves(Contents, Contents', m, a, b)
    <2>1. \A d \in Endpoints : <<"queue", d>> \notin {a, b} => queue'[d] = queue[d]
      BY <1>5 DEF a
    <2>2. \A d \in Services : <<"held", d>> \notin {a, b} => held'[d] = held[d]
      BY <1>5 DEF b
    <2>3. \A p \in Places \ {a, b} : Contents'[p] \subseteq Contents[p]
      BY <1>0, <1>1, <2>1, <2>2, Frame
    <2> QED BY <1>3, <1>4, <1>5, <2>3 DEF Moves
  <1>9. Unique(Contents') /\ NumberInv'
    BY <1>1, <1>3, <1>4, <1>6, <1>8, MoveUnique
  <1> QED BY <1>6, <1>7, <1>9 DEF MsgInv, Unique

(* The same, to the client's application.                                   *)
LEMMA MsgTakeResponse ==
  ASSUME MsgInv, NEW c \in Clients, TakeResponse(c) PROVE MsgInv'
  <1> DEFINE m == Head(queue[c])
             q == Append(responses[c], m)
             a == <<"queue", c>>
             b == <<"responses", c>>
  <1>0. /\ queue[c] # <<>> /\ queue' = [queue EXCEPT ![c] = Tail(@)]
        /\ responses' = [responses EXCEPT ![c] = q]
        /\ UNCHANGED <<sock, held, answer, spc, cpc, next_seq>>
    BY DEF TakeResponse, PopFront, sendVars, srvVars
  <1>1. a \in Places /\ b \in Places /\ a # b /\ c \in Endpoints
    BY DEF Places, Kinds, Endpoints
  <1>2. queue[c] \in Seq(Requests) /\ Distinct(queue[c])
        /\ responses[c] \in Seq(Requests) /\ Distinct(responses[c])
    BY <1>1 DEF MsgInv, MsgType, DistinctInv
  <1>3. /\ m \in Elems(queue[c]) /\ m \in Requests /\ Tail(queue[c]) \in Seq(Requests)
        /\ Elems(Tail(queue[c])) \subseteq Elems(queue[c]) \ {m} /\ Distinct(Tail(queue[c]))
    BY <1>0, <1>2, TailElems
  <1>4. /\ Contents[a] = Elems(queue[c]) /\ Contents'[a] = Elems(queue'[c])
        /\ Contents[b] = Elems(responses[c]) /\ Contents'[b] = Elems(responses'[c])
    BY <1>1, ContentsAt, Zenon
  <1>5. m \notin Elems(responses[c])
    BY <1>1, <1>3, <1>4 DEF MsgInv, Unique
  <1>6. q \in Seq(Requests) /\ Elems(q) = Elems(responses[c]) \cup {m} /\ Distinct(q)
    BY <1>2, <1>3, <1>5, AppendElems
  <1> HIDE DEF m, q, a, b
  <1>7. /\ \A d \in Endpoints \ {c} : queue'[d] = queue[d]
        /\ \A d \in Clients \ {c} : responses'[d] = responses[d]
        /\ queue'[c] = Tail(queue[c]) /\ responses'[c] = q
    BY <1>0, <1>1 DEF MsgInv, MsgType
  <1>8. MsgType' /\ AnswerInv' /\ Onward
    BY <1>0, <1>3, <1>6, OnwardSame DEF MsgInv, MsgType, AnswerInv
  <1>9. DistinctInv'
    BY <1>0, <1>3, <1>6, <1>7 DEF MsgInv, DistinctInv
  <1>10. AddrInv'
    BY <1>0, <1>3, <1>6, <1>7 DEF MsgInv, AddrInv, Endpoints
  <1>11. Moves(Contents, Contents', m, a, b)
    <2>1. \A d \in Endpoints : <<"queue", d>> \notin {a, b} => queue'[d] = queue[d]
      BY <1>7 DEF a
    <2>2. \A d \in Clients : <<"responses", d>> \notin {a, b} => responses'[d] = responses[d]
      BY <1>7 DEF b
    <2>3. \A p \in Places \ {a, b} : Contents'[p] \subseteq Contents[p]
      BY <1>0, <1>1, <2>1, <2>2, Frame
    <2> QED BY <1>3, <1>4, <1>6, <1>7, <2>3 DEF Moves
  <1>12. Unique(Contents') /\ NumberInv'
    BY <1>1, <1>3, <1>4, <1>8, <1>11, MoveUnique
  <1> QED BY <1>8, <1>9, <1>10, <1>12 DEF MsgInv, Unique

(* rmw_send_response takes a request of the application; if the response    *)
(* cannot be serialised the request is lost.                                *)
LEMMA MsgRespondBegin ==
  ASSUME MsgInv, NEW s \in Services, NEW r \in held[s], RespondBegin(s, r) PROVE MsgInv'
  <1> DEFINE a == <<"held", s>>
             b == <<"answer", s>>
  <1>0. /\ held' = [held EXCEPT ![s] = @ \ {r}]
        /\ UNCHANGED <<sock, queue, responses, cpc, next_seq>>
        /\ \/ spc' = [spc EXCEPT ![s] = "refresh"] /\ answer' = [answer EXCEPT ![s] = r]
           \/ UNCHANGED <<spc, answer>>
    BY DEF RespondBegin, sendVars, inVars
  <1>1. a \in Places /\ b \in Places /\ a # b /\ s \in Endpoints
    BY DEF Places, Kinds, Endpoints
  <1>2. r \in Requests
    BY DEF MsgInv, MsgType
  <1>3. /\ Contents[a] = held[s] /\ Contents'[a] = held'[s]
        /\ Contents[b] = {answer[s]} \ {NoRequest} /\ Contents'[b] = {answer'[s]} \ {NoRequest}
    BY <1>1, ContentsAt, Zenon
  <1> HIDE DEF a, b
  <1>4. /\ \A d \in Services \ {s} : held'[d] = held[d] /\ answer'[d] = answer[d]
        /\ held'[s] = held[s] \ {r} /\ answer'[s] \in {answer[s], r}
    BY <1>0 DEF MsgInv, MsgType
  <1>5. MsgType' /\ AnswerInv' /\ Onward
    BY <1>0, <1>2, OnwardSame DEF MsgInv, MsgType, AnswerInv
  <1>6. DistinctInv' /\ AddrInv'
    BY <1>0 DEF MsgInv, DistinctInv, AddrInv
  <1>7. Moves(Contents, Contents', r, a, b)
    <2>1. \A d \in Services : <<"held", d>> \notin {a, b} => held'[d] = held[d]
      BY <1>4 DEF a
    <2>2. \A d \in Services : <<"answer", d>> \notin {a, b} => answer'[d] = answer[d]
      BY <1>4 DEF b
    <2>3. \A p \in Places \ {a, b} : Contents'[p] \subseteq Contents[p]
      BY <1>0, <1>1, <2>1, <2>2, Frame
    <2> QED BY <1>3, <1>4, <2>3 DEF Moves
  <1>8. Unique(Contents') /\ NumberInv'
    BY <1>1, <1>3, <1>5, <1>7, MoveUnique
  <1> QED BY <1>5, <1>6, <1>8 DEF MsgInv, Unique

(* A datagram that may have been sent to an endpoint.                       *)
LEMMA Sent ==
  ASSUME MsgType, NEW e \in Endpoints, NEW m \in Requests, SendTo(e, m)
  PROVE  /\ sock' \in [Endpoints -> Seq(Requests)]
         /\ \A d \in Endpoints \ {e} : sock'[d] = sock[d]
         /\ sock'[e] = sock[e] \/ sock'[e] = Append(sock[e], m)
  <1>1. sock[e] \in Seq(Requests) /\ Append(sock[e], m) \in Seq(Requests)
    BY DEF MsgType
  <1>2. sock' = sock \/ sock' = [sock EXCEPT ![e] = Append(sock[e], m)]
    BY DEF SendTo
  <1> QED BY <1>1, <1>2 DEF MsgType

(* The response goes to the client that asked, or is lost.                  *)
LEMMA MsgRespond ==
  ASSUME MsgInv, NEW s \in Services, Respond(s) \/ RespondGone(s) PROVE MsgInv'
  <1> DEFINE m == answer[s]
             e == m.c
             a == <<"answer", s>>
             b == <<"sock", e>>
  <1>0. /\ spc[s] = "match" /\ spc' = [spc EXCEPT ![s] = "idle"]
        /\ answer' = [answer EXCEPT ![s] = NoRequest]
        /\ SendTo(e, m) \/ UNCHANGED sock
        /\ UNCHANGED <<queue, held, responses, cpc, next_seq>>
    BY DEF Respond, RespondGone, Answered, sendVars
  <1>1. m \in Requests /\ e \in Clients /\ e \in Endpoints /\ m # NoRequest
    <2>1. m \in Requests
      BY <1>0 DEF MsgInv, AnswerInv
    <2>2. e \in Clients /\ m.n # 0
      BY <2>1 DEF Requests
    <2>3. NoRequest.n = 0
      BY DEF NoRequest
    <2> QED BY <2>1, <2>2, <2>3 DEF Endpoints
  <1>2. a \in Places /\ b \in Places /\ a # b /\ s \in Endpoints
    BY <1>1 DEF Places, Kinds, Endpoints
  <1>3. /\ Contents[a] = {answer[s]} \ {NoRequest} /\ Contents'[a] = {answer'[s]} \ {NoRequest}
        /\ Contents[b] = Elems(sock[e]) /\ Contents'[b] = Elems(sock'[e])
    BY <1>1, <1>2, ContentsAt, Zenon
  <1>4. m \in Contents[a] /\ m \notin Elems(sock[e])
    BY <1>1, <1>2, <1>3 DEF MsgInv, Unique
  <1>5. /\ Append(sock[e], m) \in Seq(Requests)
        /\ Elems(Append(sock[e], m)) = Elems(sock[e]) \cup {m} /\ Distinct(Append(sock[e], m))
    <2>1. sock[e] \in Seq(Requests) /\ Distinct(sock[e])
      BY <1>1 DEF MsgInv, MsgType, DistinctInv
    <2> QED BY <1>1, <1>4, <2>1, AppendElems
  <1>6. /\ sock' \in [Endpoints -> Seq(Requests)]
        /\ \A d \in Endpoints \ {e} : sock'[d] = sock[d]
        /\ sock'[e] = sock[e] \/ sock'[e] = Append(sock[e], m)
    <2>1. CASE SendTo(e, m)
      BY <1>1, <2>1, Sent DEF MsgInv
    <2>2. CASE UNCHANGED sock
      BY <2>2 DEF MsgInv, MsgType
    <2> QED BY <1>0, <2>1, <2>2
  <1>7. m.c = e
    OBVIOUS
  <1>8. Distinct(sock'[e]) /\ Elems(sock'[e]) \subseteq Elems(sock[e]) \cup {m}
    BY <1>1, <1>5, <1>6 DEF MsgInv, DistinctInv
  <1>9. \A d \in Services \ {s} : answer'[d] = answer[d]
    BY <1>0 DEF MsgInv, MsgType
  <1>10. answer'[s] = NoRequest
    BY <1>0 DEF MsgInv, MsgType
  <1> HIDE DEF m, e, a, b
  <1>11. MsgType' /\ AnswerInv' /\ Onward
    BY <1>0, <1>6, OnwardSame DEF MsgInv, MsgType, AnswerInv
  <1>12. DistinctInv'
    BY <1>0, <1>6, <1>8 DEF MsgInv, DistinctInv
  <1>13. AddrInv'
    <2> SUFFICES ASSUME NEW c \in Clients,
                        NEW x \in Elems(sock'[c]) \cup Elems(queue[c]) \cup Elems(responses[c])
                 PROVE  x.c = c
      BY <1>0 DEF AddrInv
    <2>1. CASE x \in Elems(sock[c]) \cup Elems(queue[c]) \cup Elems(responses[c])
      BY <2>1 DEF MsgInv, AddrInv
    <2>2. CASE c = e /\ x = m
      BY <1>7, <2>2
    <2>3. c \in Endpoints
      BY DEF Endpoints
    <2> QED BY <1>6, <1>8, <2>1, <2>2, <2>3
  <1>14. Moves(Contents, Contents', m, a, b)
    <2>1. \A d \in Endpoints : <<"sock", d>> \notin {a, b} => sock'[d] = sock[d]
      BY <1>6 DEF b
    <2>2. \A d \in Services : <<"answer", d>> \notin {a, b} => answer'[d] = answer[d]
      BY <1>9 DEF a
    <2>3. \A p \in Places \ {a, b} : Contents'[p] \subseteq Contents[p]
      BY <1>0, <1>2, <2>1, <2>2, Frame
    <2>4. Contents'[a] \subseteq Contents[a] \ {m}
      BY <1>3, <1>10
    <2> QED BY <1>3, <1>8, <2>3, <2>4 DEF Moves
  <1>15. Unique(Contents') /\ NumberInv'
    BY <1>2, <1>4, <1>11, <1>14, MoveUnique
  <1> QED BY <1>11, <1>12, <1>13, <1>15 DEF MsgInv, Unique

(* A new request, whose number no message has, joins one place.             *)
LEMMA NewUnique ==
  ASSUME MsgInv, Onward, NEW b \in Places, NEW m \in Requests,
         \A p \in Places : m \notin Contents[p], m.n < Begun(m.c)',
         Contents'[b] \subseteq Contents[b] \cup {m},
         \A p \in Places \ {b} : Contents'[p] \subseteq Contents[p]
  PROVE  Unique(Contents') /\ NumberInv'
  <1>1. Unique(Contents')
    BY DEF MsgInv, Unique
  <1>2. ASSUME NEW p \in Places, NEW x \in Contents'[p] PROVE x.n < Begun(x.c)'
    <2>1. CASE x = m
      BY <2>1
    <2>2. CASE x # m
      <3>1. x \in Contents[p]
        BY <1>2, <2>2
      <3>2. x \in Requests /\ x.n < Begun(x.c)
        BY <3>1, ContentsType DEF MsgInv, NumberInv
      <3>3. x.c \in Clients /\ x.n \in Int
        BY <3>2 DEF Requests
      <3> QED BY <3>2, <3>3 DEF Onward
    <2> QED BY <2>1, <2>2
  <1> QED BY <1>1, <1>2 DEF NumberInv

(* rmw_send_request ends: the request is in a server's socket or lost.      *)
LEMMA MsgSendRequest ==
  ASSUME RouteInv, MsgInv, NEW c \in Clients, SendRequest(c) PROVE MsgInv'
  <1> DEFINE m == [c |-> c, n |-> next_seq[c] - 1]
             e == path[c]
             b == <<"sock", e>>
  <1>0. /\ cpc[c] = "send" /\ cpc' = [cpc EXCEPT ![c] = "idle"]
        /\ (e # NoService /\ SendTo(e, m)) \/ (e = NoService /\ UNCHANGED sock)
        /\ UNCHANGED <<queue, held, answer, spc, responses, next_seq>>
    BY DEF SendRequest, srvVars
  <1>1. m \in Requests /\ m.c = c /\ m.n = next_seq[c] - 1
    <2>1. next_seq[c] \in 1 .. MaxRequests + 1 /\ next_seq[c] > 1
      BY <1>0 DEF MsgInv, MsgType, AnswerInv
    <2>2. next_seq[c] - 1 \in 1 .. MaxRequests
      BY <2>1, ServiceClientAssumption
    <2> QED BY <2>2 DEF Requests
  <1>2. \A p \in Places : m \notin Contents[p]
    <2>1. Begun(c) = next_seq[c] - 1 /\ Begun(c) \in Int
      BY <1>0, ServiceClientAssumption DEF Begun, MsgInv, MsgType
    <2> SUFFICES ASSUME NEW p \in Places, m \in Contents[p] PROVE FALSE
      OBVIOUS
    <2>2. m.n < Begun(m.c)
      BY DEF MsgInv, NumberInv
    <2> QED BY <1>1, <2>1, <2>2
  <1>3. /\ cpc \in [Clients -> {"idle", "refresh", "send"}] /\ e \in Services \cup {NoService}
        /\ next_seq \in [Clients -> 1 .. MaxRequests + 1] /\ MaxRequests \in Nat
    BY ServiceClientAssumption DEF RouteInv, RouteType, MsgInv, MsgType
  <1>4. Onward
    BY <1>0, <1>3 DEF Onward, Begun
  <1>5. next_seq[c] - 1 < Begun(c)'
    BY <1>0, <1>3 DEF Begun
  <1>6. AnswerInv'
    BY <1>0, <1>3 DEF MsgInv, AnswerInv
  <1>7. CASE e = NoService
    <2>1. UNCHANGED <<sock, queue, held, answer, responses>>
      BY <1>0, <1>7
    <2>2. MsgType'
      BY <1>0, <2>1 DEF MsgInv, MsgType
    <2> QED BY <1>4, <1>6, <2>1, <2>2, MsgSame
  <1>8. CASE e # NoService
    <2>0. e \in Endpoints /\ e \notin Clients
      BY <1>3, <1>8, ServiceClientAssumption DEF Endpoints
    <2>1. b \in Places
      BY <2>0 DEF Places, Kinds
    <2>2. Contents[b] = Elems(sock[e]) /\ Contents'[b] = Elems(sock'[e])
      BY <2>0, ContentsAt, Zenon
    <2>3. /\ Append(sock[e], m) \in Seq(Requests)
          /\ Elems(Append(sock[e], m)) = Elems(sock[e]) \cup {m} /\ Distinct(Append(sock[e], m))
      <3>1. sock[e] \in Seq(Requests) /\ Distinct(sock[e])
        BY <2>0 DEF MsgInv, MsgType, DistinctInv
      <3>2. m \notin Elems(sock[e])
        BY <1>2, <2>1, <2>2
      <3> HIDE DEF m
      <3> QED BY <1>1, <3>1, <3>2, AppendElems
    <2>4. /\ sock' \in [Endpoints -> Seq(Requests)]
          /\ \A d \in Endpoints \ {e} : sock'[d] = sock[d]
          /\ sock'[e] = sock[e] \/ sock'[e] = Append(sock[e], m)
      <3>1. SendTo(e, m)
        BY <1>0, <1>8
      <3> HIDE DEF m
      <3> QED BY <1>1, <2>0, <3>1, Sent DEF MsgInv
    <2> HIDE DEF m, e, b
    <2>5. Distinct(sock'[e]) /\ Elems(sock'[e]) \subseteq Elems(sock[e]) \cup {m}
      BY <2>0, <2>3, <2>4 DEF MsgInv, DistinctInv
    <2>6. MsgType'
      BY <1>0, <2>4 DEF MsgInv, MsgType
    <2>7. DistinctInv'
      BY <1>0, <2>4, <2>5 DEF MsgInv, DistinctInv
    <2>8. AddrInv'
      BY <1>0, <2>0, <2>4 DEF MsgInv, AddrInv, Endpoints
    <2>9. \A p \in Places \ {b} : Contents'[p] \subseteq Contents[p]
      <3>1. \A d \in Endpoints : <<"sock", d>> \notin {b} => sock'[d] = sock[d]
        BY <2>4 DEF b
      <3> QED BY <1>0, <2>1, <3>1, Frame
    <2>10. Unique(Contents') /\ NumberInv'
      <3>1. PICK x \in Requests : x = m
        BY <1>1
      <3>2. x.c = c /\ x.n = next_seq[c] - 1
        BY <1>1, <3>1
      <3>3. x.n < Begun(x.c)'
        BY <1>5, <3>2
      <3>4. \A p \in Places : x \notin Contents[p]
        BY <1>2, <3>1
      <3>5. Contents'[b] \subseteq Contents[b] \cup {x}
        BY <2>2, <2>5, <3>1
      <3> QED BY <1>4, <2>1, <2>9, <3>3, <3>4, <3>5, NewUnique
    <2> QED BY <1>6, <2>6, <2>7, <2>8, <2>10 DEF MsgInv, Unique
  <1> QED BY <1>7, <1>8

(* rmw_send_request takes a number; with it the request is not yet sent.    *)
LEMMA MsgSendBegin ==
  ASSUME RouteInv, MsgInv, NEW c \in Clients, SendBegin(c) PROVE MsgInv'
  <1>1. /\ cpc \in [Clients -> {"idle", "refresh", "send"}]
        /\ next_seq \in [Clients -> 1 .. MaxRequests + 1] /\ MaxRequests \in Nat
    BY ServiceClientAssumption DEF RouteInv, RouteType, MsgInv, MsgType
  <1>2. /\ cpc[c] = "idle" /\ next_seq[c] <= MaxRequests
        /\ next_seq' = [next_seq EXCEPT ![c] = @ + 1]
        /\ cpc' = [cpc EXCEPT ![c] = "refresh"] \/ UNCHANGED cpc
        /\ UNCHANGED <<sock, queue, held, answer, spc, responses>>
    BY DEF SendBegin, inVars, srvVars
  <1>3. next_seq' \in [Clients -> 1 .. MaxRequests + 1]
    BY <1>1, <1>2
  <1>4. MsgType'
    BY <1>2, <1>3 DEF MsgInv, MsgType
  <1>5. AnswerInv'
    BY <1>1, <1>2 DEF MsgInv, AnswerInv
  <1>6. Onward
    BY <1>1, <1>2, <1>3 DEF Onward, Begun
  <1> QED BY <1>2, <1>4, <1>5, <1>6, MsgSame

(* Steps that change neither messages nor the sending of one.               *)
LEMMA MsgQuiet ==
  ASSUME MsgInv, UNCHANGED <<sock, queue, held, answer, responses, spc, cpc, next_seq>>
  PROVE  MsgInv'
  <1>1. MsgType' /\ AnswerInv' /\ Onward
    BY OnwardSame DEF MsgInv, MsgType, AnswerInv
  <1> QED BY <1>1, MsgSame

(* The refreshes of the two caches.                                         *)
LEMMA MsgRefresh ==
  ASSUME RouteInv, MsgInv,
         \/ \E c \in Clients : SendRefresh(c)
         \/ \E s \in Services : RespondRefresh(s)
  PROVE  MsgInv'
  <1>1. ASSUME NEW c \in Clients, SendRefresh(c) PROVE MsgInv'
    <2>1. /\ cpc[c] = "refresh" /\ cpc' = [cpc EXCEPT ![c] = "send"]
          /\ UNCHANGED <<sock, queue, held, answer, responses, spc, next_seq>>
      BY <1>1 DEF SendRefresh, inVars, srvVars
    <2>2. /\ cpc \in [Clients -> {"idle", "refresh", "send"}]
          /\ next_seq \in [Clients -> 1 .. MaxRequests + 1] /\ MaxRequests \in Nat
      BY ServiceClientAssumption DEF RouteInv, RouteType, MsgInv, MsgType
    <2>3. Onward
      BY <2>1, <2>2 DEF Onward, Begun
    <2>4. MsgType' /\ AnswerInv'
      BY <2>1, <2>2 DEF MsgInv, MsgType, AnswerInv
    <2> QED BY <2>1, <2>3, <2>4, MsgSame
  <1>2. ASSUME NEW s \in Services, RespondRefresh(s) PROVE MsgInv'
    <2>1. /\ spc[s] = "refresh" /\ spc' = [spc EXCEPT ![s] = "match"]
          /\ UNCHANGED <<sock, queue, held, answer, responses, cpc, next_seq>>
      BY <1>2 DEF RespondRefresh, inVars, sendVars
    <2>2. MsgType' /\ AnswerInv' /\ Onward
      BY <2>1, OnwardSame DEF MsgInv, MsgType, AnswerInv
    <2> QED BY <2>1, <2>2, MsgSame
  <1> QED BY <1>1, <1>2

(* Every step keeps MsgInv.                                                 *)
LEMMA NextMsg == ASSUME RouteInv, MsgInv, [Next]_vars PROVE MsgInv'
  <1> USE DEF sendVars, inVars, srvVars
  <1>1. ASSUME NEW e \in Endpoints,
               \/ Publish(e) \/ Announce(e) \/ Unlist(e) \/ Unlink(e)
               \/ TakeBegin(e) \/ TakeNothing(e)
        PROVE  MsgInv'
    BY <1>1, MsgQuiet DEF Publish, Announce, Unlist, Unlink, TakeBegin, TakeNothing
  <1>2. ASSUME NEW e \in Endpoints, Close(e) \/ TakeGarbage(e) PROVE MsgInv'
    BY <1>2, MsgLost DEF Close, TakeGarbage
  <1>3. ASSUME NEW e \in Endpoints, WaitDrain(e) \/ TakeDrain(e) PROVE MsgInv'
    <2>1. CASE WaitDrain(e)
      <3>1. \/ queue' = [queue EXCEPT ![e] = Append(@, Head(sock[e]))]
            \/ queue' = [queue EXCEPT ![e] = Tail(Append(@, Head(sock[e])))]
        BY <2>1 DEF WaitDrain, Trimmed
      <3> QED BY <2>1, <3>1, MsgDrain DEF WaitDrain
    <2>2. CASE TakeDrain(e)
      BY <2>2, MsgDrain DEF TakeDrain
    <2> QED BY <1>3, <2>1, <2>2
  <1>4. ASSUME NEW c \in Clients, SendBegin(c) \/ SendRequest(c) \/ TakeResponse(c) PROVE MsgInv'
    BY <1>4, MsgSendBegin, MsgSendRequest, MsgTakeResponse
  <1>5. ASSUME NEW c \in Clients, AvailableBegin(c) \/ AvailableRefresh(c) PROVE MsgInv'
    BY <1>5, MsgQuiet DEF AvailableBegin, AvailableRefresh
  <1>6. ASSUME NEW c \in Clients, SendRefresh(c) PROVE MsgInv'
    BY <1>6, MsgRefresh
  <1>7. ASSUME NEW s \in Services, TakeRequest(s) \/ Respond(s) \/ RespondGone(s) PROVE MsgInv'
    BY <1>7, MsgTakeRequest, MsgRespond
  <1>8. ASSUME NEW s \in Services, RespondRefresh(s) PROVE MsgInv'
    BY <1>8, MsgRefresh
  <1>9. ASSUME NEW s \in Services, NEW r \in held[s], RespondBegin(s, r) PROVE MsgInv'
    BY <1>9, MsgRespondBegin
  <1>10. CASE UNCHANGED vars
    BY <1>10, MsgQuiet DEF vars
  <1> QED BY <1>1, <1>2, <1>3, <1>4, <1>5, <1>6, <1>7, <1>8, <1>9, <1>10
      DEF Next, CreateStep, DestroyStep, TakeStep, SendStep, RespondStep

(* An application is given responses to its own requests only, and each at  *)
(* most once: the GID in the request leads the response back to the client  *)
(* (rmw_send_response), and no datagram is in two queues at any time,       *)
(* whatever is dropped, drained by rmw_wait or by a take, or answered late. *)
THEOREM ResponsesOwn == Spec => []OwnResponsesOnce
  <1>1. RouteInv /\ MsgInv /\ [Next]_vars => (RouteInv /\ MsgInv)'
    BY NextRoute, NextMsg
  <1>2. MsgInv => OwnResponsesOnce
    <2> SUFFICES ASSUME MsgInv, NEW c \in Clients
                 PROVE  /\ \A i \in DOMAIN responses[c] :
                             responses[c][i].c = c /\ responses[c][i].n < next_seq[c]
                        /\ \A i, j \in DOMAIN responses[c] :
                             responses[c][i] = responses[c][j] => i = j
      BY DEF OwnResponsesOnce
    <2>1. \A i, j \in DOMAIN responses[c] : responses[c][i] = responses[c][j] => i = j
      BY DEF MsgInv, DistinctInv, Distinct
    <2>2. ASSUME NEW m \in Elems(responses[c]) PROVE m.c = c /\ m.n < next_seq[c]
      <3> DEFINE b == <<"responses", c>>
      <3>1. b \in Places /\ c \in Endpoints
        BY DEF Places, Kinds, Endpoints
      <3>2. Contents[b] = Elems(responses[c])
        BY <3>1, ContentsAt, Zenon
      <3> HIDE DEF b
      <3>3. m.c = c /\ m.n < Begun(m.c)
        BY <2>2, <3>1, <3>2 DEF MsgInv, AddrInv, NumberInv
      <3>4. m \in Requests
        BY <2>2, ElemsType DEF MsgInv, MsgType
      <3>5. m.n \in Int /\ next_seq[c] \in Int
        BY <3>4, ServiceClientAssumption DEF Requests, MsgInv, MsgType
      <3> QED BY <3>3, <3>5 DEF Begun
    <2>3. \A i \in DOMAIN responses[c] : responses[c][i] \in Elems(responses[c])
      BY DEF Elems
    <2> QED BY <2>1, <2>2, <2>3
  <1> QED BY InitRoute, InitMsg, <1>1, <1>2, PTL DEF Spec
=============================================================================
