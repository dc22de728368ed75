--------------------------- MODULE ServiceClient ----------------------------
(***************************************************************************)
(* Clients and servers of one service name: rmw_client.cpp, rmw_service.cpp *)
(* and the drain of their sockets in rmw_wait.                              *)
(*                                                                         *)
(* A request goes to the first server the client's cache knows, a response *)
(* to the client whose GID the request carried.  Both caches are refreshed *)
(* when the registry's generation is not the one they were filled for.     *)
(* Module Registry models the slots: here an endpoint becomes visible to   *)
(* queries, is announced by a bump, disappears from queries, loses its     *)
(* socket's name and is announced again, one step each.                    *)
(***************************************************************************)
EXTENDS Integers, FiniteSets, Sequences

CONSTANTS
  Clients,
  Services,      \* servers, numbered in registry slot order
  NoService,     \* the empty socket path
  MaxRequests,   \* bound: requests per client
  Depth,         \* queue limit of a drain inside rmw_wait (100)
  SockCap,       \* datagrams a socket buffer holds
  Destroyable,   \* endpoints that may be destroyed
  MayFail        \* may serialising or deserialising fail?

Endpoints == Clients \cup Services
Requests  == [c : Clients, n : 1 .. MaxRequests]

ASSUME ServiceClientAssumption ==
  /\ Services \subseteq Nat /\ Clients \cap Services = {} /\ NoService \notin Services
  /\ MaxRequests \in Nat /\ Depth \in Nat \ {0} /\ SockCap \in Nat
  /\ Destroyable \subseteq Endpoints /\ MayFail \in BOOLEAN

VARIABLES
  life, generation,               \* the endpoints, as the registry shows them
  cpc, cgen, path, next_seq,      \* rmw_send_request
  apc, agen,                      \* rmw_service_server_is_available
  cached_generation, cached_path, \* the client's cache (svc_cache_mutex)
  sock, queue,                    \* every endpoint's socket and message queue
  taking,                         \* rmw_take_request, rmw_take_response
  held, spc, sgen, answer,        \* requests the server's application holds; its response
  client_generation, clients,     \* the server's cache (client_cache_mutex)
  responses,                      \* history: what each client's application was given
  upAtLoad, goneAtLoad            \* history: servers when the generation was loaded

regVars  == <<life, generation>>
sendVars == <<cpc, cgen, path, next_seq, upAtLoad, goneAtLoad>>
avVars   == <<apc, agen>>
cacheVars == <<cached_generation, cached_path>>
inVars   == <<sock, queue, taking>>
srvVars  == <<held, spc, sgen, answer, client_generation, clients>>
vars == <<regVars, sendVars, avVars, cacheVars, inVars, srvVars, responses>>

NoRequest == [c |-> NoService, n |-> 0]

Init ==
  /\ life = [e \in Endpoints |-> "none"] /\ generation = 0
  /\ cpc = [c \in Clients |-> "idle"] /\ cgen = [c \in Clients |-> 0]
  /\ path = [c \in Clients |-> NoService] /\ next_seq = [c \in Clients |-> 1]
  /\ apc = [c \in Clients |-> "idle"] /\ agen = [c \in Clients |-> 0]
  /\ cached_generation = [c \in Clients |-> 0]
  /\ cached_path = [c \in Clients |-> NoService]
  /\ sock = [e \in Endpoints |-> <<>>] /\ queue = [e \in Endpoints |-> <<>>]
  /\ taking = [e \in Endpoints |-> FALSE]
  /\ held = [s \in Services |-> {}] /\ spc = [s \in Services |-> "idle"]
  /\ sgen = [s \in Services |-> 0] /\ answer = [s \in Services |-> NoRequest]
  /\ client_generation = [s \in Services |-> 0] /\ clients = [s \in Services |-> {}]
  /\ responses = [c \in Clients |-> <<>>]
  /\ upAtLoad = [c \in Clients |-> {}] /\ goneAtLoad = [c \in Clients |-> {}]

-----------------------------------------------------------------------------
(* Creation and destruction.  The socket is bound before registry_add makes *)
(* the endpoint visible; registry_remove hides it, unlinks its path, bumps. *)

Live(e, from, to) == life[e] = from /\ life' = [life EXCEPT ![e] = to]
Listed(e)    == life[e] \in {"visible", "up"}
Reachable(e) == life[e] \in {"visible", "up", "unlisted"}

Publish(e) ==
  /\ Live(e, "none", "visible")
  /\ UNCHANGED <<generation, sendVars, avVars, cacheVars, inVars, srvVars, responses>>

Announce(e) ==
  /\ Live(e, "visible", "up") /\ generation' = generation + 1
  /\ UNCHANGED <<sendVars, avVars, cacheVars, inVars, srvVars, responses>>

(* The application destroys an endpoint it is not using.                    *)
Unused(e) ==
  /\ ~taking[e]
  /\ e \in Clients => cpc[e] = "idle" /\ apc[e] = "idle"
  /\ e \in Services => spc[e] = "idle" /\ held[e] = {}

Unlist(e) ==
  /\ e \in Destroyable /\ Unused(e) /\ Live(e, "up", "unlisted")
  /\ UNCHANGED <<generation, sendVars, avVars, cacheVars, inVars, srvVars, responses>>

Unlink(e) ==
  /\ Live(e, "unlisted", "unlinked")
  /\ UNCHANGED <<generation, sendVars, avVars, cacheVars, inVars, srvVars, responses>>

Close(e) ==
  /\ Live(e, "unlinked", "gone") /\ generation' = generation + 1
  /\ sock' = [sock EXCEPT ![e] = <<>>] /\ queue' = [queue EXCEPT ![e] = <<>>]
  /\ UNCHANGED <<sendVars, avVars, cacheVars, taking, srvVars, responses>>

(* send_to: a full or vanished socket drops the datagram.                   *)
SendTo(e, m) ==
  sock' = IF Reachable(e) /\ Len(sock[e]) < SockCap
          THEN [sock EXCEPT ![e] = Append(@, m)] ELSE sock

-----------------------------------------------------------------------------
(* The client.                                                              *)

(* rmw_send_request: the sequence number is taken first, even when the      *)
(* request then cannot be serialised; the generation is loaded next.        *)
SendBegin(c) ==
  /\ life[c] = "up" /\ cpc[c] = "idle" /\ next_seq[c] <= MaxRequests
  /\ next_seq' = [next_seq EXCEPT ![c] = @ + 1]
  /\ \/ /\ cpc' = [cpc EXCEPT ![c] = "refresh"]
        /\ cgen' = [cgen EXCEPT ![c] = generation]
        /\ upAtLoad' = [upAtLoad EXCEPT ![c] = {s \in Services : life[s] = "up"}]
        /\ goneAtLoad' = [goneAtLoad EXCEPT ![c] = {s \in Services : life[s] = "gone"}]
     \/ MayFail /\ UNCHANGED <<cpc, cgen, upAtLoad, goneAtLoad>>
  /\ UNCHANGED <<regVars, path, avVars, cacheVars, inVars, srvVars, responses>>

(* The cache, under svc_cache_mutex: the first server of a new query.       *)
ListedServices == {s \in Services : Listed(s)}
First(S) == IF S = {} THEN NoService ELSE CHOOSE s \in S : \A t \in S : s <= t

(* Mutant of Refreshed: an empty query leaves the old path in the cache.    *)
RefreshedKeeps(c, gen) ==
  IF gen = cached_generation[c] \/ ListedServices = {} THEN cached_path[c]
  ELSE First(ListedServices)

Refreshed(c, gen) ==
  IF gen = cached_generation[c] THEN cached_path[c] ELSE First(ListedServices)

Refresh(c, gen) ==
  /\ cached_path' = [cached_path EXCEPT ![c] = Refreshed(c, gen)]
  /\ cached_generation' = [cached_generation EXCEPT ![c] = gen]

SendRefresh(c) ==
  /\ cpc[c] = "refresh" /\ cpc' = [cpc EXCEPT ![c] = "send"]
  /\ Refresh(c, cgen[c])
  /\ path' = [path EXCEPT ![c] = Refreshed(c, cgen[c])]
  /\ cgen' = [cgen EXCEPT ![c] = 0]
  /\ UNCHANGED <<regVars, next_seq, upAtLoad, goneAtLoad, avVars, inVars, srvVars,
                 responses>>

(* With no server known the request goes nowhere, and the call succeeds.    *)
SendRequest(c) ==
  /\ cpc[c] = "send" /\ cpc' = [cpc EXCEPT ![c] = "idle"]
  /\ \/ path[c] # NoService /\ SendTo(path[c], [c |-> c, n |-> next_seq[c] - 1])
     \/ path[c] = NoService /\ UNCHANGED sock
  /\ path' = [path EXCEPT ![c] = NoService]
  /\ upAtLoad' = [upAtLoad EXCEPT ![c] = {}] /\ goneAtLoad' = [goneAtLoad EXCEPT ![c] = {}]
  /\ UNCHANGED <<regVars, cgen, next_seq, avVars, cacheVars, queue, taking, srvVars,
                 responses>>

(* rmw_service_server_is_available, from another thread, shares the cache.  *)
AvailableBegin(c) ==
  /\ life[c] = "up" /\ apc[c] = "idle"
  /\ apc' = [apc EXCEPT ![c] = "refresh"] /\ agen' = [agen EXCEPT ![c] = generation]
  /\ UNCHANGED <<regVars, sendVars, cacheVars, inVars, srvVars, responses>>

AvailableRefresh(c) ==
  /\ apc[c] = "refresh" /\ apc' = [apc EXCEPT ![c] = "idle"]
  /\ Refresh(c, agen[c]) /\ agen' = [agen EXCEPT ![c] = 0]
  /\ UNCHANGED <<regVars, sendVars, inVars, srvVars, responses>>

-----------------------------------------------------------------------------
(* Receiving, the same on both sides.                                       *)

(* drain_socket in rmw_wait moves a datagram and trims the queue from the   *)
(* front; the drain at the start of a take does not trim.                   *)
Trimmed(q) == IF Len(q) > Depth THEN Tail(q) ELSE q

WaitDrain(e) ==
  /\ life[e] = "up" /\ sock[e] # <<>>
  /\ queue' = [queue EXCEPT ![e] = Trimmed(Append(@, Head(sock[e])))]
  /\ sock' = [sock EXCEPT ![e] = Tail(@)]
  /\ UNCHANGED <<regVars, sendVars, avVars, cacheVars, taking, srvVars, responses>>

TakeBegin(e) ==
  /\ life[e] = "up" /\ ~taking[e] /\ (sock[e] # <<>> \/ queue[e] # <<>>)
  /\ taking' = [taking EXCEPT ![e] = TRUE]
  /\ UNCHANGED <<regVars, sendVars, avVars, cacheVars, sock, queue, srvVars, responses>>

TakeDrain(e) ==
  /\ taking[e] /\ sock[e] # <<>>
  /\ queue' = [queue EXCEPT ![e] = Append(@, Head(sock[e]))]
  /\ sock' = [sock EXCEPT ![e] = Tail(@)]
  /\ UNCHANGED <<regVars, sendVars, avVars, cacheVars, taking, srvVars, responses>>

(* What cannot be deserialised is dropped and the next message tried.       *)
TakeGarbage(e) ==
  /\ MayFail /\ taking[e] /\ sock[e] = <<>> /\ queue[e] # <<>>
  /\ queue' = [queue EXCEPT ![e] = Tail(@)]
  /\ UNCHANGED <<regVars, sendVars, avVars, cacheVars, sock, taking, srvVars, responses>>

TakeNothing(e) ==
  /\ taking[e] /\ sock[e] = <<>> /\ queue[e] = <<>>
  /\ taking' = [taking EXCEPT ![e] = FALSE]
  /\ UNCHANGED <<regVars, sendVars, avVars, cacheVars, sock, queue, srvVars, responses>>

PopFront(e) ==
  /\ taking[e] /\ sock[e] = <<>> /\ queue[e] # <<>>
  /\ taking' = [taking EXCEPT ![e] = FALSE]
  /\ queue' = [queue EXCEPT ![e] = Tail(@)]
  /\ UNCHANGED <<regVars, sendVars, avVars, cacheVars, sock>>

TakeRequest(s) ==
  /\ PopFront(s)
  /\ held' = [held EXCEPT ![s] = @ \cup {Head(queue[s])}]
  /\ UNCHANGED <<spc, sgen, answer, client_generation, clients, responses>>

TakeResponse(c) ==
  /\ PopFront(c)
  /\ responses' = [responses EXCEPT ![c] = Append(@, Head(queue[c]))]
  /\ UNCHANGED srvVars

-----------------------------------------------------------------------------
(* rmw_send_response, for any of the requests the application holds.        *)
RespondBegin(s, r) ==
  /\ spc[s] = "idle" /\ r \in held[s]
  /\ held' = [held EXCEPT ![s] = @ \ {r}]
  /\ \/ /\ spc' = [spc EXCEPT ![s] = "refresh"]
        /\ answer' = [answer EXCEPT ![s] = r] /\ sgen' = [sgen EXCEPT ![s] = generation]
     \/ MayFail /\ UNCHANGED <<spc, answer, sgen>>
  /\ UNCHANGED <<regVars, sendVars, avVars, cacheVars, inVars, client_generation, clients,
                 responses>>

ListedClients == {c \in Clients : Listed(c)}

RespondRefresh(s) ==
  /\ spc[s] = "refresh" /\ spc' = [spc EXCEPT ![s] = "match"]
  /\ client_generation' = [client_generation EXCEPT ![s] = sgen[s]]
  /\ clients' = [clients EXCEPT ![s] =
                   IF sgen[s] = client_generation[s] THEN @ ELSE ListedClients]
  /\ sgen' = [sgen EXCEPT ![s] = 0]
  /\ UNCHANGED <<regVars, sendVars, avVars, cacheVars, inVars, held, answer, responses>>

Answered(s) ==
  /\ spc' = [spc EXCEPT ![s] = "idle"] /\ answer' = [answer EXCEPT ![s] = NoRequest]
  /\ UNCHANGED <<regVars, sendVars, avVars, cacheVars, queue, taking, held, sgen,
                 client_generation, clients, responses>>

(* Mutant of Respond: any cached client will do.                            *)
RespondAny(s) ==
  /\ spc[s] = "match" /\ clients[s] # {}
  /\ \E c \in clients[s] : SendTo(c, answer[s])
  /\ Answered(s)

(* To the client with the request's GID, out of the cache or else out of a  *)
(* direct query.                                                            *)
Respond(s) ==
  /\ spc[s] = "match" /\ answer[s].c \in clients[s] \cup ListedClients
  /\ SendTo(answer[s].c, answer[s])
  /\ Answered(s)

(* No live client matches: the response is dropped, the call succeeds.      *)
RespondGone(s) ==
  /\ spc[s] = "match" /\ answer[s].c \notin clients[s] \cup ListedClients
  /\ UNCHANGED sock
  /\ Answered(s)

-----------------------------------------------------------------------------
CreateStep(e)  == Publish(e) \/ Announce(e)
DestroyStep(e) == Unlink(e) \/ Close(e)
TakeStep(e)    == TakeBegin(e) \/ TakeDrain(e) \/ TakeNothing(e)
SendStep(c)    == SendRefresh(c) \/ SendRequest(c)
RespondStep(s) ==
  \/ \E r \in held[s] : RespondBegin(s, r)
  \/ RespondRefresh(s) \/ Respond(s) \/ RespondGone(s)

Next ==
  \/ \E e \in Endpoints : \/ CreateStep(e) \/ Unlist(e) \/ DestroyStep(e)
                          \/ WaitDrain(e) \/ TakeStep(e) \/ TakeGarbage(e)
  \/ \E c \in Clients : \/ SendBegin(c) \/ SendStep(c) \/ TakeResponse(c)
                        \/ AvailableBegin(c) \/ AvailableRefresh(c)
  \/ \E s \in Services : TakeRequest(s) \/ RespondStep(s)

Spec == Init /\ [][Next]_vars

-----------------------------------------------------------------------------
(* Type invariant.                                                          *)
TypeOK ==
  /\ life \in [Endpoints -> {"none", "visible", "up", "unlisted", "unlinked", "gone"}]
  /\ generation \in Nat
  /\ cpc \in [Clients -> {"idle", "refresh", "send"}] /\ cgen \in [Clients -> Nat]
  /\ path \in [Clients -> Services \cup {NoService}]
  /\ next_seq \in [Clients -> 1 .. MaxRequests + 1]
  /\ apc \in [Clients -> {"idle", "refresh"}] /\ agen \in [Clients -> Nat]
  /\ cached_generation \in [Clients -> Nat]
  /\ cached_path \in [Clients -> Services \cup {NoService}]
  /\ sock \in [Endpoints -> Seq(Requests)] /\ \A e \in Endpoints : Len(sock[e]) <= SockCap
  /\ queue \in [Endpoints -> Seq(Requests)] /\ taking \in [Endpoints -> BOOLEAN]
  /\ held \in [Services -> SUBSET Requests]
  /\ spc \in [Services -> {"idle", "refresh", "match"}] /\ sgen \in [Services -> Nat]
  /\ answer \in [Services -> Requests \cup {NoRequest}]
  /\ client_generation \in [Services -> Nat] /\ clients \in [Services -> SUBSET Clients]
  /\ responses \in [Clients -> Seq(Requests)]
  /\ upAtLoad \in [Clients -> SUBSET Services] /\ goneAtLoad \in [Clients -> SUBSET Services]

(* A client's application is given responses to its own requests only, and  *)
(* each at most once, whichever server answered and in whatever order.      *)
OwnResponsesOnce ==
  \A c \in Clients :
    LET rs == responses[c] IN
    /\ \A i \in DOMAIN rs : rs[i].c = c /\ rs[i].n < next_seq[c]
    /\ \A i, j \in DOMAIN rs : rs[i] = rs[j] => i = j

(* A request is sent to no server whose removal was already announced when  *)
(* rmw_send_request looked at the generation, and it is sent somewhere when *)
(* a server was up then and still is: the cached path is never older than   *)
(* the generation it was compared with.                                     *)
RequestRouted ==
  \A c \in Clients : cpc[c] = "send" =>
    /\ path[c] \notin goneAtLoad[c]
    /\ (\E s \in upAtLoad[c] : life[s] = "up") => path[c] # NoService

=============================================================================
