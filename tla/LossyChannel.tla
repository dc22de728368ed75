---------------------------- MODULE LossyChannel ----------------------------
(***************************************************************************)
(* What a sender's payload path promises one receiver: messages arrive in  *)
(* the order they were handed to the socket, each at most once, any of     *)
(* them may be lost, and a payload is its own from end to end, except for  *)
(* pieces of the message that the sender is staging when it arrives.       *)
(***************************************************************************)
EXTENDS Sequences

CONSTANT Messages

VARIABLES sent, inflight, received, staging

vars == <<sent, inflight, received, staging>>

Init == sent = {} /\ inflight = <<>> /\ received = <<>> /\ staging = {}

(* The sender begins to stage a message, or is done with it.                *)
Stage ==
  /\ staging' = {} \/ \E m \in Messages \ sent : staging' = {m}
  /\ UNCHANGED <<sent, inflight, received>>

Send(m) ==
  /\ m \notin sent
  /\ sent' = sent \cup {m} /\ inflight' = Append(inflight, m)
  /\ UNCHANGED <<received, staging>>

Lose ==
  /\ inflight # <<>>
  /\ inflight' = Tail(inflight)
  /\ UNCHANGED <<sent, received, staging>>

Deliver ==
  /\ inflight # <<>>
  /\ inflight' = Tail(inflight)
  /\ \E pieces \in SUBSET staging :
       received' = Append(received, [n |-> Head(inflight),
                                     from |-> {Head(inflight)} \cup pieces])
  /\ UNCHANGED <<sent, staging>>

Next == Stage \/ (\E m \in Messages : Send(m)) \/ Lose \/ Deliver

Spec == Init /\ [][Next]_vars
=============================================================================
