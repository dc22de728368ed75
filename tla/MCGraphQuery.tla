--------------------------- MODULE MCGraphQuery ----------------------------
(* A small instance of GraphQuery for TLC: a node of the context, and two   *)
(* processes with a publisher and a subscription of one topic, of different *)
(* types.                                                                   *)
EXTENDS GraphQuery, TLC
CONSTANTS t1, t2, n1, pub, sub, r1, r2

Asks2 == t1 :> {GetTopicNamesAndTypes, GetNamesAndTypesByNode("PUB", "node2")}
         @@ t2 :> {Count("SUB", "other topic")}
Owner2 == pub :> r1 @@ sub :> r2
Kind2  == n1 :> "NODE" @@ pub :> "PUB" @@ sub :> "SUB"
Node2  == n1 :> "node1" @@ pub :> "node2" @@ sub :> "node3"
Topic2 == n1 :> "none" @@ pub :> "topic" @@ sub :> "topic"
Type2  == n1 :> "none" @@ pub :> "A" @@ sub :> "B"
=============================================================================
