----------------------------- MODULE MCRegistry -----------------------------
(* Small instances of Registry for TLC.                                     *)
EXTENDS Registry, TLC

CONSTANTS p1, p2, p3, d1, d2, d3, b1

(* Two data endpoints of one process, one of another; a doorbell.           *)
Owner3 == (d1 :> p1 @@ d2 :> p2 @@ d3 :> p1)
Type3  == (d1 :> "DATA" @@ d2 :> "DATA" @@ d3 :> "DATA")
Owner2 == (d1 :> p1 @@ d2 :> p2)
Type2 == (d1 :> "DATA" @@ d2 :> "DATA")
OwnerBell == (d1 :> p1 @@ d2 :> p2 @@ b1 :> p2)
TypeBell  == (d1 :> "DATA" @@ d2 :> "DATA" @@ b1 :> "DOORBELL")
=============================================================================
