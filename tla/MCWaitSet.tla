----------------------------- MODULE MCWaitSet -----------------------------
(* Small instances of WaitSet for TLC.                                      *)
EXTENDS WaitSet, TLC

CONSTANTS w1, w2, s1, s2, g1

(* The guard condition moves between the two wait sets.                     *)
MayWait2 == (w1 :> {s1, s2, g1} @@ w2 :> {g1})
=============================================================================
