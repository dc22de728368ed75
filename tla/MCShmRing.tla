----------------------------- MODULE MCShmRing ------------------------------
(* Small instances of ShmRing for TLC.                                      *)
EXTENDS ShmRing

CONSTANTS t1, t2
=============================================================================
