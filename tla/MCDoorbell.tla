----------------------------- MODULE MCDoorbell -----------------------------
(* Small instances of Doorbell for TLC.                                     *)
EXTENDS Doorbell

CONSTANTS l1, l2, x1, m1, m2
=============================================================================
