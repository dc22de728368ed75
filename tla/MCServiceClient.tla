-------------------------- MODULE MCServiceClient ---------------------------
(* Small instances of ServiceClient for TLC.                                *)
EXTENDS ServiceClient

CONSTANTS c1, c2

OneServer  == {1}
=============================================================================
