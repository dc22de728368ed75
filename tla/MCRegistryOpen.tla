--------------------------- MODULE MCRegistryOpen ---------------------------
(* Small instances of RegistryOpen for TLC.                                 *)
EXTENDS RegistryOpen

CONSTANTS p1, p2, p3
=============================================================================
