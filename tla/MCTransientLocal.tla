-------------------------- MODULE MCTransientLocal --------------------------
(* Small instances of TransientLocal for TLC.                               *)
EXTENDS TransientLocal

(* Sample 2 is staged in a durable segment, sample 3 also travels by        *)
(* descriptor, sample 4 by descriptor or not at all.                        *)
Mixed == <<"embed", "staged", "descriptor", "oversize">>
=============================================================================
