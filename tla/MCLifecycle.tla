---------------------------- MODULE MCLifecycle ----------------------------
(* Small instances of Lifecycle for TLC.                                    *)
EXTENDS Lifecycle, TLC

(* Nothing tells one PID from another.                                      *)
Sym == Permutations(Pids)
=============================================================================
