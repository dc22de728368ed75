--------------------------- MODULE MCSubscription ---------------------------
(* Small instances of Subscription for TLC.                                 *)
EXTENDS Subscription

CONSTANTS t1, t2, w1

(* Junk in front of a message, a big message behind small ones, a corrupt   *)
(* one, one the drain filters out.                                          *)
Traffic3 == {<<"zero", "msg", "big">>, <<"msg", "big", "msg">>, <<"runt", "corrupt", "msg">>,
             <<"big", "alien", "msg">>}
=============================================================================
