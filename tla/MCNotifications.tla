--------------------------- MODULE MCNotifications ---------------------------
(* The main thread and two watchers, which are alike. *)
EXTENDS Notifications, TLC

CONSTANTS main, w1, w2

MCThread   == {main, w1, w2}
MCSymmetry == Permutations({w1, w2})
=============================================================================
