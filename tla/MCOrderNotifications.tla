------------------------- MODULE MCOrderNotifications -------------------------
(* Model-checking instance of OrderNotifications.                            *)
EXTENDS OrderNotifications, TLC

Symmetry == Permutations(Updates)
=============================================================================
