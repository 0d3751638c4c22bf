---------------------------- MODULE MCOrderUpdates ----------------------------
(* Model-checking instance of OrderUpdates.                                 *)
EXTENDS OrderUpdates, TLC

Symmetry == Permutations(Orders) \union Permutations(Updates)
=============================================================================
