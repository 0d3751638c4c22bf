-------------------------- MODULE MCPasswordRecovery --------------------------
(* Model-checking instance of PasswordRecovery.                              *)
EXTENDS PasswordRecovery, TLC

(* A behaviour of the large instance is followed as long as it plays one of  *)
(* two scenes.                                                               *)

Busy == {r \in Requests : up[r] # Idle}

\* One session, as many requests as there are slots, and a deletion.
SessionScene == Len(created) <= 1

\* Every session, two requests at once; codes are wrong or expire, so that new
\* ones are asked for.
ResendScene ==
  /\ Cardinality(Busy) <= 2
  /\ \A r \in Requests : ~up[r].right

InScene == SessionScene \/ ResendScene

Symmetry == Permutations(Sessions) \union Permutations(Requests)
=============================================================================
