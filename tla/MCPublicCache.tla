---------------------------- MODULE MCPublicCache ----------------------------
(* Model-checking instance of PublicCache.                                   *)
EXTENDS PublicCache, TLC

CONSTANT MaxChanges  \* bound on the changes and failures of a behaviour

Committed == UNION {table[t] : t \in Tables}
Concerned == {v \in Views : redis[v] # Missing \/ \E r \in Requests : up[r].view = v}
Shown(v) == UNION {Queries[v][i] : i \in DOMAIN Queries[v]}

\* Views only meet in the requests that delete them: one view at a time, and
\* changes that can be seen in it.
InScene ==
  /\ Cardinality(Committed) + faults <= MaxChanges
  /\ Cardinality(Concerned) <= 1
  /\ \A v \in Concerned : \A op \in Committed : Writes[op] \cap Shown(v) # {}

Symmetry == Permutations(Procs) \union Permutations(Requests)
=============================================================================
