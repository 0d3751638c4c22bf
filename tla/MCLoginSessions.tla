--------------------------- MODULE MCLoginSessions ---------------------------
(* Model-checking instance of LoginSessions.                                 *)
EXTENDS LoginSessions, TLC

CONSTANT MaxCount  \* bound on what a counter of Redis reaches

(* A behaviour of the large instance is followed as long as it plays one of  *)
(* these scenes.                                                             *)

Busy == {r \in Requests : up[r] # Idle}
At(r, pcs) == up[r].pc \in pcs
Untouched(ks) == \A k \in ks : redis[k] = Missing /\ \A p \in Procs : memory[p][k] = Null
Of(route) == {IpKey(route, i) : i \in Ips} \union {TargetKey(route, u) : u \in Users}

OneProcess ==
  \E p \in Procs : /\ \A r \in Busy : up[r].proc = p
                   /\ \A q \in Procs \ {p} : memory[q] = Empty

Kept ==
  \A k \in Keys : redis[k] # Missing =>
    \/ \E p \in Procs : memory[p][k] # Null
    \/ \E r \in Busy : up[r].at \in {"expire", "memory"} /\ up[r].cmd.keys = {k}

\* Requests that only count, failures included.
LimitScene ==
  /\ Used = {} /\ Untouched(Keys \ Of("sms"))
  /\ \A r \in Busy : At(r, {"ip", "target"}) /\ up[r].route = "sms"
  /\ clock = 0 /\ inactive = {} /\ OneProcess
  /\ \A u \in Users, p \in Procs :
       redis[TargetKey("sms", u)] = Missing => memory[p][TargetKey("sms", u)] = Null
  /\ faults = 0 => Kept

\* Logins, up to the session they open; the account may be deleted meanwhile.
LoginScene ==
  /\ Untouched(Of("sms")) /\ faults = 0 /\ clock = 0 /\ OneProcess
  /\ \A r \in Busy : ~At(r, Refreshing \union {"logout"})
  /\ Kept
  /\ \A k \in Of("login"), p \in Procs : redis[k] = Missing => memory[p][k] = Null
  /\ inactive # {} => \A k \in Blocks : redis[k] = Missing /\ lapsed = {}
  /\ \A s \in Sessions : owner[s] # Null => \E r \in Busy : At(r, {"session"})

\* Refreshes and logouts of a session; its account may be deleted meanwhile.
SessionScene ==
  /\ Untouched(Counters \union Blocks)
  /\ \A r \in Busy : At(r, Refreshing \union {"logout"})
  /\ inactive # {} => (clock = 0 /\ faults = 0)
  /\ faults > 0 => Cardinality(Busy) <= 1

InScene ==
  /\ LimitScene \/ LoginScene \/ SessionScene
  /\ \A k \in Counters : \A v \in {redis[k].val} \union {memory[p][k] : p \in Procs} :
       v = Null \/ v <= MaxCount

Symmetry == Permutations(Procs) \union Permutations(Requests) \union Permutations(Sessions)
=============================================================================
