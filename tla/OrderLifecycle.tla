---------------------------- MODULE OrderLifecycle ----------------------------
(***************************************************************************)
(* What PATCH /orders/:id/status promises of an order under any number of  *)
(* concurrent requests: it is placed once, it never disappears, and each   *)
(* status it takes follows, in ORDER_STATUS_FLOW, a status it has held.    *)
(*                                                                         *)
(* This is weaker than "every change follows an edge from the current      *)
(* status": updateStatus checks the status it read, and another request    *)
(* may have replaced it before the write.                                  *)
(***************************************************************************)
EXTENDS OrderStatusFlow

CONSTANT Orders

VARIABLES
  current,  \* the order's status
  held      \* the statuses it has held

lifecycleVars == <<current, held>>

LifecycleInit ==
  /\ current = [o \in Orders |-> "ABSENT"]
  /\ held = [o \in Orders |-> {}]

Place(o) ==
  /\ current[o] = "ABSENT"
  /\ current' = [current EXCEPT ![o] = "PENDING"]
  /\ held' = [held EXCEPT ![o] = {"PENDING"}]

Move(o, s) ==
  /\ \E p \in held[o] : s \in ORDER_STATUS_FLOW[p]
  /\ current' = [current EXCEPT ![o] = s]
  /\ held' = [held EXCEPT ![o] = @ \union {s}]

LifecycleNext ==
  \E o \in Orders : Place(o) \/ \E s \in OrderStatus : Move(o, s)

LifecycleSpec == LifecycleInit /\ [][LifecycleNext]_lifecycleVars

=============================================================================
