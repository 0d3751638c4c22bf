----------------------------- MODULE OrderUpdates -----------------------------
(***************************************************************************)
(* Order rows and the PATCH /orders/:id/status requests that move them     *)
(* (OrdersService.updateStatus).                                           *)
(*                                                                         *)
(* A request opens an interactive Prisma transaction, reads the order,     *)
(* checks the transition against the status it READ, and then updates the  *)
(* row by id alone.  Prisma runs the transaction at PostgreSQL's default   *)
(* READ COMMITTED: the read takes no lock, the update waits for a          *)
(* concurrent writer and then applies, and what a transaction wrote is     *)
(* visible from its commit on.  So a request takes two steps here, the     *)
(* read and the commit, and any other request can commit between them.     *)
(* The work after the commit (coupons, notifications) is a third stage,    *)
(* "hook", which other modules refine.                                     *)
(***************************************************************************)
EXTENDS OrderStatusFlow, Naturals, Sequences

CONSTANTS
  Orders,     \* order ids
  Updates,    \* slots for status requests being served at the same time
  Actors,     \* users with role ADMIN or RESTAURANT who send such requests
  Managers,   \* the actors that are ADMIN or own the order's restaurant
  Targets,    \* the statuses the requests ask for
  NoOrder     \* "no order id"

ASSUME ConstantsAssumption ==
  /\ NoOrder \notin Orders
  /\ Managers \subseteq Actors
  /\ Targets \subseteq OrderStatus

VARIABLES
  status,     \* Order.status; Absent while the row does not exist
  stamped,    \* the statuses whose timestamp column is set (createdAt is PENDING's)
  history,    \* the OrderStatusHistory rows, oldest first
  up,         \* the status request in each slot
  overlapped  \* ghost: orders that ever had two status requests in flight at once

updateVars == <<status, stamped, history, up, overlapped>>

Absent == "ABSENT"
Entry == [from : OrderStatus \union {Absent}, to : OrderStatus]
Idle == [pc |-> "idle", order |-> NoOrder, from |-> Absent, to |-> Absent]
Serving == [pc : {"read", "hook"}, order : Orders, from : OrderStatus, to : OrderStatus]

UpdatesTypeOK ==
  /\ status \in [Orders -> OrderStatus \union {Absent}]
  /\ stamped \in [Orders -> SUBSET OrderStatus]
  /\ history \in [Orders -> Seq(Entry)]
  /\ up \in [Updates -> Serving \union {Idle}]
  /\ overlapped \subseteq Orders

Placed(o) == status[o] # Absent
InFlight(o) == {r \in Updates : up[r].pc # "idle" /\ up[r].order = o}
Quiet(o) == InFlight(o) = {}

UpdatesInit ==
  /\ status = [o \in Orders |-> Absent]
  /\ stamped = [o \in Orders |-> {}]
  /\ history = [o \in Orders |-> <<>>]
  /\ up = [r \in Updates |-> Idle]
  /\ overlapped = {}

-----------------------------------------------------------------------------
(* Steps of the code.                                                      *)

\* create: the order row and its first history entry, in one transaction.
CreateOrder(o) ==
  /\ ~Placed(o)
  /\ status' = [status EXCEPT ![o] = "PENDING"]
  /\ stamped' = [stamped EXCEPT ![o] = {"PENDING"}]
  /\ history' = [history EXCEPT ![o] = <<[from |-> Absent, to |-> "PENDING"]>>]
  /\ UNCHANGED <<up, overlapped>>

ensureCanManageRestaurant(a) == a \in Managers

\* updateStatus, first half: findUnique, the permission check and the
\* transition check.  A request that fails one of them throws before it has
\* written anything, so it takes no step.
ReadForUpdate(r, a, o, s) ==
  /\ up[r].pc = "idle"
  /\ Placed(o)
  /\ ensureCanManageRestaurant(a)
  /\ ensureValidStatusTransition(status[o], s)
  /\ up' = [up EXCEPT ![r] = [pc |-> "read", order |-> o,
                              from |-> status[o], to |-> s]]
  /\ overlapped' = IF Quiet(o) THEN overlapped ELSE overlapped \union {o}
  /\ UNCHANGED <<status, stamped, history>>

\* Slips in the write: the timestamps of the stages passed before are cleared;
\* the cancellation of an order leaves no history entry; an entry starts at
\* PENDING whatever the request read.
CommitUpdate_ClearsStamps(r) ==
  LET o == up[r].order
  IN  /\ up[r].pc = "read"
      /\ status' = [status EXCEPT ![o] = up[r].to]
      /\ stamped' = [stamped EXCEPT ![o] = {up[r].to}]
      /\ history' = [history EXCEPT ![o] =
                       Append(@, [from |-> up[r].from, to |-> up[r].to])]
      /\ up' = [up EXCEPT ![r].pc = "hook"]
      /\ UNCHANGED overlapped

CommitUpdate_ForgetsHistory(r) ==
  LET o == up[r].order
  IN  /\ up[r].pc = "read"
      /\ status' = [status EXCEPT ![o] = up[r].to]
      /\ stamped' = [stamped EXCEPT ![o] = @ \union {up[r].to}]
      /\ history' = [history EXCEPT ![o] =
                       IF up[r].to = "CANCELED" THEN @
                       ELSE Append(@, [from |-> up[r].from, to |-> up[r].to])]
      /\ up' = [up EXCEPT ![r].pc = "hook"]
      /\ UNCHANGED overlapped

CommitUpdate_FromPending(r) ==
  LET o == up[r].order
  IN  /\ up[r].pc = "read"
      /\ status' = [status EXCEPT ![o] = up[r].to]
      /\ stamped' = [stamped EXCEPT ![o] = @ \union {up[r].to}]
      /\ history' = [history EXCEPT ![o] =
                       Append(@, [from |-> "PENDING", to |-> up[r].to])]
      /\ up' = [up EXCEPT ![r].pc = "hook"]
      /\ UNCHANGED overlapped

\* updateStatus, second half: the row is updated by id whatever its status is
\* by now, the timestamp column of the new status is set and the others are
\* left alone, and the history entry records the status that was read.
CommitUpdate(r) ==
  LET o == up[r].order
  IN  /\ up[r].pc = "read"
      /\ status' = [status EXCEPT ![o] = up[r].to]
      /\ stamped' = [stamped EXCEPT ![o] = @ \union {up[r].to}]
      /\ history' = [history EXCEPT ![o] =
                       Append(@, [from |-> up[r].from, to |-> up[r].to])]
      /\ up' = [up EXCEPT ![r].pc = "hook"]
      /\ UNCHANGED overlapped

\* The transaction rolls back (timeout, lost connection, process death): the
\* request ends and has changed nothing.
AbortUpdate(r) ==
  /\ up[r].pc = "read"
  /\ up' = [up EXCEPT ![r] = Idle]
  /\ UNCHANGED <<status, stamped, history, overlapped>>

\* A slip: what the request worked on is still held when the next one starts.
EndUpdate_KeepsContext(r) ==
  /\ up[r].pc = "hook"
  /\ up' = [up EXCEPT ![r].pc = "idle"]
  /\ UNCHANGED <<status, stamped, history, overlapped>>

\* The request ends after its commit: the post-commit work is done, or its
\* process died with it undone.
EndUpdate(r) ==
  /\ up[r].pc = "hook"
  /\ up' = [up EXCEPT ![r] = Idle]
  /\ UNCHANGED <<status, stamped, history, overlapped>>

Start(r) == \E a \in Actors, o \in Orders, s \in Targets : ReadForUpdate(r, a, o, s)

UpdatesNext ==
  \/ \E o \in Orders : CreateOrder(o)
  \/ \E r \in Updates : Start(r) \/ CommitUpdate(r) \/ AbortUpdate(r) \/ EndUpdate(r)

UpdatesSpec == UpdatesInit /\ [][UpdatesNext]_updateVars

-----------------------------------------------------------------------------
(* Properties.                                                             *)

\* The audit trail agrees with the order: its last entry is the current
\* status, and the timestamps set are exactly those of the statuses it lists,
\* however the requests interleaved.
AuditTrail ==
  \A o \in Orders : Placed(o) =>
    /\ history[o] # <<>>
    /\ history[o][Len(history[o])].to = status[o]
    /\ stamped[o] = {history[o][i].to : i \in DOMAIN history[o]}

\* No order is ever delivered without having been accepted, prepared and sent
\* out first, even when concurrent requests overwrite each other's status.
NoSkippedStage ==
  \A o \in Orders :
    /\ "DELIVERED" \in stamped[o] => "DELIVERY" \in stamped[o]
    /\ "DELIVERY" \in stamped[o] => "PREPARING" \in stamped[o]
    /\ "PREPARING" \in stamped[o] => "ACCEPTED" \in stamped[o]

\* Why NoSkippedStage holds.  Every status an order has held follows one it has
\* held before it, and a request about to write comes from such a status: a
\* stale request can move the order back, but only to a stage it had reached.
Grounded ==
  /\ \A o \in Orders :
       /\ Placed(o) => status[o] \in stamped[o]
       /\ ~Placed(o) => stamped[o] = {}
       /\ \A s \in stamped[o] \ {"PENDING"} :
            \E p \in stamped[o] : s \in ORDER_STATUS_FLOW[p]
  /\ \A r \in Updates : up[r].pc = "read" =>
       /\ up[r].from \in stamped[up[r].order]
       /\ up[r].to \in ORDER_STATUS_FLOW[up[r].from]

\* An order whose status requests never overlapped has a history that is a
\* chain: every entry starts where the one before it ended.
ChainUnlessOverlapped ==
  \A o \in Orders \ overlapped :
    \A i \in 2..Len(history[o]) : history[o][i].from = history[o][i - 1].to

\* The status of an order moves along an edge of ORDER_STATUS_FLOW, unless two
\* of its status requests were in flight together.
FlowUnlessOverlapped ==
  [][\A o \in Orders \ overlapped' :
       Placed(o) /\ status'[o] # status[o]
         => status'[o] \in ORDER_STATUS_FLOW[status[o]]]_updateVars

\* The history of an order can be trusted: it agrees with the order, and where
\* nothing overlapped no entry is missing from it.
HistorySound == AuditTrail /\ ChainUnlessOverlapped

\* What the comment in updateStatus claims of the transaction: no two requests
\* act on the same status, so every history entry starts at the status the
\* entry before it set.
NoStaleTransition ==
  \A o \in Orders :
    \A i \in 2..Len(history[o]) : history[o][i].from = history[o][i - 1].to

\* The order life cycle OrderLifecycle describes is what this module implements,
\* the timestamps playing the part of the statuses held so far.
Lifecycle == INSTANCE OrderLifecycle WITH current <- status, held <- stamped
LifecycleRefined == Lifecycle!LifecycleSpec

=============================================================================
