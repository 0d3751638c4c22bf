--------------------------- MODULE OrderStatusFlow ---------------------------
(***************************************************************************)
(* The order status graph of src/src/orders/constants/order-status-flow.ts *)
(* and the check that guards every status change.                          *)
(***************************************************************************)

\* enum OrderStatus of the Prisma schema.
OrderStatus ==
  {"PENDING", "ACCEPTED", "PREPARING", "DELIVERY", "DELIVERED", "CANCELED"}

ORDER_STATUS_FLOW ==
  [ PENDING   |-> {"ACCEPTED", "CANCELED"},
    ACCEPTED  |-> {"PREPARING", "CANCELED"},
    PREPARING |-> {"DELIVERY", "CANCELED"},
    DELIVERY  |-> {"DELIVERED"},
    DELIVERED |-> {},
    CANCELED  |-> {} ]

\* A plausible slip in the check: only the repetition of the current status is refused.
ensureValidStatusTransition_Lax(currentStatus, nextStatus) ==
  currentStatus # nextStatus

\* True when the source does not throw: the order is not already in
\* nextStatus, and the graph has an edge to it.
ensureValidStatusTransition(currentStatus, nextStatus) ==
  /\ currentStatus # nextStatus
  /\ nextStatus \in ORDER_STATUS_FLOW[currentStatus]

=============================================================================
