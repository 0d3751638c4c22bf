SPECIFICATION UpdatesSpec
CONSTANTS
  Orders = {o1}
  Updates = {r1, r2}
  Actors = {owner, stranger}
  Managers = {owner}
  Targets = {"PENDING", "ACCEPTED", "PREPARING", "DELIVERY", "DELIVERED", "CANCELED"}
  NoOrder = NoOrder
INVARIANT NoStaleTransition
CHECK_DEADLOCK FALSE
