SPECIFICATION NotifySpec
CONSTANTS
  Orders = {o1}
  Updates = {r1, r2}
  Actors = {owner}
  Managers = {owner}
  Targets = {"ACCEPTED", "PREPARING", "CANCELED"}
  NoOrder = NoOrder
SYMMETRY Symmetry
INVARIANTS CustomerIsTold LastShownIsCurrent
CHECK_DEADLOCK FALSE
