SPECIFICATION FairSpec
CONSTANTS
  Orders = {o1}
  Updates = {r1, r2}
  Actors = {shop}
  Managers = {shop}
  Targets = {"ACCEPTED", "PREPARING", "CANCELED"}
  NoOrder = NoOrder
  Users = {ana, bia}
  ReferralOwners = {ana}
  Coupons = {}
  Carts = {k1}
  NoUser = NoUser
  MaxUsesLimit = 2
  FirstOrderOnly = TRUE
  RewardEnabled = TRUE
PROPERTIES ReferralConfirmed
CHECK_DEADLOCK FALSE
