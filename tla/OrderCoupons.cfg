SPECIFICATION Spec
CONSTANTS
  Orders = {o1, o2, o3}
  Updates = {r1, r2}
  Actors = {shop}
  Managers = {shop}
  Targets = {"ACCEPTED", "CANCELED"}
  NoOrder = NoOrder
  Users = {ana, bia}
  ReferralOwners = {ana}
  Coupons = {c1}
  Carts = {k1, k2}
  NoUser = NoUser
  MaxUsesLimit = 2
  FirstOrderOnly = TRUE
  RewardEnabled = TRUE
SYMMETRY Symmetry
CONSTRAINT InScene
INVARIANTS PromoUses ReferralLinks ReferralSettled ReferralFirstUnlessRushed
PROPERTY SpentRewardSurvives
CHECK_DEADLOCK FALSE
