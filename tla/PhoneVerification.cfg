SPECIFICATION Spec
CONSTANTS
  Users = {u1, u2}
  Phones = {p1, p2}
  Sessions = {s1, s2}
  Requests = {r1, r2}
  MaxAttempts = 1
  NoPhone = NoPhone
  NoUser = NoUser
  NoSession = NoSession
SYMMETRY Symmetry
CONSTRAINT InScene
INVARIANTS VerifiedWasConfirmed PhoneUniqueUnlessContended DeletedHoldsNoPhone
CHECK_DEADLOCK FALSE
