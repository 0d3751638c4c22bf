SPECIFICATION Spec
CONSTANTS
  Sessions = {s1, s2}
  Requests = {r1, r2, r3}
  MaxAttempts = 2
  NoSession = NoSession
SYMMETRY Symmetry
CONSTRAINT InScene
INVARIANTS TriesBounded ConsumedStaysConsumed DeletedStaysErased RecoveryUndisturbed
CHECK_DEADLOCK FALSE
