SPECIFICATION Spec
CONSTANTS
  Procs = {p1, p2}
  MaxFaults = 1
  Null = Null
  Requests = {r1, r2}
  MaxChanges = 2
CONSTRAINT InScene
SYMMETRY Symmetry
INVARIANT FreshUnlessKnown
CHECK_DEADLOCK FALSE
