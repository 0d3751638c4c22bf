SPECIFICATION Spec
CONSTANTS
  Procs = {p1, p2}
  MaxFaults = 1
  Null = Null
  Users = {u1}
  Ips = {i1}
  Routes = {"login", "sms"}
  Sessions = {s1}
  Requests = {r1, r2}
  Limit = 2
  Threshold = 2
  MaxClock = 1
  MaxCount = 3
CONSTRAINT InScene
SYMMETRY Symmetry
INVARIANT MemoryOnlyWhenDown
CHECK_DEADLOCK FALSE
