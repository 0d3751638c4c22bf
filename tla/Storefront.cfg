SPECIFICATION Spec
CONSTANTS
  r1 = r1
  r2 = r2
  riverside = riverside
  hilltop = hilltop
  cat1 = cat1
  cat2 = cat2
  item1 = item1
  cat3 = cat3
  ana = ana
  bia = bia
  o1 = o1
  o2 = o2
  v1 = v1
  v2 = v2
  z1 = z1
  z2 = z2
  n1 = n1
  n2 = n2
  n3 = n3
  Null = Null
  Requests = {r1, r2}
  Cities = {riverside, hilltop}
  Users = {ana, bia}
  Orders = {o1, o2}
  Ratings = {1, 4}
  Values = {v1, v2}
  Categories = {cat1, cat2, cat3}
  Items = {item1}
  MenuOf <- MenuOfDef
  Zones = {z1, z2}
  Neighborhoods = {n1, n2, n3}
  CityOf <- CityOfDef
  Times = {10, 20}
  Days = 3
  HoursPerDay = 3
  MaxMoves = 1
  Weeks <- WeeksDef
CONSTRAINT InScene
SYMMETRY Symmetry
INVARIANTS StaysClosed CountersAgree ListsSound MenuSound ZonesSound OpenAsAdvertised
CHECK_DEADLOCK FALSE
