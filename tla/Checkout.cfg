SPECIFICATION Spec
CONSTANTS
  r1 = r1
  r2 = r2
  a1 = a1
  a2 = a2
  a3 = a3
  n1 = n1
  n2 = n2
  riverside = riverside
  hilltop = hilltop
  o1 = o1
  o2 = o2
  burger = burger
  soda = soda
  sauces = sauces
  extras = extras
  g1 = g1
  g2 = g2
  g3 = g3
  g4 = g4
  g5 = g5
  c1 = c1
  c2 = c2
  Null = Null
  Requests = {r1, r2}
  AddressIds = {a1, a2, a3}
  Neighborhoods = {n1, n2}
  CityOf <- CityOfDef
  Carts <- CartsDef
  Offers <- OffersDef
  Settings <- SettingsDef
  Prices = {1990, 2115}
  Fees = {500, 700}
  MaxEdits = 1
  Bills = {o1, o2}
  Totals = {50, 1990}
  Percent = 7
  MaxChanges = 4
CONSTRAINT InScene
SYMMETRY Symmetry
INVARIANTS
  OneDefault PlaceConsistent DeletedHasNoAddress OrderSound TotalsAddUp ShownCanBeOrdered
  CycleIsSumOfItems
PROPERTIES
  NewerReportStays
CHECK_DEADLOCK FALSE
