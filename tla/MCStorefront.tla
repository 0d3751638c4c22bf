---------------------------- MODULE MCStorefront ----------------------------
(* Model-checking instance of Storefront.                                    *)
EXTENDS Storefront, TLC

CONSTANTS r1, r2, riverside, hilltop, cat1, cat2, cat3, item1, ana, bia, o1, o2, v1, v2, z1, z2, n1, n2, n3

\* The third category belongs to another restaurant.
MenuOfDef == [x \in {cat1, cat2, cat3, item1} |-> IF x = cat3 THEN "other" ELSE "this"]
CityOfDef == [n \in {n1, n2, n3} |-> IF n = n3 THEN hilltop ELSE riverside]

\* An interval a day or a day off, and weeks of the same two intervals every day.
WeeksDef ==
  LET Day == 0..(Days - 1)
      Hour == 0..(HoursPerDay - 1)
      Spans == Hour \X Hour
      Slot(d, span) == [day |-> d, open |-> span[1], close |-> span[2]]
  IN  {UNION {{Slot(d, span) : span \in plan[d]} : d \in Day} :
         plan \in [Day -> {{}} \union {{span} : span \in Spans}]}
      \union {{Slot(d, span) : d \in Day, span \in {a, b}} : a, b \in Spans}

Untouched == StorefrontTables({})
Changed(field) == db[field] # Untouched[field]
Only(fields, ops, things) ==
  /\ blurred \subseteq things
  /\ \A f \in DOMAIN db \ fields : ~Changed(f)
  /\ \A r \in Requests : up[r].op \in ops \union {"idle"}

StatusScene ==
  /\ Only({"restaurant", "ownerGone"}, {"create", "update", "updateStatus", "deleteMyAccount"}, {"status"})
  /\ db.restaurant # Null => db.restaurant.city = Null
  /\ \A r \in Requests : up[r].op = "update" => up[r].city = Null
CountersScene ==
  \/ Only({"favorites", "favoritesCount"}, {"favorite", "favorites"}, {"favorites"})
  \/ Only({"reviews", "stats"}, {"review", "stats"}, {"reviews"})
ListScene ==
  /\ Only({"rows", "agreed", "activeMethods", "storeCategories"},
          {"replace", "insert", "methodStatus", "createTag", "removeTag", "dropTag"},
          Lists)
  /\ \E l \in Lists :
       /\ blurred \subseteq {l}
       /\ \A other \in Lists \ {l} : db.rows[other] = {} /\ \A r \in Requests : up[r].on # other
       /\ l = "options" => \A r \in Requests : up[r].on = l => up[r].values \subseteq {v1}
       /\ v1 \in db.activeMethods \intersect db.storeCategories
       /\ l # "payment" => db.activeMethods = Values /\ \A r \in Requests : up[r].op # "methodStatus"
       /\ l # "tags" => db.storeCategories = Values /\ \A r \in Requests : up[r].op \notin {"removeTag", "dropTag", "createTag"}
MenuScene ==
  /\ Only({"categories", "items", "sold", "used"},
          {"createCategory", "removeCategory", "createItem", "updateItem", "removeItem", "order"},
          Categories)
  /\ db.used \cap Zones = {} /\ Cardinality(db.used \ {item1}) <= 2
  /\ \A r \in Requests : up[r].op = "updateItem" => up[r].options = (up[r].move = "stay")
\* Either where the zones are or how long they take.
ZoneScene ==
  /\ Only({"restaurant", "moves", "zones", "used"},
          {"create", "update", "createZone", "updateZone", "removeZone"},
          Zones)
  /\ db.used \subseteq Zones
  /\ db.restaurant = Null \/ (db.restaurant.active /\ db.restaurant.by = "admin" /\ ~db.restaurant.forced)
  /\ \A r \in Requests : up[r].op = "update" => up[r].active = Null /\ up[r].who = "owner"
  /\ \/ /\ \A z \in Zones : ZoneExists(z) => db.zones[z].min = db.zones[z].max
        /\ \A r \in Requests : up[r].op \in {"createZone", "updateZone"} =>
             (up[r].min = IF up[r].op = "createZone" THEN 10 ELSE Null) /\ up[r].max = up[r].min
     \/ /\ ~ZoneExists(z2) /\ db.moves = 0 /\ (ZoneExists(z1) => db.zones[z1].nb = n1)
        /\ \A r \in Requests : up[r].op \in {"createZone", "updateZone"} =>
             up[r].zone = z1 /\ up[r].nb = IF up[r].op = "createZone" THEN n1 ELSE Null
HoursScene == Only({"week", "now"}, {}, {})

InScene == StatusScene \/ CountersScene \/ ListScene \/ MenuScene \/ ZoneScene \/ HoursScene
Symmetry == Permutations(Requests)
=============================================================================
