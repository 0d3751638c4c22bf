----------------------------- MODULE Storefront -----------------------------
(***************************************************************************)
(* What owners and administrators edit, together: the restaurant, its      *)
(* lists, its menu, its delivery zones and its opening hours.              *)
(***************************************************************************)
EXTENDS DeliveryZones, RowSets, Menu, OpeningHours

CONSTANT Weeks  \* the opening hours a restaurant may have: any sets of intervals

ASSUME WeeksAssumption == Weeks \subseteq SUBSET Slots

\* What requests contend for has different names, and none of them is null.
ASSUME StorefrontAssumption ==
  LET names == {"status", "favorites", "reviews"} \union Lists
  IN  /\ Categories \intersect Zones = {}
      /\ (Categories \union Zones) \intersect names = {}
      /\ Null \notin Categories \union Zones \union names

\* The hours that were set; how they are replaced is in RowSets.
StorefrontTables(hours) ==
  Joined(Joined(RestaurantTables, RowSetTables),
         Joined(Joined(MenuTables, ZoneTables),
                [used |-> {}, week |-> hours, now |-> [day |-> 0, hour |-> 0]]))

Init == \E hours \in Weeks : DatabaseInit(StorefrontTables(hours))

TimePasses ==
  LET h == db.now.hour
      d == db.now.day
  IN  /\ db' = [db EXCEPT !.now = IF h + 1 < HoursPerDay THEN [@ EXCEPT !.hour = h + 1]
                                  ELSE [day |-> (d + 1) % Days, hour |-> 0]]
      /\ UNCHANGED <<up, overlapped, blurred>>

Next ==
  \/ \E r \in Requests :
       StatusStep(r) \/ CounterStep(r) \/ ListStep(r) \/ MenuStep(r) \/ ZoneStep(r) \/ Fail(r)
  \/ TimePasses

Spec == Init /\ [][Next]_dbVars

-----------------------------------------------------------------------------
(* Properties.                                                             *)

\* A restaurant is shown open when its hours say so.  The code looks at the intervals
\* of the day alone, so in the small hours, when an interval of the day before is not
\* over, that needs every day to have the same hours; and the first hour of a day may
\* be written 24, which does no harm to hours that neither begin nor end at midnight.
OpenAsAdvertised ==
  db.week # {} /\ (Daily(db.week) \/ ~SmallHours(db.week, db.now.hour)) =>
    \A read \in getBrazilNowParts(db.now.hour) :
      (read = HoursPerDay => ClearOfMidnight(db.week)) =>
      getRestaurantOpeningStatus(db.week, db.now.day, read)
        = OpenByWeek(db.week, db.now.day, db.now.hour)

=============================================================================
