---------------------------- MODULE DeliveryZones ----------------------------
(***************************************************************************)
(* The neighborhoods a restaurant delivers to, edited by several requests  *)
(* while the restaurant itself may move to another city.                   *)
(***************************************************************************)
EXTENDS Restaurants

CONSTANTS
  Zones,          \* rows that exist or may be created
  Neighborhoods,
  CityOf,         \* the city of each neighborhood
  Times           \* delivery times

\* Times are minutes; neither a row nor a value of its columns is null.
ASSUME ZonesAssumption ==
  /\ Times \subseteq Nat
  /\ CityOf \in [Neighborhoods -> Cities]
  /\ Null \notin [nb : Neighborhoods, min : Times, max : Times, moves : Nat]
  /\ Null \notin Neighborhoods \union Times

\* Table: zones.  Ghost: zones[z].moves, the moves of the restaurant when the
\* neighborhood of the zone was checked.
ZoneTables == [zones |-> [z \in Zones |-> Null]]

ZoneExists(z) == db.zones[z] # Null
ensureMinTimeIsValid(min, max) == min <= max

\* findFirst by restaurant and neighborhood; a unique constraint says the same.
Served(nb, z) == \E other \in Zones \ {z} : ZoneExists(other) /\ db.zones[other].nb = nb

SameCity(nb) == CityOf[nb] = db.restaurant.city

CreateZone(r, z, nb, min, max) ==
  /\ ensureMinTimeIsValid(min, max)
  /\ db.restaurant # Null /\ db.restaurant.city # Null
  /\ SameCity(nb)
  /\ Fresh(z) /\ ~Served(nb, z)
  /\ Arrive(r, [op |-> "createZone", on |-> z, zone |-> z, nb |-> nb, min |-> min,
                max |-> max, moves |-> db.moves])

WriteZone(r) ==
  LET job == up[r]
  IN  /\ job.op = "createZone" /\ Fresh(job.zone) /\ ~Served(job.nb, job.zone)
      /\ Commit(r, [db EXCEPT
           !.zones[job.zone] = [nb |-> job.nb, min |-> job.min, max |-> job.max, moves |-> job.moves],
           !.used = @ \union {job.zone}])

\* A slip: only times that come together are compared.
UpdateZone_Partial(r, z, nb, min, max) ==
  /\ ZoneExists(z)
  /\ min # Null /\ max # Null => ensureMinTimeIsValid(min, max)
  /\ nb # Null => (db.restaurant.city # Null => SameCity(nb)) /\ ~Served(nb, z)
  /\ Arrive(r, [op |-> "updateZone", on |-> z, zone |-> z, nb |-> nb, min |-> min,
                max |-> max, moves |-> db.moves])

\* What is left out is taken from the row as it was read.
UpdateZone(r, z, nb, min, max) ==
  /\ ZoneExists(z)
  /\ ensureMinTimeIsValid(Given(min, db.zones[z].min), Given(max, db.zones[z].max))
  /\ nb # Null => (db.restaurant.city # Null => SameCity(nb)) /\ ~Served(nb, z)
  /\ Arrive(r, [op |-> "updateZone", on |-> z, zone |-> z, nb |-> nb, min |-> min,
                max |-> max, moves |-> db.moves])

\* A slip: the constraint of the table is missing.
WriteZoneUpdate_Unconstrained(r) ==
  LET job == up[r]
  IN  /\ job.op = "updateZone" /\ ZoneExists(job.zone)
      /\ Commit(r, [db EXCEPT !.zones[job.zone] =
           [nb |-> Given(job.nb, @.nb), min |-> Given(job.min, @.min),
            max |-> Given(job.max, @.max), moves |-> IF job.nb = Null THEN @.moves ELSE job.moves]])

WriteZoneUpdate(r) ==
  LET job == up[r]
  IN  /\ job.op = "updateZone" /\ ZoneExists(job.zone)
      /\ job.nb # Null => ~Served(job.nb, job.zone)
      /\ Commit(r, [db EXCEPT !.zones[job.zone] =
           [nb |-> Given(job.nb, @.nb), min |-> Given(job.min, @.min),
            max |-> Given(job.max, @.max), moves |-> IF job.nb = Null THEN @.moves ELSE job.moves]])

RemoveZone(r, z) ==
  /\ ZoneExists(z)
  /\ Arrive(r, [op |-> "removeZone", on |-> z, zone |-> z])

WriteZoneGone(r) ==
  /\ up[r].op = "removeZone" /\ ZoneExists(up[r].zone)
  /\ Commit(r, [db EXCEPT !.zones[up[r].zone] = Null])

ZoneStep(r) ==
  \/ \E z \in Zones :
       \/ \E nb \in Neighborhoods, min, max \in Times : CreateZone(r, z, nb, min, max)
       \/ \E nb \in Neighborhoods \union {Null}, min, max \in Times \union {Null} :
            UpdateZone(r, z, nb, min, max)
       \/ RemoveZone(r, z)
  \/ WriteZone(r) \/ WriteZoneUpdate(r) \/ WriteZoneGone(r)

-----------------------------------------------------------------------------
(* Properties.                                                             *)

\* No two zones serve one neighborhood, and a zone lies in the city of the
\* restaurant unless the restaurant has moved since the zone was checked.
ZonesInPlace ==
  \A z \in Zones : ZoneExists(z) =>
    /\ ~Served(db.zones[z].nb, z)
    /\ db.zones[z].moves = db.moves => SameCity(db.zones[z].nb)

\* The least delivery time is not above the greatest, unless two changes of one
\* zone overlapped, each of which compared its half with what it had read.
TimesOrderedUnlessOverlapped ==
  \A z \in Zones \ blurred : ZoneExists(z) => db.zones[z].min <= db.zones[z].max

\* Zones are where the restaurant delivers, and say how long that takes.
ZonesSound == ZonesInPlace /\ TimesOrderedUnlessOverlapped

=============================================================================
