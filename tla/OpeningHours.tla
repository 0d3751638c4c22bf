---------------------------- MODULE OpeningHours ----------------------------
(***************************************************************************)
(* Whether a restaurant is open, as it is computed from its opening hours  *)
(* and the clock of Brazil.  Times of day are counted in hours of a short  *)
(* day, the first of which begins at midnight.                             *)
(***************************************************************************)
EXTENDS Naturals, FiniteSets

CONSTANTS Days, HoursPerDay
ASSUME HoursAssumption == Days \in Nat \ {0} /\ HoursPerDay \in Nat \ {0}

Slots == [day : 0..(Days - 1), open : 0..(HoursPerDay - 1), close : 0..(HoursPerDay - 1)]
Overnight(slot) == slot.close < slot.open

\* A slip: the end of an interval belongs to it.
Covers_Closed(slot, hour) ==
  IF Overnight(slot) THEN hour >= slot.open \/ hour < slot.close
  ELSE hour >= slot.open /\ hour <= slot.close

Covers(slot, hour) ==
  IF Overnight(slot) THEN hour >= slot.open \/ hour < slot.close
  ELSE hour >= slot.open /\ hour < slot.close

\* hour12: false lets the first hour of a day be written 24.
getBrazilNowParts(hour) == IF hour = 0 THEN {0, HoursPerDay} ELSE {hour}

\* Without any hours a restaurant counts as open.
getRestaurantOpeningStatus(hours, day, read) ==
  hours = {} \/ \E slot \in hours : slot.day = day /\ Covers(slot, read)

-----------------------------------------------------------------------------

\* What the hours say: an interval that crosses midnight belongs to the day it
\* begins on.
OpenByWeek(hours, day, hour) ==
  \E slot \in hours :
    IF Overnight(slot)
    THEN \/ slot.day = day /\ hour >= slot.open
         \/ (slot.day + 1) % Days = day /\ hour < slot.close
    ELSE slot.day = day /\ slot.open <= hour /\ hour < slot.close

\* An interval that began the day before is not over yet.
SmallHours(hours, hour) == \E slot \in hours : Overnight(slot) /\ hour < slot.close

\* The same intervals every day.
Daily(hours) ==
  \A slot \in hours : \A d \in 0..(Days - 1) : [slot EXCEPT !.day = d] \in hours

\* Nothing begins or ends at midnight.
ClearOfMidnight(hours) == \A slot \in hours : slot.open # 0 /\ slot.close # 0

=============================================================================
