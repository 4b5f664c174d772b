------------------------------- MODULE MCStay -------------------------------
(***************************************************************************)
(* The calendar arithmetic of Stay over all small inputs: the dates of a   *)
(* request, in any order, a stay that is booked, a hotel's time zone and a *)
(* clock that runs.                                                        *)
(***************************************************************************)
EXTENDS Stay, FiniteSets

CONSTANTS LastDay,   \* bound: the stays are in days 0 .. LastDay
          Zones      \* time zones, as offsets from UTC in ticks

ASSUME MCStayAssumption == LastDay \in Nat /\ Zones \subseteq Int

\* A cfg has no negative numbers.
AllZones == -DayLen .. DayLen

VARIABLES in1, out1, in2, out2, timezone, now

vars == <<in1, out1, in2, out2, timezone, now>>

Init ==
  /\ in1 \in 0 .. LastDay + 1 /\ out1 \in 0 .. LastDay + 1
  /\ in2 \in 0 .. LastDay /\ out2 \in in2 + 1 .. LastDay + 1
  /\ timezone \in Zones
  /\ now = 0

ClockTick ==
  /\ now < LastDay * DayLen
  /\ now' = now + 1
  /\ UNCHANGED <<in1, out1, in2, out2, timezone>>

Spec == Init /\ [][ClockTick]_vars

(* For a stay that is not refused as shorter than a night, the query for   *)
(* availability finds a booking exactly when the two share a night: a      *)
(* guest may check in on the day another checks out.                       *)
OverlapMeansSharedNight ==
  AtLeastOneNight(in1, out1) =>
    (Overlap(in1, out1, in2, out2) <=> NightsOf(in1, out1) \cap NightsOf(in2, out2) # {})

(* What is left of a difference of instants after dividing and rounding    *)
(* are the nights slept in the room, whatever the length of the day, so    *)
(* two stays in a row cost as much as one; and the two refusals of create, *)
(* of dates in the wrong order and of less than a night, are one: neither  *)
(* lets pass what the other one stops.                                     *)
NightsAreCounted ==
  /\ AtLeastOneNight(in1, out1) <=> in1 < out1
  /\ AtLeastOneNight(in1, out1) => Nights(in1, out1) = Cardinality(NightsOf(in1, out1))
  /\ Nights(in1, out2) = Nights(in1, in2) + Nights(in2, out2)

(* cancel converts the check-in date to an instant, create converts the    *)
(* instant to a date at the hotel.  They agree: as long as a guest may     *)
(* cancel, the check-in date is still to come at the hotel.                *)
CancellableBeforeCheckInDay ==
  GuestCancellationAllowed(in1, now, timezone) => in1 > LocalDate(now, timezone)

(* A check-in date is refused as past from one local midnight on, for      *)
(* good: at the instant the date after it begins at the hotel.             *)
PastFromNextMidnight ==
  CheckInNotInPast(in1, now, timezone) <=> now < CheckInStart(in1 + 1, timezone)
=============================================================================
