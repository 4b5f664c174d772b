-------------------------------- MODULE Stay --------------------------------
(***************************************************************************)
(* Calendar arithmetic of a reservation: the pure functions the booking    *)
(* and availability services compute with.                                 *)
(*                                                                         *)
(* A calendar date is an integer: parseDate puts every date at midnight    *)
(* UTC, so dates differ by whole days.  An instant is an integer number of *)
(* ticks with DayLen ticks to a day, and date d begins at instant          *)
(* d * DayLen in UTC.  A time zone is its offset from UTC in ticks; the    *)
(* offset of one zone is constant, so a change to summer time is not       *)
(* represented.                                                            *)
(***************************************************************************)
EXTENDS Integers

CONSTANT DayLen

ASSUME DayLenAssumption == DayLen \in Nat \ {0}

-----------------------------------------------------------------------------
(* The date conditions of the findFirst query of hasOverlap (and of the    *)
(* NOT filter in RoomsService.list): two stays [in, out) collide.          *)
\* Variant: a stay ending on another's check-in date is taken to collide.
OverlapClosed(in1, out1, in2, out2) == in1 <= out2 /\ out1 >= in2
Overlap(in1, out1, in2, out2) == in1 < out2 /\ out1 > in2

(* The nights a guest sleeps in the room: the meaning Overlap and Nights   *)
(* are compared with.                                                      *)
NightsOf(checkIn, checkOut) == checkIn .. (checkOut - 1)

(* parseDate: the instant a date begins in UTC.                            *)
\* Variant: a date is parsed at the last tick of its day.
ParseDateAtNight(date) == date * DayLen + DayLen - 1
ParseDate(date) == date * DayLen

(* Math.round of a quotient: the nearest integer, the upper one of two.    *)
RoundedQuotient(a, b) == (2 * a + b) \div (2 * b)

(* calculateNights, and the condition under which it throws.               *)
\* Variant: the stay is charged until the end of the day of departure.
NightsUntilLate(checkIn, checkOut) ==
  RoundedQuotient(ParseDateAtNight(checkOut) - ParseDate(checkIn), DayLen)
Nights(checkIn, checkOut) ==
  RoundedQuotient(ParseDate(checkOut) - ParseDate(checkIn), DayLen)

AtLeastOneNight(checkIn, checkOut) == Nights(checkIn, checkOut) >= 1

(* formatInTimeZone(new Date(), timezone): the calendar date at the hotel. *)
LocalDate(now, timezone) == (now + timezone) \div DayLen

(* assertCheckInNotInPast.                                                 *)
\* Variant: the date is compared with today's date in UTC.
CheckInNotInPastUtc(checkIn, now, timezone) == checkIn >= LocalDate(now, 0)
CheckInNotInPast(checkIn, now, timezone) == checkIn >= LocalDate(now, timezone)

(* fromZonedTime: the instant at which the check-in date begins locally.   *)
\* Variant: the offset is applied in the wrong direction.
CheckInStartFlipped(checkIn, timezone) == checkIn * DayLen + timezone
CheckInStart(checkIn, timezone) == checkIn * DayLen - timezone

(* guestCancellationAllowed: GUEST_CANCEL_MIN_MS is one day.               *)
GuestCancellationAllowed(checkIn, now, timezone) ==
  CheckInStart(checkIn, timezone) - now >= DayLen
=============================================================================
