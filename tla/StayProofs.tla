----------------------------- MODULE StayProofs -----------------------------
EXTENDS Stay, TLAPS

(***************************************************************************)
(* What the calendar arithmetic of Stay means, for every date and zone.    *)
(***************************************************************************)

(* The availability query of hasOverlap finds a booking exactly when the   *)
(* two stays share a night.                                                *)
THEOREM OverlapIsSharedNight ==
  ASSUME NEW in1 \in Int, NEW out1 \in Int, NEW in2 \in Int, NEW out2 \in Int,
         in1 < out1, in2 < out2
  PROVE  Overlap(in1, out1, in2, out2)
           <=> NightsOf(in1, out1) \cap NightsOf(in2, out2) # {}
<1>1. ASSUME Overlap(in1, out1, in2, out2)
      PROVE  NightsOf(in1, out1) \cap NightsOf(in2, out2) # {}
  <2>1. CASE in1 <= in2
    <3>1. in2 \in NightsOf(in1, out1) /\ in2 \in NightsOf(in2, out2)
      BY <1>1, <2>1 DEF Overlap, NightsOf
    <3> QED BY <3>1
  <2>2. CASE in2 <= in1
    <3>1. in1 \in NightsOf(in1, out1) /\ in1 \in NightsOf(in2, out2)
      BY <1>1, <2>2 DEF Overlap, NightsOf
    <3> QED BY <3>1
  <2> QED BY <2>1, <2>2
<1>2. ASSUME NEW n \in NightsOf(in1, out1) \cap NightsOf(in2, out2)
      PROVE  Overlap(in1, out1, in2, out2)
  BY DEF Overlap, NightsOf
<1> QED BY <1>1, <1>2

(* The difference of two midnights is a whole number of days, so nothing   *)
(* is lost when it is divided by the length of the day and rounded.        *)
THEOREM NightsAreDays ==
  ASSUME NEW checkIn \in Int, NEW checkOut \in Int
  PROVE  /\ Nights(checkIn, checkOut) = checkOut - checkIn
         /\ AtLeastOneNight(checkIn, checkOut) <=> checkIn < checkOut
<1> DEFINE n == checkOut - checkIn
           w == 2 * DayLen
           x == 2 * (ParseDate(checkOut) - ParseDate(checkIn)) + DayLen
           q == x \div w
<1>1. n \in Int /\ w \in Nat \ {0}
  BY DayLenAssumption
<1>2. x = w * n + DayLen
  BY DayLenAssumption DEF ParseDate
<1>3. x \in Int /\ w * n \in Int
  BY <1>1, <1>2, DayLenAssumption
<1>4. q \in Int /\ w * q <= x /\ x < w * (q + 1)
  <2> HIDE DEF w, x
  <2> QED BY <1>1, <1>3
<1>5. q = n
  <2>1. w * n < w * (q + 1) /\ w * q < w * (n + 1)
    <3>1. w * n < w * (q + 1)
      <4>1. w * (q + 1) \in Int
        <5> HIDE DEF w, q
        <5> QED BY <1>1, <1>4
      <4> HIDE DEF q, n
      <4> QED BY <1>1, <1>2, <1>3, <1>4, <4>1, DayLenAssumption
    <3>2. w * (n + 1) = w * n + w
      <4> HIDE DEF w, n
      <4> QED BY <1>1
    <3>3. x < w * (n + 1)
      <4> HIDE DEF x, n
      <4> QED BY <1>1, <1>2, <1>3, <3>2, DayLenAssumption
    <3>4. w * q \in Int /\ w * (n + 1) \in Int
      <4> HIDE DEF w, q, n
      <4> QED BY <1>1, <1>4
    <3> HIDE DEF w, x, q, n
    <3> QED BY <1>3, <1>4, <3>1, <3>3, <3>4
  <2>2. n < q + 1 /\ q < n + 1
    <3> HIDE DEF w, q, n
    <3> QED BY <1>1, <1>4, <2>1
  <2> HIDE DEF q, n
  <2> QED BY <1>1, <1>4, <2>2
<1>6. Nights(checkIn, checkOut) = q
  BY DEF Nights, RoundedQuotient
<1> QED
  BY <1>5, <1>6 DEF AtLeastOneNight

(* As long as a guest may cancel, the check-in date is still to come at    *)
(* the hotel: the two conversions between dates and instants agree.        *)
THEOREM CancellableIsFuture ==
  ASSUME NEW checkIn \in Int, NEW now \in Int, NEW timezone \in Int,
         GuestCancellationAllowed(checkIn, now, timezone)
  PROVE  checkIn > LocalDate(now, timezone)
<1> DEFINE a == now + timezone
           d == a \div DayLen
<1>1. d \in Int /\ a \in Int /\ DayLen * d <= a
  BY DayLenAssumption
<1>2. a <= checkIn * DayLen - DayLen
  BY DayLenAssumption DEF GuestCancellationAllowed, CheckInStart
<1>3. checkIn * DayLen - DayLen = DayLen * (checkIn - 1)
  BY DayLenAssumption
<1>4. DayLen * d <= DayLen * (checkIn - 1)
  BY <1>1, <1>2, <1>3, DayLenAssumption
<1>5. d <= checkIn - 1
  BY <1>1, <1>4, DayLenAssumption
<1> QED BY <1>5, <1>1 DEF LocalDate

(* A date is over at the hotel from the instant the next one begins there. *)
THEOREM DayIsOverAtNextMidnight ==
  ASSUME NEW day \in Int, NEW instant \in Int, NEW zone \in Int
  PROVE  CheckInNotInPast(day, instant, zone) <=> instant < CheckInStart(day + 1, zone)
<1> DEFINE a == instant + zone
           d == a \div DayLen
<1>1. d \in Int /\ a \in Int /\ DayLen * d <= a /\ a < DayLen * (d + 1)
  BY DayLenAssumption
<1>2. (day + 1) * DayLen = DayLen * (day + 1)
  BY DayLenAssumption
<1>3. ASSUME day >= d PROVE a < DayLen * (day + 1)
  <2>1. DayLen * (d + 1) <= DayLen * (day + 1)
    BY <1>1, <1>3, DayLenAssumption
  <2>2. DayLen * (d + 1) \in Int /\ DayLen * (day + 1) \in Int
    BY <1>1, DayLenAssumption
  <2> HIDE DEF d, a
  <2> QED BY <1>1, <2>1, <2>2
<1>4. ASSUME a < DayLen * (day + 1) PROVE day >= d
  <2>1. DayLen * d < DayLen * (day + 1)
    <3>1. DayLen * d \in Int /\ DayLen * (day + 1) \in Int
      BY <1>1, DayLenAssumption
    <3> HIDE DEF d, a
    <3> QED BY <1>1, <1>4, <3>1
  <2>2. d < day + 1
    <3> HIDE DEF d, a
    <3> QED BY <1>1, <2>1, DayLenAssumption
  <2> HIDE DEF d, a
  <2> QED BY <1>1, <2>2
<1>5. day >= d <=> a < DayLen * (day + 1)
  BY <1>3, <1>4
<1>6. DayLen * (day + 1) \in Int
  BY DayLenAssumption
<1>7. a < DayLen * (day + 1) <=> instant < CheckInStart(day + 1, zone)
  BY <1>2, <1>6 DEF CheckInStart
<1> QED
  BY <1>5, <1>7 DEF CheckInNotInPast, LocalDate
=============================================================================
