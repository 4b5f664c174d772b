---------------------------- MODULE MCStayProofs ----------------------------
(***************************************************************************)
(* The theorems about the runs of MCStay: what TLC checks of the calendar  *)
(* arithmetic over small inputs holds of all dates, zones and instants.    *)
(***************************************************************************)
EXTENDS MCStay, StayProofs, FiniteSetTheorems

(* The dates of a request, a stay of at least a night, a zone and a clock. *)
Stays ==
  /\ in1 \in Int /\ out1 \in Int
  /\ in2 \in Int /\ out2 \in Int /\ in2 < out2
  /\ timezone \in Int
  /\ now \in Int

LEMMA StaysHold == Spec => []Stays
<1>1. Init => Stays
  BY MCStayAssumption DEF Init, Stays
<1>2. Stays /\ [ClockTick]_vars => Stays'
  BY DEF Stays, ClockTick, vars
<1> QED
  BY <1>1, <1>2, PTL DEF Spec

(* The availability query finds a booking exactly when the stays share a   *)
(* night, on any dates.                                                    *)
THEOREM OverlapAlwaysMeansSharedNight == Spec => []OverlapMeansSharedNight
<1>1. Stays => OverlapMeansSharedNight
  BY OverlapIsSharedNight, NightsAreDays DEF Stays, OverlapMeansSharedNight
<1> QED
  BY <1>1, StaysHold, PTL

(* The quotient of calculateNights is the number of nights, on any dates   *)
(* and for any length of the day, and its refusal that of the dates.       *)
THEOREM NightsAlwaysCounted == Spec => []NightsAreCounted
<1>1. Stays => NightsAreCounted
  <2> SUFFICES ASSUME Stays PROVE NightsAreCounted
    OBVIOUS
  <2>1. AtLeastOneNight(in1, out1) <=> in1 < out1
    BY NightsAreDays DEF Stays
  <2>2. ASSUME AtLeastOneNight(in1, out1)
        PROVE  Nights(in1, out1) = Cardinality(NightsOf(in1, out1))
    <3>1. out1 - 1 \in Int /\ ~(in1 > out1 - 1)
      BY <2>1, <2>2 DEF Stays
    <3>2. Cardinality(in1 .. (out1 - 1)) = (out1 - 1) - in1 + 1
      BY <3>1, FS_Interval DEF Stays
    <3>3. Nights(in1, out1) = out1 - in1
      BY NightsAreDays DEF Stays
    <3> QED
      BY <3>2, <3>3 DEF Stays, NightsOf
  <2>3. Nights(in1, out2) = Nights(in1, in2) + Nights(in2, out2)
    <3>1. /\ Nights(in1, out2) = out2 - in1
          /\ Nights(in1, in2) = in2 - in1
          /\ Nights(in2, out2) = out2 - in2
      BY NightsAreDays DEF Stays
    <3> QED
      BY <3>1 DEF Stays
  <2> QED
    BY <2>1, <2>2, <2>3 DEF NightsAreCounted
<1> QED
  BY <1>1, StaysHold, PTL

(* A stay that may be cancelled begins tomorrow at the hotel or later, in  *)
(* any zone.                                                               *)
THEOREM CancellableAlwaysBeforeCheckInDay == Spec => []CancellableBeforeCheckInDay
<1>1. Stays => CancellableBeforeCheckInDay
  BY CancellableIsFuture DEF Stays, CancellableBeforeCheckInDay
<1> QED
  BY <1>1, StaysHold, PTL

(* A check-in date is past from the hotel's next midnight on, in any zone. *)
THEOREM PastAlwaysFromNextMidnight == Spec => []PastFromNextMidnight
<1>1. Stays => PastFromNextMidnight
  BY DayIsOverAtNextMidnight DEF Stays, PastFromNextMidnight
<1> QED
  BY <1>1, StaysHold, PTL
=============================================================================
