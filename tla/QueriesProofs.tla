--------------------------- MODULE QueriesProofs ----------------------------
(***************************************************************************)
(* Proofs about Queries, for every set of readers, any page length and the *)
(* constants of HotelSystem.                                               *)
(***************************************************************************)
EXTENDS Queries, HotelSystemProofs, FiniteSetTheorems

-----------------------------------------------------------------------------
(* Reading disturbs nothing                                                *)

(* A step of the queries is a step of the services or leaves them alone.   *)
LEMMA QueriesStep == [QueriesNext]_<<vars, reads>> => [Next]_vars
BY DEF QueriesNext, Reading, Writing, reads

(* The services behave beside the queries as they do without them, so that *)
(* whatever is proved of Spec holds here too.                              *)
THEOREM QueriesAreServices == QueriesSpec => Spec
<1>1. QueriesInit => Init
  BY DEF QueriesInit
<1> QED BY <1>1, QueriesStep, PTL DEF QueriesSpec, Spec

(* What is known of the services, in one place.                            *)
ServiceInv == TypeInv /\ StaffInv /\ ReservationInv /\ ReferenceInv

LEMMA ServiceInvHolds == QueriesSpec => []ServiceInv
<1>1. TypeInv /\ StaffInv /\ ReservationInv /\ ReferenceInv => ServiceInv
  BY DEF ServiceInv
<1> QED BY <1>1, QueriesAreServices, TypeInvHolds, ReservationInvHolds, ReferenceInvHolds, PTL

-----------------------------------------------------------------------------
(* What a booking and a payment are once they are there                    *)

SameBooking(b) ==
  /\ b \in DOMAIN booking'
  /\ booking'[b].userId = booking[b].userId
  /\ booking'[b].hotelId = booking[b].hotelId
  /\ booking'[b].roomId = booking[b].roomId
  /\ booking'[b].checkIn = booking[b].checkIn
  /\ booking'[b].checkOut = booking[b].checkOut
  /\ booking'[b].totalAmount = booking[b].totalAmount
  /\ IsActive(b)' => IsActive(b)

LEMMA StatusMove ==
  ASSUME NEW row \in BookingRow, NEW status
  PROVE  LET moved == [row EXCEPT !.status = status]
         IN  /\ moved.userId = row.userId /\ moved.hotelId = row.hotelId
             /\ moved.roomId = row.roomId /\ moved.totalAmount = row.totalAmount
             /\ moved.checkIn = row.checkIn /\ moved.checkOut = row.checkOut
             /\ moved.status = status
BY DEF BookingRow

(* Of the columns of a booking only the status ever changes, a released    *)
(* booking stays released, a payment stays what it is, and no step inserts *)
(* more than one booking.                                                  *)
LEMMA RowsAreKept ==
  ASSUME TypeInv, ReservationInv, [Next]_vars
  PROVE  /\ \A b \in DOMAIN booking : SameBooking(b)
         /\ \A b \in DOMAIN payment : b \in DOMAIN payment' /\ payment'[b] = payment[b]
         /\ \A c \in DOMAIN booking' \ DOMAIN booking :
              c \in Calls /\ DOMAIN booking' = DOMAIN booking \cup {c}
<1> DEFINE Kept == /\ \A b \in DOMAIN booking : SameBooking(b)
                   /\ \A b \in DOMAIN payment : b \in DOMAIN payment' /\ payment'[b] = payment[b]
                   /\ \A c \in DOMAIN booking' \ DOMAIN booking :
                        c \in Calls /\ DOMAIN booking' = DOMAIN booking \cup {c}
<1> SUFFICES Kept
  OBVIOUS
<1>1. \A b \in DOMAIN booking : booking[b] \in BookingRow
  BY DEF TypeInv, TablesTypeOK, IsTable
<1>2. ASSUME UNCHANGED <<booking, payment>> PROVE Kept
  BY <1>2 DEF SameBooking, IsActive
<1>3. ASSUME NEW c \in Calls, CommitCreate(c) PROVE Kept
  <2>1. c \notin DOMAIN booking
    BY <1>3 DEF CommitCreate, TypeInv, CallsAreValidated
  <2>2. booking' = Put(booking, c, NewBooking(c)) /\ UNCHANGED payment
    BY <1>3 DEF CommitCreate
  <2>3. DOMAIN booking' = DOMAIN booking \cup {c} /\ \A b \in DOMAIN booking : booking'[b] = booking[b]
    BY <2>1, <2>2 DEF Put
  <2> QED BY <2>2, <2>3 DEF SameBooking, IsActive
<1>4. ASSUME NEW b \in DOMAIN booking, NEW status \in BookingStatus,
             status \in ActiveStatuses => IsActive(b),
             booking' = Put(booking, b, [booking[b] EXCEPT !.status = status])
      PROVE  /\ DOMAIN booking' = DOMAIN booking
             /\ \A a \in DOMAIN booking : SameBooking(a)
  <2>1. [booking[b] EXCEPT !.status = status].status = status
    BY <1>1, StatusMove
  <2>2. /\ DOMAIN booking' = DOMAIN booking
        /\ \A a \in DOMAIN booking : a # b => booking'[a] = booking[a]
        /\ booking'[b] = [booking[b] EXCEPT !.status = status]
    BY <1>4 DEF Put
  <2>3. ASSUME NEW a \in DOMAIN booking, a # b PROVE SameBooking(a)
    BY <2>2, <2>3 DEF SameBooking, IsActive
  <2>4. SameBooking(b)
    <3>1. b \in DOMAIN booking' /\ (IsActive(b)' => IsActive(b))
      BY <1>4, <2>1, <2>2 DEF IsActive
    <3> QED BY <1>1, <2>2, <3>1, StatusMove DEF SameBooking
  <2> QED BY <2>2, <2>3, <2>4
<1>5. ASSUME NEW c \in Calls, CommitPay(c) PROVE Kept
  <2> DEFINE b == req[c].bookingId
  <2>1. Unpaid(b)
    BY <1>5 DEF CommitPay, SerializationFailure, ReservationInv, PayIsCurrent
  <2>2. booking' = Put(booking, b, [booking[b] EXCEPT !.status = "CONFIRMED"])
    BY <1>5 DEF CommitPay, WithConfirmation
  <2>3. payment' = Put(payment, b, booking[b].totalAmount)
    BY <1>5 DEF CommitPay
  <2> HIDE DEF b
  <2>4. \A a \in DOMAIN payment : a \in DOMAIN payment' /\ payment'[a] = payment[a]
    BY <2>1, <2>3 DEF Unpaid, Put
  <2>5. b \in DOMAIN booking /\ IsActive(b)
    BY <2>1 DEF Unpaid, IsActive, ActiveStatuses
  <2> QED BY <1>4, <2>2, <2>4, <2>5 DEF BookingStatus
<1>6. ASSUME NEW c \in Calls, CancelUpdate(c) PROVE Kept
  <2> DEFINE b == req[c].bookingId
  <2>1. b \in DOMAIN booking
    BY <1>6 DEF CancelUpdate, TypeInv, CallsAreValidated, OwnerSteps
  <2>2. booking' = Put(booking, b, [booking[b] EXCEPT !.status = "CANCELLED"]) /\ UNCHANGED payment
    BY <1>6 DEF CancelUpdate
  <2> HIDE DEF b
  <2>3. "CANCELLED" \notin ActiveStatuses
    BY DEF ActiveStatuses
  <2> QED BY <1>4, <2>1, <2>2, <2>3 DEF BookingStatus
<1> QED BY <1>2, <1>3, <1>5, <1>6, StepEffect
        DEF BookingEffect, BookingsUntouched, CallOnly, OpenCreate, OpenPay

-----------------------------------------------------------------------------
(* The order of the bookings                                               *)

(* createdAt orders the bookings, which are finitely many: of two, one has *)
(* the later date or both have the same.                                   *)
DatesInv ==
  /\ DOMAIN newer = DOMAIN booking
  /\ \A b \in DOMAIN newer : newer[b] \subseteq DOMAIN booking \ {b}
  /\ \A a, b \in DOMAIN newer : a \in newer[b] \/ b \in newer[a] \/ SameDate(a, b)
  /\ \A a \in DOMAIN newer : \A b \in newer[a] : newer[b] \subseteq newer[a]
  /\ IsFiniteSet(DOMAIN booking)

(* A booking that comes in keeps the order of those that are there.        *)
LEMMA DatedInOrder ==
  ASSUME DatesInv, NEW c, c \notin DOMAIN booking, Dated(c),
         DOMAIN booking' = DOMAIN booking \cup {c}
  PROVE  /\ DatesInv'
         /\ \A b \in DOMAIN newer : newer[b] \subseteq newer'[b]
         /\ \A a, b \in DOMAIN newer : SameDate(a, b) => newer'[a] = newer'[b]
<1> PICK later \in SUBSET (missed[c] \cap DOMAIN newer), tied \in BOOLEAN :
      LET same == {b \in DOMAIN newer \ later : tied /\ newer[b] = later}
      IN  /\ Leads(later, DOMAIN newer)
          /\ \A a \in later, b \in DOMAIN newer : SameDate(a, b) => b \in later
          /\ newer' = [b \in DOMAIN newer \cup {c} |->
                        IF b = c THEN later
                        ELSE IF b \in later \cup same THEN newer[b] ELSE newer[b] \cup {c}]
  BY DEF Dated
<1> DEFINE same == {b \in DOMAIN newer \ later : tied /\ newer[b] = later}
           up == later \cup same
<1>1. /\ DOMAIN newer = DOMAIN booking
      /\ \A b \in DOMAIN newer : newer[b] \subseteq DOMAIN newer \ {b}
      /\ \A a, b \in DOMAIN newer : a \in newer[b] \/ b \in newer[a] \/ newer[a] = newer[b]
      /\ \A a \in DOMAIN newer : \A b \in newer[a] : newer[b] \subseteq newer[a]
      /\ later \subseteq DOMAIN newer
      /\ c \notin DOMAIN newer
  BY DEF DatesInv, SameDate
<1>2. /\ DOMAIN newer' = DOMAIN newer \cup {c}
      /\ newer'[c] = later
      /\ \A b \in up : newer'[b] = newer[b]
      /\ \A b \in DOMAIN newer \ up : newer'[b] = newer[b] \cup {c}
  BY <1>1
<1>3. /\ up \subseteq DOMAIN newer
      /\ \A b \in later : newer[b] \subseteq later
      /\ \A b \in up \ later : newer[b] = later
      /\ \A a, b \in DOMAIN newer : newer[a] = newer[b] =>
           (a \in later <=> b \in later) /\ (a \in up <=> b \in up)
  BY <1>1 DEF Leads, SameDate
<1> HIDE DEF up
<1>4. \A b \in DOMAIN newer' : newer'[b] \subseteq DOMAIN newer' \ {b}
  BY <1>1, <1>2, <1>3
<1>5. \A b \in DOMAIN newer : newer[b] \subseteq newer'[b]
  BY <1>1, <1>2, <1>3
<1>6. ASSUME NEW a \in DOMAIN newer, NEW b \in DOMAIN newer, newer[a] = newer[b]
      PROVE  newer'[a] = newer'[b]
  <2>1. CASE a \in up
    <3>1. b \in up
      BY <1>3, <1>6, <2>1
    <3> QED BY <1>2, <1>6, <2>1, <3>1
  <2>2. CASE a \notin up
    <3>1. b \notin up
      BY <1>3, <1>6, <2>2
    <3> QED BY <1>2, <1>6, <2>2, <3>1
  <2> QED BY <2>1, <2>2
<1>7. ASSUME NEW b \in DOMAIN newer
      PROVE  b \in newer'[c] \/ c \in newer'[b] \/ newer'[b] = newer'[c]
  <2>1. CASE b \in later
    BY <1>2, <2>1
  <2>2. CASE b \in up \ later
    BY <1>2, <1>3, <2>2
  <2>3. CASE b \notin up
    BY <1>2, <2>3
  <2> QED BY <2>1, <2>2, <2>3
<1>8. ASSUME NEW a \in DOMAIN newer', NEW b \in DOMAIN newer'
      PROVE  a \in newer'[b] \/ b \in newer'[a] \/ newer'[a] = newer'[b]
  <2>1. CASE a = c
    BY <1>2, <1>7, <2>1
  <2>2. CASE b = c
    BY <1>2, <1>7, <2>2
  <2>3. CASE a # c /\ b # c
    <3>1. a \in DOMAIN newer /\ b \in DOMAIN newer
      BY <1>2, <2>3
    <3>2. a \in newer[b] \/ b \in newer[a] \/ newer[a] = newer[b]
      BY <1>1, <3>1
    <3>3. newer[a] \subseteq newer'[a] /\ newer[b] \subseteq newer'[b]
      BY <1>5, <3>1
    <3> QED BY <1>6, <3>1, <3>2, <3>3
  <2> QED BY <2>1, <2>2, <2>3
<1>9. ASSUME NEW a \in DOMAIN newer \ up PROVE later \subseteq newer[a]
  <2> SUFFICES ASSUME NEW d \in later PROVE d \in newer[a]
    OBVIOUS
  <2>1. a \notin newer[d] /\ newer[a] # newer[d]
    <3>1. a \notin later
      BY <1>9 DEF up
    <3> QED BY <1>1, <1>3, <3>1
  <2> QED BY <1>1, <2>1
<1>10. ASSUME NEW a \in DOMAIN newer', NEW b \in newer'[a]
       PROVE  newer'[b] \subseteq newer'[a]
  <2>0. later \subseteq up
    BY DEF up
  <2>1. CASE a = c
    BY <1>1, <1>2, <1>3, <1>10, <2>0, <2>1
  <2>2. CASE a \in later
    BY <1>1, <1>2, <1>3, <1>10, <2>0, <2>2
  <2>3. CASE a \in up \ later
    BY <1>1, <1>2, <1>3, <1>10, <2>0, <2>3
  <2>4. CASE a \in DOMAIN newer \ up
    <3>1. CASE b = c
      BY <1>2, <1>9, <2>4, <3>1
    <3>2. CASE b # c
      BY <1>1, <1>2, <1>10, <2>4, <3>2
    <3> QED BY <3>1, <3>2
  <2> QED BY <1>2, <2>1, <2>2, <2>3, <2>4
<1>11. IsFiniteSet(DOMAIN booking')
  BY FS_AddElement DEF DatesInv
<1>12. DatesInv'
  <2>1. DOMAIN newer' = DOMAIN booking'
    BY <1>1, <1>2
  <2>2. \A b \in DOMAIN newer' : newer'[b] \subseteq DOMAIN booking' \ {b}
    BY <1>4, <2>1
  <2>3. \A a, b \in DOMAIN newer' : a \in newer'[b] \/ b \in newer'[a] \/ SameDate(a, b)'
    BY <1>8 DEF SameDate
  <2>4. \A a \in DOMAIN newer' : \A b \in newer'[a] : newer'[b] \subseteq newer'[a]
    BY <1>10
  <2> QED BY <1>11, <2>1, <2>2, <2>3, <2>4 DEF DatesInv
<1> QED BY <1>5, <1>6, <1>12 DEF SameDate

LEMMA DatesInvHolds == QueriesSpec => []DatesInv
<1>1. QueriesInit => DatesInv
  BY FS_EmptySet DEF QueriesInit, Init, TablesInit, EmptyTable, DatesInv
<1>2. ServiceInv /\ DatesInv /\ [QueriesNext]_<<vars, reads>> => DatesInv'
  <2> SUFFICES ASSUME ServiceInv, DatesInv, [QueriesNext]_<<vars, reads>> PROVE DatesInv'
    OBVIOUS
  <2>1. \A c \in DOMAIN booking' \ DOMAIN booking :
          DOMAIN booking' = DOMAIN booking \cup {c}
    BY QueriesStep, RowsAreKept DEF ServiceInv
  <2>2. ASSUME DOMAIN booking' = DOMAIN booking, UNCHANGED newer PROVE DatesInv'
    BY <2>2 DEF DatesInv, SameDate
  <2>3. CASE Writing
    BY <2>1, <2>2, <2>3, DatedInOrder DEF Writing
  <2> QED BY <2>2, <2>3 DEF QueriesNext, Reading, reads, vars, tables
<1> QED BY <1>1, <1>2, ServiceInvHolds, PTL DEF QueriesSpec

-----------------------------------------------------------------------------
(* What the slots have read                                                *)

View == {Idle} \cup ListView \cup StatsView \cup RoomsView
               \cup QuoteView \cup HotelsView \cup UsersView

ListSteps == {"list", "listZones", "listed"}
StatsSteps == {"stats", "statsAnswered"}
RoomsSteps == {"rooms", "roomsAnswered"}
QuoteSteps == {"quoteRoom", "quoteCheck", "quoted"}
HotelsSteps == {"hotels", "hotelRooms", "hotelsAnswered"}
UsersSteps == {"users", "usersAnswered"}

ViewsTyped == view \in [Readers -> View]

(* The step of a slot tells which call it answers.                         *)
LEMMA SlotKinds ==
  ASSUME ViewsTyped, NEW q \in Readers
  PROVE  /\ view[q].step \in ListSteps => view[q] \in ListView
         /\ view[q].step \in StatsSteps => view[q] \in StatsView
         /\ view[q].step \in RoomsSteps => view[q] \in RoomsView
         /\ view[q].step \in QuoteSteps => view[q] \in QuoteView
         /\ view[q].step \in HotelsSteps => view[q] \in HotelsView
         /\ view[q].step \in UsersSteps => view[q] \in UsersView
<1> DEFINE v == view[q]
<1> USE DEF ListSteps, StatsSteps, RoomsSteps, QuoteSteps, HotelsSteps, UsersSteps
<1>1. v \in View
  BY DEF ViewsTyped
<1>2. CASE v = Idle
  BY <1>2 DEF Idle
<1>3. CASE v \in ListView
  BY <1>3 DEF ListView
<1>4. CASE v \in StatsView
  BY <1>4 DEF StatsView
<1>5. CASE v \in RoomsView
  BY <1>5 DEF RoomsView
<1>6. CASE v \in QuoteView
  BY <1>6 DEF QuoteView
<1>7. CASE v \in HotelsView
  BY <1>7 DEF HotelsView
<1>8. CASE v \in UsersView
  BY <1>8 DEF UsersView
<1> QED BY <1>1, <1>2, <1>3, <1>4, <1>5, <1>6, <1>7, <1>8 DEF View

(* Only one slot reads at a time.                                          *)
LEMMA OneSlotReads ==
  ASSUME ViewsTyped, Reading
  PROVE  \E q \in Readers :
           /\ view' = [view EXCEPT ![q] = view'[q]]
           /\ (\E u \in DOMAIN user : ReadBegin(q, u)) \/ ReadStep(q) \/ Close(q)
<1> DEFINE Others(q) == view' = [view EXCEPT ![q] = view'[q]]
<1>1. ASSUME NEW q \in Readers, NEW v, view' = [view EXCEPT ![q] = v]
      PROVE  Others(q)
  BY <1>1 DEF ViewsTyped
<1>2. ASSUME NEW q \in Readers, NEW v, Open(q, v) \/ Show(q, v)
      PROVE  Others(q)
  BY <1>1, <1>2 DEF Open, Show
<1>3. ASSUME NEW q \in Readers, NEW step, NEW s, NEW v, NEW next, Answer(q, step, s, v, next)
      PROVE  Others(q)
  BY <1>1, <1>3 DEF Answer, Show
<1>4. ASSUME NEW q \in Readers, NEW u, ReadBegin(q, u)
      PROVE  Others(q)
  BY <1>2, <1>4 DEF ReadBegin, ListBegin, StatsBegin, RoomsBegin, QuoteBegin, HotelsBegin,
                    HotelFindOne, UsersBegin
<1>5. ASSUME NEW q \in Readers, ReadStep(q)
      PROVE  Others(q)
  BY <1>2, <1>3, <1>5
     DEF ReadStep, ListFindMany, ListCount, ListZones, ListNextPage, StatsStatement,
         RoomsStatement, QuoteRoom, QuoteCheck, HotelsStatement, HotelRooms, UsersStatement
<1>6. ASSUME NEW q \in Readers, Close(q)
      PROVE  Others(q)
  BY <1>2, <1>6 DEF Close
<1> QED BY <1>4, <1>5, <1>6 DEF Reading

LEMMA ShowShows ==
  ASSUME ViewsTyped, NEW q \in Readers, NEW v, Show(q, v) \/ Open(q, v)
  PROVE  view'[q] = v
BY DEF Show, Open, ViewsTyped

(* BookingsService.list                                                    *)
LEMMA ListTyped ==
  ASSUME TypeInv, ViewsTyped, NEW q \in Readers,
         ListFindMany(q) \/ ListCount(q) \/ ListZones(q) \/ ListNextPage(q)
  PROVE  view'[q] \in ListView
<1> DEFINE v == view[q]
<1>1. v \in ListView
  BY SlotKinds DEF ListFindMany, ListCount, ListZones, ListNextPage, At, ListSteps
<1>2. \A w : Matching(w) \subseteq Calls
  BY DEF Matching, TypeInv, TablesTypeOK, IsTable
<1>3. ASSUME NEW s, NEW w \in ListView, Answer(q, "list", s, w, AfterPage(w))
      PROVE  view'[q] \in ListView
  <2> DEFINE S == v.waiting \ {s}
             next == IF S = {} THEN AfterPage(w) ELSE "list"
  <2>1. S \in SUBSET PageStatements
    BY <1>1 DEF ListView
  <2>2. next \in {"list", "listZones", "listed"}
    BY DEF AfterPage
  <2>3. view'[q] = [w EXCEPT !.waiting = S, !.step = next]
    BY <1>3 DEF Answer, Show, ViewsTyped
  <2> HIDE DEF S, next
  <2> QED BY <1>3, <2>1, <2>2, <2>3 DEF ListView
<1>4. CASE ListFindMany(q)
  <2> DEFINE rowsOf(page) == {[id |-> b, status |-> booking[b].status] : b \in page}
             after(page) == [v EXCEPT !.rows = rowsOf(page), !.seen = @ \cup page]
  <2>1. PICK page \in Pages(Matching(v.where), v.offset) :
          Answer(q, "list", "findMany", after(page), AfterPage(after(page)))
    BY <1>4 DEF ListFindMany
  <2>2. page \subseteq Calls /\ page \subseteq DOMAIN booking
    BY <1>2 DEF Pages, Matching
  <2>3. rowsOf(page) \in SUBSET [id : Calls, status : BookingStatus]
    BY <2>2 DEF TypeInv, TablesTypeOK, IsTable, BookingRow
  <2>4. after(page) \in ListView
    <3> HIDE DEF rowsOf
    <3> QED BY <1>1, <2>2, <2>3 DEF ListView
  <2> HIDE DEF after
  <2> QED BY <1>3, <2>1, <2>4
<1>5. CASE ListCount(q)
  <2> DEFINE total == Total(v.where)
             w == [v EXCEPT !.total = total]
  <2>1. w \in ListView
    <3>1. total \in SUBSET Calls
      BY <1>2 DEF Total
    <3> HIDE DEF total
    <3> QED BY <1>1, <3>1 DEF ListView
  <2>2. Answer(q, "list", "count", w, AfterPage(w))
    BY <1>5 DEF ListCount
  <2> HIDE DEF w
  <2> QED BY <1>3, <2>1, <2>2
<1>6. CASE ListZones(q)
  <2> DEFINE rows == v.rows
             zones == {[id |-> h, timezone |-> hotel[h].timezone] :
                         h \in {booking[b].hotelId : b \in Ids(rows)} \cap DOMAIN hotel}
             cancellable == CancellableByGuest(rows, zones)
  <2>1. zones \in SUBSET [id : Hotels, timezone : Int]
    BY DEF TypeInv, TablesTypeOK, IsTable, HotelRow
  <2>2. cancellable \in SUBSET Calls
    <3>1. rows \in SUBSET [id : Calls, status : BookingStatus]
      BY <1>1 DEF ListView
    <3> HIDE DEF zones, rows
    <3> QED BY <3>1 DEF CancellableByGuest
  <2>3. now \in Nat
    BY TablesAssumption DEF TypeInv, TablesTypeOK
  <2>4. Show(q, [v EXCEPT !.step = "listed", !.zones = zones, !.at = now,
                          !.cancellable = cancellable])
    BY <1>6 DEF ListZones
  <2> HIDE DEF zones, cancellable
  <2>5. [v EXCEPT !.step = "listed", !.zones = zones, !.at = now,
                  !.cancellable = cancellable] \in ListView
    BY <1>1, <2>1, <2>2, <2>3 DEF ListView
  <2> QED BY <2>4, <2>5, ShowShows
<1>7. CASE ListNextPage(q)
  <2>1. Show(q, [v EXCEPT !.step = "list", !.waiting = PageStatements,
                          !.offset = @ + PageLimit, !.rows = {}, !.total = {},
                          !.zones = {}, !.cancellable = {}, !.at = 0])
    BY <1>7 DEF ListNextPage
  <2>2. v.offset + PageLimit \in Nat
    BY <1>1, QueriesAssumption DEF ListView
  <2>3. [v EXCEPT !.step = "list", !.waiting = PageStatements,
                  !.offset = @ + PageLimit, !.rows = {}, !.total = {},
                  !.zones = {}, !.cancellable = {}, !.at = 0] \in ListView
    BY <1>1, <2>2 DEF ListView
  <2> QED BY <2>1, <2>3, ShowShows
<1> QED BY <1>4, <1>5, <1>6, <1>7

(* DashboardService.getStats                                               *)
LEMMA StatsTyped ==
  ASSUME TypeInv, ViewsTyped, NEW q \in Readers, StatsStatement(q)
  PROVE  view'[q] \in StatsView
<1> DEFINE v == view[q]
<1>1. v \in StatsView
  BY SlotKinds DEF StatsStatement, At, StatsSteps
<1>2. \A scope, status : InScope(scope, status) \subseteq DOMAIN booking
  BY DEF InScope, Matching
<1>3. DOMAIN booking \subseteq Calls /\ DOMAIN hotel \subseteq Hotels
      /\ \A b \in DOMAIN booking : booking[b].totalAmount \in Nat
  BY DEF TypeInv, TablesTypeOK, IsTable, BookingRow
<1>4. Revenue(v.scope) \in SUBSET [id : Calls, amount : Nat]
  BY <1>2, <1>3 DEF Revenue
<1>5. ASSUME NEW s, NEW w \in StatsView, Answer(q, "stats", s, w, "statsAnswered")
      PROVE  view'[q] \in StatsView
  <2> DEFINE S == v.waiting \ {s}
             next == IF S = {} THEN "statsAnswered" ELSE "stats"
  <2>1. S \in SUBSET DashboardStatements
    BY <1>1 DEF StatsView
  <2>2. view'[q] = [w EXCEPT !.waiting = S, !.step = next]
    BY <1>5 DEF Answer, Show, ViewsTyped
  <2>3. next \in {"stats", "statsAnswered"}
    OBVIOUS
  <2> HIDE DEF S, next
  <2> QED BY <1>5, <2>1, <2>2, <2>3 DEF StatsView
<1>6. /\ \A S \in SUBSET Hotels : [v EXCEPT !.hotels = S] \in StatsView
      /\ \A S \in SUBSET Calls : /\ [v EXCEPT !.bookings = S] \in StatsView
                                 /\ [v EXCEPT !.confirmed = S] \in StatsView
                                 /\ [v EXCEPT !.pending = S] \in StatsView
      /\ \A S \in SUBSET [id : Calls, amount : Nat] : [v EXCEPT !.revenue = S] \in StatsView
  BY <1>1 DEF StatsView
<1>7. \A scope, status : InScope(scope, status) \in SUBSET Calls
  BY <1>2, <1>3
<1>8. {h \in DOMAIN hotel : v.scope \in {Unset, h}} \in SUBSET Hotels
  BY <1>3
<1> QED BY <1>4, <1>5, <1>6, <1>7, <1>8 DEF StatsStatement

(* RoomsService.list                                                       *)
LEMMA RoomsTyped ==
  ASSUME TypeInv, ViewsTyped, NEW q \in Readers, RoomsStatement(q)
  PROVE  view'[q] \in RoomsView
<1> DEFINE v == view[q]
<1>1. v \in RoomsView
  BY SlotKinds DEF RoomsStatement, At, RoomsSteps
<1>2. RoomsWhere(v) \subseteq Rooms /\ DOMAIN booking \subseteq Calls
  BY DEF RoomsWhere, TypeInv, TablesTypeOK, IsTable
<1>3. ASSUME NEW s, NEW w \in RoomsView, Answer(q, "rooms", s, w, "roomsAnswered")
      PROVE  view'[q] \in RoomsView
  <2> DEFINE S == v.waiting \ {s}
             next == IF S = {} THEN "roomsAnswered" ELSE "rooms"
  <2>1. S \in SUBSET PageStatements
    BY <1>1 DEF RoomsView
  <2>2. view'[q] = [w EXCEPT !.waiting = S, !.step = next]
    BY <1>3 DEF Answer, Show, ViewsTyped
  <2>3. next \in {"rooms", "roomsAnswered"}
    OBVIOUS
  <2> HIDE DEF S, next
  <2> QED BY <1>3, <2>1, <2>2, <2>3 DEF RoomsView
<1>4. /\ \A S \in SUBSET Rooms, T \in SUBSET Calls :
           [v EXCEPT !.rows = S, !.known = T] \in RoomsView
      /\ \A S \in SUBSET Rooms : [v EXCEPT !.total = S] \in RoomsView
  BY <1>1 DEF RoomsView
<1>5. ASSUME NEW page \in SomePage(RoomsWhere(v))
      PROVE  [v EXCEPT !.rows = page, !.known = DOMAIN booking] \in RoomsView
  BY <1>2, <1>4 DEF SomePage
<1>6. [v EXCEPT !.total = RoomsWhere(v)] \in RoomsView
  BY <1>2, <1>4
<1> QED BY <1>3, <1>5, <1>6 DEF RoomsStatement

(* BookingsService.quote                                                   *)
LEMMA QuoteTyped ==
  ASSUME TypeInv, ViewsTyped, NEW q \in Readers, QuoteRoom(q) \/ QuoteCheck(q)
  PROVE  view'[q] \in QuoteView
<1> DEFINE v == view[q]
<1>1. v \in QuoteView
  BY SlotKinds DEF QuoteRoom, QuoteCheck, At, QuoteSteps
<1>2. CASE QuoteRoom(q)
  <2> DEFINE amount == room[v.dto.roomId].pricePerNight * Nights(v.dto.checkIn, v.dto.checkOut)
  <2>1. v.dto \in QuoteDtos
    BY <1>1 DEF QuoteView
  <2>2. v.dto.checkIn \in Int /\ v.dto.checkOut \in Int
    BY <2>1, QueriesAssumption
  <2>3. room[v.dto.roomId].pricePerNight \in Int
    BY <1>2 DEF QuoteRoom, TypeInv, TablesTypeOK, IsTable, RoomRow
  <2>4. amount \in Int
    <3>1. Nights(v.dto.checkIn, v.dto.checkOut) = v.dto.checkOut - v.dto.checkIn
      BY <2>2, NightsAreDays
    <3>2. Nights(v.dto.checkIn, v.dto.checkOut) \in Int
      BY <2>2, <3>1
    <3> QED BY <2>3, <3>2
  <2>5. view'[q] = [v EXCEPT !.step = "quoteCheck", !.amount = amount]
    BY <1>2 DEF QuoteRoom, Show, ViewsTyped
  <2> HIDE DEF amount
  <2> QED BY <1>1, <2>4, <2>5 DEF QuoteView
<1>3. CASE QuoteCheck(q)
  <2>1. DOMAIN booking \in SUBSET Calls
    BY DEF TypeInv, TablesTypeOK, IsTable
  <2>2. view'[q] = [v EXCEPT !.step = "quoted", !.known = DOMAIN booking]
    BY <1>3 DEF QuoteCheck, Show, ViewsTyped
  <2> QED BY <1>1, <2>1, <2>2 DEF QuoteView
<1> QED BY <1>2, <1>3

(* HotelsService.list and findOne                                          *)
LEMMA HotelsTyped ==
  ASSUME TypeInv, ViewsTyped, NEW q \in Readers, HotelsStatement(q) \/ HotelRooms(q)
  PROVE  view'[q] \in HotelsView
<1> DEFINE v == view[q]
<1>1. v \in HotelsView
  BY SlotKinds DEF HotelsStatement, HotelRooms, At, HotelsSteps
<1>2. HotelsWhere(v.status) \in SUBSET Hotels
  BY DEF HotelsWhere, TypeInv, TablesTypeOK, IsTable
<1>3. ASSUME NEW s, NEW w \in HotelsView, NEW u, Answer(q, "hotels", s, w, AfterHotels(u))
      PROVE  view'[q] \in HotelsView
  <2> DEFINE S == v.waiting \ {s}
             next == IF S = {} THEN AfterHotels(u) ELSE "hotels"
  <2>1. S \in SUBSET PageStatements
    BY <1>1 DEF HotelsView
  <2>2. view'[q] = [w EXCEPT !.waiting = S, !.step = next]
    BY <1>3 DEF Answer, Show, ViewsTyped
  <2>3. next \in {"hotels", "hotelRooms", "hotelsAnswered"}
    BY DEF AfterHotels
  <2> HIDE DEF S, next
  <2> QED BY <1>3, <2>1, <2>2, <2>3 DEF HotelsView
<1>4. \A S \in SUBSET Hotels : /\ [v EXCEPT !.rows = S] \in HotelsView
                               /\ [v EXCEPT !.total = S] \in HotelsView
  BY <1>1 DEF HotelsView
<1>5. CASE HotelsStatement(q)
  <2>1. \A page \in SomePage(HotelsWhere(v.status)) : [v EXCEPT !.rows = page] \in HotelsView
    BY <1>2, <1>4 DEF SomePage
  <2>2. [v EXCEPT !.total = HotelsWhere(v.status)] \in HotelsView
    BY <1>2, <1>4
  <2> QED BY <1>3, <1>5, <2>1, <2>2 DEF HotelsStatement
<1>6. CASE HotelRooms(q)
  <2> DEFINE forSale == {r \in DOMAIN room : room[r].hotelId \in v.rows /\ room[r].isAvailable}
  <2>1. forSale \in SUBSET Rooms
    BY DEF TypeInv, TablesTypeOK, IsTable
  <2>2. view'[q] = [v EXCEPT !.step = "hotelsAnswered", !.forSale = forSale]
    BY <1>6 DEF HotelRooms, Show, ViewsTyped
  <2> HIDE DEF forSale
  <2> QED BY <1>1, <2>1, <2>2 DEF HotelsView
<1> QED BY <1>5, <1>6

(* UsersService.list                                                       *)
LEMMA UsersTyped ==
  ASSUME TypeInv, ViewsTyped, NEW q \in Readers, UsersStatement(q)
  PROVE  view'[q] \in UsersView
<1> DEFINE v == view[q]
           all == {u \in DOMAIN user : user[u].role = v.role}
<1>1. v \in UsersView
  BY SlotKinds DEF UsersStatement, At, UsersSteps
<1>2. all \in SUBSET Users
  BY DEF TypeInv, TablesTypeOK, IsTable
<1>3. ASSUME NEW s, NEW w \in UsersView, Answer(q, "users", s, w, "usersAnswered")
      PROVE  view'[q] \in UsersView
  <2> DEFINE S == v.waiting \ {s}
             next == IF S = {} THEN "usersAnswered" ELSE "users"
  <2>1. S \in SUBSET PageStatements
    BY <1>1 DEF UsersView
  <2>2. view'[q] = [w EXCEPT !.waiting = S, !.step = next]
    BY <1>3 DEF Answer, Show, ViewsTyped
  <2>3. next \in {"users", "usersAnswered"}
    OBVIOUS
  <2> HIDE DEF S, next
  <2> QED BY <1>3, <2>1, <2>2, <2>3 DEF UsersView
<1>4. \A S \in SUBSET Users : /\ [v EXCEPT !.rows = S] \in UsersView
                              /\ [v EXCEPT !.total = S] \in UsersView
  BY <1>1 DEF UsersView
<1>5. \A page \in SomePage(all) : [v EXCEPT !.rows = page] \in UsersView
  BY <1>2, <1>4 DEF SomePage
<1>6. [v EXCEPT !.total = all] \in UsersView
  BY <1>2, <1>4
<1> QED BY <1>3, <1>5, <1>6 DEF UsersStatement

(* The view a call begins with.                                            *)
LEMMA BeginsTyped ==
  ASSUME TypeInv, ViewsTyped, NEW q \in Readers, NEW u \in DOMAIN user, ReadBegin(q, u)
  PROVE  view'[q] \in View
<1>1. /\ u \in Users /\ user[u].role \in Role /\ user[u].hotelId \in Hotels \cup {NoHotel}
      /\ DOMAIN hotel \subseteq Hotels
      /\ \A h \in DOMAIN hotel : hotel[h].timezone \in Int
  BY DEF TypeInv, TablesTypeOK, IsTable, UserRow, HotelRow
<1>2. ASSUME NEW query \in ListQueries, ListBegin(q, u, query)
      PROVE  view'[q] \in ListView
  <2> DEFINE where == ListWhere(u, query)
  <2>1. query \in ListQuery
    BY QueriesAssumption
  <2>2. where \in Where
    BY <1>1, <1>2, <2>1 DEF ListBegin, ListPermitted, ListWhere, ListQuery, Where
  <2>3. Matching(where) \in SUBSET Calls
    BY DEF Matching, TypeInv, TablesTypeOK, IsTable
  <2>4. view'[q] = FirstPage(u, query)
    BY <1>2, ShowShows DEF ListBegin
  <2> HIDE DEF where
  <2>5. FirstPage(u, query) =
          [step |-> "list", guest |-> user[u].role = "GUEST", where |-> where, offset |-> 0,
           waiting |-> PageStatements, rows |-> {}, total |-> {}, zones |-> {},
           cancellable |-> {}, at |-> 0, owed |-> Matching(where), seen |-> {}]
    BY DEF FirstPage, where
  <2>6. (user[u].role = "GUEST") \in BOOLEAN
    OBVIOUS
  <2> QED BY <2>2, <2>3, <2>4, <2>5, <2>6 DEF ListView
<1>3. ASSUME StatsBegin(q, u)
      PROVE  view'[q] \in StatsView
  <2>1. Scope(u) \in Hotels \cup {Unset}
    BY <1>1, <1>3 DEF StatsBegin, ManagerHotelAssigned, Scope
  <2> QED BY <1>3, <2>1, ShowShows DEF StatsBegin, StatsView
<1>4. ASSUME NEW h \in DOMAIN hotel, NEW stay \in StayQueries, RoomsBegin(q, u, h, stay)
      PROVE  view'[q] \in RoomsView
  <2> DEFINE inventory == user[u].role = "HOTEL_MANAGER" /\ user[u].hotelId = h
             stayOrNone == IF inventory THEN Unset ELSE stay
  <2>1. stayOrNone \in StayDates \cup {Unset}
    BY QueriesAssumption
  <2>2. view'[q] = [step |-> "rooms", hotelId |-> h, inventory |-> inventory,
                    stay |-> stayOrNone,
                    waiting |-> PageStatements, rows |-> {}, total |-> {}, known |-> {}]
    BY <1>4, ShowShows DEF RoomsBegin
  <2>3. inventory \in BOOLEAN
    OBVIOUS
  <2> HIDE DEF inventory, stayOrNone
  <2> QED BY <1>1, <2>1, <2>2, <2>3 DEF RoomsView
<1>5. ASSUME NEW dto \in QuoteDtos, QuoteBegin(q, u, dto)
      PROVE  view'[q] \in QuoteView
  <2>1. hotel[dto.hotelId].timezone \in Int
    BY <1>1, <1>5 DEF QuoteBegin
  <2>2. view'[q] = [step |-> "quoteRoom", dto |-> dto, zone |-> hotel[dto.hotelId].timezone,
                    amount |-> 0, known |-> {}]
    BY <1>5, ShowShows DEF QuoteBegin
  <2> QED BY <2>1, <2>2 DEF QuoteView
<1>6. ASSUME NEW status \in HotelStatus \cup {Unset}, HotelsBegin(q, u, status)
      PROVE  view'[q] \in HotelsView
  BY <1>6, ShowShows DEF HotelsBegin, HotelsView
<1>7. ASSUME NEW h \in DOMAIN hotel, HotelFindOne(q, u, h)
      PROVE  view'[q] \in HotelsView
  <2>1. {h} \in SUBSET Hotels
    BY <1>1
  <2> QED BY <1>7, <2>1, ShowShows DEF HotelFindOne, HotelsView
<1>8. ASSUME NEW role \in StaffRole, UsersBegin(q, u, role)
      PROVE  view'[q] \in UsersView
  BY <1>1, <1>8, ShowShows DEF UsersBegin, UsersView
<1> QED BY <1>2, <1>3, <1>4, <1>5, <1>6, <1>7, <1>8 DEF ReadBegin, View

LEMMA ViewsTypedHolds == QueriesSpec => []ViewsTyped
<1>1. QueriesInit => ViewsTyped
  BY DEF QueriesInit, ViewsTyped, View
<1>2. TypeInv /\ ViewsTyped /\ Reading => ViewsTyped'
  <2> SUFFICES ASSUME TypeInv, ViewsTyped, Reading PROVE ViewsTyped'
    OBVIOUS
  <2>1. PICK q \in Readers :
          /\ view' = [view EXCEPT ![q] = view'[q]]
          /\ (\E u \in DOMAIN user : ReadBegin(q, u)) \/ ReadStep(q) \/ Close(q)
    BY OneSlotReads
  <2>2. ReadStep(q) => view'[q] \in View
    BY ListTyped, StatsTyped, RoomsTyped, QuoteTyped, HotelsTyped, UsersTyped DEF ReadStep, View
  <2>3. Close(q) => view'[q] \in View
    BY ShowShows DEF Close, View
  <2>4. view'[q] \in View
    BY <2>1, <2>2, <2>3, BeginsTyped
  <2> QED BY <2>1, <2>4 DEF ViewsTyped
<1>3. ViewsTyped /\ UNCHANGED view => ViewsTyped'
  BY DEF ViewsTyped
<1>4. ServiceInv /\ ViewsTyped /\ [QueriesNext]_<<vars, reads>> => ViewsTyped'
  BY <1>2, <1>3 DEF QueriesNext, Writing, reads, ServiceInv
<1> QED BY <1>1, <1>4, ServiceInvHolds, PTL DEF QueriesSpec

(* What every slot holds is of its type, and the bookings are in order.    *)
THEOREM QueriesTypeCorrect == QueriesSpec => []QueriesTypeOK
<1>1. ViewsTyped /\ DatesInv => QueriesTypeOK
  BY DEF ViewsTyped, View, DatesInv, QueriesTypeOK
<1> QED BY <1>1, ViewsTypedHolds, DatesInvHolds, PTL

-----------------------------------------------------------------------------
(* Which step gives a slot what it holds                                   *)

ListStep(q) ==
  \/ \E u \in DOMAIN user, query \in ListQueries : ListBegin(q, u, query)
  \/ ListFindMany(q) \/ ListCount(q) \/ ListZones(q) \/ ListNextPage(q)
StatsStep(q) == (\E u \in DOMAIN user : StatsBegin(q, u)) \/ StatsStatement(q)
RoomsStep(q) ==
  \/ \E u \in DOMAIN user, h \in DOMAIN hotel, stay \in StayQueries : RoomsBegin(q, u, h, stay)
  \/ RoomsStatement(q)
QuoteStep(q) ==
  \/ \E u \in DOMAIN user, dto \in QuoteDtos : QuoteBegin(q, u, dto)
  \/ QuoteRoom(q) \/ QuoteCheck(q)
HotelsStep(q) ==
  \/ \E u \in DOMAIN user, status \in HotelStatus \cup {Unset} : HotelsBegin(q, u, status)
  \/ \E u \in DOMAIN user, h \in DOMAIN hotel : HotelFindOne(q, u, h)
  \/ HotelsStatement(q) \/ HotelRooms(q)
UsersStep(q) ==
  (\E u \in DOMAIN user, role \in StaffRole : UsersBegin(q, u, role)) \/ UsersStatement(q)

(* A slot holds what its own kind of call has given it: every other slot   *)
(* has what it had.                                                        *)
LEMMA WhoReads ==
  ASSUME TypeInv, ViewsTyped, Reading, NEW p \in Readers
  PROVE  \/ view'[p] = view[p]
         \/ /\ view'[p].step \in ListSteps => ListStep(p)
            /\ view'[p].step \in StatsSteps => StatsStep(p)
            /\ view'[p].step \in RoomsSteps => RoomsStep(p)
            /\ view'[p].step \in QuoteSteps => QuoteStep(p)
            /\ view'[p].step \in UsersSteps => UsersStep(p)
<1> DEFINE Kinds == /\ view'[p].step \in ListSteps => ListStep(p)
                    /\ view'[p].step \in StatsSteps => StatsStep(p)
                    /\ view'[p].step \in RoomsSteps => RoomsStep(p)
                    /\ view'[p].step \in QuoteSteps => QuoteStep(p)
                    /\ view'[p].step \in UsersSteps => UsersStep(p)
           AllSteps == ListSteps \cup StatsSteps \cup RoomsSteps \cup QuoteSteps \cup UsersSteps
<1>1. PICK q \in Readers :
        /\ view' = [view EXCEPT ![q] = view'[q]]
        /\ (\E u \in DOMAIN user : ReadBegin(q, u)) \/ ReadStep(q) \/ Close(q)
  BY OneSlotReads
<1>2. CASE p # q
  BY <1>1, <1>2 DEF ViewsTyped
<1>3. ASSUME p = q, HotelsStep(q) PROVE view'[p].step \notin AllSteps
  <2>1. view'[q] \in HotelsView
    <3>1. ASSUME NEW u \in DOMAIN user, NEW status \in HotelStatus \cup {Unset},
                 HotelsBegin(q, u, status)
          PROVE  view'[q] \in HotelsView
      BY <3>1, ShowShows DEF HotelsBegin, HotelsView
    <3>2. ASSUME NEW u \in DOMAIN user, NEW h \in DOMAIN hotel, HotelFindOne(q, u, h)
          PROVE  view'[q] \in HotelsView
      <4>1. {h} \in SUBSET Hotels
        BY DEF TypeInv, TablesTypeOK, IsTable
      <4> QED BY <3>2, <4>1, ShowShows DEF HotelFindOne, HotelsView
    <3> QED BY <1>3, <3>1, <3>2, HotelsTyped DEF HotelsStep
  <2>2. view'[q].step \in HotelsSteps
    BY <2>1 DEF HotelsView, HotelsSteps
  <2> QED BY <1>3, <2>2
          DEF HotelsSteps, ListSteps, StatsSteps, RoomsSteps, QuoteSteps, UsersSteps
<1>4. ASSUME p = q, Close(q) PROVE view'[p].step \notin AllSteps
  <2>1. view'[q].step = "idle"
    BY <1>4, ShowShows DEF Close, Idle
  <2> QED BY <1>4, <2>1 DEF ListSteps, StatsSteps, RoomsSteps, QuoteSteps, UsersSteps
<1>5. ASSUME p = q, ListStep(q) PROVE Kinds
  <2>1. view'[q].step \in ListSteps
    <3>1. ASSUME NEW u, NEW query, ListBegin(q, u, query) PROVE view'[q].step \in ListSteps
      BY <3>1, ShowShows DEF ListBegin, FirstPage, ListSteps
    <3> QED BY <1>5, <3>1, ListTyped DEF ListStep, ListView, ListSteps
  <2> QED BY <1>5, <2>1 DEF ListSteps, StatsSteps, RoomsSteps, QuoteSteps, UsersSteps
<1>6. ASSUME p = q, StatsStep(q) PROVE Kinds
  <2>1. view'[q].step \in StatsSteps
    <3>1. ASSUME NEW u, StatsBegin(q, u) PROVE view'[q].step \in StatsSteps
      BY <3>1, ShowShows DEF StatsBegin, StatsSteps
    <3> QED BY <1>6, <3>1, StatsTyped DEF StatsStep, StatsView, StatsSteps
  <2> QED BY <1>6, <2>1 DEF ListSteps, StatsSteps, RoomsSteps, QuoteSteps, UsersSteps
<1>7. ASSUME p = q, RoomsStep(q) PROVE Kinds
  <2>1. view'[q].step \in RoomsSteps
    <3>1. ASSUME NEW u, NEW h, NEW stay, RoomsBegin(q, u, h, stay)
          PROVE  view'[q].step \in RoomsSteps
      BY <3>1, ShowShows DEF RoomsBegin, RoomsSteps
    <3> QED BY <1>7, <3>1, RoomsTyped DEF RoomsStep, RoomsView, RoomsSteps
  <2> QED BY <1>7, <2>1 DEF ListSteps, StatsSteps, RoomsSteps, QuoteSteps, UsersSteps
<1>8. ASSUME p = q, QuoteStep(q) PROVE Kinds
  <2>1. view'[q].step \in QuoteSteps
    <3>1. ASSUME NEW u, NEW dto, QuoteBegin(q, u, dto) PROVE view'[q].step \in QuoteSteps
      BY <3>1, ShowShows DEF QuoteBegin, QuoteSteps
    <3> QED BY <1>8, <3>1, QuoteTyped DEF QuoteStep, QuoteView, QuoteSteps
  <2> QED BY <1>8, <2>1 DEF ListSteps, StatsSteps, RoomsSteps, QuoteSteps, UsersSteps
<1>9. ASSUME p = q, UsersStep(q) PROVE Kinds
  <2>1. view'[q].step \in UsersSteps
    <3>1. ASSUME NEW u, NEW role, UsersBegin(q, u, role) PROVE view'[q].step \in UsersSteps
      BY <3>1, ShowShows DEF UsersBegin, UsersSteps
    <3> QED BY <1>9, <3>1, UsersTyped DEF UsersStep, UsersView, UsersSteps
  <2> QED BY <1>9, <2>1 DEF ListSteps, StatsSteps, RoomsSteps, QuoteSteps, UsersSteps
<1>10. ListStep(q) \/ StatsStep(q) \/ RoomsStep(q) \/ QuoteStep(q) \/ HotelsStep(q)
       \/ UsersStep(q) \/ Close(q)
  BY <1>1 DEF ReadBegin, ReadStep, ListStep, StatsStep, RoomsStep, QuoteStep, HotelsStep, UsersStep
<1> QED BY <1>2, <1>3, <1>4, <1>5, <1>6, <1>7, <1>8, <1>9, <1>10

-----------------------------------------------------------------------------
(* The dashboard                                                           *)

(* The amounts summed were paid, and stay so: payments are kept.           *)
LEMMA StatsRead ==
  ASSUME TypeInv, ReservationInv, ViewsTyped, RevenueIsPaid, NEW q \in Readers,
         StatsStep(q)
  PROVE  /\ view'[q].confirmed \subseteq DOMAIN payment
         /\ \A x \in view'[q].revenue :
              /\ x.id \in DOMAIN payment /\ payment[x.id] = x.amount
              /\ view'[q].scope \in {Unset, booking[x.id].hotelId}
<1> DEFINE v == view[q]
           Paid(w) == /\ w.confirmed \subseteq DOMAIN payment
                      /\ \A x \in w.revenue :
                           /\ x.id \in DOMAIN payment /\ payment[x.id] = x.amount
                           /\ w.scope \in {Unset, booking[x.id].hotelId}
<1> SUFFICES Paid(view'[q])
  OBVIOUS
<1>1. ASSUME NEW u, StatsBegin(q, u) PROVE Paid(view'[q])
  BY <1>1, ShowShows DEF StatsBegin
<1>2. CASE StatsStatement(q)
  <2>1. v \in StatsView /\ Paid(v)
    BY <1>2, SlotKinds DEF StatsStatement, At, StatsSteps, RevenueIsPaid
  <2>2. ASSUME NEW s, NEW w \in StatsView, Paid(w), Answer(q, "stats", s, w, "statsAnswered")
        PROVE  Paid(view'[q])
    <3> DEFINE S == v.waiting \ {s}
               next == IF S = {} THEN "statsAnswered" ELSE "stats"
    <3>1. view'[q] = [w EXCEPT !.waiting = S, !.step = next]
      BY <2>2 DEF Answer, Show, ViewsTyped
    <3> HIDE DEF S, next
    <3>2. /\ view'[q].confirmed = w.confirmed /\ view'[q].revenue = w.revenue
          /\ view'[q].scope = w.scope
      BY <2>2, <3>1 DEF StatsView
    <3> QED BY <2>2, <3>2
  <2>3. \A b \in InScope(v.scope, "CONFIRMED") :
          /\ b \in DOMAIN booking /\ b \in DOMAIN payment
          /\ payment[b] = booking[b].totalAmount
          /\ v.scope \in {Unset, booking[b].hotelId}
    BY QueriesAssumption DEF InScope, Matching, ReservationInv, PaymentMatchesStatus, BookingStatus
  <2>4. ASSUME NEW S
        PROVE  /\ Paid([v EXCEPT !.hotels = S]) /\ Paid([v EXCEPT !.bookings = S])
               /\ Paid([v EXCEPT !.pending = S])
    BY <2>1 DEF StatsView
  <2>5. ASSUME NEW S, S \subseteq DOMAIN payment PROVE Paid([v EXCEPT !.confirmed = S])
    BY <2>1, <2>5 DEF StatsView
  <2>6. Paid([v EXCEPT !.revenue = Revenue(v.scope)])
    <3>1. \A x \in Revenue(v.scope) :
            /\ x.id \in DOMAIN payment /\ payment[x.id] = x.amount
            /\ v.scope \in {Unset, booking[x.id].hotelId}
      BY <2>3 DEF Revenue
    <3> DEFINE w == [v EXCEPT !.revenue = Revenue(v.scope)]
    <3>2. w.confirmed = v.confirmed /\ w.revenue = Revenue(v.scope) /\ w.scope = v.scope
      BY <2>1 DEF StatsView
    <3> HIDE DEF w
    <3>3. Paid(w)
      BY <2>1, <3>1, <3>2
    <3> QED BY <3>3 DEF w
  <2>7. InScope(v.scope, "CONFIRMED") \subseteq DOMAIN payment
    BY <2>3
  <2>8. DOMAIN booking \subseteq Calls /\ DOMAIN hotel \subseteq Hotels
        /\ \A b \in DOMAIN booking : booking[b].totalAmount \in Nat
    BY DEF TypeInv, TablesTypeOK, IsTable, BookingRow
  <2>9. /\ \A S \in SUBSET Hotels : [v EXCEPT !.hotels = S] \in StatsView
        /\ \A S \in SUBSET Calls : /\ [v EXCEPT !.bookings = S] \in StatsView
                                   /\ [v EXCEPT !.confirmed = S] \in StatsView
                                   /\ [v EXCEPT !.pending = S] \in StatsView
        /\ \A S \in SUBSET [id : Calls, amount : Nat] : [v EXCEPT !.revenue = S] \in StatsView
    BY <2>1 DEF StatsView
  <2>10. \A scope, status : InScope(scope, status) \in SUBSET Calls
    BY <2>8 DEF InScope, Matching
  <2>11. /\ {h \in DOMAIN hotel : v.scope \in {Unset, h}} \in SUBSET Hotels
         /\ Revenue(v.scope) \in SUBSET [id : Calls, amount : Nat]
    BY <2>3, <2>8, <2>10 DEF Revenue
  <2> HIDE DEF Paid
  <2> QED BY <1>2, <2>2, <2>4, <2>5, <2>6, <2>7, <2>9, <2>10, <2>11 DEF StatsStatement
<1> QED BY <1>1, <1>2 DEF StatsStep

(* Reading and writing, for an invariant of the slots: the tables are as   *)
(* they were, or the slots are.                                            *)
LEMMA ReadOrWrite ==
  ASSUME [QueriesNext]_<<vars, reads>>
  PROVE  \/ Reading /\ UNCHANGED <<tables, now, newer, enrolled>>
         \/ UNCHANGED view
BY DEF QueriesNext, Reading, Writing, vars, staff, reads

(* No revenue on the dashboard that has not been paid, and no booking      *)
(* counted as confirmed that has not been.                                 *)
THEOREM RevenueAlwaysPaid == QueriesSpec => []RevenueIsPaid
<1>1. QueriesInit => RevenueIsPaid
  BY DEF QueriesInit, Idle, RevenueIsPaid
<1>2. ASSUME ServiceInv, ViewsTyped, RevenueIsPaid, Reading, UNCHANGED tables
      PROVE  RevenueIsPaid'
  <2> SUFFICES ASSUME NEW q \in Readers, view'[q].step \in StatsSteps
               PROVE  /\ view'[q].confirmed \subseteq DOMAIN payment
                      /\ \A x \in view'[q].revenue :
                           /\ x.id \in DOMAIN payment /\ payment[x.id] = x.amount
                           /\ view'[q].scope \in {Unset, booking[x.id].hotelId}
    BY <1>2 DEF RevenueIsPaid, StatsSteps, tables
  <2>1. CASE view'[q] = view[q]
    BY <1>2, <2>1 DEF RevenueIsPaid, StatsSteps
  <2>2. CASE StatsStep(q)
    BY <1>2, <2>2, StatsRead DEF ServiceInv
  <2> QED BY <1>2, <2>1, <2>2, WhoReads DEF ServiceInv
<1>3. ASSUME ServiceInv, RevenueIsPaid, [Next]_vars, UNCHANGED view
      PROVE  RevenueIsPaid'
  <2>1. /\ \A b \in DOMAIN booking : SameBooking(b)
        /\ \A b \in DOMAIN payment : b \in DOMAIN payment' /\ payment'[b] = payment[b]
        /\ DOMAIN payment \subseteq DOMAIN booking
    BY <1>3, RowsAreKept DEF ServiceInv, ReservationInv, PaymentMatchesStatus
  <2> QED BY <1>3, <2>1 DEF RevenueIsPaid, SameBooking
<1>4. ServiceInv /\ ViewsTyped /\ RevenueIsPaid /\ [QueriesNext]_<<vars, reads>> => RevenueIsPaid'
  BY <1>2, <1>3, ReadOrWrite, QueriesStep
<1> QED BY <1>1, <1>4, ServiceInvHolds, ViewsTypedHolds, PTL DEF QueriesSpec

-----------------------------------------------------------------------------
(* The rooms on offer                                                      *)

(* Nothing that was there when a room was offered takes it.                *)
OffersInv ==
  \A q \in Readers :
    /\ view[q].step \in RoomsSteps \cup QuoteSteps => view[q].known \subseteq DOMAIN booking
    /\ \A b \in DOMAIN booking : IsActive(b) =>
         /\ /\ view[q].step \in RoomsSteps /\ view[q].stay # Unset /\ b \in view[q].known
            => \A r \in view[q].rows : ~Collides(b, r, view[q].stay.checkIn, view[q].stay.checkOut)
         /\ /\ view[q].step = "quoted" /\ b \in view[q].known
            => ~Collides(b, view[q].dto.roomId, view[q].dto.checkIn, view[q].dto.checkOut)

(* What FreeFor looks for is an active booking that collides.              *)
LEMMA FreeForMeans ==
  ASSUME NEW r, NEW stay, FreeFor(r, stay), NEW b \in DOMAIN booking, IsActive(b)
  PROVE  ~Collides(b, r, stay.checkIn, stay.checkOut)
BY DEF FreeFor, IsActive, Collides, Overlap

(* A list of rooms: the page and what it knows are of one snapshot.        *)
LEMMA RoomsRead ==
  ASSUME TypeInv, ViewsTyped, OffersInv, NEW q \in Readers, RoomsStep(q)
  PROVE  /\ view'[q].known \subseteq DOMAIN booking
         /\ view'[q].stay # Unset =>
              \A b \in view'[q].known : IsActive(b) =>
                \A r \in view'[q].rows :
                  ~Collides(b, r, view'[q].stay.checkIn, view'[q].stay.checkOut)
<1> DEFINE v == view[q]
           Offer(w) == /\ w.known \subseteq DOMAIN booking
                       /\ w.stay # Unset =>
                            \A b \in w.known : IsActive(b) =>
                              \A r \in w.rows : ~Collides(b, r, w.stay.checkIn, w.stay.checkOut)
<1> SUFFICES Offer(view'[q])
  OBVIOUS
<1>1. ASSUME NEW u, NEW h, NEW stay, RoomsBegin(q, u, h, stay) PROVE Offer(view'[q])
  BY <1>1, ShowShows DEF RoomsBegin
<1>2. CASE RoomsStatement(q)
  <2>1. v \in RoomsView /\ Offer(v)
    BY <1>2, SlotKinds DEF RoomsStatement, At, RoomsSteps, OffersInv
  <2>2. ASSUME NEW s, NEW w \in RoomsView, Offer(w), Answer(q, "rooms", s, w, "roomsAnswered")
        PROVE  Offer(view'[q])
    <3> DEFINE S == v.waiting \ {s}
               next == IF S = {} THEN "roomsAnswered" ELSE "rooms"
    <3>1. view'[q] = [w EXCEPT !.waiting = S, !.step = next]
      BY <2>2 DEF Answer, Show, ViewsTyped
    <3> HIDE DEF S, next
    <3>2. /\ view'[q].known = w.known /\ view'[q].rows = w.rows /\ view'[q].stay = w.stay
      BY <2>2, <3>1 DEF RoomsView
    <3> HIDE DEF v
    <3> QED BY <2>2, <3>2
  <2>3. RoomsWhere(v) \subseteq Rooms /\ DOMAIN booking \subseteq Calls
    BY DEF RoomsWhere, TypeInv, TablesTypeOK, IsTable
  <2>4. ASSUME NEW page \in SomePage(RoomsWhere(v))
        PROVE  LET w == [v EXCEPT !.rows = page, !.known = DOMAIN booking]
               IN  w \in RoomsView /\ Offer(w)
    <3> DEFINE w == [v EXCEPT !.rows = page, !.known = DOMAIN booking]
    <3>1. page \subseteq RoomsWhere(v)
      BY DEF SomePage
    <3>2. w \in RoomsView
      BY <2>1, <2>3, <3>1 DEF RoomsView
    <3>3. w.rows = page /\ w.known = DOMAIN booking /\ w.stay = v.stay
      BY <2>1 DEF RoomsView
    <3>4. v.stay # Unset => \A r \in page : FreeFor(r, v.stay)
      BY <3>1 DEF RoomsWhere
    <3> HIDE DEF w, v
    <3>5. Offer(w)
      BY <3>3, <3>4, FreeForMeans
    <3> QED BY <3>2, <3>5 DEF w, v
  <2>5. LET w == [v EXCEPT !.total = RoomsWhere(v)] IN w \in RoomsView /\ Offer(w)
    <3> DEFINE w == [v EXCEPT !.total = RoomsWhere(v)]
    <3>1. w \in RoomsView
      BY <2>1, <2>3 DEF RoomsView
    <3>2. w.rows = v.rows /\ w.known = v.known /\ w.stay = v.stay
      BY <2>1 DEF RoomsView
    <3> HIDE DEF w
    <3>3. Offer(w)
      BY <2>1, <3>2
    <3> QED BY <3>1, <3>3 DEF w
  <2> HIDE DEF Offer
  <2> QED BY <1>2, <2>2, <2>4, <2>5 DEF RoomsStatement
<1> QED BY <1>1, <1>2 DEF RoomsStep

(* A quote: what has been found free is free of what is known.             *)
LEMMA QuoteRead ==
  ASSUME TypeInv, ViewsTyped, OffersInv, NEW q \in Readers, QuoteStep(q)
  PROVE  /\ view'[q].known \subseteq DOMAIN booking
         /\ view'[q].step = "quoted" =>
              \A b \in DOMAIN booking : IsActive(b) =>
                ~Collides(b, view'[q].dto.roomId, view'[q].dto.checkIn, view'[q].dto.checkOut)
<1> DEFINE v == view[q]
<1>1. CASE \E u \in DOMAIN user, dto \in QuoteDtos : QuoteBegin(q, u, dto)
  BY <1>1, ShowShows DEF QuoteBegin
<1>2. ASSUME QuoteRoom(q) \/ QuoteCheck(q)
      PROVE  v \in QuoteView /\ v.known \subseteq DOMAIN booking
  BY <1>2, SlotKinds DEF QuoteRoom, QuoteCheck, At, QuoteSteps, OffersInv
<1>3. CASE QuoteRoom(q)
  <2> PICK amount : view'[q] = [v EXCEPT !.step = "quoteCheck", !.amount = amount]
    BY <1>3 DEF QuoteRoom, Show, ViewsTyped
  <2> QED BY <1>2, <1>3 DEF QuoteView
<1>4. CASE QuoteCheck(q)
  <2>1. view'[q] = [v EXCEPT !.step = "quoted", !.known = DOMAIN booking]
    BY <1>4 DEF QuoteCheck, Show, ViewsTyped
  <2>2. view'[q].dto = v.dto /\ view'[q].known = DOMAIN booking
    BY <1>2, <1>4, <2>1 DEF QuoteView
  <2>3. ~HasOverlap(v.dto.roomId, v.dto.checkIn, v.dto.checkOut, {})
    BY <1>4 DEF QuoteCheck
  <2> QED BY <2>2, <2>3 DEF HasOverlap
<1> QED BY <1>1, <1>3, <1>4 DEF QuoteStep

LEMMA OffersInvHolds == QueriesSpec => []OffersInv
<1>1. QueriesInit => OffersInv
  BY DEF QueriesInit, Init, TablesInit, EmptyTable, Idle, OffersInv, RoomsSteps, QuoteSteps
<1>2. ASSUME ServiceInv, ViewsTyped, OffersInv, Reading, UNCHANGED tables
      PROVE  OffersInv'
  <2> DEFINE Good(v) ==
        /\ v.step \in RoomsSteps \cup QuoteSteps => v.known \subseteq DOMAIN booking
        /\ \A b \in DOMAIN booking : IsActive(b) =>
             /\ v.step \in RoomsSteps /\ v.stay # Unset /\ b \in v.known
                => \A r \in v.rows : ~Collides(b, r, v.stay.checkIn, v.stay.checkOut)
             /\ v.step = "quoted" /\ b \in v.known
                => ~Collides(b, v.dto.roomId, v.dto.checkIn, v.dto.checkOut)
  <2>1. ASSUME NEW q \in Readers PROVE Good(view'[q])
    <3>1. CASE view'[q] = view[q]
      BY <1>2, <3>1 DEF OffersInv
    <3>2. CASE view'[q].step \in RoomsSteps /\ RoomsStep(q)
      <4>1. view'[q].step \notin QuoteSteps
        BY <3>2 DEF RoomsSteps, QuoteSteps
      <4> QED BY <1>2, <3>2, <4>1, RoomsRead DEF ServiceInv, QuoteSteps
    <3>3. CASE view'[q].step \in QuoteSteps /\ QuoteStep(q)
      <4>1. view'[q].step \notin RoomsSteps
        BY <3>3 DEF RoomsSteps, QuoteSteps
      <4> QED BY <1>2, <3>3, <4>1, QuoteRead DEF ServiceInv
    <3>4. CASE view'[q].step \notin RoomsSteps \cup QuoteSteps
      BY <3>4 DEF QuoteSteps
    <3> QED BY <1>2, <3>1, <3>2, <3>3, <3>4, WhoReads DEF ServiceInv
  <2>2. UNCHANGED booking
    BY <1>2 DEF tables
  <2> QED BY <2>1, <2>2 DEF OffersInv, IsActive, Collides
<1>3. ASSUME ServiceInv, OffersInv, [Next]_vars, UNCHANGED view
      PROVE  OffersInv'
  <2>1. \A b \in DOMAIN booking : SameBooking(b)
    BY <1>3, RowsAreKept DEF ServiceInv
  <2>2. ASSUME NEW b \in DOMAIN booking, NEW r, NEW checkIn, NEW checkOut
        PROVE  Collides(b, r, checkIn, checkOut)' => Collides(b, r, checkIn, checkOut)
    BY <2>1 DEF SameBooking, Collides
  <2>3. \A q \in Readers : view[q].step \in RoomsSteps \cup QuoteSteps
          => view[q].known \subseteq DOMAIN booking /\ view[q].known \subseteq DOMAIN booking'
    BY <1>3, <2>1 DEF OffersInv, SameBooking
  <2>4. \A b \in DOMAIN booking : IsActive(b)' => IsActive(b)
    BY <2>1 DEF SameBooking
  <2>5. "quoted" \in QuoteSteps
    BY DEF QuoteSteps
  <2> SUFFICES ASSUME NEW q \in Readers, NEW b \in DOMAIN booking', IsActive(b)'
               PROVE  /\ /\ view[q].step \in RoomsSteps /\ view[q].stay # Unset
                         /\ b \in view[q].known
                         => \A r \in view[q].rows :
                              ~Collides(b, r, view[q].stay.checkIn, view[q].stay.checkOut)'
                      /\ /\ view[q].step = "quoted" /\ b \in view[q].known
                         => ~Collides(b, view[q].dto.roomId, view[q].dto.checkIn,
                                      view[q].dto.checkOut)'
    BY <1>3, <2>3 DEF OffersInv
  <2>6. view[q].step \in RoomsSteps \cup QuoteSteps /\ b \in view[q].known
          => b \in DOMAIN booking /\ IsActive(b)
    BY <2>3, <2>4
  <2> QED BY <1>3, <2>1, <2>5, <2>6 DEF OffersInv, SameBooking, Collides
<1>4. ServiceInv /\ ViewsTyped /\ OffersInv /\ [QueriesNext]_<<vars, reads>> => OffersInv'
  BY <1>2, <1>3, ReadOrWrite, QueriesStep
<1> QED BY <1>1, <1>4, ServiceInvHolds, ViewsTypedHolds, PTL DEF QueriesSpec

(* A room that was offered is taken by a new booking only.                 *)
THEOREM OfferAlwaysStands == QueriesSpec => []OfferStands
<1>1. OffersInv => OfferStands
  BY DEF OffersInv, OfferStands, At, RoomsSteps, QuoteSteps
<1> QED BY <1>1, OffersInvHolds, PTL

-----------------------------------------------------------------------------
(* The lists of staff                                                      *)

(* The accounts on a list of staff have the role it is of, as long as they *)
(* exist.                                                                  *)
StaffListsInv ==
  \A q \in Readers : view[q].step \in UsersSteps =>
    /\ view[q].actorRole \in {"SUPER_ADMIN", "ADMIN"}
    /\ view[q].role \in ListableRoles(view[q].actorRole)
    /\ view[q].rows \subseteq enrolled
    /\ \A u \in view[q].rows \cap DOMAIN user : user[u].role = view[q].role

LEMMA UsersRead ==
  ASSUME TypeInv, StaffInv, ViewsTyped, StaffListsInv, NEW q \in Readers, UsersStep(q)
  PROVE  /\ view'[q].actorRole \in {"SUPER_ADMIN", "ADMIN"}
         /\ view'[q].role \in ListableRoles(view'[q].actorRole)
         /\ view'[q].rows \subseteq enrolled
         /\ \A u \in view'[q].rows \cap DOMAIN user : user[u].role = view'[q].role
<1> DEFINE v == view[q]
           Listed(w) == /\ w.actorRole \in {"SUPER_ADMIN", "ADMIN"}
                        /\ w.role \in ListableRoles(w.actorRole)
                        /\ w.rows \subseteq enrolled
                        /\ \A u \in w.rows \cap DOMAIN user : user[u].role = w.role
           all == {u \in DOMAIN user : user[u].role = v.role}
<1> SUFFICES Listed(view'[q])
  OBVIOUS
<1>1. ASSUME NEW u, NEW role, UsersBegin(q, u, role) PROVE Listed(view'[q])
  <2>1. view'[q] = [step |-> "users", actorRole |-> user[u].role, role |-> role,
                    waiting |-> PageStatements, rows |-> {}, total |-> {}]
    BY <1>1, ShowShows DEF UsersBegin
  <2> QED BY <1>1, <2>1 DEF UsersBegin, OrgAdmin
<1>2. CASE UsersStatement(q)
  <2>1. v \in UsersView /\ Listed(v)
    BY <1>2, SlotKinds DEF UsersStatement, At, UsersSteps, StaffListsInv
  <2>2. ASSUME NEW s, NEW w \in UsersView, Listed(w), Answer(q, "users", s, w, "usersAnswered")
        PROVE  Listed(view'[q])
    <3> DEFINE S == v.waiting \ {s}
               next == IF S = {} THEN "usersAnswered" ELSE "users"
    <3>1. view'[q] = [w EXCEPT !.waiting = S, !.step = next]
      BY <2>2 DEF Answer, Show, ViewsTyped
    <3> HIDE DEF S, next, v
    <3>2. /\ view'[q].role = w.role /\ view'[q].actorRole = w.actorRole
          /\ view'[q].rows = w.rows
      BY <2>2, <3>1 DEF UsersView
    <3> QED BY <2>2, <3>2
  <2>3. all \subseteq enrolled /\ all \in SUBSET Users
    BY DEF StaffInv, StaffTypeOK
  <2>4. ASSUME NEW page \in SomePage(all)
        PROVE  LET w == [v EXCEPT !.rows = page] IN w \in UsersView /\ Listed(w)
    <3> DEFINE w == [v EXCEPT !.rows = page]
    <3>1. page \subseteq all
      BY DEF SomePage
    <3>2. w \in UsersView
      BY <2>1, <2>3, <3>1 DEF UsersView
    <3>3. w.rows = page /\ w.role = v.role /\ w.actorRole = v.actorRole
      BY <2>1 DEF UsersView
    <3> HIDE DEF w
    <3>4. Listed(w)
      BY <2>1, <2>3, <3>1, <3>3
    <3> QED BY <3>2, <3>4 DEF w
  <2>5. LET w == [v EXCEPT !.total = all] IN w \in UsersView /\ Listed(w)
    <3> DEFINE w == [v EXCEPT !.total = all]
    <3>1. w \in UsersView
      BY <2>1, <2>3 DEF UsersView
    <3>2. w.rows = v.rows /\ w.role = v.role /\ w.actorRole = v.actorRole
      BY <2>1 DEF UsersView
    <3> HIDE DEF w
    <3>3. Listed(w)
      BY <2>1, <3>2
    <3> QED BY <3>1, <3>3 DEF w
  <2> HIDE DEF Listed
  <2> QED BY <1>2, <2>2, <2>4, <2>5 DEF UsersStatement
<1> QED BY <1>1, <1>2 DEF UsersStep

(* Ids of accounts are not given again, and roles do not change.           *)
LEMMA AccountsAreKept ==
  ASSUME TypeInv, StaffInv, [Next]_vars
  PROVE  /\ enrolled \subseteq enrolled'
         /\ DOMAIN user' \cap enrolled \subseteq DOMAIN user
         /\ \A u \in DOMAIN user \cap DOMAIN user' : user'[u].role = user[u].role
<1> DEFINE Kept == /\ enrolled \subseteq enrolled'
                   /\ DOMAIN user' \cap enrolled \subseteq DOMAIN user
                   /\ \A u \in DOMAIN user \cap DOMAIN user' : user'[u].role = user[u].role
<1> SUFFICES Kept
  OBVIOUS
<1>1. /\ \A u \in DOMAIN user : user[u] \in UserRow
      /\ DOMAIN user \subseteq enrolled
  BY DEF TypeInv, TablesTypeOK, IsTable, StaffInv, StaffTypeOK
<1>2. CASE SameAccounts
  BY <1>2 DEF SameAccounts, staff
<1>3. CASE UNCHANGED <<user, enrolled>>
  BY <1>3
<1>4. CASE StaffEffect
  <2>1. ASSUME NEW u, NEW row, user' = Put(user, u, row),
               \/ u \notin enrolled /\ enrolled' = enrolled \cup {u}
               \/ u \in DOMAIN user /\ row.role = user[u].role /\ UNCHANGED enrolled
        PROVE  Kept
    BY <1>1, <2>1 DEF Put
  <2>2. ASSUME NEW u \in DOMAIN user
        PROVE  [user[u] EXCEPT !.mustChangePassword = FALSE].role = user[u].role
    BY <1>1, <2>2 DEF UserRow
  <2>3. ASSUME NEW u \in DOMAIN user, user' = Restrict(user, DOMAIN user \ {u}), UNCHANGED enrolled
        PROVE  Kept
    BY <2>3 DEF Restrict
  <2> HIDE DEF Kept
  <2> QED BY <1>3, <1>4, <2>1, <2>2, <2>3 DEF StaffEffect, Assigned
<1>5. CASE UNCHANGED vars
  BY <1>3, <1>5 DEF vars, tables, staff
<1>6. CASE Tick /\ UNCHANGED <<tables, calls, catalog, staff>>
  BY <1>3, <1>6 DEF tables, staff
<1> HIDE DEF Kept
<1> QED BY <1>2, <1>4, <1>5, <1>6, StaffStep, OthersKeepAccounts DEF Next

LEMMA StaffListsInvHolds == QueriesSpec => []StaffListsInv
<1>1. QueriesInit => StaffListsInv
  BY DEF QueriesInit, Idle, StaffListsInv, UsersSteps
<1>2. ASSUME ServiceInv, ViewsTyped, StaffListsInv, Reading, UNCHANGED <<tables, enrolled>>
      PROVE  StaffListsInv'
  <2> SUFFICES ASSUME NEW q \in Readers, view'[q].step \in UsersSteps
               PROVE  /\ view'[q].actorRole \in {"SUPER_ADMIN", "ADMIN"}
                      /\ view'[q].role \in ListableRoles(view'[q].actorRole)
                      /\ view'[q].rows \subseteq enrolled
                      /\ \A u \in view'[q].rows \cap DOMAIN user : user[u].role = view'[q].role
    BY <1>2 DEF StaffListsInv, tables, ListableRoles
  <2>1. CASE view'[q] = view[q]
    BY <1>2, <2>1 DEF StaffListsInv
  <2>2. CASE UsersStep(q)
    BY <1>2, <2>2, UsersRead DEF ServiceInv
  <2> QED BY <1>2, <2>1, <2>2, WhoReads DEF ServiceInv
<1>3. ASSUME ServiceInv, StaffListsInv, [Next]_vars, UNCHANGED view
      PROVE  StaffListsInv'
  <2>1. /\ enrolled \subseteq enrolled'
        /\ DOMAIN user' \cap enrolled \subseteq DOMAIN user
        /\ \A u \in DOMAIN user \cap DOMAIN user' : user'[u].role = user[u].role
    BY <1>3, AccountsAreKept DEF ServiceInv
  <2> QED BY <1>3, <2>1 DEF StaffListsInv, ListableRoles
<1>4. ServiceInv /\ ViewsTyped /\ StaffListsInv /\ [QueriesNext]_<<vars, reads>> => StaffListsInv'
  BY <1>2, <1>3, ReadOrWrite, QueriesStep
<1> QED BY <1>1, <1>4, ServiceInvHolds, ViewsTypedHolds, PTL DEF QueriesSpec

(* Whoever is on a list of staff may be updated and deleted by the account *)
(* that asked for the list.                                                *)
THEOREM ListedStaffAlwaysManaged == QueriesSpec => []ListedStaffIsManaged
<1>1. ViewsTyped /\ StaffListsInv => ListedStaffIsManaged
  <2> SUFFICES ASSUME ViewsTyped, StaffListsInv, NEW q \in Readers, view[q].step \in UsersSteps,
                      NEW u \in view[q].rows \cap DOMAIN user
               PROVE  Manages(view[q].actorRole, user[u].role)
    BY DEF ListedStaffIsManaged, UsersSteps
  <2>1. user[u].role \in ListableRoles(view[q].actorRole)
    BY DEF StaffListsInv
  <2>2. view[q].actorRole \in {"SUPER_ADMIN", "ADMIN"}
    BY DEF StaffListsInv
  <2> QED BY <2>1, <2>2 DEF ListableRoles, Manages, StaffRole
<1> QED BY <1>1, ViewsTypedHolds, StaffListsInvHolds, PTL

-----------------------------------------------------------------------------
(* Pages                                                                   *)

(* There are finitely many bookings ahead of one in a list.                *)
LEMMA PlaceCounts ==
  ASSUME DatesInv, NEW w
  PROVE  /\ IsFiniteSet(Matching(w)) /\ Cardinality(Matching(w)) \in Nat
         /\ \A b \in Matching(w) : Place(b, w) \in 0 .. Cardinality(Matching(w)) - 1
<1> DEFINE M == Matching(w)
<1>1. M \subseteq DOMAIN booking /\ IsFiniteSet(DOMAIN booking)
  BY DEF Matching, DatesInv
<1>2. IsFiniteSet(M) /\ Cardinality(M) \in Nat
  BY <1>1, FS_Subset, FS_CardinalityType
<1>3. ASSUME NEW b \in M PROVE Place(b, w) \in 0 .. Cardinality(M) - 1
  <2> DEFINE ahead == newer[b] \cap M
  <2>1. ahead \subseteq M \ {b}
    BY <1>1 DEF DatesInv
  <2>2. IsFiniteSet(M \ {b}) /\ Cardinality(M \ {b}) = Cardinality(M) - 1
    BY <1>2, FS_RemoveElement
  <2>3. IsFiniteSet(ahead) /\ Cardinality(ahead) <= Cardinality(M) - 1
    BY <2>1, <2>2, FS_Subset
  <2>4. Cardinality(ahead) \in Nat
    BY <2>3, FS_CardinalityType
  <2> QED BY <1>2, <2>3, <2>4 DEF Place
<1> QED BY <1>2, <1>3

(* A booking that comes before none of the rows a page skips, and is not   *)
(* on that page, comes after all of the page, which is full, or has the    *)
(* createdAt of one that is on it.                                         *)
LEMMA PagesFill ==
  ASSUME DatesInv, NEW w, NEW offset \in Nat, NEW page \in Pages(Matching(w), offset),
         NEW b \in Matching(w) \ page, Place(b, w) >= offset
  PROVE  /\ Cardinality(page) = PageLimit
         /\ Place(b, w) >= offset + PageLimit \/ \E a \in page : SameDate(a, b)
<1> DEFINE M == Matching(w)
<1> PICK skipped \in SUBSET (M \ page) :
      /\ Cardinality(skipped) = AtMost(offset, M)
      /\ Cardinality(page) = AtMost(PageLimit, M \ skipped)
      /\ Leads(skipped, M) /\ Leads(skipped \cup page, M)
  BY DEF Pages
<1> DEFINE T == skipped \cup page
<1>1. PageLimit \in Nat \ {0}
  BY QueriesAssumption
<1>2. /\ IsFiniteSet(M) /\ Cardinality(M) \in Nat
      /\ \A a \in M : Place(a, w) \in Nat
  BY PlaceCounts
<1>3. page \subseteq M /\ M \subseteq DOMAIN newer
  BY DEF Pages, Matching, DatesInv
<1>4. \A S \in SUBSET M : IsFiniteSet(S) /\ Cardinality(S) \in Nat
  BY <1>2, FS_Subset, FS_CardinalityType
<1>5. ASSUME NEW S \in SUBSET M, Leads(S, M), NEW a \in S
      PROVE  Place(a, w) <= Cardinality(S) - 1
  <2>1. newer[a] \cap M \subseteq S \ {a}
    BY <1>3, <1>5 DEF Leads, DatesInv
  <2>2. IsFiniteSet(S \ {a}) /\ Cardinality(S \ {a}) = Cardinality(S) - 1
    BY <1>4, FS_RemoveElement
  <2> QED BY <2>1, <2>2, FS_Subset DEF Place
<1>6. Cardinality(skipped) <= offset
  BY <1>4 DEF AtMost
<1>7. b \notin skipped
  <2> SUFFICES ASSUME b \in skipped PROVE FALSE
    OBVIOUS
  <2>1. Place(b, w) <= Cardinality(skipped) - 1
    BY <1>5
  <2> QED BY <1>2, <1>4, <1>6, <2>1
<1>8. Cardinality(page) = PageLimit
  <2> DEFINE rest == M \ skipped
  <2>1. page \subseteq rest /\ page # rest /\ rest \in SUBSET M
    BY <1>3, <1>7
  <2>2. Cardinality(page) # Cardinality(rest)
    BY <1>4, <2>1, FS_Subset
  <2> QED BY <2>2 DEF AtMost
<1>9. Cardinality(skipped) = offset
  <2>1. skipped \subseteq M /\ skipped # M
    BY <1>7
  <2>2. Cardinality(skipped) # Cardinality(M)
    BY <1>2, <2>1, FS_Subset
  <2> QED BY <2>2 DEF AtMost
<1>10. ASSUME Place(b, w) < offset + PageLimit PROVE \E a \in page : SameDate(a, b)
  <2>1. T \in SUBSET M
    BY <1>3
  <2>2. Cardinality(T) = offset + PageLimit
    <3>1. skipped \cap page = {}
      OBVIOUS
    <3>2. Cardinality(T) = Cardinality(skipped) + Cardinality(page) - Cardinality(skipped \cap page)
      BY <1>3, <1>4, FS_Union
    <3>3. Cardinality(skipped \cap page) = 0
      BY <3>1, FS_EmptySet
    <3>4. Cardinality(T) = Cardinality(skipped) + Cardinality(page)
      <4> HIDE DEF T
      <4> QED BY <1>1, <1>8, <1>9, <3>2, <3>3
    <3> HIDE DEF T
    <3> QED BY <1>8, <1>9, <3>4
  <2>3. PICK a \in T : a \notin newer[b]
    <3> SUFFICES ASSUME T \subseteq newer[b] PROVE FALSE
      OBVIOUS
    <3>1. T \subseteq newer[b] \cap M /\ newer[b] \cap M \in SUBSET M
      BY <2>1
    <3>2. Cardinality(T) <= Place(b, w)
      BY <1>4, <3>1, FS_Subset DEF Place
    <3> QED BY <1>1, <1>2, <1>10, <2>2, <3>2
  <2>4. SameDate(a, b)
    <3>1. b \notin newer[a]
      BY <1>7 DEF Leads
    <3> QED BY <1>3, <2>1, <2>3, <3>1 DEF DatesInv
  <2>5. a \notin skipped
    <3> SUFFICES ASSUME a \in skipped PROVE FALSE
      OBVIOUS
    <3>1. Place(a, w) <= Cardinality(skipped) - 1
      BY <1>5
    <3>2. Place(a, w) = Place(b, w)
      BY <2>4 DEF Place, SameDate
    <3> QED BY <1>2, <1>9, <3>1, <3>2
  <2> QED BY <2>4, <2>5
<1> QED BY <1>1, <1>2, <1>8, <1>10

(* Bookings only move down a list that is not filtered by status, and two  *)
(* of the same createdAt keep it.                                          *)
LEMMA PlacesGrow ==
  ASSUME TypeInv, ReservationInv, DatesInv, DatesInv', Writing, NEW w, w.status = Unset
  PROVE  /\ Matching(w) \subseteq Matching(w)'
         /\ \A b \in Matching(w) : Place(b, w) <= Place(b, w)'
         /\ DOMAIN newer \subseteq DOMAIN newer'
         /\ \A a, b \in DOMAIN newer : SameDate(a, b) => newer'[a] = newer'[b]
<1>1. /\ \A b \in DOMAIN booking : SameBooking(b)
      /\ \A c \in DOMAIN booking' \ DOMAIN booking :
           DOMAIN booking' = DOMAIN booking \cup {c}
  BY RowsAreKept DEF Writing
<1>2. Matching(w) \subseteq Matching(w)'
  BY <1>1 DEF Matching, SameBooking
<1>3. /\ DOMAIN newer \subseteq DOMAIN newer'
      /\ \A b \in DOMAIN newer : newer[b] \subseteq newer'[b]
      /\ \A a, b \in DOMAIN newer : SameDate(a, b) => newer'[a] = newer'[b]
  <2>1. CASE \E c \in DOMAIN booking' \ DOMAIN booking : Dated(c)
    <3> PICK c \in DOMAIN booking' \ DOMAIN booking : Dated(c)
      BY <2>1
    <3>1. DOMAIN booking' = DOMAIN booking \cup {c}
      BY <1>1
    <3> QED BY <3>1, DatedInOrder DEF DatesInv
  <2>2. CASE UNCHANGED newer
    BY <2>2 DEF SameDate
  <2> QED BY <2>1, <2>2 DEF Writing
<1>4. ASSUME NEW b \in Matching(w) PROVE Place(b, w) <= Place(b, w)'
  <2>1. newer[b] \cap Matching(w) \subseteq newer'[b] \cap Matching(w)'
    BY <1>2, <1>3 DEF Matching, DatesInv
  <2>2. IsFiniteSet(newer'[b] \cap Matching(w)')
    <3>1. IsFiniteSet(DOMAIN booking') /\ Matching(w)' \subseteq DOMAIN booking'
      BY DEF Matching, DatesInv
    <3> QED BY <3>1, FS_Subset
  <2> QED BY <2>1, <2>2, FS_Subset DEF Place
<1> QED BY <1>2, <1>3, <1>4

-----------------------------------------------------------------------------
(* The list of bookings                                                    *)

(* An answer to a statement of list changes what it reads and no more.     *)
LEMMA ListAnswer ==
  ASSUME ViewsTyped, NEW q \in Readers, NEW s, NEW w \in ListView,
         Answer(q, "list", s, w, AfterPage(w))
  PROVE  /\ s \in view[q].waiting
         /\ view'[q].waiting = view[q].waiting \ {s}
         /\ view'[q].step = IF view[q].waiting \ {s} = {} THEN AfterPage(w) ELSE "list"
         /\ view'[q].guest = w.guest /\ view'[q].where = w.where
         /\ view'[q].offset = w.offset /\ view'[q].rows = w.rows
         /\ view'[q].total = w.total /\ view'[q].zones = w.zones
         /\ view'[q].cancellable = w.cancellable /\ view'[q].at = w.at
         /\ view'[q].owed = w.owed /\ view'[q].seen = w.seen
<1> DEFINE S == view[q].waiting \ {s}
           next == IF S = {} THEN AfterPage(w) ELSE "list"
<1>1. view'[q] = [w EXCEPT !.waiting = S, !.step = next] /\ s \in view[q].waiting
  BY DEF Answer, Show, ViewsTyped
<1> HIDE DEF S, next
<1>2. /\ view'[q].waiting = S /\ view'[q].step = next
      /\ view'[q].guest = w.guest /\ view'[q].where = w.where
      /\ view'[q].offset = w.offset /\ view'[q].rows = w.rows
      /\ view'[q].total = w.total /\ view'[q].zones = w.zones
      /\ view'[q].cancellable = w.cancellable /\ view'[q].at = w.at
      /\ view'[q].owed = w.owed /\ view'[q].seen = w.seen
  BY <1>1 DEF ListView
<1> QED BY <1>1, <1>2 DEF S, next

(* findMany and count, told apart from the bookkeeping of the statements.  *)
LEMMA FindManyReads ==
  ASSUME TypeInv, ViewsTyped, NEW q \in Readers, ListFindMany(q)
  PROVE  LET v == view[q]
         IN  \E page \in Pages(Matching(v.where), v.offset) :
               /\ v \in ListView /\ v.step = "list" /\ "findMany" \in v.waiting
               /\ view'[q].waiting = v.waiting \ {"findMany"}
               /\ view'[q].step = "list" \/ view'[q].waiting = {}
               /\ view'[q].step = "listed" => ~v.guest \/ view'[q].rows = {}
               /\ view'[q].rows = {[id |-> b, status |-> booking[b].status] : b \in page}
               /\ view'[q].seen = v.seen \cup page
               /\ view'[q].guest = v.guest /\ view'[q].where = v.where
               /\ view'[q].offset = v.offset /\ view'[q].total = v.total
               /\ view'[q].zones = v.zones /\ view'[q].owed = v.owed
<1> DEFINE v == view[q]
           rowsOf(p) == {[id |-> b, status |-> booking[b].status] : b \in p}
           after(p) == [v EXCEPT !.rows = rowsOf(p), !.seen = @ \cup p]
<1>1. v \in ListView /\ v.step = "list"
  BY SlotKinds DEF ListFindMany, At, ListSteps
<1>2. PICK page \in Pages(Matching(v.where), v.offset) :
        Answer(q, "list", "findMany", after(page), AfterPage(after(page)))
  BY DEF ListFindMany
<1> DEFINE rows == rowsOf(page)
           w == after(page)
<1>3. page \subseteq Calls /\ page \subseteq DOMAIN booking
  BY DEF Pages, Matching, TypeInv, TablesTypeOK, IsTable
<1>4. rows \in SUBSET [id : Calls, status : BookingStatus]
  BY <1>3 DEF TypeInv, TablesTypeOK, IsTable, BookingRow
<1>5. /\ w \in ListView
      /\ w.rows = rows /\ w.seen = v.seen \cup page /\ w.guest = v.guest
      /\ w.where = v.where /\ w.offset = v.offset /\ w.total = v.total
      /\ w.zones = v.zones /\ w.owed = v.owed
  <2> HIDE DEF rowsOf, v
  <2> QED BY <1>1, <1>3, <1>4 DEF ListView
<1>6. Answer(q, "list", "findMany", w, AfterPage(w))
  BY <1>2
<1> HIDE DEF w, after
<1>7. AfterPage(w) = "listed" => ~v.guest \/ rows = {}
  BY <1>5 DEF AfterPage
<1>8. /\ "findMany" \in v.waiting
      /\ view'[q].waiting = v.waiting \ {"findMany"}
      /\ view'[q].step = IF v.waiting \ {"findMany"} = {} THEN AfterPage(w) ELSE "list"
      /\ view'[q].guest = w.guest /\ view'[q].where = w.where
      /\ view'[q].offset = w.offset /\ view'[q].rows = w.rows
      /\ view'[q].total = w.total /\ view'[q].zones = w.zones
      /\ view'[q].owed = w.owed /\ view'[q].seen = w.seen
  BY <1>5, <1>6, ListAnswer
<1> QED
  <2> SUFFICES \E p \in Pages(Matching(v.where), v.offset) :
        /\ v \in ListView /\ v.step = "list" /\ "findMany" \in v.waiting
        /\ view'[q].waiting = v.waiting \ {"findMany"}
        /\ view'[q].step = "list" \/ view'[q].waiting = {}
        /\ view'[q].step = "listed" => ~v.guest \/ view'[q].rows = {}
        /\ view'[q].rows = rowsOf(p)
        /\ view'[q].seen = v.seen \cup p
        /\ view'[q].guest = v.guest /\ view'[q].where = v.where
        /\ view'[q].offset = v.offset /\ view'[q].total = v.total
        /\ view'[q].zones = v.zones /\ view'[q].owed = v.owed
    OBVIOUS
  <2> HIDE DEF rowsOf, v
  <2> QED BY <1>1, <1>5, <1>7, <1>8

LEMMA CountReads ==
  ASSUME TypeInv, ViewsTyped, NEW q \in Readers, ListCount(q)
  PROVE  LET v == view[q]
         IN  /\ v \in ListView /\ v.step = "list" /\ "count" \in v.waiting
             /\ view'[q].waiting = v.waiting \ {"count"}
             /\ view'[q].step = "list" \/ view'[q].waiting = {}
             /\ view'[q].step = "listed" => ~v.guest \/ view'[q].rows = {}
             /\ view'[q].total = Matching(v.where)
             /\ view'[q].rows = v.rows /\ view'[q].seen = v.seen
             /\ view'[q].guest = v.guest /\ view'[q].where = v.where
             /\ view'[q].offset = v.offset
             /\ view'[q].zones = v.zones /\ view'[q].owed = v.owed
<1> DEFINE v == view[q]
           total == Total(v.where)
           w == [v EXCEPT !.total = total]
<1>1. v \in ListView /\ v.step = "list"
  BY SlotKinds DEF ListCount, At, ListSteps
<1>2. total \in SUBSET Calls
  BY DEF Total, Matching, TypeInv, TablesTypeOK, IsTable
<1>3. Answer(q, "list", "count", w, AfterPage(w))
  BY DEF ListCount
<1> HIDE DEF total, v
<1>4. /\ w \in ListView
      /\ w.total = total /\ w.rows = v.rows /\ w.seen = v.seen /\ w.guest = v.guest
      /\ w.where = v.where /\ w.offset = v.offset
      /\ w.zones = v.zones /\ w.owed = v.owed
  BY <1>1, <1>2 DEF ListView
<1> HIDE DEF w
<1>5. AfterPage(w) = "listed" => ~v.guest \/ w.rows = {}
  BY <1>4 DEF AfterPage
<1> QED BY <1>1, <1>3, <1>4, <1>5, ListAnswer DEF v, total, Total

LEMMA NextPageReads ==
  ASSUME ViewsTyped, NEW q \in Readers, ListNextPage(q)
  PROVE  LET v == view[q]
         IN  /\ v \in ListView /\ v.step = "listed"
             /\ view'[q].step = "list" /\ view'[q].waiting = PageStatements
             /\ view'[q].offset = v.offset + PageLimit
             /\ view'[q].rows = {} /\ view'[q].zones = {}
             /\ view'[q].seen = v.seen /\ view'[q].where = v.where
             /\ view'[q].owed = v.owed
<1> DEFINE v == view[q]
<1>1. v \in ListView /\ v.step = "listed"
  BY SlotKinds DEF ListNextPage, At, ListSteps
<1>2. view'[q] = [v EXCEPT !.step = "list", !.waiting = PageStatements,
                           !.offset = @ + PageLimit, !.rows = {}, !.total = {},
                           !.zones = {}, !.cancellable = {}, !.at = 0]
  BY ShowShows DEF ListNextPage
<1> HIDE DEF v
<1>3. /\ view'[q].step = "list" /\ view'[q].waiting = PageStatements
      /\ view'[q].offset = v.offset + PageLimit
      /\ view'[q].rows = {} /\ view'[q].zones = {}
      /\ view'[q].seen = v.seen /\ view'[q].where = v.where
      /\ view'[q].owed = v.owed
  BY <1>1, <1>2 DEF ListView
<1> QED BY <1>1, <1>3 DEF v

LEMMA ZonesReads ==
  ASSUME ViewsTyped, NEW q \in Readers, ListZones(q)
  PROVE  LET v == view[q]
             zones == {[id |-> h, timezone |-> hotel[h].timezone] :
                         h \in {booking[b].hotelId : b \in Ids(v.rows)} \cap DOMAIN hotel}
         IN  /\ v \in ListView /\ v.step = "listZones"
             /\ view'[q].step = "listed" /\ view'[q].zones = zones
             /\ view'[q].cancellable = CancellableByGuest(v.rows, zones)
             /\ view'[q].at = now /\ view'[q].rows = v.rows
             /\ view'[q].waiting = v.waiting /\ view'[q].offset = v.offset
             /\ view'[q].total = v.total /\ view'[q].seen = v.seen
             /\ view'[q].where = v.where /\ view'[q].owed = v.owed
<1> DEFINE v == view[q]
           zones == {[id |-> h, timezone |-> hotel[h].timezone] :
                       h \in {booking[b].hotelId : b \in Ids(v.rows)} \cap DOMAIN hotel}
           cancellable == CancellableByGuest(v.rows, zones)
<1>1. v \in ListView /\ v.step = "listZones"
  BY SlotKinds DEF ListZones, At, ListSteps
<1>2. view'[q] = [v EXCEPT !.step = "listed", !.zones = zones, !.at = now,
                           !.cancellable = cancellable]
  BY ShowShows DEF ListZones
<1> HIDE DEF v, zones, cancellable
<1>3. /\ view'[q].step = "listed" /\ view'[q].zones = zones
      /\ view'[q].cancellable = cancellable
      /\ view'[q].at = now /\ view'[q].rows = v.rows
      /\ view'[q].waiting = v.waiting /\ view'[q].offset = v.offset
      /\ view'[q].total = v.total /\ view'[q].seen = v.seen
      /\ view'[q].where = v.where /\ view'[q].owed = v.owed
  BY <1>1, <1>2 DEF ListView
<1> QED BY <1>1, <1>3 DEF v, zones, cancellable

(* What a page says of a booking comes from one row and, in the list of a  *)
(* guest, from one zone.                                                   *)
PageOK(v) ==
  /\ Ids(v.rows) \subseteq DOMAIN booking
  /\ \A x, y \in v.rows : x.id = y.id => x = y
  /\ \A y, z \in v.zones : y.id = z.id => y = z
  /\ v.step = "listed" /\ v.guest => \A x \in v.rows :
       LET h == booking[x.id].hotelId
       IN  /\ h \in Ids(v.zones)
           /\ x.id \in v.cancellable <=>
                /\ x.status \in ActiveStatuses
                /\ GuestCancellationAllowed(booking[x.id].checkIn, v.at, ZoneOr(v.zones, h))

PageInv == \A q \in Readers : view[q].step \in ListSteps => PageOK(view[q])

(* The hotels of a guest's page are there when their zones are looked up.  *)
LEMMA ZonesMatch ==
  ASSUME ServiceInv, ViewsTyped, NEW q \in Readers, ListZones(q), PageOK(view[q])
  PROVE  PageOK(view'[q])
<1> DEFINE v == view[q]
           zones == {[id |-> h, timezone |-> hotel[h].timezone] :
                       h \in {booking[b].hotelId : b \in Ids(v.rows)} \cap DOMAIN hotel}
<1>1. /\ view'[q].zones = zones /\ view'[q].rows = v.rows /\ view'[q].at = now
      /\ view'[q].cancellable = CancellableByGuest(v.rows, zones)
  BY ZonesReads
<1>2. /\ Ids(v.rows) \subseteq DOMAIN booking
      /\ \A x, y \in v.rows : x.id = y.id => x = y
  BY DEF PageOK
<1>3. \A b \in DOMAIN booking : booking[b].hotelId \in DOMAIN hotel
  BY DEF ServiceInv, ReferenceInv, ReferencesHold, BookingParentsExist
<1>4. \A y, z \in zones : y.id = z.id => y = z
  OBVIOUS
<1> SUFFICES ASSUME NEW x \in v.rows
             PROVE  /\ booking[x.id].hotelId \in Ids(zones)
                    /\ x.id \in CancellableByGuest(v.rows, zones) <=>
                         /\ x.status \in ActiveStatuses
                         /\ GuestCancellationAllowed(booking[x.id].checkIn, now,
                                                     ZoneOr(zones, booking[x.id].hotelId))
  BY <1>1, <1>2, <1>4 DEF PageOK
<1>5. x.id \in DOMAIN booking
  BY <1>2 DEF Ids
<1>6. booking[x.id].hotelId \in Ids(zones)
  <2> DEFINE h == booking[x.id].hotelId
  <2>1. h \in {booking[b].hotelId : b \in Ids(v.rows)} \cap DOMAIN hotel
    BY <1>3, <1>5 DEF Ids
  <2>2. [id |-> h, timezone |-> hotel[h].timezone] \in zones
    BY <2>1
  <2>3. [id |-> h, timezone |-> hotel[h].timezone].id = h
    OBVIOUS
  <2> HIDE DEF zones
  <2>4. h \in Ids(zones)
    BY <2>2, <2>3 DEF Ids
  <2> QED BY <2>4
<1> HIDE DEF zones
<1>7. x.id \in CancellableByGuest(v.rows, zones) <=>
        /\ x.status \in ActiveStatuses
        /\ GuestCancellationAllowed(booking[x.id].checkIn, now,
                                    ZoneOr(zones, booking[x.id].hotelId))
  <2> DEFINE Allowed(y) == /\ y.status \in ActiveStatuses
                           /\ GuestCancellationAllowed(booking[y.id].checkIn, now,
                                                       ZoneOr(zones, booking[y.id].hotelId))
             shown == {y \in v.rows : Allowed(y)}
  <2>1. CancellableByGuest(v.rows, zones) = {y.id : y \in shown}
    BY DEF CancellableByGuest
  <2>2. x \in shown <=> Allowed(x)
    OBVIOUS
  <2>3. shown \subseteq v.rows
    OBVIOUS
  <2> HIDE DEF Allowed, shown
  <2>4. x.id \in {y.id : y \in shown} <=> x \in shown
    BY <1>2, <2>3
  <2>5. x.id \in CancellableByGuest(v.rows, zones) <=> Allowed(x)
    BY <2>1, <2>2, <2>4
  <2> QED BY <2>5 DEF Allowed
<1> QED BY <1>6, <1>7

LEMMA ListRead ==
  ASSUME ServiceInv, ViewsTyped, PageInv, NEW q \in Readers, ListStep(q)
  PROVE  PageOK(view'[q])
<1> DEFINE v == view[q]
<1>1. ASSUME v.step \in ListSteps PROVE PageOK(v)
  BY <1>1 DEF PageInv
<1>2. ASSUME NEW u, NEW query, ListBegin(q, u, query) PROVE PageOK(view'[q])
  <2>1. view'[q].rows = {} /\ view'[q].zones = {} /\ view'[q].step = "list"
    BY <1>2, ShowShows DEF ListBegin, FirstPage
  <2> QED BY <2>1 DEF PageOK, Ids
<1>3. CASE ListFindMany(q)
  <2>1. PICK page \in Pages(Matching(v.where), v.offset) :
          /\ v.step = "list"
          /\ view'[q].step = "listed" => ~v.guest \/ view'[q].rows = {}
          /\ view'[q].rows = {[id |-> b, status |-> booking[b].status] : b \in page}
          /\ view'[q].guest = v.guest /\ view'[q].zones = v.zones
    BY <1>3, FindManyReads DEF ServiceInv
  <2>2. page \subseteq DOMAIN booking
    BY DEF Pages, Matching
  <2>3. PageOK(v)
    BY <1>1, <2>1 DEF ListSteps
  <2>4. /\ Ids(view'[q].rows) \subseteq DOMAIN booking
        /\ \A x, y \in view'[q].rows : x.id = y.id => x = y
    BY <2>1, <2>2 DEF Ids
  <2>5. \A y, z \in view'[q].zones : y.id = z.id => y = z
    BY <2>1, <2>3 DEF PageOK
  <2>6. view'[q].step = "listed" /\ view'[q].guest => view'[q].rows = {}
    BY <2>1
  <2> QED BY <2>4, <2>5, <2>6 DEF PageOK
<1>4. CASE ListCount(q)
  <2>1. /\ v.step = "list"
        /\ view'[q].step = "listed" => ~v.guest \/ view'[q].rows = {}
        /\ view'[q].rows = v.rows
        /\ view'[q].guest = v.guest /\ view'[q].zones = v.zones
    BY <1>4, CountReads DEF ServiceInv
  <2>2. PageOK(v)
    BY <1>1, <2>1 DEF ListSteps
  <2>3. view'[q].step = "listed" /\ view'[q].guest => view'[q].rows = {}
    BY <2>1
  <2>4. /\ Ids(view'[q].rows) \subseteq DOMAIN booking
        /\ \A x, y \in view'[q].rows : x.id = y.id => x = y
        /\ \A y, z \in view'[q].zones : y.id = z.id => y = z
    BY <2>1, <2>2 DEF PageOK
  <2> QED BY <2>3, <2>4 DEF PageOK
<1>5. CASE ListZones(q)
  <2>1. PageOK(v)
    BY <1>1, <1>5 DEF ListZones, At, ListSteps
  <2> QED BY <1>5, <2>1, ZonesMatch
<1>6. CASE ListNextPage(q)
  <2>1. view'[q].rows = {} /\ view'[q].zones = {} /\ view'[q].step = "list"
    BY <1>6, NextPageReads
  <2> QED BY <2>1 DEF PageOK, Ids
<1> QED BY <1>2, <1>3, <1>4, <1>5, <1>6 DEF ListStep

LEMMA PageInvHolds == QueriesSpec => []PageInv
<1>1. QueriesInit => PageInv
  BY DEF QueriesInit, Idle, PageInv, ListSteps
<1>2. ASSUME ServiceInv, ViewsTyped, PageInv, Reading, UNCHANGED tables
      PROVE  PageInv'
  <2> SUFFICES ASSUME NEW q \in Readers, view'[q].step \in ListSteps
               PROVE  PageOK(view'[q])
    BY <1>2 DEF PageInv, PageOK, tables
  <2>1. CASE view'[q] = view[q]
    BY <1>2, <2>1 DEF PageInv
  <2>2. CASE ListStep(q)
    BY <1>2, <2>2, ListRead
  <2> QED BY <1>2, <2>1, <2>2, WhoReads DEF ServiceInv
<1>3. ASSUME ServiceInv, PageInv, [Next]_vars, UNCHANGED view
      PROVE  PageInv'
  <2>1. \A b \in DOMAIN booking : SameBooking(b)
    BY <1>3, RowsAreKept DEF ServiceInv
  <2>2. ASSUME NEW q \in Readers, PageOK(view[q]) PROVE PageOK(view[q])'
    <3>1. view'[q] = view[q]
      BY <1>3
    <3>2. \A x \in view[q].rows :
            /\ x.id \in DOMAIN booking /\ x.id \in DOMAIN booking'
            /\ booking'[x.id].hotelId = booking[x.id].hotelId
            /\ booking'[x.id].checkIn = booking[x.id].checkIn
      BY <2>1, <2>2 DEF PageOK, Ids, SameBooking
    <3> QED BY <2>2, <3>1, <3>2 DEF PageOK, Ids
  <2> QED BY <1>3, <2>2 DEF PageInv
<1>4. ServiceInv /\ ViewsTyped /\ PageInv /\ [QueriesNext]_<<vars, reads>> => PageInv'
  BY <1>2, <1>3, ReadOrWrite, QueriesStep
<1> QED BY <1>1, <1>4, ServiceInvHolds, ViewsTypedHolds, PTL DEF QueriesSpec

(* A guest's list never has to fall back on UTC.                           *)
THEOREM ZonesAlwaysFound == QueriesSpec => []ZonesFound
<1>1. PageInv => ZonesFound
  BY DEF PageInv, PageOK, ListSteps, ZonesFound, At, Ids
<1> QED BY <1>1, PageInvHolds, PTL

(* A guest's list and cancel agree on what may be cancelled.               *)
THEOREM CancellableAlwaysAgrees == QueriesSpec => []CancellableAgrees
<1>1. PageInv => CancellableAgrees
  <2> SUFFICES ASSUME PageInv, NEW q \in Readers, At(q, "listed"), view[q].guest, view[q].at = now,
                      NEW b \in DOMAIN booking, NEW h \in DOMAIN hotel,
                      [id |-> b, status |-> booking[b].status] \in view[q].rows,
                      booking[b].hotelId = h,
                      [id |-> h, timezone |-> hotel[h].timezone] \in view[q].zones
               PROVE  b \in view[q].cancellable <=> IsActive(b) /\ InWindow(b)
    BY DEF CancellableAgrees
  <2> DEFINE v == view[q]
             zone == [id |-> h, timezone |-> hotel[h].timezone]
             row == [id |-> b, status |-> booking[b].status]
  <2>1. PageOK(v) /\ v.step = "listed"
    BY DEF PageInv, At, ListSteps
  <2>2. zone \in v.zones /\ zone.id = h /\ zone.timezone = hotel[h].timezone
    OBVIOUS
  <2>3. row \in v.rows /\ row.id = b /\ row.status = booking[b].status
    OBVIOUS
  <2> HIDE DEF zone, row
  <2>4. h \in Ids(v.zones) /\ (CHOOSE z \in v.zones : z.id = h) = zone
    BY <2>1, <2>2 DEF PageOK, Ids
  <2>5. ZoneOr(v.zones, h) = hotel[h].timezone
    BY <2>2, <2>4 DEF ZoneOr
  <2> QED BY <2>1, <2>3, <2>5 DEF PageOK, IsActive, InWindow
<1> QED BY <1>1, PageInvHolds, PTL

(* The client has seen b or a booking of the same createdAt.               *)
Met(v, b) == \E a \in v.seen : SameDate(a, b)

(* What is owed and unmet is on the page that is read or on a later one.   *)
PagingOK(v) ==
  /\ v.step \in {"listZones", "listed"} => v.waiting = {}
  /\ v.owed \subseteq Matching(v.where)
  /\ v.seen \subseteq DOMAIN newer
  /\ "count" \notin v.waiting => v.owed \subseteq v.total
  /\ \A b \in v.owed :
       \/ Met(v, b)
       \/ "findMany" \in v.waiting \/ Cardinality(v.rows) = PageLimit
  /\ \A b \in v.owed :
       \/ Met(v, b)
       \/ Place(b, v.where) >= v.offset + (IF "findMany" \in v.waiting THEN 0 ELSE PageLimit)

PagingInv ==
  \A q \in Readers : \A v :
    view[q] = v /\ v.step \in ListSteps /\ v.where.status = Unset => PagingOK(v)

(* A page holds what it has of its rows, one for each booking.             *)
LEMMA RowsOfPage ==
  ASSUME NEW page, IsFiniteSet(page)
  PROVE  Cardinality({[id |-> b, status |-> booking[b].status] : b \in page}) = Cardinality(page)
<1> DEFINE rowOf(b) == [id |-> b, status |-> booking[b].status]
           rows == {rowOf(b) : b \in page}
           f == [b \in page |-> rowOf(b)]
<1>1. \A b \in page : rowOf(b).id = b
  OBVIOUS
<1> HIDE DEF rowOf
<1>2. f \in Bijection(page, rows)
  BY <1>1 DEF Bijection, Injection, Surjection, IsInjective
<1>3. Cardinality(page) = Cardinality(rows)
  <2> HIDE DEF rows, f
  <2> QED BY <1>2, FS_Bijection DEF ExistsBijection
<1> QED BY <1>3 DEF rows, rowOf

LEMMA FindManyPages ==
  ASSUME ServiceInv, DatesInv, ViewsTyped, NEW q \in Readers, ListFindMany(q), PagingOK(view[q])
  PROVE  PagingOK(view'[q])
<1> DEFINE v == view[q]
           n == v.offset
<1>1. PICK page \in Pages(Matching(v.where), v.offset) :
        /\ v \in ListView /\ v.step = "list" /\ "findMany" \in v.waiting
        /\ view'[q].waiting = v.waiting \ {"findMany"}
        /\ view'[q].step = "list" \/ view'[q].waiting = {}
        /\ view'[q].rows = {[id |-> b, status |-> booking[b].status] : b \in page}
        /\ view'[q].seen = v.seen \cup page
        /\ view'[q].where = v.where /\ view'[q].offset = v.offset
        /\ view'[q].total = v.total /\ view'[q].owed = v.owed
  BY FindManyReads DEF ServiceInv
<1>2. n \in Nat /\ PageLimit \in Nat \ {0}
  BY <1>1, QueriesAssumption DEF ListView
<1>3. page \subseteq Matching(v.where) /\ IsFiniteSet(page)
  <2>1. page \subseteq Matching(v.where)
    BY DEF Pages
  <2> QED BY <2>1, PlaceCounts, FS_Subset
<1>4. ASSUME NEW b \in v.owed, ~Met(view'[q], b)
      PROVE  Cardinality(page) = PageLimit /\ Place(b, v.where) >= n + PageLimit
  <2>1. ~Met(v, b) /\ ~\E a \in page : SameDate(a, b)
    BY <1>1, <1>4 DEF Met
  <2>2. b \in Matching(v.where) \ page
    BY <2>1 DEF PagingOK, SameDate
  <2>3. Place(b, v.where) >= n + 0
    BY <1>1, <2>1 DEF PagingOK
  <2>4. Place(b, v.where) >= n
    BY <1>2, <2>3
  <2> QED BY <1>2, <2>1, <2>2, <2>4, PagesFill
<1>5. Cardinality(view'[q].rows) = Cardinality(page)
  BY <1>1, <1>3, RowsOfPage
<1>6. view'[q].seen \subseteq DOMAIN newer
  BY <1>1, <1>3 DEF PagingOK, Matching, DatesInv
<1>7. /\ view'[q].step \in {"listZones", "listed"} => view'[q].waiting = {}
      /\ view'[q].owed \subseteq Matching(view'[q].where)
      /\ "count" \notin view'[q].waiting => view'[q].owed \subseteq view'[q].total
      /\ "findMany" \notin view'[q].waiting
  BY <1>1 DEF PagingOK
<1>8. \A b \in view'[q].owed :
        \/ Met(view'[q], b)
        \/ /\ Cardinality(view'[q].rows) = PageLimit
           /\ Place(b, view'[q].where) >= view'[q].offset + PageLimit
  BY <1>1, <1>4, <1>5
<1> HIDE DEF v, n
<1> QED BY <1>6, <1>7, <1>8 DEF PagingOK

LEMMA ListPages ==
  ASSUME ServiceInv, DatesInv, ViewsTyped, PagingInv, NEW q \in Readers, ListStep(q),
         view'[q].where.status = Unset
  PROVE  PagingOK(view'[q])
<1> DEFINE v == view[q]
<1>1. ASSUME v.step \in ListSteps, view'[q].where = v.where PROVE PagingOK(v)
  BY <1>1 DEF PagingInv
<1>2. ASSUME NEW u, NEW query, ListBegin(q, u, query) PROVE PagingOK(view'[q])
  <2> DEFINE w == ListWhere(u, query)
  <2>1. /\ view'[q].step = "list" /\ view'[q].where = w /\ view'[q].offset = 0
        /\ view'[q].waiting = PageStatements /\ view'[q].owed = Matching(w)
        /\ view'[q].seen = {}
    BY <1>2, ShowShows DEF ListBegin, FirstPage
  <2>2. \A b \in Matching(w) : Place(b, w) >= 0
    BY PlaceCounts
  <2> HIDE DEF w
  <2>3. "findMany" \in PageStatements /\ "count" \in PageStatements
    BY DEF PageStatements
  <2> QED BY <2>1, <2>2, <2>3 DEF PagingOK
<1>3. CASE ListFindMany(q)
  <2>1. v.step = "list" /\ view'[q].where = v.where
    BY <1>3, FindManyReads DEF ServiceInv
  <2>2. PagingOK(v)
    BY <1>1, <2>1 DEF ListSteps
  <2> QED BY <1>3, <2>2, FindManyPages
<1>4. CASE ListCount(q)
  <2>1. /\ v.step = "list" /\ view'[q].waiting = v.waiting \ {"count"}
        /\ view'[q].step = "list" \/ view'[q].waiting = {}
        /\ view'[q].total = Matching(v.where)
        /\ view'[q].rows = v.rows /\ view'[q].seen = v.seen
        /\ view'[q].where = v.where /\ view'[q].offset = v.offset
        /\ view'[q].owed = v.owed
    BY <1>4, CountReads DEF ServiceInv
  <2>2. PagingOK(v)
    BY <1>1, <2>1 DEF ListSteps
  <2>3. "findMany" \in view'[q].waiting <=> "findMany" \in v.waiting
    BY <2>1
  <2>4. \A b : Met(view'[q], b) <=> Met(v, b)
    BY <2>1 DEF Met
  <2> QED BY <2>1, <2>2, <2>3, <2>4 DEF PagingOK
<1>5. CASE ListZones(q)
  <2>1. /\ v.step = "listZones" /\ view'[q].step = "listed"
        /\ view'[q].rows = v.rows /\ view'[q].waiting = v.waiting
        /\ view'[q].offset = v.offset /\ view'[q].total = v.total
        /\ view'[q].seen = v.seen /\ view'[q].where = v.where
        /\ view'[q].owed = v.owed
    BY <1>5, ZonesReads
  <2>2. PagingOK(v)
    BY <1>1, <2>1 DEF ListSteps
  <2>3. \A b : Met(view'[q], b) <=> Met(v, b)
    BY <2>1 DEF Met
  <2> QED BY <2>1, <2>2, <2>3 DEF PagingOK
<1>6. CASE ListNextPage(q)
  <2>1. /\ v \in ListView /\ v.step = "listed"
        /\ view'[q].step = "list" /\ view'[q].waiting = PageStatements
        /\ view'[q].offset = v.offset + PageLimit
        /\ view'[q].seen = v.seen /\ view'[q].where = v.where
        /\ view'[q].owed = v.owed
    BY <1>6, NextPageReads
  <2>2. PagingOK(v)
    BY <1>1, <2>1 DEF ListSteps
  <2>3. v.waiting = {} /\ "findMany" \notin v.waiting
    BY <2>1, <2>2 DEF PagingOK
  <2>4. v.offset + PageLimit + 0 = v.offset + PageLimit
    BY <2>1, QueriesAssumption DEF ListView
  <2>5. \A b \in v.owed : Met(v, b) \/ Place(b, v.where) >= v.offset + PageLimit
    BY <2>2, <2>3 DEF PagingOK
  <2>6. v.owed \subseteq Matching(v.where) /\ v.seen \subseteq DOMAIN newer
    BY <2>2 DEF PagingOK
  <2>7. \A b : Met(view'[q], b) <=> Met(v, b)
    BY <2>1 DEF Met
  <2>8. "findMany" \in PageStatements /\ "count" \in PageStatements
    BY DEF PageStatements
  <2> QED BY <2>1, <2>4, <2>5, <2>6, <2>7, <2>8 DEF PagingOK
<1> QED BY <1>2, <1>3, <1>4, <1>5, <1>6 DEF ListStep

LEMMA PagingInvHolds == QueriesSpec => []PagingInv
<1>0. ASSUME UNCHANGED <<tables, newer>>, NEW v, PagingOK(v) PROVE PagingOK(v)'
  <2>1. ASSUME NEW w PROVE Matching(w)' = Matching(w) /\ \A b : Place(b, w)' = Place(b, w)
    BY <1>0 DEF Matching, Place, tables
  <2>2. \A b : Met(v, b)' <=> Met(v, b)
    BY <1>0 DEF Met, SameDate
  <2> QED BY <1>0, <2>1, <2>2 DEF PagingOK
<1>1. QueriesInit => PagingInv
  BY DEF QueriesInit, Idle, PagingInv, ListSteps
<1>2. ASSUME ServiceInv, DatesInv, ViewsTyped, PagingInv, Reading, UNCHANGED <<tables, newer>>
      PROVE  PagingInv'
  <2> SUFFICES ASSUME NEW q \in Readers, view'[q].step \in ListSteps,
                      view'[q].where.status = Unset
               PROVE  PagingOK(view'[q])
    BY <1>0, <1>2 DEF PagingInv
  <2>1. CASE view'[q] = view[q]
    BY <1>2, <2>1 DEF PagingInv
  <2>2. CASE ListStep(q)
    BY <1>2, <2>2, ListPages
  <2> QED BY <1>2, <2>1, <2>2, WhoReads DEF ServiceInv
<1>3. ASSUME ServiceInv, DatesInv, DatesInv', ViewsTyped, PagingInv, Writing
      PROVE  PagingInv'
  <2> SUFFICES ASSUME NEW q \in Readers, NEW v, view[q] = v,
                      v.step \in ListSteps, v.where.status = Unset
               PROVE  PagingOK(v)'
    BY <1>3 DEF PagingInv, Writing
  <2> DEFINE w == v.where
             n == v.offset + (IF "findMany" \in v.waiting THEN 0 ELSE PageLimit)
  <2>1. PagingOK(v) /\ v \in ListView
    BY <1>3, SlotKinds DEF PagingInv
  <2>2. /\ Matching(w) \subseteq Matching(w)'
        /\ \A b \in Matching(w) : Place(b, w) <= Place(b, w)'
        /\ DOMAIN newer \subseteq DOMAIN newer'
        /\ \A a, b \in DOMAIN newer : SameDate(a, b) => newer'[a] = newer'[b]
    BY <1>3, PlacesGrow DEF ServiceInv
  <2>3. \A b \in Matching(w) : Place(b, w) \in Int /\ Place(b, w)' \in Int
    <3>1. \A b \in Matching(w) : Place(b, w) \in Int
      BY <1>3, PlaceCounts
    <3>2. ASSUME NEW b PROVE Place(b, w)' \in Int
      <4>1. newer'[b] \cap Matching(w)' \subseteq DOMAIN booking' /\ IsFiniteSet(DOMAIN booking')
        BY <1>3 DEF Matching, DatesInv
      <4>2. IsFiniteSet(newer'[b] \cap Matching(w)')
        BY <4>1, FS_Subset
      <4> QED BY <4>2, FS_CardinalityType DEF Place
    <3> QED BY <3>1, <3>2
  <2>4. n \in Int
    BY <2>1, QueriesAssumption DEF ListView
  <2>5. v.owed \subseteq DOMAIN newer /\ v.seen \subseteq DOMAIN newer
    BY <1>3, <2>1 DEF PagingOK, Matching, DatesInv
  <2>6. \A b \in v.owed : Met(v, b) => Met(v, b)'
    BY <2>2, <2>5 DEF Met, SameDate
  <2>7. ASSUME NEW b \in v.owed, ~Met(v, b) PROVE Place(b, w)' >= n
    <3>1. b \in Matching(w) /\ Place(b, w) >= n
      BY <2>1, <2>7 DEF PagingOK
    <3> HIDE DEF n
    <3> QED BY <2>2, <2>3, <2>4, <3>1
  <2>8. v.owed \subseteq Matching(w)' /\ v.seen \subseteq DOMAIN newer'
    BY <2>1, <2>2, <2>5 DEF PagingOK
  <2> QED BY <2>1, <2>6, <2>7, <2>8 DEF PagingOK
<1>4. ASSUME PagingInv, UNCHANGED <<vars, reads>> PROVE PagingInv'
  <2>1. UNCHANGED <<tables, newer, view>>
    BY <1>4 DEF vars, reads
  <2> QED BY <1>0, <1>4, <2>1 DEF PagingInv
<1>5. /\ ServiceInv /\ DatesInv /\ DatesInv' /\ ViewsTyped /\ PagingInv
      /\ [QueriesNext]_<<vars, reads>>
      => PagingInv'
  BY <1>2, <1>3, <1>4 DEF QueriesNext, Reading, vars
<1> QED BY <1>1, <1>5, ServiceInvHolds, DatesInvHolds, ViewsTypedHolds, PTL DEF QueriesSpec

(* Reading page after page skips no createdAt that was there from the      *)
(* start, in whatever order each page has the bookings of the same one.    *)
THEOREM NothingEverSkipped == QueriesSpec => []NothingSkipped
<1>1. PagingInv => NothingSkipped
  BY DEF PagingInv, PagingOK, Met, ListSteps, NothingSkipped
<1> QED BY <1>1, PagingInvHolds, PTL

(* A page that is not full is the last, and each createdAt has been seen.  *)
THEOREM LastPageAlwaysCompletes == QueriesSpec => []LastPageCompletes
<1>1. PagingInv => LastPageCompletes
  <2> SUFFICES ASSUME PagingInv, NEW q \in Readers, At(q, "listed"),
                      view[q].where.status = Unset
               PROVE  /\ view[q].owed \subseteq view[q].total
                      /\ Cardinality(view[q].rows) < PageLimit
                           => \A b \in view[q].owed : Met(view[q], b)
    BY DEF LastPageCompletes, Met
  <2>1. PagingOK(view[q]) /\ view[q].step = "listed"
    BY DEF PagingInv, At, ListSteps
  <2>2. PageLimit \in Nat
    BY QueriesAssumption
  <2>3. view[q].waiting = {} /\ view[q].owed \subseteq view[q].total
    BY <2>1 DEF PagingOK
  <2>4. \A b \in view[q].owed : Met(view[q], b) \/ Cardinality(view[q].rows) = PageLimit
    BY <2>1, <2>3 DEF PagingOK
  <2> QED BY <2>2, <2>3, <2>4
<1> QED BY <1>1, PagingInvHolds, PTL
=============================================================================
