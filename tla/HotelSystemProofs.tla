------------------------- MODULE HotelSystemProofs --------------------------
(***************************************************************************)
(* Proofs about HotelSystem, for every set of accounts, hotels, rooms and  *)
(* calls and every length of the day.                                      *)
(***************************************************************************)
EXTENDS HotelSystem, StayProofs

USE DEF OwnerSteps

-----------------------------------------------------------------------------
(* Put replaces or adds one row and leaves the others alone.               *)
LEMMA PutRow ==
  ASSUME NEW f, NEW id, NEW row
  PROVE  /\ DOMAIN Put(f, id, row) = DOMAIN f \cup {id}
         /\ Put(f, id, row)[id] = row
         /\ \A i \in DOMAIN f : i # id => Put(f, id, row)[i] = f[i]
BY DEF Put

(* Put keeps a table a table.                                              *)
LEMMA PutTable ==
  ASSUME NEW f, NEW Ids, NEW Row, IsTable(f, Ids, Row), NEW id \in Ids, NEW row \in Row
  PROVE  IsTable(Put(f, id, row), Ids, Row)
<1>1. Put(f, id, row) = [i \in DOMAIN Put(f, id, row) |-> Put(f, id, row)[i]]
  BY DEF Put
<1>2. DOMAIN Put(f, id, row) \subseteq Ids
  BY DEF IsTable, Put
<1>3. \A i \in DOMAIN Put(f, id, row) : Put(f, id, row)[i] \in Row
  BY DEF IsTable, Put
<1> QED BY <1>1, <1>2, <1>3 DEF IsTable

(* Restrict keeps a table a table.                                         *)
LEMMA RestrictTable ==
  ASSUME NEW f, NEW Ids, NEW Row, IsTable(f, Ids, Row), NEW S \in SUBSET DOMAIN f
  PROVE  IsTable(Restrict(f, S), Ids, Row)
BY DEF IsTable, Restrict

-----------------------------------------------------------------------------
(* Types                                                                   *)

TypeInv == TablesTypeOK /\ BookingsTypeOK /\ CatalogTypeOK /\ CallsAreValidated

Working == CreateSteps \cup PaySteps \cup CancelSteps

(* Ending a call, whatever it knew, leaves the calls well typed.           *)
LEMMA EndTyped ==
  ASSUME BookingsTypeOK, NEW c \in Calls, NEW outcome \in Outcomes, End(c, outcome),
         missed' \in [Calls -> SUBSET Calls], stale' \in [Calls -> BOOLEAN]
  PROVE  BookingsTypeOK'
<1>1. pc' \in [Calls -> Steps] /\ req' \in [Calls -> CreateRequest \cup BookingRequest \cup {NoRequest}]
      /\ ctx' \in [Calls -> Int]
  BY DEF BookingsTypeOK, End, Steps
<1>2. ASSUME NEW d \in Calls
      PROVE  /\ pc'[d] \in CreateSteps => req'[d] \in CreateRequest
             /\ pc'[d] \in PaySteps \cup CancelSteps => req'[d] \in BookingRequest
  BY DEF BookingsTypeOK, End, Outcomes, CreateSteps, PaySteps, CancelSteps
<1> QED BY <1>1, <1>2 DEF BookingsTypeOK

(* A refused call leaves the calls well typed and validated.               *)
LEMMA RefuseTyped ==
  ASSUME BookingsTypeOK, CallsAreValidated, NEW c \in Calls, pc[c] \in Working, Refuse(c),
         UNCHANGED booking
  PROVE  BookingsTypeOK' /\ CallsAreValidated'
<1>1. missed' \in [Calls -> SUBSET Calls] /\ stale' \in [Calls -> BOOLEAN]
  BY DEF BookingsTypeOK, Refuse
<1>2. BookingsTypeOK'
  BY <1>1, EndTyped DEF Refuse, Outcomes
<1>3. pc[c] # "done"
  BY DEF Working, CreateSteps, PaySteps, CancelSteps
<1>4. CallsAreValidated'
  BY <1>3 DEF CallsAreValidated, BookingsTypeOK, Refuse, End
<1> QED BY <1>2, <1>4

(* So does a call that goes on to a step of its own operation.             *)
LEMMA GotoTyped ==
  ASSUME BookingsTypeOK, NEW c \in Calls, NEW step, Goto(c, step),
         \/ pc[c] \in CreateSteps /\ step \in CreateSteps
         \/ pc[c] \in PaySteps \cup CancelSteps /\ step \in PaySteps \cup CancelSteps
  PROVE  BookingsTypeOK'
<1>1. step \in Steps
  BY DEF Steps
<1>2. CreateSteps \cap (PaySteps \cup CancelSteps) = {}
  BY DEF CreateSteps, PaySteps, CancelSteps
<1>3. pc' \in [Calls -> Steps] /\ \A d \in Calls : pc'[d] = IF d = c THEN step ELSE pc[d]
  BY <1>1 DEF Goto, BookingsTypeOK
<1>4. ASSUME NEW d \in Calls
      PROVE  /\ pc'[d] \in CreateSteps => req[d] \in CreateRequest
             /\ pc'[d] \in PaySteps \cup CancelSteps => req[d] \in BookingRequest
  BY <1>2, <1>3 DEF BookingsTypeOK
<1> QED BY <1>3, <1>4 DEF BookingsTypeOK, Goto

(* What the operations on bookings need of the rest: their own tables and  *)
(* calls are typed, and they leave the catalogue alone.                    *)
LEMMA BookingStepTyped ==
  ASSUME TypeInv, BookingsTypeOK', CallsAreValidated',
         IsTable(booking', Calls, BookingRow), IsTable(payment', Calls, Nat),
         UNCHANGED <<hotel, room, user, now, catalog>>
  PROVE  TypeInv'
BY DEF TypeInv, TablesTypeOK, CatalogTypeOK, catalog

(* Beginning a call gives it a request of the kind its first step reads.   *)
LEMMA BeginTyped ==
  ASSUME TypeInv, NEW c \in Calls, NEW step, NEW request, Begin(c, step, request),
         UNCHANGED catalog,
         \/ step = "createReadHotel" /\ request \in CreateRequest
         \/ step \in {"payRead", "cancelRead"} /\ request \in BookingRequest
  PROVE  TypeInv'
<1> USE DEF Begin, tables
<1>1. pc' \in [Calls -> Steps] /\ req' \in [Calls -> CreateRequest \cup BookingRequest \cup {NoRequest}]
  BY DEF TypeInv, BookingsTypeOK, Steps, CreateSteps, PaySteps, CancelSteps
<1>2. ASSUME NEW d \in Calls
      PROVE  /\ pc'[d] \in CreateSteps => req'[d] \in CreateRequest
             /\ pc'[d] \in PaySteps \cup CancelSteps => req'[d] \in BookingRequest
  BY DEF TypeInv, BookingsTypeOK, CreateSteps, PaySteps, CancelSteps
<1>3. BookingsTypeOK'
  BY <1>1, <1>2 DEF TypeInv, BookingsTypeOK
<1>4. CallsAreValidated'
  BY DEF TypeInv, BookingsTypeOK, CallsAreValidated
<1> QED BY <1>3, <1>4, BookingStepTyped DEF TypeInv, TablesTypeOK

(* A call that goes on, with the tables as they are.                       *)
LEMMA ProceedTyped ==
  ASSUME TypeInv, NEW c \in Calls, NEW step, NEW condition, Proceed(c, condition, step),
         UNCHANGED <<tables, now, catalog>>,
         \/ pc[c] \in CreateSteps /\ step \in CreateSteps
         \/ pc[c] \in PaySteps \cup CancelSteps /\ step \in PaySteps \cup CancelSteps,
         step \in {"createReadRoom", "createCheck", "createInsert"}
           => pc[c] \in {"createReadRoom", "createCheck", "createInsert"},
         step \in {"createCheck", "createInsert"} => pc[c] \in {"createCheck", "createInsert"},
         step \in {"payCheck", "payWrite", "cancelReadHotel", "cancelUpdate"}
           => ~condition \/ req[c].bookingId \in DOMAIN booking
  PROVE  TypeInv'
<1> USE DEF tables
<1>1. BookingsTypeOK /\ CallsAreValidated
  BY DEF TypeInv
<1>2. CASE ~condition /\ Refuse(c)
  BY <1>1, <1>2, RefuseTyped, BookingStepTyped DEF Working, TypeInv, TablesTypeOK
<1>3. CASE condition /\ Goto(c, step)
  <2>1. BookingsTypeOK'
    BY <1>1, <1>3, GotoTyped
  <2>2. pc[c] # "done" /\ step # "idle"
    BY DEF CreateSteps, PaySteps, CancelSteps
  <2>3. CallsAreValidated'
    BY <1>1, <1>3, <2>2 DEF CallsAreValidated, BookingsTypeOK, Goto
  <2> QED BY <2>1, <2>3, BookingStepTyped DEF TypeInv, TablesTypeOK
<1> QED BY <1>2, <1>3 DEF Proceed

(* Committing a write of booking b, which exists from then on.             *)
LEMMA CommitTyped ==
  ASSUME BookingsTypeOK, NEW c \in Calls, NEW b \in Calls, CommitWrite(c, b)
  PROVE  BookingsTypeOK'
<1>1. missed' \in [Calls -> SUBSET Calls]
  BY DEF BookingsTypeOK, CommitWrite
<1>2. stale' \in [Calls -> BOOLEAN]
  BY DEF BookingsTypeOK, CommitWrite
<1>3. "done" \in Outcomes /\ End(c, "done")
  BY DEF CommitWrite, Outcomes
<1> QED BY <1>1, <1>2, <1>3, EndTyped

(* The steps of create keep the types.                                     *)
LEMMA CreateTyped ==
  ASSUME TypeInv, NEW c \in Calls, UNCHANGED catalog,
         \/ CreateReadHotel(c)
         \/ CreateReadRoom(c)
         \/ CreateCheck(c)
         \/ CreateInsert(c)
  PROVE  TypeInv'
<1> USE DEF tables
<1>1. BookingsTypeOK /\ CallsAreValidated /\ TablesTypeOK
  BY DEF TypeInv
<1>2. ASSUME pc[c] \in CreateSteps, Refuse(c), UNCHANGED <<tables, now>>
      PROVE  TypeInv'
  BY <1>1, <1>2, RefuseTyped, BookingStepTyped DEF Working, TablesTypeOK
<1>3. CASE CreateReadHotel(c)
  <2>1. pc[c] = "createReadHotel" /\ pc[c] \in CreateSteps
    BY <1>3 DEF CreateReadHotel, CreateSteps
  <2>2. CASE Refuse(c)
    BY <1>2, <1>3, <2>1, <2>2 DEF CreateReadHotel
  <2>3. CASE ~Refuse(c)
    <3> DEFINE h == req[c].hotelId
    <3>1. /\ req[c].checkIn < req[c].checkOut
          /\ h \in DOMAIN hotel
          /\ pc' = [pc EXCEPT ![c] = "createReadRoom"]
          /\ ctx' = [ctx EXCEPT ![c] = hotel[h].timezone]
          /\ UNCHANGED <<req, missed, stale, tables, now>>
      <4>1. req[c].checkIn \in Int /\ req[c].checkOut \in Int
        BY <1>1, <2>1 DEF BookingsTypeOK, CreateRequest
      <4> QED BY <1>3, <2>3, <4>1 DEF CreateReadHotel, DatesInOrder
    <3>2. hotel[h].timezone \in Int
      BY <1>1, <3>1 DEF TablesTypeOK, IsTable, HotelRow
    <3>3. BookingsTypeOK'
      BY <1>1, <2>1, <3>1, <3>2
         DEF BookingsTypeOK, Steps, CreateSteps, PaySteps, CancelSteps
    <3>4. CallsAreValidated'
      BY <1>1, <2>1, <3>1 DEF BookingsTypeOK, CallsAreValidated
    <3> QED BY <1>1, <3>1, <3>3, <3>4, BookingStepTyped DEF TablesTypeOK
  <2> QED BY <2>2, <2>3
<1>4. CASE CreateReadRoom(c)
  <2>1. pc[c] = "createReadRoom" /\ pc[c] \in CreateSteps
    BY <1>4 DEF CreateReadRoom, CreateSteps
  <2>2. CASE Refuse(c)
    BY <1>2, <1>4, <2>1, <2>2 DEF CreateReadRoom
  <2>3. CASE ~Refuse(c)
    <3> DEFINE r == req[c].roomId
               amount == room[r].pricePerNight * Nights(req[c].checkIn, req[c].checkOut)
    <3>1. /\ r \in DOMAIN room
          /\ pc' = [pc EXCEPT ![c] = "createCheck"]
          /\ ctx' = [ctx EXCEPT ![c] = amount]
          /\ UNCHANGED <<req, missed, stale, tables, now>>
      BY <1>4, <2>3 DEF CreateReadRoom
    <3>2. amount \in Nat
      <4>1. room[r].pricePerNight \in Nat
        BY <1>1, <3>1 DEF TablesTypeOK, IsTable, RoomRow
      <4>2. req[c].checkIn \in Int /\ req[c].checkOut \in Int /\ req[c].checkIn < req[c].checkOut
        BY <1>1, <2>1 DEF BookingsTypeOK, CreateRequest, CallsAreValidated
      <4>3. Nights(req[c].checkIn, req[c].checkOut) \in Nat
        <5>1. Nights(req[c].checkIn, req[c].checkOut) = req[c].checkOut - req[c].checkIn
          BY <4>2, NightsAreDays
        <5> QED BY <4>2, <5>1
      <4>4. \A p, n \in Nat : p * n \in Nat
        OBVIOUS
      <4> QED BY <4>1, <4>3, <4>4
    <3> HIDE DEF amount
    <3>3. BookingsTypeOK'
      BY <1>1, <2>1, <3>1, <3>2
         DEF BookingsTypeOK, Steps, CreateSteps, PaySteps, CancelSteps
    <3>4. CallsAreValidated'
      BY <1>1, <2>1, <3>1, <3>2 DEF BookingsTypeOK, CallsAreValidated
    <3> QED BY <1>1, <3>1, <3>3, <3>4, BookingStepTyped DEF TablesTypeOK
  <2> QED BY <2>2, <2>3
<1>5. CASE CreateCheck(c)
  <2> DEFINE free == ~HasOverlap(req[c].roomId, req[c].checkIn, req[c].checkOut, {})
  <2>1. pc[c] = "createCheck" /\ Proceed(c, free, "createInsert") /\ UNCHANGED <<tables, now>>
    BY <1>5 DEF CreateCheck
  <2> QED BY <2>1, ProceedTyped DEF CreateSteps
<1>6. CASE CreateInsert(c)
  <2>1. pc[c] = "createInsert" /\ pc[c] \in CreateSteps
        /\ UNCHANGED <<hotel, room, user, payment, now>>
    BY <1>6 DEF CreateInsert, CreateSteps
  <2>2. CASE Refuse(c) /\ UNCHANGED booking
    BY <1>2, <2>1, <2>2
  <2>3. CASE booking' = Put(booking, c, NewBooking(c)) /\ CommitWrite(c, c)
    <3>1. NewBooking(c) \in BookingRow
      BY <1>1, <2>1 DEF BookingsTypeOK, CallsAreValidated, NewBooking, BookingRow,
                        CreateRequest, BookingStatus
    <3>2. IsTable(booking', Calls, BookingRow)
      BY <1>1, <2>3, <3>1, PutTable DEF TablesTypeOK
    <3>3. BookingsTypeOK'
      BY <1>1, <2>3, CommitTyped
    <3>4. /\ req[c].checkIn < req[c].checkOut
          /\ NewBooking(c).checkIn = req[c].checkIn
          /\ NewBooking(c).checkOut = req[c].checkOut
      BY <1>1, <2>1 DEF CallsAreValidated, NewBooking
    <3>5. CallsAreValidated'
      <4>1. DOMAIN booking' = DOMAIN booking \cup {c}
            /\ \A b \in DOMAIN booking' :
                 booking'[b] = IF b = c THEN NewBooking(c) ELSE booking[b]
        BY <2>3 DEF Put
      <4> QED BY <1>1, <2>3, <3>4, <4>1
              DEF CallsAreValidated, CommitWrite, End, BookingsTypeOK
    <3> QED BY <1>1, <2>1, <3>2, <3>3, <3>5, BookingStepTyped DEF TablesTypeOK
  <2> QED BY <1>6, <2>2, <2>3 DEF CreateInsert
<1> QED BY <1>3, <1>4, <1>5, <1>6

(* The status of a booking that exists changes: still a table of bookings. *)
LEMMA StatusTyped ==
  ASSUME TypeInv, NEW b \in DOMAIN booking, NEW status \in BookingStatus,
         booking' = Put(booking, b, [booking[b] EXCEPT !.status = status])
  PROVE  /\ IsTable(booking', Calls, BookingRow)
         /\ DOMAIN booking' = DOMAIN booking
         /\ \A a \in DOMAIN booking : booking'[a].checkIn = booking[a].checkIn
                                      /\ booking'[a].checkOut = booking[a].checkOut
<1>1. IsTable(booking, Calls, BookingRow)
  BY DEF TypeInv, TablesTypeOK
<1>2. [booking[b] EXCEPT !.status = status] \in BookingRow /\ b \in Calls
  BY <1>1 DEF IsTable, BookingRow
<1>3. IsTable(booking', Calls, BookingRow)
  BY <1>1, <1>2, PutTable
<1>4. booking[b] \in BookingRow
  BY <1>1 DEF IsTable
<1>5. /\ DOMAIN booking' = DOMAIN booking
      /\ \A a \in DOMAIN booking : booking'[a].checkIn = booking[a].checkIn
                                   /\ booking'[a].checkOut = booking[a].checkOut
  BY <1>4 DEF Put, BookingRow
<1> QED BY <1>3, <1>5

(* The steps of pay keep the types.                                        *)
LEMMA PayTyped ==
  ASSUME TypeInv, NEW c \in Calls, UNCHANGED catalog,
         PayRead(c) \/ PayCheck(c) \/ PayWrite(c)
  PROVE  TypeInv'
<1> USE DEF tables
<1> DEFINE b == req[c].bookingId
<1>1. BookingsTypeOK /\ CallsAreValidated /\ TablesTypeOK
  BY DEF TypeInv
<1>2. CASE PayRead(c)
  <2> DEFINE ok == Unpaid(b) /\ IsOwn(b, req[c])
  <2>1. pc[c] = "payRead" /\ Proceed(c, ok, "payCheck") /\ UNCHANGED <<tables, now>>
    BY <1>2 DEF PayRead
  <2>2. ok => b \in DOMAIN booking
    BY DEF Unpaid
  <2> HIDE DEF ok
  <2> QED BY <2>1, <2>2, ProceedTyped DEF PaySteps
<1>3. CASE PayCheck(c)
  <2> DEFINE ok == /\ StillUnpaid(b)
                   /\ ~HasOverlap(booking[b].roomId, booking[b].checkIn, booking[b].checkOut, {b})
  <2>1. pc[c] = "payCheck" /\ Proceed(c, ok, "payWrite") /\ UNCHANGED <<tables, now>>
    BY <1>3 DEF PayCheck
  <2>2. b \in DOMAIN booking
    BY <1>1, <2>1 DEF CallsAreValidated
  <2> HIDE DEF ok
  <2> QED BY <2>1, <2>2, ProceedTyped DEF PaySteps
<1>4. CASE PayWrite(c)
  <2>1. pc[c] = "payWrite" /\ pc[c] \in Working /\ b \in DOMAIN booking
        /\ UNCHANGED <<hotel, room, user, now>>
    BY <1>1, <1>4 DEF PayWrite, PaySteps, Working, CallsAreValidated
  <2>2. CASE Refuse(c) /\ UNCHANGED <<booking, payment>>
    BY <1>1, <2>1, <2>2, RefuseTyped, BookingStepTyped DEF TablesTypeOK
  <2>3. CASE /\ payment' = Put(payment, b, booking[b].totalAmount)
             /\ booking' = WithConfirmation(b)
             /\ CommitWrite(c, b)
    <3>1. b \in Calls /\ booking[b].totalAmount \in Nat
      BY <1>1, <2>1 DEF TablesTypeOK, IsTable, BookingRow
    <3>2. IsTable(payment', Calls, Nat)
      BY <1>1, <2>3, <3>1, PutTable DEF TablesTypeOK
    <3>3. /\ IsTable(booking', Calls, BookingRow)
          /\ DOMAIN booking' = DOMAIN booking
          /\ \A a \in DOMAIN booking : booking'[a].checkIn = booking[a].checkIn
                                       /\ booking'[a].checkOut = booking[a].checkOut
      BY <2>1, <2>3, StatusTyped DEF WithConfirmation, BookingStatus
    <3>4. BookingsTypeOK'
      BY <1>1, <2>3, <3>1, CommitTyped
    <3>5. CallsAreValidated'
      BY <1>1, <2>1, <2>3, <3>3 DEF CallsAreValidated, CommitWrite, End, BookingsTypeOK
    <3> QED BY <2>1, <3>2, <3>3, <3>4, <3>5, BookingStepTyped
  <2> QED BY <1>4, <2>2, <2>3 DEF PayWrite
<1> QED BY <1>2, <1>3, <1>4

(* The steps of cancel keep the types.                                     *)
LEMMA CancelTyped ==
  ASSUME TypeInv, NEW c \in Calls, UNCHANGED catalog,
         CancelRead(c) \/ CancelReadHotel(c) \/ CancelUpdate(c)
  PROVE  TypeInv'
<1> USE DEF tables
<1> DEFINE b == req[c].bookingId
<1>1. BookingsTypeOK /\ CallsAreValidated /\ TablesTypeOK
  BY DEF TypeInv
<1>2. CASE CancelRead(c)
  <2> DEFINE ok == b \in DOMAIN booking /\ IsOwn(b, req[c]) /\ IsActive(b)
             next == IF req[c].role = "GUEST" THEN "cancelReadHotel" ELSE "cancelUpdate"
  <2>1. pc[c] = "cancelRead" /\ Proceed(c, ok, next) /\ UNCHANGED <<tables, now>>
    BY <1>2 DEF CancelRead
  <2>2. ok => b \in DOMAIN booking
    OBVIOUS
  <2>3. next \in {"cancelReadHotel", "cancelUpdate"}
    OBVIOUS
  <2> HIDE DEF ok, next
  <2> QED BY <2>1, <2>2, <2>3, ProceedTyped DEF CancelSteps
<1>3. CASE CancelReadHotel(c)
  <2> DEFINE ok == booking[b].hotelId \in DOMAIN hotel /\ InWindow(b)
  <2>1. pc[c] = "cancelReadHotel" /\ Proceed(c, ok, "cancelUpdate") /\ UNCHANGED <<tables, now>>
    BY <1>3 DEF CancelReadHotel
  <2>2. b \in DOMAIN booking
    BY <1>1, <2>1 DEF CallsAreValidated
  <2> HIDE DEF ok
  <2> QED BY <2>1, <2>2, ProceedTyped DEF CancelSteps
<1>4. CASE CancelUpdate(c)
  <2>1. /\ pc[c] = "cancelUpdate" /\ b \in DOMAIN booking
        /\ UNCHANGED <<hotel, room, user, payment, now>>
        /\ End(c, "done")
    BY <1>1, <1>4 DEF CancelUpdate, CallsAreValidated
  <2>2. /\ IsTable(booking', Calls, BookingRow)
        /\ DOMAIN booking' = DOMAIN booking
        /\ \A a \in DOMAIN booking : booking'[a].checkIn = booking[a].checkIn
                                     /\ booking'[a].checkOut = booking[a].checkOut
    BY <1>4, <2>1, StatusTyped DEF CancelUpdate, BookingStatus
  <2>3. missed' \in [Calls -> SUBSET Calls] /\ stale' \in [Calls -> BOOLEAN]
    BY <1>1, <1>4 DEF CancelUpdate, BookingsTypeOK
  <2>4. BookingsTypeOK'
    BY <1>1, <2>1, <2>3, EndTyped DEF Outcomes
  <2>5. CallsAreValidated'
    BY <1>1, <2>1, <2>2 DEF CallsAreValidated, End, BookingsTypeOK
  <2> QED BY <1>1, <2>1, <2>2, <2>4, <2>5, BookingStepTyped DEF TablesTypeOK
<1> QED BY <1>2, <1>3, <1>4

(* Everything the booking calls do keeps the types.                        *)
LEMMA BookingsTyped ==
  ASSUME TypeInv, BookingsNext, UNCHANGED catalog
  PROVE  TypeInv'
<1> PICK c \in Calls :
      \/ \E u \in DOMAIN user : \/ \E dto \in CreateDtos : BeginCreate(c, u, dto)
                                \/ \E b \in Calls : BeginPay(c, u, b) \/ BeginCancel(c, u, b)
      \/ CallStep(c)
      \/ Abandon(c)
  BY DEF BookingsNext
<1>1. DOMAIN user \subseteq Users /\ \A u \in DOMAIN user : user[u].role \in Role
  BY DEF TypeInv, TablesTypeOK, IsTable, UserRow
<1>2. ASSUME NEW u \in DOMAIN user, NEW dto \in CreateDtos, BeginCreate(c, u, dto)
      PROVE  TypeInv'
  BY <1>1, <1>2, BookingsAssumption, BeginTyped DEF BeginCreate
<1>3. ASSUME NEW u \in DOMAIN user, NEW b \in Calls, BeginPay(c, u, b) \/ BeginCancel(c, u, b)
      PROVE  TypeInv'
  <2>1. [userId |-> u, role |-> user[u].role, bookingId |-> b] \in BookingRequest
    BY <1>1 DEF BookingRequest
  <2> QED BY <1>3, <2>1, BeginTyped DEF BeginPay, BeginCancel
<1>4. CASE CallStep(c)
  BY <1>4, CreateTyped, PayTyped, CancelTyped DEF CallStep
<1>5. CASE Abandon(c)
  BY <1>5, RefuseTyped, BookingStepTyped
     DEF Abandon, Working, TypeInv, TablesTypeOK, tables
<1> QED BY <1>2, <1>3, <1>4, <1>5

(* What the catalogue operations need of the rest.                         *)
LEMMA CatalogStepTyped ==
  ASSUME TypeInv, CatalogTypeOK', IsTable(hotel', Hotels, HotelRow),
         IsTable(room', Rooms, RoomRow), IsTable(user', Users, UserRow),
         UNCHANGED <<booking, payment, now, calls>>
  PROVE  TypeInv'
<1>1. BookingsTypeOK' /\ CallsAreValidated'
  BY DEF TypeInv, BookingsTypeOK, CallsAreValidated, calls
<1>2. TablesTypeOK'
  BY DEF TypeInv, TablesTypeOK
<1> QED BY <1>1, <1>2 DEF TypeInv

(* A field an update leaves out keeps its value.                           *)
LEMMA GivenTyped ==
  ASSUME NEW S, NEW new \in S \cup {Unset}, NEW old \in S
  PROVE  Given(new, old) \in S
BY DEF Given

(* The requests on hotels and rooms keep the types.                        *)
LEMMA CatalogTyped ==
  ASSUME TypeInv, CatalogNext, UNCHANGED calls
  PROVE  TypeInv'
<1> USE DEF tables
<1>1. /\ CatalogTypeOK
      /\ IsTable(hotel, Hotels, HotelRow)
      /\ IsTable(room, Rooms, RoomRow)
      /\ IsTable(user, Users, UserRow)
  BY DEF TypeInv, TablesTypeOK
<1>2. UNCHANGED now
  BY DEF CatalogNext
<1>3. ASSUME NEW a \in Admins, NEW j \in Job, job' = [job EXCEPT ![a] = j],
             UNCHANGED <<issued, tables>>
      PROVE  TypeInv'
  <2>1. CatalogTypeOK'
    BY <1>1, <1>3 DEF CatalogTypeOK
  <2> QED BY <1>1, <1>2, <1>3, <2>1, CatalogStepTyped
<1>4. Idle \in Job
  BY DEF Job
<1>5. ASSUME NEW h \in Hotels, NEW dto \in HotelDtos, HotelCreate(h, dto)
      PROVE  TypeInv'
  <2> DEFINE row == [status |-> dto.status, timezone |-> Given(dto.timezone, 0)]
  <2>1. /\ h \notin issued
        /\ hotel' = Put(hotel, h, row)
        /\ issued' = issued \cup {h}
        /\ UNCHANGED <<job, room, user, booking, payment>>
    BY <1>5 DEF HotelCreate
  <2>2. row \in HotelRow
    <3>1. dto \in HotelDto
      BY CatalogAssumption
    <3>2. dto.status \in HotelStatus
      BY <1>5, <3>1 DEF HotelCreate, HotelDto
    <3>3. Given(dto.timezone, 0) \in Int
      BY <3>1, GivenTyped DEF HotelDto
    <3> QED BY <3>2, <3>3 DEF HotelRow
  <2>3. IsTable(hotel', Hotels, HotelRow) /\ DOMAIN hotel' = DOMAIN hotel \cup {h}
    BY <1>1, <2>1, <2>2, PutTable, PutRow
  <2>4. CatalogTypeOK'
    BY <1>1, <2>1, <2>3 DEF CatalogTypeOK
  <2> QED BY <1>1, <1>2, <2>1, <2>3, <2>4, CatalogStepTyped
<1>6. ASSUME NEW a \in Admins, HotelUpdate(a)
      PROVE  TypeInv'
  <2> DEFINE h == job[a].hotelId
             dto == job[a].dto
             row == [status |-> Given(dto.status, hotel[h].status),
                     timezone |-> Given(dto.timezone, hotel[h].timezone)]
  <2>1. /\ job[a].step = "hotelUpdate"
        /\ \/ h \in DOMAIN hotel /\ hotel' = Put(hotel, h, row)
           \/ UNCHANGED hotel
        /\ job' = [job EXCEPT ![a] = Idle]
        /\ UNCHANGED <<issued, room, user, booking, payment>>
    BY <1>6 DEF HotelUpdate, Finish
  <2>2. h \in Hotels /\ dto \in HotelDtos
    BY <1>1, <2>1 DEF CatalogTypeOK, Job, Idle
  <2>3. CASE h \in DOMAIN hotel /\ hotel' = Put(hotel, h, row)
    <3>1. row \in HotelRow
      <4>1. dto \in HotelDto
        BY <2>2, CatalogAssumption
      <4>2. hotel[h] \in HotelRow
        BY <1>1, <2>3 DEF IsTable
      <4>3. Given(dto.status, hotel[h].status) \in HotelStatus
        BY <4>1, <4>2, GivenTyped DEF HotelDto, HotelRow
      <4>4. Given(dto.timezone, hotel[h].timezone) \in Int
        BY <4>1, <4>2, GivenTyped DEF HotelDto, HotelRow
      <4> QED BY <4>3, <4>4 DEF HotelRow
    <3> HIDE DEF row
    <3>2. IsTable(hotel', Hotels, HotelRow)
      BY <1>1, <2>2, <2>3, <3>1, PutTable
    <3>2a. DOMAIN hotel' = DOMAIN hotel
      BY <2>3 DEF Put
    <3>3. CatalogTypeOK'
      BY <1>1, <1>4, <2>1, <3>2a DEF CatalogTypeOK
    <3> QED BY <1>1, <1>2, <2>1, <3>2, <3>3, CatalogStepTyped
  <2>4. CASE UNCHANGED hotel
    BY <1>3, <1>4, <2>1, <2>4
  <2> QED BY <2>1, <2>3, <2>4
<1>7. ASSUME NEW a \in Admins, HotelRemoveCount(a)
      PROVE  TypeInv'
  <2>1. job[a].step = "hotelCount" /\ UNCHANGED <<issued, tables>>
    BY <1>7 DEF HotelRemoveCount
  <2>2. CASE job' = [job EXCEPT ![a].step = "hotelDelete"]
    <3>1. job[a] \in [step : {"hotelCount", "hotelDelete"}, hotelId : Hotels]
      BY <1>1, <2>1 DEF CatalogTypeOK, Job, Idle
    <3>2. [job[a] EXCEPT !.step = "hotelDelete"] \in Job
      BY <3>1 DEF Job
    <3>3. job' = [job EXCEPT ![a] = [job[a] EXCEPT !.step = "hotelDelete"]]
      BY <2>2
    <3> QED BY <1>3, <2>1, <3>2, <3>3
  <2>3. CASE Finish(a)
    BY <1>3, <1>4, <2>1, <2>3 DEF Finish
  <2> QED BY <1>7, <2>2, <2>3 DEF HotelRemoveCount
<1>8. ASSUME NEW a \in Admins, HotelRemoveDelete(a)
      PROVE  TypeInv'
  <2> DEFINE h == job[a].hotelId
  <2>1. job' = [job EXCEPT ![a] = Idle] /\ UNCHANGED issued
    BY <1>8 DEF HotelRemoveDelete, Finish
  <2>2. CASE UNCHANGED tables
    BY <1>3, <1>4, <2>1, <2>2
  <2>3. CASE DeleteHotel(h)
    <3>1. /\ hotel' = Restrict(hotel, DOMAIN hotel \ {h})
          /\ room' = Restrict(room, {r \in DOMAIN room : room[r].hotelId # h})
          /\ user' = [u \in DOMAIN user |->
                        IF user[u].hotelId = h THEN [user[u] EXCEPT !.hotelId = NoHotel]
                                               ELSE user[u]]
          /\ UNCHANGED <<booking, payment>>
      BY <2>3 DEF DeleteHotel
    <3>2. IsTable(hotel', Hotels, HotelRow) /\ IsTable(room', Rooms, RoomRow)
      BY <1>1, <3>1, RestrictTable
    <3>3. IsTable(user', Users, UserRow)
      BY <1>1, <3>1 DEF IsTable, UserRow
    <3>4. DOMAIN hotel' \subseteq DOMAIN hotel /\ DOMAIN room' \subseteq DOMAIN room
      BY <3>1 DEF Restrict
    <3>5. CatalogTypeOK'
      BY <1>1, <1>4, <2>1, <3>4 DEF CatalogTypeOK
    <3> QED BY <1>2, <3>1, <3>2, <3>3, <3>5, CatalogStepTyped
  <2> QED BY <1>8, <2>2, <2>3 DEF HotelRemoveDelete
<1>9. ASSUME NEW a \in Admins, NEW r \in Rooms, RoomInsert(a, r)
      PROVE  TypeInv'
  <2> DEFINE h == job[a].hotelId
             dto == job[a].dto
             row == [hotelId |-> h, isAvailable |-> dto.isAvailable,
                     capacity |-> dto.capacity, pricePerNight |-> dto.pricePerNight]
  <2>1. job[a].step = "roomInsert" /\ job' = [job EXCEPT ![a] = Idle]
        /\ UNCHANGED <<hotel, user, booking, payment>>
    BY <1>9 DEF RoomInsert, Finish
  <2>2. CASE UNCHANGED <<room, issued>>
    BY <1>3, <1>4, <2>1, <2>2
  <2>3. CASE room' = Put(room, r, row) /\ issued' = issued \cup {r}
    <3>1. job[a] \in [step : {"roomInsert"}, hotelId : Hotels, dto : CompleteRoomDtos]
      BY <1>1, <2>1 DEF CatalogTypeOK, Job, Idle
    <3>2. row \in RoomRow
      BY <3>1, CatalogAssumption DEF RoomDto, RoomRow, CompleteRoomDtos, Complete
    <3>3. IsTable(room', Rooms, RoomRow) /\ DOMAIN room' = DOMAIN room \cup {r}
      BY <1>1, <2>3, <3>2, PutTable, PutRow
    <3>4. CatalogTypeOK'
      BY <1>1, <1>4, <2>1, <2>3, <3>3 DEF CatalogTypeOK
    <3> QED BY <1>1, <1>2, <2>1, <3>3, <3>4, CatalogStepTyped
  <2> QED BY <1>9, <2>2, <2>3 DEF RoomInsert
<1>10. ASSUME NEW a \in Admins, RoomUpdate(a)
       PROVE  TypeInv'
  <2> DEFINE r == job[a].roomId
             dto == job[a].dto
             row == [room[r] EXCEPT
                       !.isAvailable = Given(dto.isAvailable, room[r].isAvailable),
                       !.capacity = Given(dto.capacity, room[r].capacity),
                       !.pricePerNight = Given(dto.pricePerNight, room[r].pricePerNight)]
  <2>1. job[a].step = "roomUpdate" /\ job' = [job EXCEPT ![a] = Idle]
        /\ UNCHANGED <<issued, hotel, user, booking, payment>>
    BY <1>10 DEF RoomUpdate, Finish
  <2>2. CASE UNCHANGED room
    BY <1>3, <1>4, <2>1, <2>2
  <2>3. CASE r \in DOMAIN room /\ room' = Put(room, r, row)
    <3>1. r \in Rooms /\ dto \in RoomDto
      BY <1>1, <2>1, CatalogAssumption DEF CatalogTypeOK, Job, Idle
    <3>2. room[r] \in RoomRow
      BY <1>1, <2>3 DEF IsTable
    <3>3. Given(dto.isAvailable, room[r].isAvailable) \in BOOLEAN
      BY <3>1, <3>2, GivenTyped DEF RoomDto, RoomRow
    <3>4. Given(dto.capacity, room[r].capacity) \in Nat
          /\ Given(dto.pricePerNight, room[r].pricePerNight) \in Nat
      BY <3>1, <3>2, GivenTyped DEF RoomDto, RoomRow
    <3>5. row \in RoomRow
      BY <3>2, <3>3, <3>4 DEF RoomRow
    <3> HIDE DEF row
    <3>6. IsTable(room', Rooms, RoomRow)
      BY <1>1, <2>3, <3>1, <3>5, PutTable
    <3>6a. DOMAIN room' = DOMAIN room
      BY <2>3 DEF Put
    <3>7. CatalogTypeOK'
      BY <1>1, <1>4, <2>1, <3>6a DEF CatalogTypeOK
    <3> QED BY <1>1, <1>2, <2>1, <3>6, <3>7, CatalogStepTyped
  <2> QED BY <1>10, <2>2, <2>3 DEF RoomUpdate
<1>11. ASSUME NEW a \in Admins, NEW u \in DOMAIN user, JobBegin(a, u)
       PROVE  TypeInv'
  <2>1. DOMAIN hotel \subseteq Hotels /\ DOMAIN room \subseteq Rooms
    BY <1>1 DEF IsTable
  <2>2. ASSUME NEW h \in DOMAIN hotel, NEW dto \in HotelDtos, HotelUpdateBegin(a, h, dto)
        PROVE  TypeInv'
    BY <1>3, <2>1, <2>2 DEF HotelUpdateBegin, Start, Job
  <2>3. ASSUME NEW h \in DOMAIN hotel, HotelRemoveBegin(a, h)
        PROVE  TypeInv'
    BY <1>3, <2>1, <2>3 DEF HotelRemoveBegin, Start, Job
  <2>4. ASSUME NEW h \in DOMAIN hotel, NEW dto \in RoomDtos, RoomCreateBegin(a, u, h, dto)
        PROVE  TypeInv'
    BY <1>3, <2>1, <2>4 DEF RoomCreateBegin, Start, Job, CompleteRoomDtos
  <2>5. ASSUME NEW r \in DOMAIN room, NEW dto \in RoomDtos, RoomUpdateBegin(a, u, r, dto)
        PROVE  TypeInv'
    BY <1>3, <2>1, <2>5 DEF RoomUpdateBegin, Start, Job
  <2> QED BY <1>11, <2>2, <2>3, <2>4, <2>5 DEF JobBegin
<1>12. ASSUME NEW a \in Admins, JobStep(a) \/ JobAbandon(a)
       PROVE  TypeInv'
  BY <1>3, <1>4, <1>6, <1>7, <1>8, <1>9, <1>10, <1>12 DEF JobStep, JobAbandon, Finish
<1> QED BY <1>5, <1>11, <1>12 DEF CatalogNext

(* What staff calls do to the accounts: insert one, assign one, end the    *)
(* temporary password of one, delete one nothing refers to, or nothing.    *)
Assigned(u, row) ==
  /\ user' = Put(user, u, row)
  /\ row.hotelId \in DOMAIN hotel \cup {NoHotel}
  /\ ~HotelTaken(row.hotelId, u)
  /\ row.hotelId # NoHotel => row.role = "HOTEL_MANAGER"

Placed(row) == row.role = "HOTEL_MANAGER" => row.hotelId # NoHotel

StaffEffect ==
  /\ UNCHANGED <<hotel, room, booking, payment, now>>
  /\ \/ UNCHANGED <<user, enrolled>>
     \/ \E u \in Users \ enrolled : \E row \in UserRow :
          /\ Assigned(u, row) /\ Placed(row)
          /\ enrolled' = enrolled \cup {u}
     \/ \E u \in DOMAIN user : \E row \in UserRow :
          /\ Assigned(u, row) /\ Placed(row) /\ UNCHANGED enrolled
          /\ row.role = user[u].role /\ row.role \in StaffRole
          /\ row.mustChangePassword = user[u].mustChangePassword
     \/ \E u \in DOMAIN user :
          /\ user' = Put(user, u, [user[u] EXCEPT !.mustChangePassword = FALSE])
          /\ UNCHANGED enrolled
     \/ \E u \in DOMAIN user :
          /\ user[u].role \in StaffRole /\ ~UserReferenced(u)
          /\ user' = Restrict(user, DOMAIN user \ {u}) /\ UNCHANGED enrolled

StaffInv == StaffTypeOK /\ TasksAreValidated

(* What of it matters to bookings and to other accounts.                   *)
AccountsWritten ==
  /\ UNCHANGED <<hotel, room, booking, payment, now>>
  /\ \/ UNCHANGED <<user, enrolled>>
     \/ \E u \in Users : \E row \in UserRow :
          /\ Assigned(u, row)
          /\ enrolled' = enrolled \cup {u}
          /\ row.mustChangePassword =>
               u \notin enrolled \/ (u \in DOMAIN user /\ user[u].mustChangePassword)
     \/ \E u \in DOMAIN user :
          /\ user' = Put(user, u, [user[u] EXCEPT !.mustChangePassword = FALSE])
          /\ UNCHANGED enrolled
     \/ \E u \in DOMAIN user :
          /\ ~UserReferenced(u)
          /\ user' = Restrict(user, DOMAIN user \ {u}) /\ UNCHANGED enrolled

LEMMA StaffWritesAccounts ==
  ASSUME StaffInv, StaffEffect
  PROVE  AccountsWritten
<1>1. enrolled \subseteq Users /\ DOMAIN user \subseteq enrolled
  BY DEF StaffInv, StaffTypeOK
<1>2. ASSUME NEW u \in DOMAIN user, UNCHANGED enrolled
      PROVE  u \in Users /\ enrolled' = enrolled \cup {u}
  BY <1>1, <1>2
<1> QED BY <1>2 DEF StaffEffect, AccountsWritten

(* What a task holds, it goes on holding: accounts keep their roles, and   *)
(* an account that appears is of none of the tasks.                        *)
LEMMA TasksStayValid ==
  ASSUME StaffInv, enrolled \subseteq enrolled', DOMAIN user' \subseteq Users,
         \A u \in DOMAIN user' : \/ u \notin enrolled
                                 \/ u \in DOMAIN user /\ user'[u].role = user[u].role,
         UNCHANGED task
         \/ \E k \in Clerks : \E t \in Task : /\ task' = [task EXCEPT ![k] = t]
                                              /\ TaskHolds(t, user', enrolled')
  PROVE  TasksAreValidated'
<1>1. ASSUME NEW d \in Clerks, task'[d] = task[d]
      PROVE  TaskHolds(task'[d], user', enrolled')
  <2> DEFINE t == task[d]
  <2>1. TaskHolds(t, user, enrolled) /\ t \in Task
    BY DEF StaffInv, TasksAreValidated, StaffTypeOK
  <2>2. t.step \in {"staffHotel", "staffManager", "staffWrite"} => t.userId \in Users \cup {NewUser}
    BY <2>1 DEF Task, Assignment, Idle
  <2>3. NewUser \notin DOMAIN user'
    BY StaffAssumption
  <2> HIDE DEF t
  <2>4. TaskHolds(t, user', enrolled')
    BY <2>1, <2>2, <2>3 DEF TaskHolds
  <2> QED BY <1>1, <2>4 DEF t
<1>2. ASSUME NEW k \in Clerks, NEW t \in Task, task' = [task EXCEPT ![k] = t],
             TaskHolds(t, user', enrolled')
      PROVE  TasksAreValidated'
  <2>1. \A d \in Clerks : task'[d] = IF d = k THEN t ELSE task[d]
    BY <1>2 DEF StaffInv, StaffTypeOK
  <2> QED BY <1>1, <1>2, <2>1 DEF TasksAreValidated
<1>3. CASE UNCHANGED task
  BY <1>1, <1>3 DEF TasksAreValidated
<1> QED BY <1>2, <1>3

(* A slot takes, or goes on with, a valid task while the accounts stay.    *)
LEMMA TaskMoves ==
  ASSUME StaffInv, NEW k \in Clerks, UNCHANGED <<tables, enrolled>>, UNCHANGED now,
         \E t \in Task : task' = [task EXCEPT ![k] = t] /\ TaskHolds(t, user, enrolled)
  PROVE  StaffEffect /\ StaffInv'
<1>1. StaffTypeOK'
  BY DEF tables, StaffInv, StaffTypeOK
<1>2. TasksAreValidated'
  BY TasksStayValid DEF tables, StaffInv, StaffTypeOK
<1> QED BY <1>1, <1>2 DEF tables, StaffEffect, StaffInv

(* A slot drops its task, whatever has become of the accounts.             *)
LEMMA TaskDropped ==
  ASSUME TypeInv, StaffInv, NEW k \in Clerks, Drop(k), StaffEffect
  PROVE  StaffInv'
<1>1. Idle \in Task /\ \A accounts, ids : TaskHolds(Idle, accounts, ids)
  BY DEF Task, Idle, TaskHolds
<1>2. /\ DOMAIN user \subseteq enrolled /\ enrolled \subseteq Users
      /\ \A u \in DOMAIN user : user[u] \in UserRow
  BY DEF StaffInv, StaffTypeOK, TypeInv, TablesTypeOK, IsTable
<1> DEFINE Kept ==
      /\ enrolled \subseteq enrolled' /\ enrolled' \subseteq Users
      /\ DOMAIN user' \subseteq enrolled'
      /\ \A u \in DOMAIN user' : \/ u \notin enrolled
                                 \/ u \in DOMAIN user /\ user'[u].role = user[u].role
<1>3. Kept
  <2>1. CASE UNCHANGED <<user, enrolled>>
    BY <1>2, <2>1
  <2>2. ASSUME NEW u \in Users \ enrolled, NEW row, user' = Put(user, u, row),
               enrolled' = enrolled \cup {u}
        PROVE  Kept
    BY <1>2, <2>2, PutRow DEF Put
  <2>3. ASSUME NEW u \in DOMAIN user, NEW row, user' = Put(user, u, row), UNCHANGED enrolled,
               row.role = user[u].role
        PROVE  Kept
    BY <1>2, <2>3, PutRow DEF Put
  <2>4. ASSUME NEW u \in DOMAIN user
        PROVE  [user[u] EXCEPT !.mustChangePassword = FALSE].role = user[u].role
    BY <1>2, <2>4 DEF UserRow
  <2>5. ASSUME NEW u \in DOMAIN user, user' = Restrict(user, DOMAIN user \ {u}), UNCHANGED enrolled
        PROVE  Kept
    BY <1>2, <2>5 DEF Restrict
  <2> QED BY <2>1, <2>2, <2>3, <2>4, <2>5 DEF StaffEffect, Assigned
<1>4. StaffTypeOK'
  BY <1>1, <1>3 DEF StaffInv, StaffTypeOK, Drop
<1>5. TasksAreValidated'
  BY <1>1, <1>3, TasksStayValid DEF Drop
<1> QED BY <1>4, <1>5 DEF StaffInv

(* Each staff request has one of these effects and leaves valid tasks.     *)
LEMMA StaffStep ==
  ASSUME TypeInv, StaffInv, StaffNext
  PROVE  StaffEffect /\ StaffInv'
<1> USE DEF tables
<1>1. /\ UNCHANGED now
      /\ DOMAIN user \subseteq enrolled /\ DOMAIN user \subseteq Users /\ enrolled \subseteq Users
      /\ \A u \in DOMAIN user : user[u] \in UserRow
      /\ \A k \in Clerks : task[k] \in Task /\ TaskHolds(task[k], user, enrolled)
  BY DEF StaffNext, StaffInv, StaffTypeOK, TasksAreValidated, TypeInv, TablesTypeOK, IsTable
<1>2. Idle \in Task /\ TaskHolds(Idle, user, enrolled)
  BY DEF Task, Idle, TaskHolds
<1>3. ASSUME NEW k \in Clerks, Drop(k), UNCHANGED <<enrolled, tables>>
      PROVE  StaffEffect /\ StaffInv'
  BY <1>1, <1>2, <1>3, TaskMoves DEF Drop
<1>4. ASSUME NEW u \in Users, Register(u)
      PROVE  StaffEffect /\ StaffInv'
  <2> DEFINE row == [role |-> "GUEST", hotelId |-> NoHotel, mustChangePassword |-> FALSE]
  <2>1. row \in UserRow
    BY DEF UserRow, Role
  <2>2. /\ u \notin enrolled /\ user' = Put(user, u, row) /\ enrolled' = enrolled \cup {u}
        /\ UNCHANGED <<task, hotel, room, booking, payment>>
    BY <1>4 DEF Register
  <2>3. Assigned(u, row) /\ Placed(row)
    BY <2>2 DEF Assigned, HotelTaken, Placed
  <2>4. StaffEffect
    BY <1>1, <2>1, <2>2, <2>3 DEF StaffEffect
  <2>5. StaffTypeOK'
    <3>1. DOMAIN user' = DOMAIN user \cup {u}
      BY <2>2 DEF Put
    <3> QED BY <2>2, <3>1 DEF StaffInv, StaffTypeOK
  <2>6. TasksAreValidated'
    BY <1>1, <2>2, PutRow, TasksStayValid DEF Put
  <2> QED BY <2>4, <2>5, <2>6 DEF StaffInv
<1>5. ASSUME NEW k \in Clerks, NEW actor \in DOMAIN user, NEW dto \in StaffDtos,
             StaffCreateBegin(k, actor, dto)
      PROVE  StaffEffect /\ StaffInv'
  <2> DEFINE t == [step |-> IF dto.role = "HOTEL_MANAGER" THEN "staffHotel" ELSE "staffWrite",
                   userId |-> NewUser, role |-> dto.role, hotelId |-> dto.hotelId,
                   mustChangePassword |-> RequiresPasswordChange(user[actor].role, dto.role)]
  <2>1. dto \in StaffDto /\ NewUser \notin DOMAIN user
    BY <1>1, StaffAssumption
  <2>2. t \in Task /\ TaskHolds(t, user, enrolled)
    BY <1>5, <2>1 DEF StaffCreateBegin, StaffDto, StaffRole, Task, Assignment, TaskHolds,
                      RequiresPasswordChange
  <2>3. task' = [task EXCEPT ![k] = t] /\ UNCHANGED <<tables, enrolled>>
    BY <1>5 DEF StaffCreateBegin, Take
  <2> QED BY <1>1, <2>2, <2>3, TaskMoves
<1>6. ASSUME NEW k \in Clerks, NEW actor \in DOMAIN user, NEW u \in DOMAIN user,
             NEW dto \in StaffChanges, StaffUpdateBegin(k, actor, u, dto)
      PROVE  StaffEffect /\ StaffInv'
  <2> DEFINE target == user[u]
             nextHotelId == IF target.role = "ADMIN" THEN NoHotel
                            ELSE IF dto.hotelId = Unset THEN target.hotelId ELSE dto.hotelId
             t == [step |-> IF target.role = "ADMIN" THEN "staffWrite"
                            ELSE IF dto.hotelId = Unset THEN "staffManager"
                            ELSE "staffHotel",
                   userId |-> u, role |-> target.role, hotelId |-> nextHotelId,
                   mustChangePassword |-> FALSE]
  <2>1. target \in UserRow /\ target.role \in StaffRole /\ dto \in StaffChange
    BY <1>1, <1>6, StaffAssumption DEF StaffUpdateBegin, Manages, StaffRole
  <2>2. nextHotelId \in Hotels \cup {NoHotel}
    BY <2>1 DEF UserRow, StaffChange
  <2>3. t \in Task /\ TaskHolds(t, user, enrolled)
    <3>1. t \in Assignment
      BY <1>1, <2>1, <2>2 DEF Assignment
    <3>2. t.role = "ADMIN" <=> t.hotelId = NoHotel
      BY <1>6, <2>1 DEF StaffUpdateBegin, StaffRole
    <3> QED BY <1>1, <3>1, <3>2 DEF Task, TaskHolds
  <2>4. task' = [task EXCEPT ![k] = t] /\ UNCHANGED <<tables, enrolled>>
    BY <1>6 DEF StaffUpdateBegin, Take
  <2> QED BY <1>1, <2>3, <2>4, TaskMoves
<1>7. ASSUME NEW k \in Clerks, NEW step, GoOn(k, step), UNCHANGED <<tables, enrolled>>,
             \/ task[k].step \in {"staffHotel", "staffManager"}
                /\ step \in {"staffManager", "staffWrite"}
             \/ task[k].step = "staffCount" /\ step = "staffDelete"
      PROVE  StaffEffect /\ StaffInv'
  <2> DEFINE t == [task[k] EXCEPT !.step = step]
  <2>1. t \in Task
    BY <1>1, <1>7 DEF Task, Assignment, Idle
  <2>2. TaskHolds(t, user, enrolled)
    BY <1>1, <1>7 DEF Task, Assignment, Idle, TaskHolds
  <2>3. task' = [task EXCEPT ![k] = t]
    BY <1>7 DEF GoOn
  <2> QED BY <1>1, <1>7, <2>1, <2>2, <2>3, TaskMoves
<1>8. ASSUME NEW k \in Clerks, StaffHotel(k) \/ StaffManager(k) \/ StaffRemoveCount(k)
      PROVE  StaffEffect /\ StaffInv'
  BY <1>3, <1>7, <1>8 DEF StaffHotel, StaffManager, StaffRemoveCount
<1>9. ASSUME NEW k \in Clerks, NEW u \in Users, StaffInsert(k, u)
      PROVE  StaffEffect /\ StaffInv'
  <2> DEFINE t == task[k]
             row == [role |-> t.role, hotelId |-> t.hotelId,
                     mustChangePassword |-> t.mustChangePassword]
  <2>1. t \in Assignment /\ (t.role = "ADMIN" <=> t.hotelId = NoHotel)
    BY <1>1, <1>9 DEF StaffInsert, Task, Idle, TaskHolds
  <2>2. row \in UserRow
    BY <2>1 DEF Assignment, UserRow, StaffRole, Role
  <2>3. Drop(k) /\ UNCHANGED <<hotel, room, booking, payment>> /\ u \notin enrolled
    BY <1>9 DEF StaffInsert
  <2>4. CASE UNCHANGED <<user, enrolled>>
    BY <1>3, <2>3, <2>4
  <2>5. CASE RowAccepted(t, u) /\ user' = Put(user, u, row) /\ enrolled' = enrolled \cup {u}
    <3>1. Assigned(u, row) /\ Placed(row)
      BY <2>1, <2>5 DEF Assigned, Placed, RowAccepted, Assignment, StaffRole
    <3>2. StaffEffect
      BY <1>1, <2>2, <2>3, <2>5, <3>1 DEF StaffEffect
    <3> QED BY <2>3, <3>2, TaskDropped
  <2> QED BY <1>9, <2>4, <2>5 DEF StaffInsert
<1>10. ASSUME NEW k \in Clerks, StaffUpdate(k)
       PROVE  StaffEffect /\ StaffInv'
  <2> DEFINE t == task[k]
             u == t.userId
             row == [user[u] EXCEPT !.role = t.role, !.hotelId = t.hotelId]
  <2>1. Drop(k) /\ UNCHANGED <<enrolled, hotel, room, booking, payment>>
    BY <1>10 DEF StaffUpdate
  <2>2. CASE UNCHANGED user
    BY <1>3, <2>1, <2>2
  <2>3. CASE u \in DOMAIN user /\ RowAccepted(t, u) /\ user' = Put(user, u, row)
    <3>1. /\ t \in Assignment /\ (t.role = "ADMIN" <=> t.hotelId = NoHotel)
          /\ user[u].role = t.role
      BY <1>1, <1>10, <2>3 DEF StaffUpdate, Task, Idle, TaskHolds
    <3>2. /\ row \in UserRow /\ row.role = t.role /\ row.hotelId = t.hotelId
          /\ row.mustChangePassword = user[u].mustChangePassword
      BY <1>1, <2>3, <3>1 DEF Assignment, UserRow, StaffRole, Role
    <3> HIDE DEF row
    <3>3. Assigned(u, row) /\ Placed(row)
      BY <2>3, <3>1, <3>2 DEF Assigned, Placed, RowAccepted, Assignment, StaffRole
    <3>4. StaffEffect
      BY <1>1, <2>1, <2>3, <3>1, <3>2, <3>3 DEF StaffEffect, Assignment
    <3> QED BY <2>1, <3>4, TaskDropped
  <2> QED BY <1>10, <2>2, <2>3 DEF StaffUpdate
<1>11. ASSUME NEW k \in Clerks, NEW actor \in DOMAIN user, NEW u \in DOMAIN user,
              StaffRemoveBegin(k, actor, u)
       PROVE  StaffEffect /\ StaffInv'
  <2> DEFINE t == [step |-> "staffCount", userId |-> u]
  <2>1. t \in Task /\ TaskHolds(t, user, enrolled)
    BY <1>1, <1>11 DEF StaffRemoveBegin, Manages, StaffRole, Task, TaskHolds
  <2> QED BY <1>1, <1>11, <2>1, TaskMoves DEF StaffRemoveBegin, Take
<1>12. ASSUME NEW k \in Clerks, StaffRemoveDelete(k)
       PROVE  StaffEffect /\ StaffInv'
  <2> DEFINE u == task[k].userId
  <2>1. Drop(k) /\ UNCHANGED <<enrolled, hotel, room, booking, payment>>
    BY <1>12 DEF StaffRemoveDelete
  <2>2. CASE UNCHANGED user
    BY <1>3, <2>1, <2>2
  <2>3. CASE /\ u \in DOMAIN user /\ ~UserReferenced(u)
             /\ user' = Restrict(user, DOMAIN user \ {u})
    <3>1. user[u].role \in StaffRole
      BY <1>1, <1>12, <2>3 DEF StaffRemoveDelete, TaskHolds
    <3>2. StaffEffect
      BY <1>1, <2>1, <2>3, <3>1 DEF StaffEffect
    <3> QED BY <2>1, <3>2, TaskDropped
  <2> QED BY <1>12, <2>2, <2>3 DEF StaffRemoveDelete
<1>13. ASSUME NEW k \in Clerks, NEW u \in DOMAIN user, ChangePasswordBegin(k, u)
       PROVE  StaffEffect /\ StaffInv'
  <2> DEFINE t == [step |-> "passwordWrite", userId |-> u]
  <2>1. t \in Task /\ TaskHolds(t, user, enrolled)
    BY <1>1 DEF Task, TaskHolds
  <2> QED BY <1>1, <1>13, <2>1, TaskMoves DEF ChangePasswordBegin, Take
<1>14. ASSUME NEW k \in Clerks, ChangePassword(k)
       PROVE  StaffEffect /\ StaffInv'
  <2> DEFINE u == task[k].userId
  <2>1. Drop(k) /\ UNCHANGED <<enrolled, hotel, room, booking, payment>>
    BY <1>14 DEF ChangePassword
  <2>2. CASE UNCHANGED user
    BY <1>3, <2>1, <2>2
  <2>3. CASE u \in DOMAIN user /\ user' = Put(user, u, [user[u] EXCEPT !.mustChangePassword = FALSE])
    <3>1. StaffEffect
      BY <1>1, <2>1, <2>3 DEF StaffEffect
    <3> QED BY <2>1, <3>1, TaskDropped
  <2> QED BY <1>14, <2>2, <2>3 DEF ChangePassword
<1>15. ASSUME NEW k \in Clerks, TaskAbandon(k)
       PROVE  StaffEffect /\ StaffInv'
  BY <1>3, <1>15 DEF TaskAbandon
<1> QED BY <1>4, <1>5, <1>6, <1>8, <1>9, <1>10, <1>11, <1>12, <1>13, <1>14, <1>15
        DEF StaffNext, TaskBegin, TaskStep

(* The accounts stay typed, and the rest is left alone.                    *)
LEMMA StaffTyped ==
  ASSUME TypeInv, StaffEffect, UNCHANGED <<calls, catalog>>
  PROVE  TypeInv'
<1>1. IsTable(user, Users, UserRow)
  BY DEF TypeInv, TablesTypeOK
<1>2. IsTable(user', Users, UserRow)
  <2>1. ASSUME NEW u \in Users, NEW row \in UserRow, user' = Put(user, u, row)
        PROVE  IsTable(user', Users, UserRow)
    BY <1>1, <2>1, PutTable
  <2>2. ASSUME NEW u \in DOMAIN user
        PROVE  /\ u \in Users
               /\ [user[u] EXCEPT !.mustChangePassword = FALSE] \in UserRow
    BY <1>1 DEF IsTable, UserRow
  <2>3. ASSUME NEW u \in DOMAIN user, user' = Restrict(user, DOMAIN user \ {u})
        PROVE  IsTable(user', Users, UserRow)
    BY <1>1, <2>3, RestrictTable
  <2> QED BY <1>1, <2>1, <2>2, <2>3 DEF StaffEffect, Assigned
<1>3. TablesTypeOK'
  BY <1>2 DEF StaffEffect, TypeInv, TablesTypeOK
<1>4. BookingsTypeOK' /\ CallsAreValidated'
  BY DEF StaffEffect, TypeInv, BookingsTypeOK, CallsAreValidated, calls
<1>5. CatalogTypeOK'
  BY DEF StaffEffect, TypeInv, CatalogTypeOK, catalog
<1> QED BY <1>3, <1>4, <1>5 DEF TypeInv

(* A step of the others neither adds an account nor changes a role.        *)
SameAccounts ==
  /\ UNCHANGED staff
  /\ DOMAIN user' = DOMAIN user
  /\ \A u \in DOMAIN user : user'[u].role = user[u].role

(* A step of the others leaves the staff calls as they are.                *)
LEMMA StaffWaits ==
  ASSUME StaffInv, SameAccounts
  PROVE  StaffInv'
<1>1. StaffTypeOK'
  BY DEF StaffInv, SameAccounts, staff, StaffTypeOK
<1>2. TasksAreValidated'
  BY TasksStayValid DEF SameAccounts, staff, StaffInv, StaffTypeOK
<1> QED BY <1>1, <1>2 DEF StaffInv

(* Of the catalogue only the removal of a hotel writes accounts.           *)
LEMMA CatalogAccounts ==
  ASSUME CatalogNext
  PROVE  UNCHANGED user \/ \E h : DeleteHotel(h)
BY DEF tables, CatalogNext, HotelCreate, JobBegin, HotelUpdateBegin, HotelRemoveBegin,
       RoomCreateBegin, RoomUpdateBegin, JobStep, HotelUpdate, HotelRemoveCount,
       HotelRemoveDelete, RoomInsert, RoomUpdate, JobAbandon

(* Neither the booking calls nor the catalogue nor the clock do more.      *)
LEMMA OthersKeepAccounts ==
  ASSUME TypeInv, UNCHANGED staff, BookingsNext \/ CatalogNext
  PROVE  SameAccounts
<1> USE DEF tables
<1>1. CASE UNCHANGED user
  BY <1>1 DEF SameAccounts
<1>2. CASE BookingsNext
  <2>1. UNCHANGED user
    BY <1>2 DEF BookingsNext, BeginCreate, BeginPay, BeginCancel, Begin, CallStep,
                CreateReadHotel, CreateReadRoom, CreateCheck, CreateInsert, PayRead, PayCheck,
                PayWrite, CancelRead, CancelReadHotel, CancelUpdate, Abandon
  <2> QED BY <1>1, <2>1
<1>3. ASSUME NEW h, DeleteHotel(h)
      PROVE  SameAccounts
  <2>1. \A u \in DOMAIN user : user[u] \in UserRow
    BY DEF TypeInv, TablesTypeOK, IsTable
  <2> QED BY <1>3, <2>1 DEF DeleteHotel, SameAccounts, UserRow
<1>4. CASE CatalogNext
  BY <1>1, <1>3, <1>4, CatalogAccounts
<1> QED BY <1>2, <1>4

(* The types hold throughout.                                              *)
LEMMA TypeInvHolds == Spec => [](TypeInv /\ StaffInv)
<1>1. Init => TypeInv /\ StaffInv
  <2> SUFFICES ASSUME Init PROVE TypeInv /\ StaffInv
    OBVIOUS
  <2> USE DEF Init, TablesInit, BookingsInit, CatalogInit, StaffInit, EmptyTable
  <2>1. TablesTypeOK
    BY TablesAssumption DEF TablesTypeOK, IsTable
  <2>2. BookingsTypeOK
    BY DEF BookingsTypeOK, Steps, CreateSteps, PaySteps, CancelSteps
  <2>3. CatalogTypeOK
    BY TablesAssumption DEF CatalogTypeOK, Job, IsTable
  <2>4. CallsAreValidated
    BY DEF CallsAreValidated
  <2>5. StaffTypeOK
    BY TablesAssumption DEF StaffTypeOK, Task, IsTable
  <2>6. TasksAreValidated
    BY DEF TasksAreValidated, TaskHolds, Idle
  <2> QED BY <2>1, <2>2, <2>3, <2>4, <2>5, <2>6 DEF TypeInv, StaffInv
<1>2. TypeInv /\ StaffInv /\ [Next]_vars => (TypeInv /\ StaffInv)'
  <2> SUFFICES ASSUME TypeInv, StaffInv, [Next]_vars PROVE TypeInv' /\ StaffInv'
    OBVIOUS
  <2>1. CASE BookingsNext /\ UNCHANGED <<catalog, staff>>
    BY <2>1, BookingsTyped, OthersKeepAccounts, StaffWaits
  <2>2. CASE CatalogNext /\ UNCHANGED <<calls, staff>>
    BY <2>2, CatalogTyped, OthersKeepAccounts, StaffWaits
  <2>3. CASE StaffNext /\ UNCHANGED <<calls, catalog>>
    BY <2>3, StaffStep, StaffTyped
  <2>4. CASE Tick /\ UNCHANGED <<tables, calls, catalog, staff>>
    <3>1. now' \in 0 .. MaxNow
      BY <2>4, TablesAssumption DEF Tick, TypeInv, TablesTypeOK
    <3>2. TypeInv'
      BY <2>4, <3>1 DEF TypeInv, TablesTypeOK, BookingsTypeOK, CatalogTypeOK,
                        CallsAreValidated, tables, calls, catalog
    <3>3. SameAccounts
      BY <2>4 DEF SameAccounts, tables
    <3> QED BY <3>2, <3>3, StaffWaits
  <2>5. CASE UNCHANGED vars
    <3>1. TypeInv'
      BY <2>5 DEF vars, TypeInv, TablesTypeOK, BookingsTypeOK, CatalogTypeOK,
                  CallsAreValidated, tables, calls, catalog
    <3>2. SameAccounts
      BY <2>5 DEF vars, SameAccounts, tables
    <3> QED BY <3>1, <3>2, StaffWaits
  <2> QED BY <2>1, <2>2, <2>3, <2>4, <2>5 DEF Next
<1> QED BY <1>1, <1>2, PTL DEF Spec

(* Every row of every table and every value a call holds has the type the  *)
(* services and the schema give it.                                        *)
THEOREM TypeCorrect == Spec => []TypeOK
<1>1. TypeInv /\ StaffInv => TypeOK
  BY DEF TypeInv, StaffInv, TypeOK
<1> QED BY <1>1, TypeInvHolds, PTL

-----------------------------------------------------------------------------
(* What steps do to the bookings                                           *)

(* A step of one call that writes no booking and leaves no transaction     *)
(* open.                                                                   *)
CallOnly(c) ==
  /\ UNCHANGED <<booking, payment>>
  /\ ~InTransaction(c)'
  /\ \A d \in Calls \ {c} : /\ pc'[d] = pc[d] /\ req'[d] = req[d]
                            /\ missed'[d] = missed[d] /\ stale'[d] = stale[d]

OpenCreate(c) ==
  /\ ~HasOverlap(req[c].roomId, req[c].checkIn, req[c].checkOut, {})
  /\ Goto(c, "createInsert")
  /\ UNCHANGED <<booking, payment>>

OpenPay(c) ==
  /\ Unpaid(req[c].bookingId)
  /\ Goto(c, "payWrite")
  /\ UNCHANGED <<booking, payment>>

CommitCreate(c) ==
  /\ pc[c] = "createInsert"
  /\ ~SerializationFailure(c)
  /\ booking' = Put(booking, c, NewBooking(c))
  /\ CommitWrite(c, c)
  /\ UNCHANGED payment

CommitPay(c) ==
  /\ pc[c] = "payWrite"
  /\ ~SerializationFailure(c)
  /\ payment' = Put(payment, req[c].bookingId, booking[req[c].bookingId].totalAmount)
  /\ booking' = WithConfirmation(req[c].bookingId)
  /\ CommitWrite(c, req[c].bookingId)

BookingsUntouched == UNCHANGED <<booking, payment, pc, req, missed, stale>>

BookingEffect ==
  \/ BookingsUntouched
  \/ \E c \in Calls : \/ CallOnly(c) \/ OpenCreate(c) \/ OpenPay(c)
                      \/ CommitCreate(c) \/ CommitPay(c) \/ CancelUpdate(c)

(* A step whose call ends, or goes on outside a transaction, is CallOnly.  *)
LEMMA MoveIsCallOnly ==
  ASSUME BookingsTypeOK, NEW c \in Calls, UNCHANGED <<booking, payment>>,
         \/ Refuse(c)
         \/ \E step \in Steps \ {"createInsert", "payWrite"} : Goto(c, step)
  PROVE  CallOnly(c)
BY DEF BookingsTypeOK, Refuse, End, Goto, CallOnly, InTransaction

(* Every step of the system has one of these effects on the bookings.      *)
LEMMA StepEffect ==
  ASSUME TypeInv, [Next]_vars
  PROVE  BookingEffect
<1> USE DEF tables
<1>1. BookingsTypeOK
  BY DEF TypeInv
<1>2. CASE BookingsNext
  <2> PICK c \in Calls :
        \/ \E u \in DOMAIN user : \/ \E dto \in CreateDtos : BeginCreate(c, u, dto)
                                  \/ \E b \in Calls : BeginPay(c, u, b) \/ BeginCancel(c, u, b)
        \/ CallStep(c)
        \/ Abandon(c)
    BY <1>2 DEF BookingsNext
  <2> SUFFICES \/ CallOnly(c) \/ OpenCreate(c) \/ OpenPay(c)
               \/ CommitCreate(c) \/ CommitPay(c) \/ CancelUpdate(c)
    BY DEF BookingEffect
  <2>1. ASSUME NEW step \in {"createReadHotel", "payRead", "cancelRead"}, NEW request,
               Begin(c, step, request)
        PROVE  CallOnly(c)
    BY <1>1, <2>1 DEF Begin, BookingsTypeOK, CallOnly, InTransaction
  <2>2. CASE \E u \in DOMAIN user : \/ \E dto \in CreateDtos : BeginCreate(c, u, dto)
                                    \/ \E b \in Calls : BeginPay(c, u, b) \/ BeginCancel(c, u, b)
    BY <2>1, <2>2 DEF BeginCreate, BeginPay, BeginCancel
  <2>3. CASE CreateReadHotel(c) \/ CreateReadRoom(c)
    <3>1. CASE Refuse(c)
      BY <1>1, <2>3, <3>1, MoveIsCallOnly DEF CreateReadHotel, CreateReadRoom
    <3>2. CASE ~Refuse(c)
      BY <1>1, <2>3, <3>2
         DEF CreateReadHotel, CreateReadRoom, BookingsTypeOK, CallOnly, InTransaction
    <3> QED BY <3>1, <3>2
  <2>4. ASSUME NEW condition, NEW step \in Steps \ {"createInsert", "payWrite"},
               Proceed(c, condition, step), UNCHANGED <<booking, payment>>
        PROVE  CallOnly(c)
    BY <1>1, <2>4, MoveIsCallOnly DEF Proceed
  <2>5. CASE PayRead(c) \/ CancelRead(c) \/ CancelReadHotel(c)
    BY <2>4, <2>5 DEF PayRead, CancelRead, CancelReadHotel, Steps, PaySteps, CancelSteps
  <2>6. CASE CreateCheck(c)
    BY <1>1, <2>6, MoveIsCallOnly DEF CreateCheck, Proceed, OpenCreate
  <2>7. CASE PayCheck(c)
    BY <1>1, <2>7, MoveIsCallOnly DEF PayCheck, Proceed, OpenPay, StillUnpaid
  <2>8. CASE CreateInsert(c)
    BY <1>1, <2>8, MoveIsCallOnly DEF CreateInsert, CommitCreate
  <2>9. CASE PayWrite(c)
    BY <1>1, <2>9, MoveIsCallOnly DEF PayWrite, CommitPay
  <2>10. CASE Abandon(c)
    BY <1>1, <2>10, MoveIsCallOnly DEF Abandon
  <2> QED BY <2>2, <2>3, <2>5, <2>6, <2>7, <2>8, <2>9, <2>10 DEF CallStep
<1>3. CASE CatalogNext /\ UNCHANGED calls
  <2>1. UNCHANGED <<booking, payment>>
    BY <1>3 DEF CatalogNext, HotelCreate, JobBegin, HotelUpdateBegin, HotelRemoveBegin,
                RoomCreateBegin, RoomUpdateBegin, JobStep, HotelUpdate, HotelRemoveCount,
                HotelRemoveDelete, DeleteHotel, RoomInsert, RoomUpdate, JobAbandon
  <2> QED BY <1>3, <2>1 DEF calls, BookingEffect, BookingsUntouched
<1>4. CASE StaffNext /\ UNCHANGED calls
  <2>1. UNCHANGED <<booking, payment>>
    <3>1. ASSUME NEW k \in Clerks, TaskBegin(k) PROVE UNCHANGED <<booking, payment>>
      BY <3>1 DEF TaskBegin, StaffCreateBegin, StaffUpdateBegin, StaffRemoveBegin,
                  ChangePasswordBegin
    <3>2. ASSUME NEW k \in Clerks, TaskStep(k) PROVE UNCHANGED <<booking, payment>>
      BY <3>2 DEF TaskStep, StaffHotel, StaffManager, StaffInsert, StaffUpdate,
                  StaffRemoveCount, StaffRemoveDelete, ChangePassword
    <3> QED BY <1>4, <3>1, <3>2 DEF StaffNext, Register, TaskAbandon
  <2> QED BY <1>4, <2>1 DEF calls, BookingEffect, BookingsUntouched
<1>5. CASE UNCHANGED <<tables, calls>>
  BY <1>5 DEF calls, BookingEffect, BookingsUntouched
<1> QED BY <1>2, <1>3, <1>4, <1>5 DEF Next, vars

-----------------------------------------------------------------------------
(* No double booking                                                       *)

ReservationInv ==
  NoCollision /\ SnapshotIsComplete /\ PayIsCurrent /\ PaymentMatchesStatus

(* When a call commits a create, no active booking collides with it: the   *)
(* ones its snapshot missed have made the commit fail.                     *)
LEMMA CommitFindsRoomFree ==
  ASSUME TypeInv, ReservationInv, NEW c \in Calls, CommitCreate(c),
         NEW b \in DOMAIN booking, IsActive(b)
  PROVE  ~Collides(b, req[c].roomId, req[c].checkIn, req[c].checkOut)
<1>1. /\ Room(c) = req[c].roomId
      /\ CheckIn(c) = req[c].checkIn
      /\ CheckOut(c) = req[c].checkOut
  BY DEF CommitCreate, Room, CheckIn, CheckOut
<1>2. SUFFICES ASSUME Collides(b, req[c].roomId, req[c].checkIn, req[c].checkOut)
               PROVE  b \in missed[c]
  BY <1>1 DEF CommitCreate, SerializationFailure
<1> QED BY <1>2 DEF ReservationInv, SnapshotIsComplete, CommitCreate

(* Colliding is symmetric.                                                 *)
LEMMA OverlapSymmetric ==
  ASSUME NEW in1 \in Int, NEW out1 \in Int, NEW in2 \in Int, NEW out2 \in Int
  PROVE  Overlap(in1, out1, in2, out2) <=> Overlap(in2, out2, in1, out1)
BY DEF Overlap

(* A committed create keeps the invariant.                                 *)
LEMMA CommitCreateSafe ==
  ASSUME TypeInv, ReservationInv, NEW c \in Calls, CommitCreate(c)
  PROVE  ReservationInv'
<1> DEFINE new == NewBooking(c)
<1>1. /\ DOMAIN booking' = DOMAIN booking \cup {c}
      /\ booking'[c] = new
      /\ \A b \in DOMAIN booking : b # c => booking'[b] = booking[b]
      /\ UNCHANGED payment
  <2>1. booking' = Put(booking, c, new) /\ UNCHANGED payment
    BY DEF CommitCreate
  <2> HIDE DEF new
  <2> QED BY <2>1 DEF Put
<1>2. c \notin DOMAIN booking /\ DOMAIN booking \subseteq Calls /\ pc[c] = "createInsert"
  BY DEF CommitCreate, TypeInv, TablesTypeOK, IsTable, CallsAreValidated
<1>3. /\ new.roomId = req[c].roomId
      /\ new.checkIn = req[c].checkIn
      /\ new.checkOut = req[c].checkOut
      /\ new.status = "PENDING"
      /\ req[c].checkIn \in Int /\ req[c].checkOut \in Int
  BY <1>2 DEF NewBooking, TypeInv, BookingsTypeOK, CreateRequest, CreateSteps
<1>4. \A b \in DOMAIN booking : booking[b].checkIn \in Int /\ booking[b].checkOut \in Int
  BY DEF TypeInv, TablesTypeOK, IsTable, BookingRow
<1> HIDE DEF new
<1>5. NoCollision'
  <2> SUFFICES ASSUME NEW b1 \in DOMAIN booking', NEW b2 \in DOMAIN booking',
                      b1 # b2, IsActive(b1)', IsActive(b2)'
               PROVE  ~Collides(b1, booking[b2].roomId, booking[b2].checkIn, booking[b2].checkOut)'
    BY DEF NoCollision
  <2>1. CASE b1 # c /\ b2 # c
    BY <1>1, <2>1 DEF ReservationInv, NoCollision, IsActive, Collides
  <2>2. CASE b2 = c
    <3>1. b1 \in DOMAIN booking /\ IsActive(b1)
      BY <1>1, <2>2 DEF IsActive
    <3> QED BY <1>1, <1>3, <2>2, <3>1, CommitFindsRoomFree DEF Collides
  <2>3. CASE b1 = c
    <3>1. b2 \in DOMAIN booking /\ IsActive(b2)
      BY <1>1, <2>3 DEF IsActive
    <3>2. ~Collides(b2, req[c].roomId, req[c].checkIn, req[c].checkOut)
      BY <3>1, CommitFindsRoomFree
    <3> QED BY <1>1, <1>3, <1>4, <2>3, <3>1, <3>2, OverlapSymmetric DEF Collides
  <2> QED BY <2>1, <2>2, <2>3
<1>6. SnapshotIsComplete'
  <2> SUFFICES ASSUME NEW d \in Calls, pc'[d] = "createInsert", NEW b \in DOMAIN booking',
                      IsActive(b)',
                      Collides(b, req[d].roomId, req[d].checkIn, req[d].checkOut)'
               PROVE  b \in missed'[d]
    BY DEF SnapshotIsComplete
  <2>1. d # c /\ pc[d] = "createInsert" /\ req'[d] = req[d]
    BY DEF CommitCreate, CommitWrite, End, TypeInv, BookingsTypeOK
  <2>2. missed'[d] = missed[d] \cup {c}
    BY <2>1 DEF CommitCreate, CommitWrite, InTransaction
  <2>3. CASE b # c
    BY <1>1, <2>1, <2>2, <2>3 DEF ReservationInv, SnapshotIsComplete, IsActive, Collides
  <2> QED BY <2>2, <2>3
<1>7. PayIsCurrent'
  <2> SUFFICES ASSUME NEW d \in Calls, pc'[d] = "payWrite"
               PROVE  stale'[d] \/ Unpaid(req[d].bookingId)'
    BY DEF PayIsCurrent
  <2>1. d # c /\ pc[d] = "payWrite" /\ req'[d] = req[d]
    BY DEF CommitCreate, CommitWrite, End, TypeInv, BookingsTypeOK
  <2>2. req[d].bookingId \in DOMAIN booking
    BY <2>1 DEF TypeInv, CallsAreValidated
  <2>3. stale[d] => stale'[d]
    BY <2>1 DEF CommitCreate, CommitWrite
  <2> QED BY <1>1, <1>2, <2>1, <2>2, <2>3 DEF ReservationInv, PayIsCurrent, Unpaid
<1>8. PaymentMatchesStatus'
  BY <1>1, <1>2, <1>3 DEF ReservationInv, PaymentMatchesStatus
<1> QED BY <1>5, <1>6, <1>7, <1>8 DEF ReservationInv

(* A status that moves without taking up a room anew keeps the bookings    *)
(* apart and the snapshots complete.                                       *)
LEMMA StatusMoveSafe ==
  ASSUME TypeInv, NoCollision, SnapshotIsComplete,
         NEW b \in DOMAIN booking, NEW status \in BookingStatus,
         booking' = Put(booking, b, [booking[b] EXCEPT !.status = status]),
         status \in ActiveStatuses => IsActive(b),
         \A d \in Calls : pc'[d] = "createInsert" =>
           pc[d] = "createInsert" /\ req'[d] = req[d] /\ missed[d] \subseteq missed'[d]
  PROVE  NoCollision' /\ SnapshotIsComplete'
<1>1. booking[b] \in BookingRow
  BY DEF TypeInv, TablesTypeOK, IsTable
<1>2. /\ DOMAIN booking' = DOMAIN booking
      /\ \A a \in DOMAIN booking : /\ booking'[a].roomId = booking[a].roomId
                                   /\ booking'[a].checkIn = booking[a].checkIn
                                   /\ booking'[a].checkOut = booking[a].checkOut
                                   /\ booking'[a].status = IF a = b THEN status
                                                           ELSE booking[a].status
  BY <1>1 DEF Put, BookingRow
<1>3. \A a \in DOMAIN booking : IsActive(a)' => IsActive(a)
  BY <1>2 DEF IsActive
<1>4. NoCollision'
  BY <1>2, <1>3 DEF NoCollision, Collides
<1>5. SnapshotIsComplete'
  BY <1>2, <1>3 DEF SnapshotIsComplete, Collides
<1> QED BY <1>4, <1>5

(* A committed payment keeps the invariant.                                *)
LEMMA CommitPaySafe ==
  ASSUME TypeInv, ReservationInv, NEW c \in Calls, CommitPay(c)
  PROVE  ReservationInv'
<1> DEFINE b == req[c].bookingId
<1>1. b \in DOMAIN booking /\ DOMAIN booking \subseteq Calls /\ booking[b] \in BookingRow
  BY DEF CommitPay, TypeInv, TablesTypeOK, IsTable, CallsAreValidated
<1>2. Unpaid(b)
  BY DEF CommitPay, SerializationFailure, ReservationInv, PayIsCurrent
<1>3. booking' = Put(booking, b, [booking[b] EXCEPT !.status = "CONFIRMED"])
  BY DEF CommitPay, WithConfirmation
<1>4. /\ DOMAIN booking' = DOMAIN booking
      /\ \A a \in DOMAIN booking : a # b => booking'[a] = booking[a]
      /\ booking'[b].status = "CONFIRMED"
      /\ booking'[b].totalAmount = booking[b].totalAmount
  BY <1>1, <1>3 DEF Put, BookingRow
<1>5. /\ DOMAIN payment' = DOMAIN payment \cup {b}
      /\ payment'[b] = booking[b].totalAmount
      /\ \A a \in DOMAIN payment : a # b => payment'[a] = payment[a]
  <2>1. payment' = Put(payment, b, booking[b].totalAmount)
    BY DEF CommitPay
  <2> QED BY <2>1 DEF Put
<1>6. \A d \in Calls : pc'[d] \in {"createInsert", "payWrite"} =>
        /\ d # c
        /\ pc'[d] = pc[d]
        /\ req'[d] = req[d]
        /\ missed[d] \subseteq missed'[d]
        /\ stale[d] \/ (pc[d] = "payWrite" /\ req[d].bookingId = b) => stale'[d]
  BY DEF CommitPay, CommitWrite, End, TypeInv, BookingsTypeOK, InTransaction
<1>7. NoCollision' /\ SnapshotIsComplete'
  <2>1. IsActive(b) /\ "CONFIRMED" \in BookingStatus
    BY <1>2 DEF Unpaid, IsActive, ActiveStatuses, BookingStatus
  <2> QED BY <1>1, <1>3, <1>6, <2>1, StatusMoveSafe DEF ReservationInv
<1>8. PayIsCurrent'
  <2> SUFFICES ASSUME NEW d \in Calls, pc'[d] = "payWrite", ~stale'[d]
               PROVE  Unpaid(req[d].bookingId)'
    BY DEF PayIsCurrent
  <2>1. Unpaid(req[d].bookingId) /\ req[d].bookingId # b /\ req'[d] = req[d]
    BY <1>6 DEF ReservationInv, PayIsCurrent
  <2> QED BY <1>4, <1>5, <2>1 DEF Unpaid
<1>9. PaymentMatchesStatus'
  BY <1>1, <1>4, <1>5 DEF ReservationInv, PaymentMatchesStatus
<1> QED BY <1>7, <1>8, <1>9 DEF ReservationInv

(* A cancellation keeps the invariant.                                     *)
LEMMA CancelSafe ==
  ASSUME TypeInv, ReservationInv, NEW c \in Calls, CancelUpdate(c)
  PROVE  ReservationInv'
<1> DEFINE b == req[c].bookingId
<1>1. b \in DOMAIN booking /\ booking[b] \in BookingRow
  BY DEF CancelUpdate, TypeInv, TablesTypeOK, IsTable, CallsAreValidated
<1>2. booking' = Put(booking, b, [booking[b] EXCEPT !.status = "CANCELLED"]) /\ UNCHANGED payment
  BY DEF CancelUpdate
<1>3. /\ DOMAIN booking' = DOMAIN booking
      /\ \A a \in DOMAIN booking : a # b => booking'[a] = booking[a]
      /\ booking'[b].status = "CANCELLED"
      /\ booking'[b].totalAmount = booking[b].totalAmount
  BY <1>1, <1>2 DEF Put, BookingRow
<1>4. \A d \in Calls : pc'[d] \in {"createInsert", "payWrite"} =>
        /\ pc'[d] = pc[d]
        /\ req'[d] = req[d]
        /\ missed[d] \subseteq missed'[d]
        /\ stale[d] \/ (pc[d] = "payWrite" /\ req[d].bookingId = b) => stale'[d]
  BY DEF CancelUpdate, End, TypeInv, BookingsTypeOK
<1>5. NoCollision' /\ SnapshotIsComplete'
  <2>1. "CANCELLED" \in BookingStatus /\ "CANCELLED" \notin ActiveStatuses
    BY DEF ActiveStatuses, BookingStatus
  <2> QED BY <1>1, <1>2, <1>4, <2>1, StatusMoveSafe DEF ReservationInv
<1>6. PayIsCurrent'
  <2> SUFFICES ASSUME NEW d \in Calls, pc'[d] = "payWrite", ~stale'[d]
               PROVE  Unpaid(req[d].bookingId)'
    BY DEF PayIsCurrent
  <2>1. Unpaid(req[d].bookingId) /\ req[d].bookingId # b /\ req'[d] = req[d]
    BY <1>4 DEF ReservationInv, PayIsCurrent
  <2> QED BY <1>2, <1>3, <2>1 DEF Unpaid
<1>7. PaymentMatchesStatus'
  BY <1>1, <1>2, <1>3 DEF ReservationInv, PaymentMatchesStatus
<1> QED BY <1>5, <1>6, <1>7 DEF ReservationInv

(* So do the steps that write no booking.                                  *)
LEMMA OtherStepsSafe ==
  ASSUME TypeInv, ReservationInv,
         \/ BookingsUntouched
         \/ \E c \in Calls : CallOnly(c) \/ OpenCreate(c) \/ OpenPay(c)
  PROVE  ReservationInv'
<1>1. UNCHANGED <<booking, payment>>
  BY DEF BookingsUntouched, CallOnly, OpenCreate, OpenPay
<1>2. NoCollision' /\ PaymentMatchesStatus'
  BY <1>1 DEF ReservationInv, NoCollision, IsActive, Collides, PaymentMatchesStatus
<1>3. \A d \in Calls : pc'[d] = "createInsert" =>
        /\ req'[d] = req[d] /\ missed'[d] = missed[d]
        /\ \/ pc[d] = "createInsert"
           \/ ~HasOverlap(req[d].roomId, req[d].checkIn, req[d].checkOut, {})
  BY DEF BookingsUntouched, CallOnly, OpenCreate, OpenPay, Goto, InTransaction,
         TypeInv, BookingsTypeOK
<1>4. SnapshotIsComplete'
  BY <1>1, <1>3 DEF ReservationInv, SnapshotIsComplete, HasOverlap, IsActive, Collides
<1>5. \A d \in Calls : pc'[d] = "payWrite" =>
        /\ req'[d] = req[d] /\ stale'[d] = stale[d]
        /\ pc[d] = "payWrite" \/ Unpaid(req[d].bookingId)
  BY DEF BookingsUntouched, CallOnly, OpenCreate, OpenPay, Goto, InTransaction,
         TypeInv, BookingsTypeOK
<1>6. PayIsCurrent'
  BY <1>1, <1>5 DEF ReservationInv, PayIsCurrent, Unpaid
<1> QED BY <1>2, <1>4, <1>6 DEF ReservationInv

(* So does every step.                                                     *)
LEMMA ReservationsKept ==
  ASSUME TypeInv, ReservationInv, [Next]_vars
  PROVE  ReservationInv'
BY StepEffect, OtherStepsSafe, CommitCreateSafe, CommitPaySafe, CancelSafe DEF BookingEffect

(* The invariant holds throughout.                                         *)
LEMMA ReservationInvHolds == Spec => []ReservationInv
<1>1. Init => ReservationInv
  BY DEF Init, TablesInit, BookingsInit, EmptyTable, ReservationInv, NoCollision,
         SnapshotIsComplete, PayIsCurrent, PaymentMatchesStatus
<1> QED BY <1>1, ReservationsKept, TypeInvHolds, PTL DEF Spec

(* Bookings that do not collide share no night.                            *)
LEMMA NightsApart == TypeInv /\ ReservationInv => NoDoubleBooking
<1> SUFFICES ASSUME TypeInv, ReservationInv, NEW b1 \in DOMAIN booking, NEW b2 \in DOMAIN booking,
                    b1 # b2, IsActive(b1), IsActive(b2), booking[b1].roomId = booking[b2].roomId
             PROVE  NightsOf(booking[b1].checkIn, booking[b1].checkOut)
                      \cap NightsOf(booking[b2].checkIn, booking[b2].checkOut) = {}
  BY DEF NoDoubleBooking
<1>1. \A b \in DOMAIN booking : /\ booking[b].checkIn \in Int
                                /\ booking[b].checkOut \in Int
                                /\ booking[b].checkIn < booking[b].checkOut
  BY DEF TypeInv, TablesTypeOK, IsTable, BookingRow, CallsAreValidated
<1>2. ~Overlap(booking[b1].checkIn, booking[b1].checkOut,
               booking[b2].checkIn, booking[b2].checkOut)
  BY DEF ReservationInv, NoCollision, Collides
<1> QED BY <1>1, <1>2, OverlapIsSharedNight

(* A night of a room belongs to at most one active booking, however the    *)
(* creates, payments and cancellations interleave.                         *)
THEOREM NoDoubleBookingAlways == Spec => []NoDoubleBooking
<1> QED BY NightsApart, TypeInvHolds, ReservationInvHolds, PTL

(* Confirmed means paid, pending means unpaid, and a payment is of the     *)
(* booking's whole amount.                                                 *)
THEOREM PaymentAlwaysMatchesStatus == Spec => []PaymentMatchesStatus
<1>1. ReservationInv => PaymentMatchesStatus
  BY DEF ReservationInv
<1> QED BY <1>1, ReservationInvHolds, PTL

(* No step brings a cancelled booking back or loses a booking.             *)
THEOREM CancelledStaysCancelled == Spec => CancelledIsFinal
<1> DEFINE Kept == \A b \in DOMAIN booking :
                     /\ b \in DOMAIN booking'
                     /\ booking[b].status = "CANCELLED" => booking'[b].status = "CANCELLED"
<1>1. TypeInv /\ ReservationInv /\ [Next]_vars => [Kept]_vars
  <2> SUFFICES ASSUME TypeInv, ReservationInv, [Next]_vars PROVE Kept
    OBVIOUS
  <2>1. ASSUME UNCHANGED booking PROVE Kept
    BY <2>1
  <2>2. ASSUME NEW c \in Calls, CommitCreate(c) PROVE Kept
    <3>1. c \notin DOMAIN booking
      BY <2>2 DEF CommitCreate, TypeInv, CallsAreValidated
    <3>2. booking' = Put(booking, c, NewBooking(c))
      BY <2>2 DEF CommitCreate
    <3> QED BY <3>1, <3>2 DEF Put
  <2>3. ASSUME NEW c \in Calls, CommitPay(c) PROVE Kept
    <3>1. booking[req[c].bookingId].status = "PENDING"
      BY <2>3 DEF CommitPay, SerializationFailure, ReservationInv, PayIsCurrent, Unpaid
    <3>2. booking' = WithConfirmation(req[c].bookingId)
      BY <2>3 DEF CommitPay
    <3> QED BY <3>1, <3>2 DEF WithConfirmation, Put
  <2>4. ASSUME NEW c \in Calls, CancelUpdate(c) PROVE Kept
    <3> DEFINE b == req[c].bookingId
    <3>1. b \in DOMAIN booking /\ booking[b] \in BookingRow
      BY <2>4 DEF CancelUpdate, TypeInv, TablesTypeOK, IsTable, CallsAreValidated
    <3>2. booking' = Put(booking, b, [booking[b] EXCEPT !.status = "CANCELLED"])
      BY <2>4 DEF CancelUpdate
    <3> QED BY <3>1, <3>2 DEF Put, BookingRow
  <2> QED BY <2>1, <2>2, <2>3, <2>4, StepEffect
          DEF BookingEffect, BookingsUntouched, CallOnly, OpenCreate, OpenPay
<1> QED BY <1>1, TypeInvHolds, ReservationInvHolds, PTL DEF Spec, CancelledIsFinal

-----------------------------------------------------------------------------
(* The refinement                                                          *)

(* The fields of a ledger entry.                                           *)
LEMMA EntryFields ==
  ASSUME NEW b \in DOMAIN booking
  PROVE  /\ DOMAIN LedgerEntry = DOMAIN booking
         /\ LedgerEntry[b].roomId = booking[b].roomId
         /\ LedgerEntry[b].nights = NightsOf(booking[b].checkIn, booking[b].checkOut)
         /\ LedgerEntry[b].price = booking[b].totalAmount
         /\ LedgerEntry[b].state = LedgerState(booking[b].status)
BY DEF LedgerEntry

(* A committed create reserves nights nobody holds.                        *)
LEMMA CreateReserves ==
  ASSUME TypeInv, ReservationInv, NEW c \in Calls, CommitCreate(c)
  PROVE  Ledger!Next
<1> DEFINE new == NewBooking(c)
<1>1. pc[c] = "createInsert" /\ booking' = Put(booking, c, new) /\ UNCHANGED payment
  BY DEF CommitCreate
<1>2. c \notin DOMAIN booking /\ req[c] \in CreateRequest /\ req[c].checkIn < req[c].checkOut
  BY <1>1 DEF TypeInv, BookingsTypeOK, CallsAreValidated, CreateSteps
<1>3. /\ new.roomId = req[c].roomId /\ new.checkIn = req[c].checkIn
      /\ new.checkOut = req[c].checkOut /\ new.totalAmount = ctx[c] /\ new.status = "PENDING"
  BY DEF NewBooking
<1> DEFINE nights == NightsOf(req[c].checkIn, req[c].checkOut)
<1> HIDE DEF new
<1>4. LedgerEntry' = [j \in DOMAIN LedgerEntry \cup {c} |->
                        IF j = c THEN [roomId |-> req[c].roomId, nights |-> nights,
                                       price |-> ctx[c], state |-> "held"]
                        ELSE LedgerEntry[j]]
  BY <1>1, <1>3 DEF LedgerEntry, Put, LedgerState
<1>5. c \in DOMAIN LedgerEntry'
      /\ LedgerEntry'[c] = [roomId |-> req[c].roomId, nights |-> nights,
                            price |-> ctx[c], state |-> "held"]
  BY <1>4
<1>6. req[c].roomId \in Rooms /\ req[c].checkIn \in Int /\ req[c].checkOut \in Int
  BY <1>2 DEF CreateRequest
<1>7. nights # {}
  <2>1. req[c].checkIn \in nights
    BY <1>2, <1>6 DEF NightsOf
  <2> QED BY <2>1
<1>8. Ledger!Free(req[c].roomId, nights)
  <2> SUFFICES ASSUME NEW b \in DOMAIN booking,
                      LedgerEntry[b].state \in {"held", "paid"},
                      LedgerEntry[b].roomId = req[c].roomId
               PROVE  LedgerEntry[b].nights \cap nights = {}
    BY DEF Ledger!Free, Ledger!Holding, LedgerEntry
  <2>1. /\ booking[b].checkIn \in Int
        /\ booking[b].checkOut \in Int
        /\ booking[b].checkIn < booking[b].checkOut
        /\ booking[b].status \in BookingStatus
    BY DEF TypeInv, TablesTypeOK, IsTable, BookingRow, CallsAreValidated
  <2>2. IsActive(b)
    BY <2>1, EntryFields DEF LedgerState, BookingStatus, IsActive, ActiveStatuses
  <2>3. ~Overlap(booking[b].checkIn, booking[b].checkOut, req[c].checkIn, req[c].checkOut)
    BY <2>2, CommitFindsRoomFree, EntryFields DEF Collides
  <2> QED BY <1>2, <1>6, <2>1, <2>3, OverlapIsSharedNight, EntryFields
<1>9. c \notin DOMAIN LedgerEntry
  BY <1>2 DEF LedgerEntry
<1> HIDE DEF nights
<1>10. Ledger!Reserve(c, LedgerEntry'[c].roomId, LedgerEntry'[c].nights, LedgerEntry'[c].price)
  BY <1>1, <1>4, <1>5, <1>7, <1>8, <1>9 DEF Ledger!Reserve
<1> QED BY <1>5, <1>6, <1>10 DEF Ledger!Next

(* A status move keeps everything else of the ledger.                      *)
LEMMA StatusMovesEntry ==
  ASSUME TypeInv, NEW b \in DOMAIN booking, NEW status,
         booking' = Put(booking, b, [booking[b] EXCEPT !.status = status])
  PROVE  LedgerEntry' = [LedgerEntry EXCEPT ![b].state = LedgerState(status)]
<1>1. booking[b] \in BookingRow
  BY DEF TypeInv, TablesTypeOK, IsTable
<1>2. /\ DOMAIN booking' = DOMAIN booking
      /\ \A a \in DOMAIN booking : /\ booking'[a].roomId = booking[a].roomId
                                   /\ booking'[a].checkIn = booking[a].checkIn
                                   /\ booking'[a].checkOut = booking[a].checkOut
                                   /\ booking'[a].totalAmount = booking[a].totalAmount
                                   /\ booking'[a].status = IF a = b THEN status
                                                           ELSE booking[a].status
  BY <1>1 DEF Put, BookingRow
<1> DEFINE moved == [LedgerEntry EXCEPT ![b].state = LedgerState(status)]
<1>3. DOMAIN LedgerEntry' = DOMAIN booking /\ DOMAIN moved = DOMAIN booking
  BY <1>2 DEF LedgerEntry
<1>4. ASSUME NEW a \in DOMAIN booking PROVE LedgerEntry'[a] = moved[a]
  <2>1. CASE a = b
    BY <1>2, <2>1 DEF LedgerEntry
  <2>2. CASE a # b
    BY <1>2, <2>2 DEF LedgerEntry
  <2> QED BY <2>1, <2>2
<1>5. LedgerEntry' = [a \in DOMAIN booking |-> LedgerEntry'[a]]
  BY <1>2 DEF LedgerEntry
<1>6. moved = [a \in DOMAIN booking |-> moved[a]]
  BY DEF LedgerEntry
<1> HIDE DEF moved
<1>7. LedgerEntry' = moved
  BY <1>4, <1>5, <1>6
<1> QED BY <1>7 DEF moved

(* A committed payment pays for a reservation that is held.                *)
LEMMA PayPays ==
  ASSUME TypeInv, ReservationInv, NEW c \in Calls, CommitPay(c)
  PROVE  Ledger!Next
<1> DEFINE b == req[c].bookingId
<1>1. b \in DOMAIN booking /\ b \in Calls
  BY DEF CommitPay, TypeInv, TablesTypeOK, IsTable, CallsAreValidated
<1>2. Unpaid(b)
  BY DEF CommitPay, SerializationFailure, ReservationInv, PayIsCurrent
<1>3. LedgerEntry' = [LedgerEntry EXCEPT ![b].state = "paid"]
  <2>1. booking' = Put(booking, b, [booking[b] EXCEPT !.status = "CONFIRMED"])
    BY DEF CommitPay, WithConfirmation
  <2>2. LedgerState("CONFIRMED") = "paid"
    BY DEF LedgerState
  <2> QED BY <1>1, <2>1, <2>2, StatusMovesEntry
<1>4. LedgerEntry[b].state = "held" /\ LedgerEntry[b].price = booking[b].totalAmount
      /\ b \in DOMAIN LedgerEntry
  BY <1>1, <1>2, EntryFields DEF Unpaid, LedgerState
<1>5. payment' = [j \in DOMAIN payment \cup {b} |->
                    IF j = b THEN LedgerEntry[b].price ELSE payment[j]]
  BY <1>4 DEF CommitPay, Put
<1>6. Ledger!Pay(b)
  BY <1>2, <1>3, <1>4, <1>5 DEF Ledger!Pay, Unpaid
<1> QED BY <1>1, <1>6 DEF Ledger!Next

(* A cancellation releases, or finds the booking released already.         *)
LEMMA CancelReleases ==
  ASSUME TypeInv, NEW c \in Calls, CancelUpdate(c)
  PROVE  Ledger!Next \/ UNCHANGED <<LedgerEntry, payment>>
<1> DEFINE b == req[c].bookingId
<1>1. b \in DOMAIN booking /\ b \in Calls /\ booking[b] \in BookingRow
  BY DEF CancelUpdate, TypeInv, TablesTypeOK, IsTable, CallsAreValidated
<1>2. booking' = Put(booking, b, [booking[b] EXCEPT !.status = "CANCELLED"]) /\ UNCHANGED payment
  BY DEF CancelUpdate
<1>3. LedgerEntry' = [LedgerEntry EXCEPT ![b].state = "released"]
  <2>1. LedgerState("CANCELLED") = "released"
    BY DEF LedgerState
  <2> QED BY <1>1, <1>2, <2>1, StatusMovesEntry
<1>4. LedgerEntry[b].state = LedgerState(booking[b].status) /\ b \in DOMAIN LedgerEntry
  BY <1>1, EntryFields
<1>5. CASE IsActive(b)
  <2>1. LedgerEntry[b].state \in {"held", "paid"}
    BY <1>4, <1>5 DEF IsActive, ActiveStatuses, LedgerState
  <2>2. Ledger!Release(b)
    BY <1>2, <1>3, <1>4, <2>1 DEF Ledger!Release, Ledger!Holding
  <2> QED BY <1>1, <2>2 DEF Ledger!Next
<1>6. CASE ~IsActive(b)
  <2>1. booking[b].status = "CANCELLED"
    BY <1>1, <1>6 DEF IsActive, ActiveStatuses, BookingRow, BookingStatus
  <2>2. booking' = booking
    <3>1. IsTable(booking, Calls, BookingRow)
      BY DEF TypeInv, TablesTypeOK
    <3>2. [booking[b] EXCEPT !.status = "CANCELLED"] = booking[b]
      BY <1>1, <2>1 DEF BookingRow
    <3>3. booking = [i \in DOMAIN booking |-> booking[i]]
      BY <3>1 DEF IsTable
    <3> QED BY <1>1, <1>2, <3>2, <3>3 DEF Put
  <2> QED BY <1>2, <2>2 DEF LedgerEntry
<1> QED BY <1>5, <1>6

(* Every step is an operation of the ledger or leaves it as it is.         *)
LEMMA LedgerMoves ==
  ASSUME TypeInv, ReservationInv, [Next]_vars
  PROVE  Ledger!Next \/ UNCHANGED <<LedgerEntry, payment>>
<1>1. ASSUME UNCHANGED <<booking, payment>>
      PROVE  UNCHANGED <<LedgerEntry, payment>>
  BY <1>1 DEF LedgerEntry
<1> QED BY <1>1, StepEffect, CreateReserves, PayPays, CancelReleases
        DEF BookingEffect, BookingsUntouched, CallOnly, OpenCreate, OpenPay

(* The booking and payment services implement the ledger: every step of    *)
(* the system is one of its operations or leaves it as it is.              *)
THEOREM SystemImplementsLedger == Spec => ImplementsLedger
<1>1. Init => Ledger!Init
  BY DEF Init, TablesInit, EmptyTable, Ledger!Init, LedgerEntry
<1> QED BY <1>1, LedgerMoves, TypeInvHolds, ReservationInvHolds, PTL
        DEF Spec, ImplementsLedger, Ledger!Spec

-----------------------------------------------------------------------------
(* References                                                              *)

ReferenceInv == NoOrphans /\ ReferencesHold /\ RoomIsOfHotel

(* The bookings refer to what they referred to, and no call has validated  *)
(* a room anew.                                                            *)
SameReferences ==
  /\ DOMAIN booking' = DOMAIN booking
  /\ \A b \in DOMAIN booking : /\ booking'[b].userId = booking[b].userId
                               /\ booking'[b].hotelId = booking[b].hotelId
                               /\ booking'[b].roomId = booking[b].roomId

ValidatedBefore(d) ==
  pc'[d] \in {"createCheck", "createInsert"} =>
    pc[d] \in {"createCheck", "createInsert"} /\ req'[d] = req[d]

(* The same hotels, rooms and accounts, although their rows may change.    *)
SameCatalogue ==
  /\ DOMAIN hotel' = DOMAIN hotel
  /\ DOMAIN room' = DOMAIN room
  /\ \A r \in DOMAIN room : room'[r].hotelId = room[r].hotelId
  /\ UNCHANGED <<user, issued>>

(* What steps of calls do to references: a create validates its room, a    *)
(* create inserts its booking, or nothing that matters here.               *)
LEMMA CallReferences ==
  ASSUME TypeInv, BookingsNext
  PROVE  \E c \in Calls :
           /\ UNCHANGED <<hotel, room, user>>
           /\ \A d \in Calls \ {c} : ValidatedBefore(d)
           /\ \/ /\ SameReferences
                 /\ \/ ValidatedBefore(c)
                    \/ /\ req'[c] = req[c]
                       /\ req[c].roomId \in DOMAIN room
                       /\ room[req[c].roomId].hotelId = req[c].hotelId
              \/ /\ pc[c] = "createInsert"
                 /\ BookingParentsExist(req[c].userId, req[c].hotelId, req[c].roomId)
                 /\ booking' = Put(booking, c, NewBooking(c))
                 /\ ValidatedBefore(c)
<1> USE DEF tables
<1>1. BookingsTypeOK
  BY DEF TypeInv
<1> PICK c \in Calls :
      \/ \E u \in DOMAIN user : \/ \E dto \in CreateDtos : BeginCreate(c, u, dto)
                                \/ \E b \in Calls : BeginPay(c, u, b) \/ BeginCancel(c, u, b)
      \/ CallStep(c)
      \/ Abandon(c)
  BY DEF BookingsNext
<1> DEFINE Effect ==
      /\ UNCHANGED <<hotel, room, user>>
      /\ \A d \in Calls \ {c} : ValidatedBefore(d)
      /\ \/ /\ SameReferences
            /\ \/ ValidatedBefore(c)
               \/ /\ req'[c] = req[c]
                  /\ req[c].roomId \in DOMAIN room
                  /\ room[req[c].roomId].hotelId = req[c].hotelId
         \/ /\ pc[c] = "createInsert"
            /\ BookingParentsExist(req[c].userId, req[c].hotelId, req[c].roomId)
            /\ booking' = Put(booking, c, NewBooking(c))
            /\ ValidatedBefore(c)
<1> SUFFICES Effect
  OBVIOUS
<1>2. ASSUME UNCHANGED booking PROVE SameReferences
  BY <1>2 DEF SameReferences
<1>3. ASSUME NEW step \in {"createReadHotel", "payRead", "cancelRead"}, NEW request,
             Begin(c, step, request)
      PROVE  Effect
  BY <1>1, <1>2, <1>3 DEF Begin, ValidatedBefore, BookingsTypeOK
<1>4. CASE \E u \in DOMAIN user : \/ \E dto \in CreateDtos : BeginCreate(c, u, dto)
                                  \/ \E b \in Calls : BeginPay(c, u, b) \/ BeginCancel(c, u, b)
  BY <1>3, <1>4 DEF BeginCreate, BeginPay, BeginCancel
<1>5. ASSUME Refuse(c)
      PROVE  \A d \in Calls : ValidatedBefore(d)
  BY <1>1, <1>5 DEF Refuse, End, ValidatedBefore, BookingsTypeOK
<1>6. ASSUME NEW condition, NEW step \in Steps, Proceed(c, condition, step),
             \/ step \notin {"createCheck", "createInsert"}
             \/ pc[c] \in {"createCheck", "createInsert"},
             UNCHANGED <<booking, hotel, room, user>>
      PROVE  Effect
  <2>1. CASE Goto(c, step)
    <3>1. \A d \in Calls : ValidatedBefore(d)
      BY <1>1, <1>6, <2>1 DEF Goto, ValidatedBefore, BookingsTypeOK
    <3> QED BY <1>2, <1>6, <3>1
  <2> QED BY <1>2, <1>5, <1>6, <2>1 DEF Proceed
<1>7. CASE CreateReadHotel(c)
  <2>1. ASSUME pc' = [pc EXCEPT ![c] = "createReadRoom"], UNCHANGED req
        PROVE  \A d \in Calls : ValidatedBefore(d)
    BY <1>1, <2>1 DEF ValidatedBefore, BookingsTypeOK
  <2> QED BY <1>2, <1>5, <1>7, <2>1 DEF CreateReadHotel
<1>8. CASE CreateReadRoom(c)
  <2>1. CASE Refuse(c)
    BY <1>2, <1>5, <1>8, <2>1 DEF CreateReadRoom
  <2>2. CASE ~Refuse(c)
    <3>1. /\ pc' = [pc EXCEPT ![c] = "createCheck"]
          /\ UNCHANGED <<req, booking, hotel, room, user>>
          /\ req[c].roomId \in DOMAIN room
          /\ room[req[c].roomId].hotelId = req[c].hotelId
      BY <1>8, <2>2 DEF CreateReadRoom, RoomAccepts
    <3>2. \A d \in Calls \ {c} : ValidatedBefore(d)
      BY <1>1, <3>1 DEF ValidatedBefore, BookingsTypeOK
    <3> QED BY <1>2, <3>1, <3>2
  <2> QED BY <2>1, <2>2
<1>9. CASE CreateCheck(c)
  <2> DEFINE free == ~HasOverlap(req[c].roomId, req[c].checkIn, req[c].checkOut, {})
  <2>1. pc[c] = "createCheck" /\ Proceed(c, free, "createInsert") /\ UNCHANGED tables
    BY <1>9 DEF CreateCheck
  <2> HIDE DEF free
  <2> QED BY <1>6, <2>1 DEF Steps, CreateSteps
<1>10. CASE PayRead(c) \/ PayCheck(c) \/ CancelRead(c) \/ CancelReadHotel(c)
  BY <1>6, <1>10 DEF PayRead, PayCheck, CancelRead, CancelReadHotel, Steps, PaySteps, CancelSteps
<1>11. CASE CreateInsert(c)
  <2>1. pc[c] = "createInsert" /\ UNCHANGED <<hotel, room, user>>
    BY <1>11 DEF CreateInsert
  <2>2. CASE Refuse(c) /\ UNCHANGED booking
    BY <1>2, <1>5, <2>1, <2>2
  <2>3. CASE ~(Refuse(c) /\ UNCHANGED booking)
    <3>1. /\ BookingParentsExist(req[c].userId, req[c].hotelId, req[c].roomId)
          /\ booking' = Put(booking, c, NewBooking(c))
          /\ CommitWrite(c, c)
      BY <1>11, <2>3 DEF CreateInsert
    <3>2. \A d \in Calls : ValidatedBefore(d)
      BY <1>1, <3>1 DEF CommitWrite, End, ValidatedBefore, BookingsTypeOK
    <3> QED BY <2>1, <3>1, <3>2
  <2> QED BY <2>2, <2>3
<1>12. ASSUME NEW b \in DOMAIN booking, NEW status,
              booking' = Put(booking, b, [booking[b] EXCEPT !.status = status])
       PROVE  SameReferences
  <2>1. booking[b] \in BookingRow
    BY DEF TypeInv, TablesTypeOK, IsTable
  <2> QED BY <1>12, <2>1 DEF Put, BookingRow, SameReferences
<1>13. CASE PayWrite(c)
  <2>1. pc[c] = "payWrite" /\ UNCHANGED <<hotel, room, user>> /\ req[c].bookingId \in DOMAIN booking
    BY <1>13 DEF PayWrite, TypeInv, CallsAreValidated
  <2>2. CASE Refuse(c) /\ UNCHANGED booking
    BY <1>2, <1>5, <2>1, <2>2
  <2>3. CASE ~(Refuse(c) /\ UNCHANGED booking)
    <3>1. booking' = WithConfirmation(req[c].bookingId) /\ CommitWrite(c, req[c].bookingId)
      BY <1>13, <2>3 DEF PayWrite
    <3>2. \A d \in Calls : ValidatedBefore(d)
      BY <1>1, <3>1 DEF CommitWrite, End, ValidatedBefore, BookingsTypeOK
    <3> QED BY <1>12, <2>1, <3>1, <3>2 DEF WithConfirmation
  <2> QED BY <2>2, <2>3
<1>14. CASE CancelUpdate(c)
  <2>1. /\ UNCHANGED <<hotel, room, user>>
        /\ req[c].bookingId \in DOMAIN booking
        /\ End(c, "done")
    BY <1>14 DEF CancelUpdate, TypeInv, CallsAreValidated
  <2>2. \A d \in Calls : ValidatedBefore(d)
    BY <1>1, <2>1 DEF End, ValidatedBefore, BookingsTypeOK
  <2> QED BY <1>12, <1>14, <2>1, <2>2 DEF CancelUpdate
<1>15. CASE Abandon(c)
  BY <1>2, <1>5, <1>15 DEF Abandon
<1> QED BY <1>4, <1>7, <1>8, <1>9, <1>10, <1>11, <1>13, <1>14, <1>15 DEF CallStep

(* What the requests on the catalogue do to references.                    *)
LEMMA CatalogReferences ==
  ASSUME TypeInv, NoOrphans, CatalogNext
  PROVE  /\ UNCHANGED booking
         /\ \/ SameCatalogue
            \/ \E h \in Hotels : /\ DOMAIN hotel' = DOMAIN hotel \cup {h}
                                 /\ issued \subseteq issued'
                                 /\ UNCHANGED <<room, user>>
            \/ \E h \in Hotels : DeleteHotel(h) /\ UNCHANGED issued
            \/ \E r \in Rooms : /\ r \notin issued
                                /\ issued' = issued \cup {r}
                                /\ DOMAIN room' = DOMAIN room \cup {r}
                                /\ \A q \in DOMAIN room : room'[q] = room[q]
                                /\ room'[r].hotelId \in DOMAIN hotel
                                /\ UNCHANGED <<hotel, user>>
<1> USE DEF tables
<1> DEFINE Effect ==
         /\ UNCHANGED booking
         /\ \/ SameCatalogue
            \/ \E h \in Hotels : /\ DOMAIN hotel' = DOMAIN hotel \cup {h}
                                 /\ issued \subseteq issued'
                                 /\ UNCHANGED <<room, user>>
            \/ \E h \in Hotels : DeleteHotel(h) /\ UNCHANGED issued
            \/ \E r \in Rooms : /\ r \notin issued
                                /\ issued' = issued \cup {r}
                                /\ DOMAIN room' = DOMAIN room \cup {r}
                                /\ \A q \in DOMAIN room : room'[q] = room[q]
                                /\ room'[r].hotelId \in DOMAIN hotel
                                /\ UNCHANGED <<hotel, user>>
<1>1. ASSUME UNCHANGED <<issued, tables>> PROVE Effect
  BY <1>1 DEF SameCatalogue
<1>2. ASSUME NEW h \in Hotels, NEW dto \in HotelDtos, HotelCreate(h, dto) PROVE Effect
  BY <1>2 DEF HotelCreate, Put
<1>3. ASSUME NEW a \in Admins, HotelUpdate(a) PROVE Effect
  BY <1>3 DEF HotelUpdate, Put, SameCatalogue
<1>4. ASSUME NEW a \in Admins, HotelRemoveDelete(a) PROVE Effect
  <2>1. CASE UNCHANGED tables
    BY <1>1, <1>4, <2>1 DEF HotelRemoveDelete
  <2>2. CASE DeleteHotel(job[a].hotelId) /\ job[a].hotelId \in DOMAIN hotel
    <3>1. job[a].hotelId \in Hotels
      BY <2>2 DEF TypeInv, TablesTypeOK, IsTable
    <3>2. UNCHANGED <<booking, issued>>
      BY <1>4, <2>2 DEF HotelRemoveDelete, DeleteHotel
    <3> QED BY <2>2, <3>1, <3>2
  <2> QED BY <1>4, <2>1, <2>2 DEF HotelRemoveDelete
<1>5. ASSUME NEW a \in Admins, NEW r \in Rooms, RoomInsert(a, r) PROVE Effect
  <2>1. UNCHANGED <<hotel, user, booking, payment>> /\ r \notin issued
    BY <1>5 DEF RoomInsert
  <2>2. CASE UNCHANGED <<room, issued>>
    BY <1>1, <2>1, <2>2
  <2>3. CASE ~UNCHANGED <<room, issued>>
    <3> DEFINE row == [hotelId |-> job[a].hotelId, isAvailable |-> job[a].dto.isAvailable,
                       capacity |-> job[a].dto.capacity,
                       pricePerNight |-> job[a].dto.pricePerNight]
    <3>1. /\ job[a].hotelId \in DOMAIN hotel
          /\ room' = Put(room, r, row)
          /\ issued' = issued \cup {r}
      BY <1>5, <2>3 DEF RoomInsert, RoomParentExists
    <3>2. row.hotelId = job[a].hotelId
      OBVIOUS
    <3> HIDE DEF row
    <3>3. r \notin DOMAIN room
      BY <2>1 DEF TypeInv, CatalogTypeOK
    <3>4. /\ DOMAIN room' = DOMAIN room \cup {r}
          /\ \A q \in DOMAIN room : room'[q] = room[q]
          /\ room'[r].hotelId \in DOMAIN hotel
      BY <3>1, <3>2, <3>3 DEF Put
    <3> QED BY <2>1, <3>1, <3>4
  <2> QED BY <2>2, <2>3
<1>6. ASSUME NEW a \in Admins, RoomUpdate(a) PROVE Effect
  <2> DEFINE r == job[a].roomId
             row == [room[r] EXCEPT
                       !.isAvailable = Given(job[a].dto.isAvailable, room[r].isAvailable),
                       !.capacity = Given(job[a].dto.capacity, room[r].capacity),
                       !.pricePerNight = Given(job[a].dto.pricePerNight, room[r].pricePerNight)]
  <2>1. /\ UNCHANGED <<issued, hotel, user, booking, payment>>
        /\ UNCHANGED room \/ (r \in DOMAIN room /\ room' = Put(room, r, row))
    BY <1>6 DEF RoomUpdate
  <2>2. CASE r \in DOMAIN room /\ room' = Put(room, r, row)
    <3>1. room[r] \in RoomRow
      BY <2>2 DEF TypeInv, TablesTypeOK, IsTable
    <3>2. row.hotelId = room[r].hotelId
      BY <3>1 DEF RoomRow
    <3> HIDE DEF row
    <3> QED BY <2>1, <2>2, <3>2 DEF Put, SameCatalogue
  <2> QED BY <1>1, <2>1, <2>2
<1>7. ASSUME NEW a \in Admins, NEW u \in DOMAIN user, JobBegin(a, u) PROVE Effect
  BY <1>1, <1>7 DEF JobBegin, HotelUpdateBegin, HotelRemoveBegin, RoomCreateBegin, RoomUpdateBegin
<1>8. ASSUME NEW a \in Admins, HotelRemoveCount(a) \/ JobAbandon(a) PROVE Effect
  BY <1>1, <1>8 DEF HotelRemoveCount, JobAbandon
<1> QED BY <1>2, <1>3, <1>4, <1>5, <1>6, <1>7, <1>8 DEF CatalogNext, JobStep

(* The references hold, whatever the calls do,                             *)
LEMMA CallsKeepReferences ==
  ASSUME TypeInv, ReferenceInv, BookingsNext, UNCHANGED catalog
  PROVE  ReferenceInv'
<1> USE DEF catalog
<1> PICK c \in Calls :
         /\ UNCHANGED <<hotel, room, user>>
         /\ \A d \in Calls \ {c} : ValidatedBefore(d)
         /\ \/ /\ SameReferences
               /\ \/ ValidatedBefore(c)
                  \/ /\ req'[c] = req[c]
                     /\ req[c].roomId \in DOMAIN room
                     /\ room[req[c].roomId].hotelId = req[c].hotelId
            \/ /\ pc[c] = "createInsert"
               /\ BookingParentsExist(req[c].userId, req[c].hotelId, req[c].roomId)
               /\ booking' = Put(booking, c, NewBooking(c))
               /\ ValidatedBefore(c)
  BY CallReferences
<1>1. NoOrphans'
  BY DEF ReferenceInv, NoOrphans
<1>2. RoomIsOfHotel'
  <2>1. DOMAIN room \subseteq issued
    BY DEF TypeInv, CatalogTypeOK
  <2>2. ASSUME NEW d \in Calls, ValidatedBefore(d), pc'[d] \in {"createCheck", "createInsert"}
        PROVE  /\ req'[d].roomId \in issued'
               /\ req'[d].roomId \in DOMAIN room' => room'[req'[d].roomId].hotelId = req'[d].hotelId
    BY <2>2 DEF ValidatedBefore, ReferenceInv, RoomIsOfHotel
  <2> QED BY <2>1, <2>2 DEF RoomIsOfHotel
<1>3. ReferencesHold'
  <2>1. CASE SameReferences
    BY <2>1 DEF SameReferences, ReferenceInv, ReferencesHold, BookingParentsExist
  <2>2. CASE /\ pc[c] = "createInsert"
             /\ BookingParentsExist(req[c].userId, req[c].hotelId, req[c].roomId)
             /\ booking' = Put(booking, c, NewBooking(c))
    <3>1. room[req[c].roomId].hotelId = req[c].hotelId
      BY <2>2 DEF ReferenceInv, RoomIsOfHotel, BookingParentsExist
    <3>2. /\ NewBooking(c).userId = req[c].userId
          /\ NewBooking(c).hotelId = req[c].hotelId
          /\ NewBooking(c).roomId = req[c].roomId
      BY DEF NewBooking
    <3>3. DOMAIN booking' = DOMAIN booking \cup {c}
          /\ \A b \in DOMAIN booking' :
               booking'[b] = IF b = c THEN NewBooking(c) ELSE booking[b]
      BY <2>2 DEF Put
    <3> QED BY <2>2, <3>1, <3>2, <3>3 DEF ReferenceInv, ReferencesHold, BookingParentsExist
  <2> QED BY <2>1, <2>2
<1> QED BY <1>1, <1>2, <1>3 DEF ReferenceInv

(* whatever becomes of hotels and rooms,                                   *)
LEMMA CatalogKeepsReferences ==
  ASSUME TypeInv, ReferenceInv, CatalogNext, UNCHANGED calls
  PROVE  ReferenceInv'
<1>1. UNCHANGED <<pc, req>>
  BY DEF calls
<1>2. UNCHANGED booking
  BY CatalogReferences DEF ReferenceInv
<1>3. CASE SameCatalogue
  BY <1>1, <1>2, <1>3 DEF SameCatalogue, ReferenceInv, NoOrphans, ReferencesHold, RoomIsOfHotel,
                          BookingParentsExist
<1>4. ASSUME NEW h \in Hotels, DOMAIN hotel' = DOMAIN hotel \cup {h}, issued \subseteq issued',
             UNCHANGED <<room, user>>
      PROVE  ReferenceInv'
  BY <1>1, <1>2, <1>4 DEF ReferenceInv, NoOrphans, ReferencesHold, RoomIsOfHotel,
                          BookingParentsExist
<1>5. ASSUME NEW r \in Rooms, r \notin issued, issued' = issued \cup {r},
             DOMAIN room' = DOMAIN room \cup {r}, \A q \in DOMAIN room : room'[q] = room[q],
             room'[r].hotelId \in DOMAIN hotel, UNCHANGED <<hotel, user>>
      PROVE  ReferenceInv'
  <2>1. NoOrphans'
    BY <1>5 DEF ReferenceInv, NoOrphans
  <2>2. ReferencesHold'
    BY <1>2, <1>5 DEF ReferenceInv, ReferencesHold, BookingParentsExist
  <2>3. RoomIsOfHotel'
    BY <1>1, <1>5 DEF ReferenceInv, RoomIsOfHotel
  <2> QED BY <2>1, <2>2, <2>3 DEF ReferenceInv
<1>6. ASSUME NEW h \in Hotels, DeleteHotel(h), UNCHANGED issued
      PROVE  ReferenceInv'
  <2>1. /\ ~HotelReferenced(h)
        /\ DOMAIN hotel' = DOMAIN hotel \ {h}
        /\ DOMAIN room' = {r \in DOMAIN room : room[r].hotelId # h}
        /\ \A r \in DOMAIN room' : room'[r] = room[r]
        /\ user' = [u \in DOMAIN user |->
                      IF user[u].hotelId = h THEN [user[u] EXCEPT !.hotelId = NoHotel]
                                             ELSE user[u]]
    BY <1>6 DEF DeleteHotel, Restrict
  <2>2. NoOrphans'
    <3>1. \A u \in DOMAIN user : user[u] \in UserRow
      BY DEF TypeInv, TablesTypeOK, IsTable
    <3> QED BY <2>1, <3>1 DEF ReferenceInv, NoOrphans, UserRow
  <2>3. ReferencesHold'
    BY <1>2, <2>1 DEF ReferenceInv, ReferencesHold, BookingParentsExist, HotelReferenced
  <2>4. RoomIsOfHotel'
    BY <1>1, <1>6, <2>1 DEF ReferenceInv, RoomIsOfHotel
  <2> QED BY <2>2, <2>3, <2>4 DEF ReferenceInv
<1> QED BY <1>3, <1>4, <1>5, <1>6, CatalogReferences DEF ReferenceInv

(* and whatever becomes of accounts.                                       *)
LEMMA AccountsKeepReferences ==
  ASSUME TypeInv, ReferenceInv, AccountsWritten, UNCHANGED <<calls, catalog>>
  PROVE  ReferenceInv'
<1>1. RoomIsOfHotel'
  BY DEF ReferenceInv, RoomIsOfHotel, AccountsWritten, calls, catalog
<1>2. \A u \in DOMAIN user : user[u] \in UserRow
  BY DEF TypeInv, TablesTypeOK, IsTable
<1>3. NoOrphans'
  <2>1. ASSUME NEW u, NEW row, user' = Put(user, u, row),
               row.hotelId \in DOMAIN hotel \cup {NoHotel}
        PROVE  \A v \in DOMAIN user' : user'[v].hotelId \in DOMAIN hotel \cup {NoHotel}
    BY <2>1 DEF ReferenceInv, NoOrphans, Put
  <2>2. ASSUME NEW u \in DOMAIN user
        PROVE  [user[u] EXCEPT !.mustChangePassword = FALSE].hotelId
                 \in DOMAIN hotel \cup {NoHotel}
    BY <1>2, <2>2 DEF UserRow, ReferenceInv, NoOrphans
  <2>3. ASSUME NEW u, user' = Restrict(user, DOMAIN user \ {u})
        PROVE  \A v \in DOMAIN user' : user'[v].hotelId \in DOMAIN hotel \cup {NoHotel}
    BY <2>3 DEF ReferenceInv, NoOrphans, Restrict
  <2> QED BY <2>1, <2>2, <2>3 DEF ReferenceInv, NoOrphans, AccountsWritten, Assigned
<1>4. ReferencesHold'
  <2>1. ASSUME NEW u, user' = Restrict(user, DOMAIN user \ {u}), ~UserReferenced(u)
        PROVE  \A b \in DOMAIN booking : booking[b].userId \in DOMAIN user'
    BY <2>1 DEF ReferenceInv, ReferencesHold, BookingParentsExist, Restrict, UserReferenced,
                HasBooking
  <2>2. ASSUME DOMAIN user \subseteq DOMAIN user'
        PROVE  \A b \in DOMAIN booking : booking[b].userId \in DOMAIN user'
    BY <2>2 DEF ReferenceInv, ReferencesHold, BookingParentsExist
  <2>3. ASSUME NEW u, NEW row, user' = Put(user, u, row)
        PROVE  DOMAIN user \subseteq DOMAIN user'
    BY <2>3 DEF Put
  <2>4. \A b \in DOMAIN booking : booking[b].userId \in DOMAIN user'
    BY <2>1, <2>2, <2>3 DEF AccountsWritten, Assigned
  <2> QED BY <2>4 DEF AccountsWritten, ReferenceInv, ReferencesHold, BookingParentsExist
<1> QED BY <1>1, <1>3, <1>4 DEF ReferenceInv

(* The references hold throughout.                                         *)
LEMMA ReferenceInvHolds == Spec => []ReferenceInv
<1>1. Init => ReferenceInv
  BY TablesAssumption
     DEF Init, TablesInit, BookingsInit, EmptyTable, ReferenceInv, NoOrphans, ReferencesHold,
         RoomIsOfHotel
<1>2. ReferenceInv /\ UNCHANGED <<tables, calls, issued>> => ReferenceInv'
  BY DEF tables, calls, ReferenceInv, NoOrphans, ReferencesHold, RoomIsOfHotel, BookingParentsExist
<1>3. TypeInv /\ StaffInv /\ ReferenceInv /\ [Next]_vars => ReferenceInv'
  BY <1>2, CallsKeepReferences, CatalogKeepsReferences, AccountsKeepReferences, StaffStep,
     StaffWritesAccounts DEF Next, vars, catalog
<1> QED BY <1>1, <1>3, TypeInvHolds, PTL DEF Spec

(* A booking's account, hotel and room exist, and the room is one of the   *)
(* hotel's, although hotels are removed while creates are under way.       *)
THEOREM ReferencesAlwaysHold == Spec => []ReferencesHold
<1>1. ReferenceInv => ReferencesHold
  BY DEF ReferenceInv
<1> QED BY <1>1, ReferenceInvHolds, PTL

(* No room and no manager is left with a hotel that is gone.               *)
THEOREM NeverOrphans == Spec => []NoOrphans
<1>1. ReferenceInv => NoOrphans
  BY DEF ReferenceInv
<1> QED BY <1>1, ReferenceInvHolds, PTL

-----------------------------------------------------------------------------
(* Accounts                                                                *)

AccountInv == OneManagerPerHotel /\ PasswordBeforeBooking /\ CallersAreEnrolled

(* What booking calls do that matters to accounts: a call goes on with the *)
(* request it has or begins with an authenticated account; a booking that  *)
(* appears is of the account of a create.                                  *)
LEMMA CallAccounts ==
  ASSUME TypeInv, BookingsNext, NEW d \in Calls, pc'[d] \in CreateSteps
  PROVE  \/ pc[d] \in CreateSteps /\ req'[d] = req[d]
         \/ Authenticated(req'[d].userId)
<1>1. BookingsTypeOK
  BY DEF TypeInv
<1> PICK c \in Calls :
      \/ \E u \in DOMAIN user : \/ \E dto \in CreateDtos : BeginCreate(c, u, dto)
                                \/ \E b \in Calls : BeginPay(c, u, b) \/ BeginCancel(c, u, b)
      \/ CallStep(c)
      \/ Abandon(c)
  BY DEF BookingsNext
<1> DEFINE Going == pc[d] \in CreateSteps /\ req'[d] = req[d]
<1>2. ASSUME NEW step \in Steps, pc' = [pc EXCEPT ![c] = step], UNCHANGED req,
             step \in CreateSteps => pc[c] \in CreateSteps
      PROVE  Going
  BY <1>1, <1>2 DEF BookingsTypeOK
<1>3. ASSUME NEW outcome \in Outcomes, End(c, outcome)
      PROVE  Going
  BY <1>1, <1>3 DEF End, BookingsTypeOK, Outcomes, CreateSteps
<1>4. ASSUME NEW u \in DOMAIN user, NEW dto \in CreateDtos, BeginCreate(c, u, dto)
      PROVE  Going \/ Authenticated(req'[d].userId)
  BY <1>1, <1>4 DEF BeginCreate, Begin, BookingsTypeOK
<1>5. ASSUME NEW u \in DOMAIN user, NEW b \in Calls, BeginPay(c, u, b) \/ BeginCancel(c, u, b)
      PROVE  Going
  BY <1>1, <1>5 DEF BeginPay, BeginCancel, Begin, BookingsTypeOK, CreateSteps
<1>6. CASE Abandon(c)
  BY <1>3, <1>6 DEF Abandon, Refuse, Outcomes
<1>7. CASE CallStep(c)
  <2> USE DEF Steps, CreateSteps, PaySteps, CancelSteps, Outcomes, Refuse
  <2>1. ASSUME NEW condition, NEW step \in Steps, Proceed(c, condition, step),
               step \in CreateSteps => pc[c] \in CreateSteps
        PROVE  Going
    BY <1>2, <1>3, <2>1 DEF Proceed, Goto
  <2>2. CASE CreateReadHotel(c) \/ CreateReadRoom(c)
    BY <1>2, <1>3, <2>2 DEF CreateReadHotel, CreateReadRoom
  <2>3. CASE CreateCheck(c)
    BY <2>1, <2>3 DEF CreateCheck
  <2>4. CASE PayRead(c) \/ PayCheck(c) \/ CancelRead(c) \/ CancelReadHotel(c)
    BY <2>1, <2>4 DEF PayRead, PayCheck, CancelRead, CancelReadHotel
  <2>5. CASE CreateInsert(c) \/ PayWrite(c) \/ CancelUpdate(c)
    BY <1>3, <2>5 DEF CreateInsert, PayWrite, CancelUpdate, CommitWrite
  <2> QED BY <1>7, <2>2, <2>3, <2>4, <2>5 DEF CallStep
<1> QED BY <1>4, <1>5, <1>6, <1>7

(* One statement on one account keeps them,                                *)
LEMMA WritesKeepAccounts ==
  ASSUME TypeInv, DOMAIN user \subseteq enrolled, ReferencesHold, AccountInv, AccountsWritten,
         UNCHANGED calls
  PROVE  AccountInv'
<1>1. /\ DOMAIN user \subseteq enrolled
      /\ \A u \in DOMAIN user : user[u] \in UserRow
      /\ \A b \in DOMAIN booking : booking[b].userId \in DOMAIN user
      /\ UNCHANGED <<booking, pc, req>>
  BY DEF TypeInv, TablesTypeOK, IsTable, ReferencesHold, BookingParentsExist, AccountsWritten,
         calls
<1>2. CallersAreEnrolled'
  BY <1>1 DEF AccountInv, CallersAreEnrolled, AccountsWritten
<1>3. CASE UNCHANGED <<user, enrolled>>
  BY <1>1, <1>2, <1>3 DEF AccountInv, OneManagerPerHotel, PasswordBeforeBooking
<1>4. ASSUME NEW u, NEW row \in UserRow, user' = Put(user, u, row),
             row.hotelId # NoHotel => row.role = "HOTEL_MANAGER",
             \A v \in DOMAIN user \ {u} : row.hotelId # NoHotel => user[v].hotelId # row.hotelId
      PROVE  OneManagerPerHotel'
  <2>1. /\ DOMAIN user' = DOMAIN user \cup {u} /\ user'[u] = row
        /\ \A v \in DOMAIN user : v # u => user'[v] = user[v]
    BY <1>4 DEF Put
  <2> QED BY <1>4, <2>1 DEF AccountInv, OneManagerPerHotel
<1>5. ASSUME NEW u, NEW row, user' = Put(user, u, row),
             row.mustChangePassword =>
               u \notin enrolled \/ (u \in DOMAIN user /\ user[u].mustChangePassword)
      PROVE  PasswordBeforeBooking'
  <2>1. /\ DOMAIN user' = DOMAIN user \cup {u} /\ user'[u] = row
        /\ \A v \in DOMAIN user : v # u => user'[v] = user[v]
    BY <1>5 DEF Put
  <2>2. \A v \in DOMAIN user : user'[v].mustChangePassword => user[v].mustChangePassword
    BY <1>1, <1>5, <2>1
  <2>3. \A b \in DOMAIN booking : ~user'[booking[b].userId].mustChangePassword
    BY <1>1, <2>2 DEF AccountInv, PasswordBeforeBooking
  <2>4. ASSUME NEW c \in Calls, pc[c] \in CreateSteps, req[c].userId \in DOMAIN user'
        PROVE  ~user'[req[c].userId].mustChangePassword
    BY <1>5, <2>1, <2>2, <2>4 DEF AccountInv, PasswordBeforeBooking, CallersAreEnrolled
  <2> QED BY <1>1, <2>3, <2>4 DEF PasswordBeforeBooking
<1>6. ASSUME NEW u, NEW row \in UserRow, Assigned(u, row)
      PROVE  OneManagerPerHotel'
  BY <1>4, <1>6 DEF Assigned, HotelTaken
<1>7. ASSUME NEW u \in DOMAIN user,
             user' = Put(user, u, [user[u] EXCEPT !.mustChangePassword = FALSE])
      PROVE  OneManagerPerHotel' /\ PasswordBeforeBooking'
  <2> DEFINE row == [user[u] EXCEPT !.mustChangePassword = FALSE]
  <2>1. /\ row \in UserRow /\ row.role = user[u].role /\ row.hotelId = user[u].hotelId
        /\ ~row.mustChangePassword
    BY <1>1, <1>7 DEF UserRow
  <2>2. user' = Put(user, u, row)
    BY <1>7
  <2> HIDE DEF row
  <2>3. OneManagerPerHotel'
    BY <1>4, <2>1, <2>2 DEF AccountInv, OneManagerPerHotel
  <2> QED BY <1>5, <2>1, <2>2, <2>3
<1>8. ASSUME NEW u, ~UserReferenced(u), user' = Restrict(user, DOMAIN user \ {u})
      PROVE  OneManagerPerHotel' /\ PasswordBeforeBooking'
  <2>1. /\ DOMAIN user' = DOMAIN user \ {u}
        /\ \A v \in DOMAIN user' : user'[v] = user[v]
    BY <1>8 DEF Restrict
  <2>2. \A b \in DOMAIN booking : booking[b].userId \in DOMAIN user'
    BY <1>1, <1>8, <2>1 DEF UserReferenced, HasBooking
  <2> QED BY <1>1, <2>1, <2>2 DEF AccountInv, OneManagerPerHotel, PasswordBeforeBooking
<1>9. ASSUME NEW u, NEW row \in UserRow, Assigned(u, row),
             row.mustChangePassword =>
               u \notin enrolled \/ (u \in DOMAIN user /\ user[u].mustChangePassword)
      PROVE  OneManagerPerHotel' /\ PasswordBeforeBooking'
  BY <1>5, <1>6, <1>9 DEF Assigned
<1> QED BY <1>2, <1>3, <1>7, <1>8, <1>9 DEF AccountsWritten, AccountInv

(* so do the calls, which begin with accounts there are,                   *)
LEMMA CallsKeepAccounts ==
  ASSUME TypeInv, DOMAIN user \subseteq enrolled, ReferenceInv, AccountInv, BookingsNext,
         UNCHANGED staff
  PROVE  AccountInv'
<1>1. /\ UNCHANGED user
      /\ \/ SameReferences
         \/ \E c \in Calls : /\ pc[c] = "createInsert"
                             /\ req[c].userId \in DOMAIN user
                             /\ booking' = Put(booking, c, NewBooking(c))
  BY CallReferences DEF BookingParentsExist
<1>2. ASSUME NEW d \in Calls, pc'[d] \in CreateSteps
      PROVE  /\ req'[d].userId \in enrolled
             /\ req'[d].userId \in DOMAIN user => ~user[req'[d].userId].mustChangePassword
  <2>1. CASE Authenticated(req'[d].userId)
    BY <2>1 DEF Authenticated
  <2>2. CASE pc[d] \in CreateSteps /\ req'[d] = req[d]
    BY <2>2 DEF AccountInv, CallersAreEnrolled, PasswordBeforeBooking
  <2> QED BY <1>2, <2>1, <2>2, CallAccounts
<1>3. \A b \in DOMAIN booking' : ~user[booking'[b].userId].mustChangePassword
  <2>1. CASE SameReferences
    BY <2>1 DEF SameReferences, AccountInv, PasswordBeforeBooking
  <2>2. ASSUME NEW c \in Calls, pc[c] = "createInsert", req[c].userId \in DOMAIN user,
               booking' = Put(booking, c, NewBooking(c))
        PROVE  \A b \in DOMAIN booking' : ~user[booking'[b].userId].mustChangePassword
    <3>1. /\ DOMAIN booking' = DOMAIN booking \cup {c}
          /\ booking'[c].userId = req[c].userId
          /\ \A b \in DOMAIN booking : b # c => booking'[b] = booking[b]
      BY <2>2 DEF Put, NewBooking
    <3> QED BY <2>2, <3>1 DEF AccountInv, PasswordBeforeBooking, CreateSteps
  <2> QED BY <1>1, <2>1, <2>2
<1> QED BY <1>1, <1>2, <1>3
        DEF AccountInv, OneManagerPerHotel, PasswordBeforeBooking, CallersAreEnrolled, staff

(* and the removal of a hotel.                                             *)
LEMMA CatalogKeepsAccounts ==
  ASSUME TypeInv, ReferenceInv, AccountInv, CatalogNext, UNCHANGED <<calls, staff>>
  PROVE  AccountInv'
<1>1. UNCHANGED <<booking, pc, req, enrolled>>
  BY CatalogReferences DEF ReferenceInv, calls, staff
<1>2. CASE UNCHANGED user
  BY <1>1, <1>2
     DEF AccountInv, OneManagerPerHotel, PasswordBeforeBooking, CallersAreEnrolled
<1>3. ASSUME NEW h \in Hotels, DeleteHotel(h)
      PROVE  AccountInv'
  <2>1. \A u \in DOMAIN user : user[u] \in UserRow
    BY DEF TypeInv, TablesTypeOK, IsTable
  <2>2. /\ DOMAIN user' = DOMAIN user
        /\ \A u \in DOMAIN user :
             /\ user'[u].role = user[u].role
             /\ user'[u].mustChangePassword = user[u].mustChangePassword
             /\ user'[u].hotelId \in {user[u].hotelId, NoHotel}
    BY <1>3, <2>1 DEF DeleteHotel, UserRow
  <2>3. \A b \in DOMAIN booking : booking[b].userId \in DOMAIN user
    BY DEF ReferenceInv, ReferencesHold, BookingParentsExist
  <2>4. OneManagerPerHotel'
    BY <2>2 DEF AccountInv, OneManagerPerHotel
  <2>5. PasswordBeforeBooking' /\ CallersAreEnrolled'
    BY <1>1, <2>2, <2>3 DEF AccountInv, PasswordBeforeBooking, CallersAreEnrolled
  <2> QED BY <2>4, <2>5 DEF AccountInv
<1> QED BY <1>2, <1>3, CatalogReferences DEF ReferenceInv, SameCatalogue

(* The accounts are in order throughout.                                   *)
LEMMA AccountInvHolds == Spec => []AccountInv
<1>1. Init => AccountInv
  BY StaffAssumption DEF Init, TablesInit, BookingsInit, EmptyTable, AccountInv,
     OneManagerPerHotel, PasswordBeforeBooking, CallersAreEnrolled, CreateSteps
<1>2. ASSUME AccountInv, UNCHANGED <<tables, calls, staff>>
      PROVE  AccountInv'
  BY <1>2 DEF tables, calls, staff, AccountInv, OneManagerPerHotel, PasswordBeforeBooking,
              CallersAreEnrolled
<1>3. TypeInv /\ StaffInv /\ ReferenceInv /\ AccountInv /\ [Next]_vars => AccountInv'
  <2> SUFFICES ASSUME TypeInv, StaffInv, ReferenceInv, AccountInv, [Next]_vars
               PROVE  AccountInv'
    OBVIOUS
  <2>1. DOMAIN user \subseteq enrolled /\ ReferencesHold
    BY DEF StaffInv, StaffTypeOK, ReferenceInv
  <2> QED BY <1>2, <2>1, CallsKeepAccounts, CatalogKeepsAccounts, WritesKeepAccounts, StaffStep,
             StaffWritesAccounts DEF Next, vars
<1> QED BY <1>1, <1>3, TypeInvHolds, ReferenceInvHolds, PTL DEF Spec

(* Two requests that assign the same hotel do not both succeed.            *)
THEOREM OneManagerAlways == Spec => []OneManagerPerHotel
<1>1. AccountInv => OneManagerPerHotel
  BY DEF AccountInv
<1> QED BY <1>1, AccountInvHolds, PTL

(* Nobody books with a temporary password.                                 *)
THEOREM PasswordBeforeBookingAlways == Spec => []PasswordBeforeBooking
<1>1. AccountInv => PasswordBeforeBooking
  BY DEF AccountInv
<1> QED BY <1>1, AccountInvHolds, PTL

(* The accounts of the super admin and of guests, and everybody's role,    *)
(* are out of reach of the user services.                                  *)
THEOREM ProtectedAlwaysStay == Spec => ProtectedAccountsStay
<1> DEFINE Stay == \A u \in DOMAIN user :
                     /\ user[u].role \notin StaffRole => u \in DOMAIN user'
                     /\ u \in DOMAIN user' =>
                          /\ user'[u].role = user[u].role
                          /\ user'[u].mustChangePassword => user[u].mustChangePassword
<1>1. TypeInv /\ StaffInv /\ [Next]_vars => [Stay]_vars
  <2> SUFFICES ASSUME TypeInv, StaffInv, [Next]_vars PROVE Stay
    OBVIOUS
  <2>1. /\ \A u \in DOMAIN user : user[u] \in UserRow
        /\ DOMAIN user \subseteq enrolled
    BY DEF TypeInv, TablesTypeOK, IsTable, StaffInv, StaffTypeOK
  <2>2. CASE UNCHANGED user
    BY <2>2
  <2>3. CASE CatalogNext
    <3>1. ASSUME NEW h, DeleteHotel(h) PROVE Stay
      BY <2>1, <3>1 DEF DeleteHotel, UserRow
    <3> QED BY <2>2, <2>3, <3>1, CatalogAccounts
  <2>4. CASE StaffEffect
    <3>1. ASSUME NEW u, NEW row, user' = Put(user, u, row),
                 \/ u \notin enrolled
                 \/ /\ u \in DOMAIN user /\ row.role = user[u].role
                    /\ row.mustChangePassword => user[u].mustChangePassword
          PROVE  Stay
      BY <2>1, <3>1 DEF Put
    <3>2. ASSUME NEW u \in DOMAIN user
          PROVE  LET row == [user[u] EXCEPT !.mustChangePassword = FALSE]
                 IN  row.role = user[u].role /\ ~row.mustChangePassword
      BY <2>1, <3>2 DEF UserRow
    <3>3. ASSUME NEW u \in DOMAIN user, user[u].role \in StaffRole,
                 user' = Restrict(user, DOMAIN user \ {u})
          PROVE  Stay
      BY <3>3 DEF Restrict
    <3> QED BY <2>2, <2>4, <3>1, <3>2, <3>3 DEF StaffEffect, Assigned
  <2>5. BookingsNext => UNCHANGED user
    BY CallReferences
  <2> QED BY <2>2, <2>3, <2>4, <2>5, StaffStep DEF Next, vars, tables
<1> QED BY <1>1, TypeInvHolds, PTL DEF Spec, ProtectedAccountsStay

-----------------------------------------------------------------------------
(* The second refinement                                                   *)

OrgStutter == UNCHANGED <<DOMAIN hotel, Wing, Post, Engaged>>

(* The fields of the mapped state.                                         *)
LEMMA OrgFields ==
  /\ DOMAIN Wing = DOMAIN room
  /\ \A r \in DOMAIN room : Wing[r] = room[r].hotelId
  /\ DOMAIN Post = DOMAIN user
  /\ \A u \in DOMAIN user : /\ Post[u].role = user[u].role
                            /\ Post[u].hotelId = user[u].hotelId
BY DEF Wing, Post

(* Each part of the mapped state stays where its columns do.               *)
LEMMA WingStays ==
  ASSUME DOMAIN room' = DOMAIN room,
         \A r \in DOMAIN room : room'[r].hotelId = room[r].hotelId
  PROVE  UNCHANGED Wing
BY DEF Wing

LEMMA PostStays ==
  ASSUME DOMAIN user' = DOMAIN user,
         \A u \in DOMAIN user : /\ user'[u].role = user[u].role
                                /\ user'[u].hotelId = user[u].hotelId
  PROVE  UNCHANGED Post
BY DEF Post

LEMMA EngagedStays ==
  ASSUME SameReferences
  PROVE  UNCHANGED Engaged
BY DEF SameReferences, Engaged

(* No account but u's has hotel h, in the words of the unique index.       *)
LEMMA VacantUntilTaken ==
  ASSUME NEW u, NEW h, h # NoHotel
  PROVE  Org!Vacant(h, u) <=> ~HotelTaken(h, u)
BY OrgFields DEF Org!Vacant, HotelTaken

(* Booking calls engage somebody whose room is of that hotel, or nobody.   *)
LEMMA CallsEngage ==
  ASSUME TypeInv, ReferenceInv, BookingsNext
  PROVE  Org!Next \/ OrgStutter
<1> PICK c \in Calls :
         /\ UNCHANGED <<hotel, room, user>>
         /\ \/ SameReferences
            \/ /\ pc[c] = "createInsert"
               /\ BookingParentsExist(req[c].userId, req[c].hotelId, req[c].roomId)
               /\ booking' = Put(booking, c, NewBooking(c))
  BY CallReferences
<1>1. UNCHANGED <<DOMAIN hotel, Wing, Post>>
  BY DEF Wing, Post
<1>2. CASE SameReferences
  BY <1>1, <1>2, EngagedStays DEF OrgStutter
<1>3. CASE /\ pc[c] = "createInsert"
           /\ BookingParentsExist(req[c].userId, req[c].hotelId, req[c].roomId)
           /\ booking' = Put(booking, c, NewBooking(c))
  <2> DEFINE u == req[c].userId
             h == req[c].hotelId
             r == req[c].roomId
  <2>1. u \in DOMAIN user /\ h \in DOMAIN hotel /\ r \in DOMAIN room
    BY <1>3 DEF BookingParentsExist
  <2>2. u \in Users /\ h \in Hotels /\ r \in Rooms
    BY <2>1 DEF TypeInv, TablesTypeOK, IsTable
  <2>3. room[r].hotelId = h
    BY <1>3, <2>1 DEF ReferenceInv, RoomIsOfHotel
  <2>4. Engaged' = Engaged \cup {[userId |-> u, hotelId |-> h, roomId |-> r]}
    <3>1. c \notin DOMAIN booking
      BY <1>3 DEF TypeInv, CallsAreValidated
    <3>2. /\ NewBooking(c).userId = u
          /\ NewBooking(c).hotelId = h
          /\ NewBooking(c).roomId = r
      BY DEF NewBooking
    <3>3. /\ DOMAIN booking' = DOMAIN booking \cup {c}
          /\ booking'[c] = NewBooking(c)
          /\ \A b \in DOMAIN booking : booking'[b] = booking[b]
      BY <1>3, <3>1 DEF Put
    <3> HIDE DEF u, h, r
    <3> QED BY <3>2, <3>3 DEF Engaged
  <2> HIDE DEF u, h, r
  <2>5. Org!Engage(u, h, r)
    BY <1>1, <2>1, <2>3, <2>4, OrgFields DEF Org!Engage
  <2> QED BY <2>2, <2>5 DEF Org!Next
<1> QED BY <1>2, <1>3

(* Catalogue calls open a hotel, close one or fit out a room, or do not    *)
(* matter to anybody's whereabouts.                                        *)
LEMMA CatalogOrganises ==
  ASSUME TypeInv, ReferenceInv, CatalogNext
  PROVE  Org!Next \/ OrgStutter
<1>1. UNCHANGED booking
  BY CatalogReferences DEF ReferenceInv
<1>2. UNCHANGED Engaged
  BY <1>1 DEF Engaged
<1>3. NoOrphans /\ ReferencesHold
  BY DEF ReferenceInv
<1>4. CASE SameCatalogue
  <2>1. UNCHANGED Wing
    BY <1>4, WingStays DEF SameCatalogue
  <2>2. UNCHANGED Post
    BY <1>4 DEF SameCatalogue, Post
  <2> QED BY <1>2, <1>4, <2>1, <2>2 DEF SameCatalogue, OrgStutter
<1>5. ASSUME NEW h \in Hotels, DOMAIN hotel' = DOMAIN hotel \cup {h}, UNCHANGED <<room, user>>
      PROVE  Org!Next \/ OrgStutter
  <2>1. UNCHANGED <<Wing, Post>>
    BY <1>5 DEF Wing, Post
  <2>2. CASE h \in DOMAIN hotel
    BY <1>2, <1>5, <2>1, <2>2 DEF OrgStutter
  <2>3. CASE h \notin DOMAIN hotel
    <3>1. Org!Open(h)
      BY <1>2, <1>5, <2>1, <2>3 DEF Org!Open
    <3> QED BY <3>1 DEF Org!Next
  <2> QED BY <2>2, <2>3
<1>6. ASSUME NEW h \in Hotels, DeleteHotel(h)
      PROVE  Org!Next \/ OrgStutter
  <2>1. /\ ~HotelReferenced(h)
        /\ DOMAIN hotel' = DOMAIN hotel \ {h}
        /\ DOMAIN room' = {r \in DOMAIN room : room[r].hotelId # h}
        /\ \A r \in DOMAIN room' : room'[r] = room[r]
        /\ user' = [u \in DOMAIN user |->
                      IF user[u].hotelId = h THEN [user[u] EXCEPT !.hotelId = NoHotel]
                                             ELSE user[u]]
    BY <1>6 DEF DeleteHotel, Restrict
  <2>2. Wing' = [r \in {s \in DOMAIN Wing : Wing[s] # h} |-> Wing[r]]
    <3>1. {s \in DOMAIN Wing : Wing[s] # h} = DOMAIN room'
      BY <2>1, OrgFields
    <3>2. Wing' = [r \in DOMAIN room' |-> room'[r].hotelId]
      BY DEF Wing
    <3> QED BY <2>1, <3>1, <3>2, OrgFields
  <2>3. Post' = [u \in DOMAIN Post |->
                   IF Post[u].hotelId = h THEN [Post[u] EXCEPT !.hotelId = NoHotel] ELSE Post[u]]
    <3>1. \A u \in DOMAIN user : user[u] \in UserRow
      BY DEF TypeInv, TablesTypeOK, IsTable
    <3>2. /\ DOMAIN user' = DOMAIN user
          /\ \A u \in DOMAIN user :
               /\ user'[u].role = user[u].role
               /\ user'[u].hotelId = IF user[u].hotelId = h THEN NoHotel ELSE user[u].hotelId
      BY <2>1, <3>1 DEF UserRow
    <3> QED BY <3>2 DEF Post
  <2>4. CASE h \in DOMAIN hotel
    <3>1. \A e \in Engaged : e.hotelId # h
      BY <2>1 DEF Engaged, HotelReferenced
    <3>2. Org!Close(h)
      BY <1>2, <2>1, <2>2, <2>3, <2>4, <3>1 DEF Org!Close
    <3> QED BY <3>2 DEF Org!Next
  <2>5. CASE h \notin DOMAIN hotel
    <3>1. h # NoHotel
      BY TablesAssumption
    <3>2. /\ \A r \in DOMAIN room : room[r].hotelId # h
          /\ \A u \in DOMAIN user : user[u].hotelId # h
      BY <1>3, <2>5, <3>1 DEF NoOrphans
    <3>3. UNCHANGED Wing
      BY <2>1, <3>2, WingStays
    <3>4. UNCHANGED Post
      BY <2>1, <3>2, PostStays
    <3> QED BY <1>2, <2>1, <2>5, <3>3, <3>4 DEF OrgStutter
  <2> QED BY <2>4, <2>5
<1>7. ASSUME NEW r \in Rooms, r \notin issued, DOMAIN room' = DOMAIN room \cup {r},
             \A q \in DOMAIN room : room'[q] = room[q],
             room'[r].hotelId \in DOMAIN hotel, UNCHANGED <<hotel, user>>
      PROVE  Org!Next \/ OrgStutter
  <2> DEFINE h == room'[r].hotelId
  <2>1. h \in Hotels
    BY <1>7 DEF TypeInv, TablesTypeOK, IsTable
  <2>2. r \notin DOMAIN room
    BY <1>7 DEF TypeInv, CatalogTypeOK
  <2>3. Wing' = [s \in DOMAIN Wing \cup {r} |-> IF s = r THEN h ELSE Wing[s]]
    BY <1>7, <2>2, OrgFields DEF Wing
  <2>4. UNCHANGED Post
    BY <1>7 DEF Post
  <2>5. Org!FitOut(r, h)
    BY <1>2, <1>7, <2>2, <2>3, <2>4, OrgFields DEF Org!FitOut
  <2> QED BY <2>1, <2>5 DEF Org!Next
<1> QED BY <1>3, <1>4, <1>5, <1>6, <1>7, CatalogReferences

(* Staff calls enrol, move or dismiss somebody, or change nobody's place:  *)
(* an update gives a manager a hotel and leaves an admin without one.      *)
LEMMA StaffOrganises ==
  ASSUME TypeInv, StaffInv, ReferenceInv, AccountInv, StaffEffect
  PROVE  Org!Next \/ OrgStutter
<1>1. /\ \A u \in DOMAIN user : user[u] \in UserRow
      /\ DOMAIN user \subseteq enrolled /\ DOMAIN user \subseteq Users
      /\ DOMAIN hotel \subseteq Hotels
      /\ UNCHANGED <<hotel, room, booking>>
  BY DEF TypeInv, TablesTypeOK, IsTable, StaffInv, StaffTypeOK, StaffEffect
<1>2. UNCHANGED <<DOMAIN hotel, Wing, Engaged>>
  BY <1>1 DEF Wing, Engaged
<1>3. ASSUME UNCHANGED Post
      PROVE  OrgStutter
  BY <1>2, <1>3 DEF OrgStutter
<1>4. CASE UNCHANGED user
  BY <1>3, <1>4 DEF Post
<1>5. ASSUME NEW u \in Users, u \notin enrolled, NEW row \in UserRow, Assigned(u, row), Placed(row)
      PROVE  Org!Next
  <2>1. u \notin DOMAIN user /\ u \notin DOMAIN Post
    BY <1>1, <1>5, OrgFields
  <2>2. /\ DOMAIN user' = DOMAIN user \cup {u} /\ user'[u] = row
        /\ \A v \in DOMAIN user : user'[v] = user[v]
    BY <1>5, <2>1 DEF Assigned, Put
  <2>3. Post' = [v \in DOMAIN Post \cup {u} |->
                   IF v = u THEN [role |-> row.role, hotelId |-> row.hotelId] ELSE Post[v]]
    BY <2>1, <2>2 DEF Post
  <2>4. u \in DOMAIN Post' /\ Post'[u].role = row.role /\ Post'[u].hotelId = row.hotelId
    BY <2>3
  <2>5. CASE row.role = "HOTEL_MANAGER"
    <3>1. row.hotelId # NoHotel /\ row.hotelId \in DOMAIN hotel /\ ~HotelTaken(row.hotelId, u)
      BY <1>5, <2>5 DEF Assigned, Placed
    <3>2. Org!Vacant(row.hotelId, u)
      BY <3>1, VacantUntilTaken
    <3>3. Org!Enrol(u, row.role, row.hotelId)
      BY <1>2, <2>1, <2>3, <2>5, <3>1, <3>2 DEF Org!Enrol
    <3> QED BY <2>4, <3>3 DEF Org!Next
  <2>6. CASE row.role # "HOTEL_MANAGER"
    <3>1. row.hotelId = NoHotel
      BY <1>5, <2>6 DEF Assigned
    <3>2. Org!Enrol(u, row.role, row.hotelId)
      BY <1>2, <2>1, <2>3, <2>6, <3>1 DEF Org!Enrol
    <3> QED BY <2>4, <3>2 DEF Org!Next
  <2> QED BY <2>5, <2>6
<1>6. ASSUME NEW u \in DOMAIN user, NEW row \in UserRow, Assigned(u, row), Placed(row),
             row.role = user[u].role
      PROVE  Org!Next \/ OrgStutter
  <2>1. /\ DOMAIN user' = DOMAIN user /\ user'[u] = row
        /\ \A v \in DOMAIN user : v # u => user'[v] = user[v]
    BY <1>6 DEF Assigned, Put
  <2>2. CASE row.role = "HOTEL_MANAGER"
    <3> DEFINE h == row.hotelId
    <3>1. h # NoHotel /\ h \in DOMAIN hotel /\ ~HotelTaken(h, u)
      BY <1>6, <2>2 DEF Assigned, Placed
    <3>2. Org!Vacant(h, u)
      BY <3>1, VacantUntilTaken
    <3>3. Post' = [Post EXCEPT ![u].hotelId = h]
      <4>1. \A v \in DOMAIN user : /\ user'[v].role = user[v].role
                                   /\ user'[v].hotelId = IF v = u THEN h ELSE user[v].hotelId
        BY <1>6, <2>1
      <4> HIDE DEF h
      <4> QED BY <2>1, <4>1 DEF Post
    <3>4. u \in DOMAIN Post /\ Post[u].role = "HOTEL_MANAGER" /\ u \in Users /\ h \in Hotels
      BY <1>1, <1>6, <2>2, <3>1, OrgFields
    <3> HIDE DEF h
    <3>5. Org!Move(u, h)
      BY <1>2, <3>1, <3>2, <3>3, <3>4 DEF Org!Move
    <3> QED BY <3>4, <3>5 DEF Org!Next
  <2>3. CASE row.role # "HOTEL_MANAGER"
    <3>1. row.hotelId = NoHotel
      BY <1>6, <2>3 DEF Assigned
    <3>2. user[u].hotelId = NoHotel
      BY <1>6, <2>3 DEF AccountInv, OneManagerPerHotel
    <3>3. UNCHANGED Post
      BY <1>6, <2>1, <3>1, <3>2, PostStays
    <3> QED BY <1>3, <3>3
  <2> QED BY <2>2, <2>3
<1>7. ASSUME NEW u \in DOMAIN user,
             user' = Put(user, u, [user[u] EXCEPT !.mustChangePassword = FALSE])
      PROVE  OrgStutter
  <2> DEFINE row == [user[u] EXCEPT !.mustChangePassword = FALSE]
  <2>1. row.role = user[u].role /\ row.hotelId = user[u].hotelId
    BY <1>1, <1>7 DEF UserRow
  <2>2. user' = Put(user, u, row)
    BY <1>7
  <2> HIDE DEF row
  <2>3. UNCHANGED Post
    BY <2>1, <2>2, PostStays DEF Put
  <2> QED BY <1>3, <2>3
<1>8. ASSUME NEW u \in DOMAIN user, user[u].role \in StaffRole, ~UserReferenced(u),
             user' = Restrict(user, DOMAIN user \ {u})
      PROVE  Org!Next
  <2>1. /\ DOMAIN user' = DOMAIN user \ {u}
        /\ \A v \in DOMAIN user' : user'[v] = user[v]
    BY <1>8 DEF Restrict
  <2>2. Post' = [v \in DOMAIN Post \ {u} |-> Post[v]]
    BY <2>1, OrgFields DEF Post
  <2>3. \A e \in Engaged : e.userId # u
    BY <1>8 DEF Engaged, UserReferenced, HasBooking
  <2>4. u \in DOMAIN Post /\ Post[u].role \in Org!Staff
    BY <1>8, OrgFields DEF Org!Staff, StaffRole
  <2>5. Org!Dismiss(u)
    BY <1>2, <2>2, <2>3, <2>4 DEF Org!Dismiss
  <2>6. u \in Users
    BY <1>1, <1>8
  <2> QED BY <2>5, <2>6 DEF Org!Next
<1> QED BY <1>4, <1>5, <1>6, <1>7, <1>8 DEF StaffEffect

(* The hotel, room, user and booking services implement the organisation:  *)
(* calls of several unprotected statements each amount to single steps.    *)
THEOREM SystemImplementsOrganisation == Spec => ImplementsOrganisation
<1>1. Init => Org!Init
  <2> SUFFICES ASSUME Init PROVE Org!Init
    OBVIOUS
  <2>1. /\ \A r \in DOMAIN room : room[r].hotelId \in DOMAIN hotel
        /\ \A u \in DOMAIN user : user[u].hotelId \in DOMAIN hotel \cup {NoHotel}
    BY TablesAssumption DEF Init, TablesInit
  <2>2. \A u \in DOMAIN user : user[u].hotelId # NoHotel =>
          /\ user[u].role = "HOTEL_MANAGER"
          /\ \A v \in DOMAIN user \ {u} : user[v].hotelId # user[u].hotelId
    BY StaffAssumption DEF Init, TablesInit
  <2>3. Org!InOrder
    BY <2>1, <2>2, OrgFields DEF Org!InOrder, Org!Vacant
  <2>4. Engaged = {}
    BY DEF Init, TablesInit, EmptyTable, Engaged
  <2>5. Org!Posts
    BY OrgFields DEF Org!Posts, Post
  <2> QED BY <2>3, <2>4, <2>5 DEF Org!Init
<1>2. TypeInv /\ StaffInv /\ ReferenceInv /\ AccountInv /\ [Next]_vars
        => [Org!Next]_<<DOMAIN hotel, Wing, Post, Engaged>>
  <2> SUFFICES ASSUME TypeInv, StaffInv, ReferenceInv, AccountInv, [Next]_vars
               PROVE  Org!Next \/ OrgStutter
    BY DEF OrgStutter
  <2>1. CASE UNCHANGED tables
    BY <2>1 DEF tables, OrgStutter, Wing, Post, Engaged
  <2> QED BY <2>1, CallsEngage, CatalogOrganises, StaffStep, StaffOrganises DEF Next, vars
<1> QED BY <1>1, <1>2, TypeInvHolds, ReferenceInvHolds, AccountInvHolds, PTL
        DEF Spec, ImplementsOrganisation, Org!Spec, Org!organisation

-----------------------------------------------------------------------------
(* Owners                                                                  *)

(* A call that has read its booking either had read it before or has just  *)
(* found it to be its own.                                                 *)
LEMMA CallOwners ==
  ASSUME TypeInv, BookingsNext, NEW d \in Calls, pc'[d] \in OwnerSteps
  PROVE  /\ req'[d] = req[d]
         /\ \/ pc[d] \in OwnerSteps
            \/ req[d].bookingId \in DOMAIN booking /\ IsOwn(req[d].bookingId, req[d])
<1>1. BookingsTypeOK
  BY DEF TypeInv
<1> PICK c \in Calls :
      \/ \E u \in DOMAIN user : \/ \E dto \in CreateDtos : BeginCreate(c, u, dto)
                                \/ \E b \in Calls : BeginPay(c, u, b) \/ BeginCancel(c, u, b)
      \/ CallStep(c)
      \/ Abandon(c)
  BY DEF BookingsNext
<1> DEFINE Own == req[d].bookingId \in DOMAIN booking /\ IsOwn(req[d].bookingId, req[d])
           Going == req'[d] = req[d] /\ (pc[d] \in OwnerSteps \/ Own)
<1>2. ASSUME NEW step \in Steps, pc' = [pc EXCEPT ![c] = step],
             \A e \in Calls \ {c} : req'[e] = req[e],
             step \in OwnerSteps => UNCHANGED req /\ (c = d => pc[c] \in OwnerSteps \/ Own)
      PROVE  Going
  <2> HIDE DEF Own
  <2>1. CASE d = c
    BY <1>1, <1>2, <2>1 DEF BookingsTypeOK
  <2>2. CASE d # c
    BY <1>1, <1>2, <2>2 DEF BookingsTypeOK
  <2> QED BY <2>1, <2>2
<1>3. ASSUME NEW outcome \in Outcomes, End(c, outcome)
      PROVE  Going
  BY <1>1, <1>2, <1>3 DEF End, BookingsTypeOK, Outcomes, Steps
<1>4. ASSUME NEW step \in {"createReadHotel", "payRead", "cancelRead"}, NEW request,
             Begin(c, step, request)
      PROVE  Going
  BY <1>1, <1>2, <1>4 DEF Begin, BookingsTypeOK, Steps, CreateSteps, PaySteps, CancelSteps
<1>5. ASSUME NEW condition, NEW step \in Steps, Proceed(c, condition, step),
             step \in OwnerSteps => (condition /\ c = d => pc[c] \in OwnerSteps \/ Own)
      PROVE  Going
  <2>1. CASE condition /\ Goto(c, step)
    BY <1>2, <1>5, <2>1 DEF Goto
  <2>2. CASE Refuse(c)
    BY <1>3, <2>2 DEF Refuse, Outcomes
  <2> QED BY <1>5, <2>1, <2>2 DEF Proceed
<1>6. CASE CallStep(c)
  <2> USE DEF Steps, CreateSteps, PaySteps, CancelSteps, Outcomes, Refuse
  <2>1. CASE CreateReadHotel(c) \/ CreateReadRoom(c)
    BY <1>2, <1>3, <2>1 DEF CreateReadHotel, CreateReadRoom
  <2>2. CASE CreateCheck(c)
    BY <1>5, <2>2 DEF CreateCheck
  <2>3. CASE PayRead(c) \/ CancelRead(c)
    BY <1>5, <2>3 DEF PayRead, CancelRead, Unpaid
  <2>4. CASE PayCheck(c) \/ CancelReadHotel(c)
    BY <1>5, <2>4 DEF PayCheck, CancelReadHotel
  <2>5. CASE CreateInsert(c) \/ PayWrite(c) \/ CancelUpdate(c)
    BY <1>3, <2>5 DEF CreateInsert, PayWrite, CancelUpdate, CommitWrite
  <2> QED BY <1>6, <2>1, <2>2, <2>3, <2>4, <2>5 DEF CallStep
<1>7. CASE Abandon(c)
  BY <1>3, <1>7 DEF Abandon, Refuse, Outcomes
<1> QED BY <1>4, <1>6, <1>7 DEF BeginCreate, BeginPay, BeginCancel

(* No step of a call makes it go on with a booking of somebody else.       *)
LEMMA CallsKeepOwners ==
  ASSUME TypeInv, OwnersAreChecked, BookingsNext
  PROVE  OwnersAreChecked'
<1> SUFFICES ASSUME NEW d \in Calls, pc'[d] \in OwnerSteps
             PROVE  booking'[req'[d].bookingId].userId = req'[d].userId
  BY DEF OwnersAreChecked, IsOwn
<1> DEFINE b == req[d].bookingId
<1>1. req'[d] = req[d] /\ b \in DOMAIN booking /\ booking[b].userId = req[d].userId
  BY CallOwners DEF OwnersAreChecked, IsOwn, TypeInv, CallsAreValidated
<1>2. booking'[b].userId = booking[b].userId
  <2>1. \A c \in Calls : pc[c] = "createInsert" => c \notin DOMAIN booking
    BY DEF TypeInv, CallsAreValidated
  <2>2. \/ SameReferences
        \/ \E c \in Calls : pc[c] = "createInsert" /\ booking' = Put(booking, c, NewBooking(c))
    BY CallReferences
  <2> HIDE DEF b
  <2> QED BY <1>1, <2>1, <2>2 DEF SameReferences, Put
<1> QED BY <1>1, <1>2

(* A call goes on with its own booking throughout.                         *)
LEMMA OwnersStayChecked == Spec => []OwnersAreChecked
<1>1. Init => OwnersAreChecked
  BY DEF Init, BookingsInit, OwnersAreChecked
<1>2. ASSUME OwnersAreChecked, UNCHANGED <<booking, calls>>
      PROVE  OwnersAreChecked'
  BY <1>2 DEF calls, OwnersAreChecked, IsOwn
<1>3. TypeInv /\ StaffInv /\ ReferenceInv /\ OwnersAreChecked /\ [Next]_vars => OwnersAreChecked'
  BY <1>2, CallsKeepOwners, StaffStep, CatalogReferences DEF Next, vars, tables, ReferenceInv, StaffEffect
<1> QED BY <1>1, <1>3, TypeInvHolds, ReferenceInvHolds, PTL DEF Spec

(* What is done to a booking its owner does: with an account that exists,  *)
(* a password of its own choice and a call that ends.                      *)
Decides(b) ==
  /\ booking[b].userId \in DOMAIN user
  /\ ~user[booking[b].userId].mustChangePassword
  /\ \E c \in Calls : /\ pc[c] # "done" /\ pc'[c] = "done"
                      /\ req[c].bookingId = b
                      /\ req[c].userId = booking[b].userId

Decided == \A b \in DOMAIN booking :
  booking'[b] # booking[b] \/ b \in DOMAIN payment' \ DOMAIN payment => Decides(b)

LEMMA StepsAreDecided ==
  ASSUME TypeInv, ReferencesHold, PasswordBeforeBooking, OwnersAreChecked, [Next]_vars
  PROVE  Decided
<1> SUFFICES ASSUME NEW b \in DOMAIN booking,
                    booking'[b] # booking[b] \/ b \in DOMAIN payment' \ DOMAIN payment
             PROVE  Decides(b)
  BY DEF Decided
<1>1. /\ booking[b].userId \in DOMAIN user
      /\ ~user[booking[b].userId].mustChangePassword
  BY DEF ReferencesHold, BookingParentsExist, PasswordBeforeBooking
<1>2. pc \in [Calls -> Steps]
  BY DEF TypeInv, BookingsTypeOK
<1>3. ASSUME NEW c \in Calls, CommitPay(c) \/ CancelUpdate(c)
      PROVE  Decides(b)
  <2>1. /\ pc[c] \in OwnerSteps /\ pc[c] # "done" /\ pc'[c] = "done"
    BY <1>2, <1>3 DEF CommitPay, CommitWrite, CancelUpdate, End
  <2>2. req[c].bookingId = b
    <3>1. CASE CommitPay(c)
      BY <3>1 DEF CommitPay, WithConfirmation, Put
    <3>2. CASE CancelUpdate(c)
      BY <3>2 DEF CancelUpdate, Put
    <3> QED BY <1>3, <3>1, <3>2
  <2>3. req[c].userId = booking[b].userId
    BY <2>1, <2>2 DEF OwnersAreChecked, IsOwn
  <2> QED BY <1>1, <2>1, <2>2, <2>3 DEF Decides
<1>4. ASSUME NEW c \in Calls, CommitCreate(c)
      PROVE  FALSE
  <2>1. c \notin DOMAIN booking
    BY <1>4 DEF CommitCreate, TypeInv, CallsAreValidated
  <2> QED BY <1>4, <2>1 DEF CommitCreate, Put
<1>5. ~UNCHANGED <<booking, payment>>
  OBVIOUS
<1> QED BY <1>3, <1>4, <1>5, StepEffect
        DEF BookingEffect, BookingsUntouched, CallOnly, OpenCreate, OpenPay

(* Only a call of its owner, whose account exists and has a password of    *)
(* its own choice, pays for a booking or cancels it.                       *)
THEOREM OwnersAlwaysDecide == Spec => OwnersDecide
<1>1. TypeInv /\ ReferenceInv /\ AccountInv /\ OwnersAreChecked /\ [Next]_vars => [Decided]_vars
  BY StepsAreDecided DEF ReferenceInv, AccountInv
<1> QED BY <1>1, TypeInvHolds, ReferenceInvHolds, AccountInvHolds, OwnersStayChecked, PTL
        DEF Spec, OwnersDecide, Decided, Decides

(* What a call has read still binds it when it writes.                     *)
THEOREM CallsAlwaysKnowTheirPast == Spec => []CallsKnowTheirPast
<1>1. TypeInv /\ StaffInv /\ ReservationInv /\ ReferenceInv /\ AccountInv /\ OwnersAreChecked
        => CallsKnowTheirPast
  BY DEF TypeInv, StaffInv, ReservationInv, ReferenceInv, AccountInv,
         CallsKnowTheirPast
<1> QED BY <1>1, TypeInvHolds, ReservationInvHolds, ReferenceInvHolds, AccountInvHolds,
        OwnersStayChecked, PTL

-----------------------------------------------------------------------------
(* What follows.                                                           *)

Promises == INSTANCE PromisesProofs
              WITH Ids <- Calls, Accounts <- Users, Nowhere <- NoHotel,
                   entry <- LedgerEntry, charged <- payment,
                   open <- DOMAIN hotel, wing <- Wing, post <- Post, engaged <- Engaged

(* Whatever keeps the ledger of the bookings keeps their terms.            *)
LEMMA LedgerMeansTerms == Ledger!Spec => Ledger!TermsAreKept
<1>1. Promises!L!Spec => Promises!L!TermsAreKept
  BY Promises!LedgerKeepsTerms
<1> QED
  BY <1>1, PTL
     DEF Ledger!Spec, Promises!L!Spec, Ledger!Init, Promises!L!Init, Ledger!Next,
         Promises!L!Next, Ledger!TermsAreKept, Promises!L!TermsAreKept,
         Ledger!Reserve, Promises!L!Reserve, Ledger!Free, Promises!L!Free,
         Ledger!Holding, Promises!L!Holding, Ledger!Pay, Promises!L!Pay,
         Ledger!Release, Promises!L!Release

(* Whatever keeps the organisation of the tables keeps what is booked.     *)
LEMMA OrganisationMeansStaying == Org!Spec => Org!NothingBookedGoes
<1>1. Promises!O!Spec => Promises!O!NothingBookedGoes
  BY Promises!NothingBookedEverGoes
<1> QED
  BY <1>1, PTL
     DEF Org!Spec, Promises!O!Spec, Org!Init, Promises!O!Init, Org!Next,
         Promises!O!Next, Org!NothingBookedGoes, Promises!O!NothingBookedGoes,
         Org!organisation, Promises!O!organisation, Org!Staff, Promises!O!Staff,
         Org!Posts, Promises!O!Posts, Org!InOrder, Promises!O!InOrder, Org!Vacant,
         Promises!O!Vacant, Org!Open, Promises!O!Open, Org!Close,
         Promises!O!Close, Org!FitOut, Promises!O!FitOut, Org!Enrol,
         Promises!O!Enrol, Org!Move, Promises!O!Move, Org!Dismiss,
         Promises!O!Dismiss, Org!Engage, Promises!O!Engage

(* The terms of a booking never change, what was paid for it is kept, and  *)
(* the account, the hotel and the room of a booking outlive it, the room   *)
(* in that hotel and the account in its role.                              *)
THEOREM BookingsAreKept == Spec => Ledger!TermsAreKept /\ Org!NothingBookedGoes
  BY LedgerMeansTerms, OrganisationMeansStaying,
     SystemImplementsLedger, SystemImplementsOrganisation, PTL
     DEF ImplementsLedger, ImplementsOrganisation
=============================================================================
