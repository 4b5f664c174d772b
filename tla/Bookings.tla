------------------------------ MODULE Bookings ------------------------------
(***************************************************************************)
(* BookingsService.create and cancel and PaymentsService.pay as the calls  *)
(* of a Node process: every await is a point where the steps of other      *)
(* calls run, so a call is a sequence of actions and pc names the step it  *)
(* takes next.                                                             *)
(*                                                                         *)
(* create and pay write inside runSerializable.  A transaction is two      *)
(* steps: its first reads take the snapshot; its writes and the COMMIT     *)
(* are one step, since nobody sees the writes earlier.  In between, the    *)
(* call collects what committed since its snapshot, and the commit fails   *)
(* where PostgreSQL's SERIALIZABLE level fails it.  cancel's update runs   *)
(* outside any transaction, on the row as it is by then.                   *)
(*                                                                         *)
(* A call is used once.  A client that retries makes another call.         *)
(***************************************************************************)
EXTENDS Tables

CONSTANTS CreateDtos,   \* create-booking requests clients may send
          NoRequest     \* of a call that has no request

VARIABLES pc,       \* the next step of each call, or its outcome
          req,      \* its request and the account the guards let in
          ctx,      \* what validation read: the zone, then the total amount
          missed,   \* bookings serializable transactions wrote since its snapshot
          stale     \* the row it is to update was updated since its snapshot

calls == <<pc, req, ctx, missed, stale>>

CreateSteps == {"createReadHotel", "createReadRoom", "createCheck", "createInsert"}
PaySteps == {"payRead", "payCheck", "payWrite"}
CancelSteps == {"cancelRead", "cancelReadHotel", "cancelUpdate"}
Outcomes == {"done", "refused"}

CreateRequest == [userId : Users, hotelId : Hotels, roomId : Rooms,
                  checkIn : Int, checkOut : Int, guestCount : Nat]
BookingRequest == [userId : Users, role : Role, bookingId : Calls]

ASSUME BookingsAssumption ==
  \A dto \in CreateDtos : \A u \in Users :
    [userId |-> u, hotelId |-> dto.hotelId, roomId |-> dto.roomId,
     checkIn |-> dto.checkIn, checkOut |-> dto.checkOut,
     guestCount |-> dto.guestCount] \in CreateRequest

Steps == {"idle"} \cup CreateSteps \cup PaySteps \cup CancelSteps \cup Outcomes

BookingsTypeOK ==
  /\ pc \in [Calls -> Steps]
  /\ req \in [Calls -> CreateRequest \cup BookingRequest \cup {NoRequest}]
  /\ ctx \in [Calls -> Int]
  /\ missed \in [Calls -> SUBSET Calls]
  /\ stale \in [Calls -> BOOLEAN]
  /\ \A c \in Calls :
       /\ pc[c] \in CreateSteps => req[c] \in CreateRequest
       /\ pc[c] \in PaySteps \cup CancelSteps => req[c] \in BookingRequest

BookingsInit ==
  /\ pc = [c \in Calls |-> "idle"]
  /\ req = [c \in Calls |-> NoRequest]
  /\ ctx = [c \in Calls |-> 0]
  /\ missed = [c \in Calls |-> {}]
  /\ stale = [c \in Calls |-> FALSE]

-----------------------------------------------------------------------------
(* A call moves on to step, keeping what it has.                           *)
Goto(c, step) ==
  pc' = [pc EXCEPT ![c] = step] /\ UNCHANGED <<req, ctx, missed, stale>>

(* The call ends: its request and everything it read are garbage.          *)
End(c, outcome) ==
  /\ pc' = [pc EXCEPT ![c] = outcome]
  /\ req' = [req EXCEPT ![c] = NoRequest]
  /\ ctx' = [ctx EXCEPT ![c] = 0]

Refuse(c) ==
  /\ End(c, "refused")
  /\ missed' = [missed EXCEPT ![c] = {}]
  /\ stale' = [stale EXCEPT ![c] = FALSE]

(* if (!condition) throw; the call goes on to step, or ends refused.       *)
Proceed(c, condition, step) ==
  \/ condition /\ Goto(c, step)
  \/ ~condition /\ Refuse(c)

Begin(c, step, request) ==
  /\ pc[c] = "idle"
  /\ pc' = [pc EXCEPT ![c] = step]
  /\ req' = [req EXCEPT ![c] = request]
  /\ UNCHANGED <<ctx, missed, stale, tables, now>>

-----------------------------------------------------------------------------
(* Serializable transactions, as PostgreSQL runs them.                     *)
InTransaction(c) == pc[c] \in {"createInsert", "payWrite"}

(* The stay a transaction asks the availability of.                        *)
Room(c) == IF pc[c] = "createInsert" THEN req[c].roomId
                                     ELSE booking[req[c].bookingId].roomId
CheckIn(c) == IF pc[c] = "createInsert" THEN req[c].checkIn
                                        ELSE booking[req[c].bookingId].checkIn
CheckOut(c) == IF pc[c] = "createInsert" THEN req[c].checkOut
                                         ELSE booking[req[c].bookingId].checkOut

(* The row conditions of hasOverlap on booking b, its status apart.        *)
Collides(b, roomId, checkIn, checkOut) ==
  /\ booking[b].roomId = roomId
  /\ Overlap(booking[b].checkIn, booking[b].checkOut, checkIn, checkOut)

(* hasOverlap, with excludeBookingId = exclude or no exclusion at all.     *)
\* Variant: only paid bookings occupy the room.
HasOverlapConfirmedOnly(roomId, checkIn, checkOut, exclude) ==
  \E b \in DOMAIN booking \ exclude :
    booking[b].status = "CONFIRMED" /\ Collides(b, roomId, checkIn, checkOut)
HasOverlap(roomId, checkIn, checkOut, exclude) ==
  \E b \in DOMAIN booking \ exclude :
    IsActive(b) /\ Collides(b, roomId, checkIn, checkOut)

(* Why COMMIT fails.  A row to be updated was updated since the snapshot;  *)
(* or a transaction that committed since then wrote a booking this one's   *)
(* availability query matches, and so read past this one's booking too:    *)
(* each read what the other wrote.  PostgreSQL may fail a transaction for  *)
(* less than that: Abandon covers it.                                      *)
\* Variant: runSerializable without the isolation level (READ COMMITTED).
ReadCommitted(c) == FALSE
SerializationFailure(c) ==
  \/ stale[c]
  \/ \E b \in missed[c] :
       b \in DOMAIN booking /\ Collides(b, Room(c), CheckIn(c), CheckOut(c))

(* Transaction c ends with COMMIT having written booking b.  The open      *)
(* transactions of other calls do not see it.                              *)
CommitWrite(c, b) ==
  /\ End(c, "done")
  /\ missed' = [d \in Calls |-> IF d = c THEN {}
                                ELSE IF InTransaction(d) THEN missed[d] \cup {b}
                                ELSE missed[d]]
  /\ stale' = [d \in Calls |-> IF d = c THEN FALSE
                               ELSE IF pc[d] = "payWrite" /\ req[d].bookingId = b THEN TRUE
                               ELSE stale[d]]

-----------------------------------------------------------------------------
(* BookingsService.create                                                  *)

BeginCreate(c, u, dto) ==
  /\ Authenticated(u)
  /\ Begin(c, "createReadHotel",
           [userId |-> u, hotelId |-> dto.hotelId, roomId |-> dto.roomId,
            checkIn |-> dto.checkIn, checkOut |-> dto.checkOut,
            guestCount |-> dto.guestCount])

(* validateBookingInput up to its second await.                            *)
DatesInOrder(q) == q.checkOut > q.checkIn

CreateReadHotel(c) ==
  LET h == req[c].hotelId
      ok == /\ DatesInOrder(req[c])
            /\ h \in DOMAIN hotel
            /\ hotel[h].status # "INACTIVE"
  IN  /\ pc[c] = "createReadHotel"
      /\ \/ /\ ok
            /\ pc' = [pc EXCEPT ![c] = "createReadRoom"]
            /\ ctx' = [ctx EXCEPT ![c] = hotel[h].timezone]
            /\ UNCHANGED <<req, missed, stale>>
         \/ ~ok /\ Refuse(c)
      /\ UNCHANGED <<tables, now>>

(* The rest of validateBookingInput: one read, then checks on what was     *)
(* read.                                                                   *)
\* Variant: any room goes, of whatever hotel.
RoomAcceptsAnyHotel(r, q) == room[r].isAvailable /\ q.guestCount <= room[r].capacity
RoomAccepts(r, q) ==
  /\ room[r].hotelId = q.hotelId
  /\ room[r].isAvailable
  /\ q.guestCount <= room[r].capacity

CreateReadRoom(c) ==
  LET r == req[c].roomId
      ok == /\ r \in DOMAIN room
            /\ RoomAccepts(r, req[c])
            /\ CheckInNotInPast(req[c].checkIn, now, ctx[c])
            /\ AtLeastOneNight(req[c].checkIn, req[c].checkOut)
  IN  /\ pc[c] = "createReadRoom"
      /\ \/ /\ ok
            /\ pc' = [pc EXCEPT ![c] = "createCheck"]
            /\ ctx' = [ctx EXCEPT ![c] =
                 room[r].pricePerNight * Nights(req[c].checkIn, req[c].checkOut)]
            /\ UNCHANGED <<req, missed, stale>>
         \/ ~ok /\ Refuse(c)
      /\ UNCHANGED <<tables, now>>

(* The transaction opens: assertAvailable reads the snapshot.              *)
CreateCheck(c) ==
  /\ pc[c] = "createCheck"
  /\ Proceed(c, ~HasOverlap(req[c].roomId, req[c].checkIn, req[c].checkOut, {}),
             "createInsert")
  /\ UNCHANGED <<tables, now>>

NewBooking(c) ==
  [userId |-> req[c].userId, hotelId |-> req[c].hotelId, roomId |-> req[c].roomId,
   checkIn |-> req[c].checkIn, checkOut |-> req[c].checkOut,
   guestCount |-> req[c].guestCount, totalAmount |-> ctx[c], status |-> "PENDING"]

(* booking.create and COMMIT.                                              *)
CreateInsert(c) ==
  LET ok == /\ ~SerializationFailure(c)
            /\ BookingParentsExist(req[c].userId, req[c].hotelId, req[c].roomId)
  IN  /\ pc[c] = "createInsert"
      /\ \/ /\ ok
            /\ booking' = Put(booking, c, NewBooking(c))
            /\ CommitWrite(c, c)
         \/ ~ok /\ Refuse(c) /\ UNCHANGED booking
      /\ UNCHANGED <<hotel, room, user, payment, now>>

-----------------------------------------------------------------------------
(* PaymentsService.pay                                                     *)

BeginPay(c, u, b) ==
  /\ Authenticated(u)
  /\ Begin(c, "payRead", [userId |-> u, role |-> user[u].role, bookingId |-> b])

Unpaid(b) == b \in DOMAIN booking /\ booking[b].status = "PENDING" /\ b \notin DOMAIN payment

(* You may only pay for, or cancel, your own bookings.                     *)
\* Variant: whoever knows the id may.
Anyones(b, q) == TRUE
IsOwn(b, q) == booking[b].userId = q.userId

(* The checks before the transaction.                                      *)
PayRead(c) ==
  LET b == req[c].bookingId
  IN  /\ pc[c] = "payRead"
      /\ Proceed(c, Unpaid(b) /\ IsOwn(b, req[c]), "payCheck")
      /\ UNCHANGED <<tables, now>>

(* The transaction opens: the same checks again and assertAvailable, on    *)
(* the snapshot.                                                           *)
\* Variant: the transaction trusts what pay read before it.
NotRechecked(b) == TRUE
StillUnpaid(b) == Unpaid(b)

PayCheck(c) ==
  LET b == req[c].bookingId
  IN  /\ pc[c] = "payCheck"
      /\ Proceed(c, /\ StillUnpaid(b)
                    /\ ~HasOverlap(booking[b].roomId, booking[b].checkIn,
                                   booking[b].checkOut, {b}),
                 "payWrite")
      /\ UNCHANGED <<tables, now>>

(* payment.create, booking.update and COMMIT.                              *)
\* Variant: the update of the booking is left out.
WithPaymentOnly(b) == booking
WithConfirmation(b) == Put(booking, b, [booking[b] EXCEPT !.status = "CONFIRMED"])

PayWrite(c) ==
  LET b == req[c].bookingId
      ok == ~SerializationFailure(c) /\ b \notin DOMAIN payment
  IN  /\ pc[c] = "payWrite"
      /\ \/ /\ ok
            /\ payment' = Put(payment, b, booking[b].totalAmount)
            /\ booking' = WithConfirmation(b)
            /\ CommitWrite(c, b)
         \/ ~ok /\ Refuse(c) /\ UNCHANGED <<booking, payment>>
      /\ UNCHANGED <<hotel, room, user, now>>

-----------------------------------------------------------------------------
(* BookingsService.cancel                                                  *)

BeginCancel(c, u, b) ==
  /\ Authenticated(u)
  /\ Begin(c, "cancelRead", [userId |-> u, role |-> user[u].role, bookingId |-> b])

CancelRead(c) ==
  LET b == req[c].bookingId
  IN  /\ pc[c] = "cancelRead"
      /\ Proceed(c, b \in DOMAIN booking /\ IsOwn(b, req[c]) /\ IsActive(b),
                 IF req[c].role = "GUEST" THEN "cancelReadHotel" ELSE "cancelUpdate")
      /\ UNCHANGED <<tables, now>>

(* assertGuestCancellationWindow, with the zone the hotel has now.  The    *)
(* columns of the booking it uses never change after the insert.           *)
InWindow(b) ==
  GuestCancellationAllowed(booking[b].checkIn, now, hotel[booking[b].hotelId].timezone)

CancelReadHotel(c) ==
  LET b == req[c].bookingId
  IN  /\ pc[c] = "cancelReadHotel"
      /\ Proceed(c, booking[b].hotelId \in DOMAIN hotel /\ InWindow(b), "cancelUpdate")
      /\ UNCHANGED <<tables, now>>

(* booking.update by id, whatever the status is by now.                    *)
CancelUpdate(c) ==
  LET b == req[c].bookingId
  IN  /\ pc[c] = "cancelUpdate"
      /\ booking' = Put(booking, b, [booking[b] EXCEPT !.status = "CANCELLED"])
      /\ End(c, "done")
      /\ stale' = [d \in Calls |->
                     IF pc[d] = "payWrite" /\ req[d].bookingId = b THEN TRUE ELSE stale[d]]
      /\ UNCHANGED <<missed, hotel, room, user, payment, now>>

-----------------------------------------------------------------------------
(* The process dies, a statement or the transaction times out, the         *)
(* connection is lost before COMMIT, or PostgreSQL reports a conflict that *)
(* SerializationFailure does not insist on: nothing was written.           *)
Abandon(c) ==
  /\ pc[c] \in CreateSteps \cup PaySteps \cup CancelSteps
  /\ Refuse(c)
  /\ UNCHANGED <<tables, now>>

CallStep(c) ==
  \/ CreateReadHotel(c) \/ CreateReadRoom(c) \/ CreateCheck(c) \/ CreateInsert(c)
  \/ PayRead(c) \/ PayCheck(c) \/ PayWrite(c)
  \/ CancelRead(c) \/ CancelReadHotel(c) \/ CancelUpdate(c)

BookingsNext ==
  \E c \in Calls :
    \/ \E u \in DOMAIN user : \/ \E dto \in CreateDtos : BeginCreate(c, u, dto)
                              \/ \E b \in Calls : BeginPay(c, u, b) \/ BeginCancel(c, u, b)
    \/ CallStep(c)
    \/ Abandon(c)
=============================================================================
