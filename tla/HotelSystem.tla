---------------------------- MODULE HotelSystem -----------------------------
(***************************************************************************)
(* The booking, catalogue and staff calls of one backend over the same     *)
(* tables, and the clock: everything that writes hotels, rooms, accounts,  *)
(* bookings and payments, the refresh token of an account apart.           *)
(***************************************************************************)
EXTENDS Bookings, Staff

catalog == <<job, issued>>
staff == <<task, enrolled>>

vars == <<tables, now, calls, catalog, staff>>

TypeOK == TablesTypeOK /\ BookingsTypeOK /\ CatalogTypeOK /\ StaffTypeOK

Init == TablesInit /\ BookingsInit /\ CatalogInit /\ StaffInit

Next ==
  \/ BookingsNext /\ UNCHANGED <<catalog, staff>>
  \/ CatalogNext /\ UNCHANGED <<calls, staff>>
  \/ StaffNext /\ UNCHANGED <<calls, catalog>>
  \/ Tick /\ UNCHANGED <<tables, calls, catalog, staff>>

Spec == Init /\ [][Next]_vars

-----------------------------------------------------------------------------
(* At any time a night of a room belongs to at most one pending or         *)
(* confirmed booking.  This is what the serializable transactions of       *)
(* create and pay are for: two creates that both find the room free must   *)
(* not both commit.                                                        *)
NoDoubleBooking ==
  \A b1, b2 \in DOMAIN booking :
    b1 # b2 /\ IsActive(b1) /\ IsActive(b2) /\ booking[b1].roomId = booking[b2].roomId
      => NightsOf(booking[b1].checkIn, booking[b1].checkOut)
           \cap NightsOf(booking[b2].checkIn, booking[b2].checkOut) = {}

(* A confirmed booking has been paid, a pending one has not, and no        *)
(* payment lacks its booking or differs from its total: pay writes two     *)
(* rows, and a cancellation or a second payment may come in between.       *)
PaymentMatchesStatus ==
  /\ DOMAIN payment \subseteq DOMAIN booking
  /\ \A b \in DOMAIN booking :
       /\ booking[b].status = "PENDING" => b \notin DOMAIN payment
       /\ booking[b].status = "CONFIRMED" => b \in DOMAIN payment
       /\ b \in DOMAIN payment => payment[b] = booking[b].totalAmount

(* A booking's account, hotel and room exist and its room is one of that   *)
(* hotel, although create inserts it long after it has read them and a     *)
(* hotel may be removed in the meantime with all its rooms.                *)
ReferencesHold ==
  \A b \in DOMAIN booking :
    /\ BookingParentsExist(booking[b].userId, booking[b].hotelId, booking[b].roomId)
    /\ room[booking[b].roomId].hotelId = booking[b].hotelId

(* Every room and every manager's assignment names a hotel that exists:    *)
(* the catalogue calls check the hotel one await before they insert, and a *)
(* removal takes the rooms along and clears the assignment.                *)
NoOrphans ==
  /\ \A r \in DOMAIN room : room[r].hotelId \in DOMAIN hotel
  /\ \A u \in DOMAIN user : user[u].hotelId \in DOMAIN hotel \cup {NoHotel}

(* No step makes a cancelled booking anything else or forgets a booking:   *)
(* a payment that has found the booking pending must not confirm it when   *)
(* it has been cancelled since.                                            *)
CancelledIsFinal ==
  [][\A b \in DOMAIN booking :
       /\ b \in DOMAIN booking'
       /\ booking[b].status = "CANCELLED" => booking'[b].status = "CANCELLED"]_vars

(* A booking is paid or cancelled by a call of the account that made it,   *)
(* one that exists and has no temporary password: pay and cancel look at   *)
(* the owner once, on a row read some awaits before they write.            *)
OwnersDecide ==
  [][\A b \in DOMAIN booking :
       booking'[b] # booking[b] \/ b \in DOMAIN payment' \ DOMAIN payment =>
         /\ booking[b].userId \in DOMAIN user
         /\ ~user[booking[b].userId].mustChangePassword
         /\ \E c \in Calls : /\ pc[c] # "done" /\ pc'[c] = "done"
                             /\ req[c].bookingId = b
                             /\ req[c].userId = booking[b].userId]_vars

(* A hotel has one account assigned to it at most, and only a manager has  *)
(* one: two requests that assign the same hotel both find it without a     *)
(* manager before either writes.                                           *)
OneManagerPerHotel ==
  \A u \in DOMAIN user : user[u].hotelId # NoHotel =>
    /\ user[u].role = "HOTEL_MANAGER"
    /\ \A v \in DOMAIN user \ {u} : user[v].hotelId # user[u].hotelId

(* An account with a temporary password has booked nothing yet and books   *)
(* nothing: the guards look at the account once, when a call begins, and   *)
(* the call writes much later.                                             *)
PasswordBeforeBooking ==
  /\ \A b \in DOMAIN booking : ~user[booking[b].userId].mustChangePassword
  /\ \A c \in Calls : pc[c] \in CreateSteps /\ req[c].userId \in DOMAIN user
       => ~user[req[c].userId].mustChangePassword

(* No step takes away an account of the super admin or of a guest, changes *)
(* the role of any account or makes a password temporary again: the user   *)
(* services check the target they have read, and write or delete it one or *)
(* more awaits later.                                                      *)
ProtectedAccountsStay ==
  [][\A u \in DOMAIN user :
       /\ user[u].role \notin StaffRole => u \in DOMAIN user'
       /\ u \in DOMAIN user' =>
            /\ user'[u].role = user[u].role
            /\ user'[u].mustChangePassword => user[u].mustChangePassword]_vars

-----------------------------------------------------------------------------
(* The bookings as a ledger.                                               *)
LedgerState(status) == CASE status = "PENDING" -> "held"
                         [] status = "CONFIRMED" -> "paid"
                         [] status = "CANCELLED" -> "released"

LedgerEntry == [b \in DOMAIN booking |->
                  [roomId |-> booking[b].roomId,
                   nights |-> NightsOf(booking[b].checkIn, booking[b].checkOut),
                   price |-> booking[b].totalAmount,
                   state |-> LedgerState(booking[b].status)]]

Ledger == INSTANCE ReservationLedger WITH Ids <- Calls, entry <- LedgerEntry, charged <- payment

(* The services implement the ledger: whatever the interleaving, every     *)
(* step reserves nights nobody holds, pays in full once, releases, or      *)
(* leaves the ledger alone.                                                *)
ImplementsLedger == Ledger!Spec

(* The hotels, rooms and accounts as an organisation.                      *)
Wing == [r \in DOMAIN room |-> room[r].hotelId]
Post == [u \in DOMAIN user |-> [role |-> user[u].role, hotelId |-> user[u].hotelId]]
Engaged == {[userId |-> booking[b].userId, hotelId |-> booking[b].hotelId,
             roomId |-> booking[b].roomId] : b \in DOMAIN booking}

Org == INSTANCE Organisation
         WITH Accounts <- Users, Nowhere <- NoHotel,
              open <- DOMAIN hotel, wing <- Wing, post <- Post, engaged <- Engaged

(* The services implement the organisation: calls of several unprotected   *)
(* statements each, interleaved in whatever way, amount to single steps    *)
(* that look at everything and write at once.                              *)
ImplementsOrganisation == Org!Spec

-----------------------------------------------------------------------------
(* What bookings.service.ts:242 says: new bookings are not allowed for     *)
(* inactive hotels.                                                        *)
NewBookingOnlyAtActiveHotel ==
  [][\A b \in DOMAIN booking' \ DOMAIN booking :
       hotel[booking'[b].hotelId].status = "ACTIVE"]_vars

(* What hotels.service.ts:132-142 says: a hotel cannot be deleted with     *)
(* pending or confirmed bookings, so one that has none can: its delete     *)
(* statement finds nothing that forbids it.                                *)
RemovableWithoutActiveBookings ==
  \A a \in Admins :
    job[a].step = "hotelDelete" /\ job[a].hotelId \in DOMAIN hotel
      /\ ~HotelHasActiveBooking(job[a].hotelId)
      => ~HotelReferenced(job[a].hotelId)

-----------------------------------------------------------------------------
(* What the invariants above rest on: what a call knows between its steps. *)

(* The steps of a pay or cancel that has read its booking.                 *)
OwnerSteps == {"payCheck", "payWrite", "cancelReadHotel", "cancelUpdate"}

(* A create has a stay of at least one night once validation has begun,    *)
(* and an amount once it has ended; a pay or cancel that has read its      *)
(* booking has one; the id of a booking is that of a call that has ended.  *)
CallsAreValidated ==
  /\ \A c \in Calls :
       /\ pc[c] \in {"createReadRoom", "createCheck", "createInsert"}
            => req[c].checkIn < req[c].checkOut
       /\ pc[c] \in {"createCheck", "createInsert"} => ctx[c] \in Nat
       /\ pc[c] \in OwnerSteps => req[c].bookingId \in DOMAIN booking
  /\ \A b \in DOMAIN booking : pc[b] = "done" /\ booking[b].checkIn < booking[b].checkOut

(* NoDoubleBooking in the words of the availability query.                 *)
NoCollision ==
  \A b1, b2 \in DOMAIN booking :
    b1 # b2 /\ IsActive(b1) /\ IsActive(b2)
      => ~Collides(b1, booking[b2].roomId, booking[b2].checkIn, booking[b2].checkOut)

(* A create that has found its room free knows of every booking that took  *)
(* it since: the commit will fail.                                         *)
SnapshotIsComplete ==
  \A c \in Calls : pc[c] = "createInsert" =>
    \A b \in DOMAIN booking :
      IsActive(b) /\ Collides(b, req[c].roomId, req[c].checkIn, req[c].checkOut)
        => b \in missed[c]

(* A pay that has found its booking pending and unpaid either still would, *)
(* or knows that the row was written.                                      *)
PayIsCurrent ==
  \A c \in Calls : pc[c] = "payWrite" => stale[c] \/ Unpaid(req[c].bookingId)

(* The room a create has validated, if it is still there, is still of the  *)
(* hotel it was validated with: rooms do not move and ids are not reused.  *)
RoomIsOfHotel ==
  \A c \in Calls : pc[c] \in {"createCheck", "createInsert"} =>
    /\ req[c].roomId \in issued
    /\ req[c].roomId \in DOMAIN room => room[req[c].roomId].hotelId = req[c].hotelId

(* The account a staff call is about has, if it is still there, the role   *)
(* the call has checked; what it is to write gives a manager a hotel and   *)
(* an admin none.                                                          *)
TaskHolds(t, accounts, ids) ==
  /\ t.step \in {"staffHotel", "staffManager", "staffWrite"} =>
       /\ t.role = "ADMIN" <=> t.hotelId = NoHotel
       /\ t.userId # NewUser => t.userId \in ids
       /\ t.userId \in DOMAIN accounts => accounts[t.userId].role = t.role
  /\ t.step \in {"staffCount", "staffDelete"} =>
       /\ t.userId \in ids
       /\ t.userId \in DOMAIN accounts => accounts[t.userId].role \in StaffRole

TasksAreValidated == \A k \in Clerks : TaskHolds(task[k], user, enrolled)

(* The account of a create has existed, and its id is nobody else's.       *)
CallersAreEnrolled ==
  \A c \in Calls : pc[c] \in CreateSteps => req[c].userId \in enrolled

(* A pay or cancel that has read its booking was begun by its owner: a     *)
(* booking does not change hands.                                          *)
OwnersAreChecked ==
  \A c \in Calls : pc[c] \in OwnerSteps => IsOwn(req[c].bookingId, req[c])

(* What a call has read still binds it when it writes, whoever wrote in    *)
(* between: the hypothesis under which each single step keeps the          *)
(* invariants above.                                                       *)
CallsKnowTheirPast ==
  /\ CallsAreValidated /\ SnapshotIsComplete /\ PayIsCurrent /\ RoomIsOfHotel
  /\ TasksAreValidated /\ CallersAreEnrolled /\ OwnersAreChecked
=============================================================================
