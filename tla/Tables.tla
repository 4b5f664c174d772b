------------------------------- MODULE Tables -------------------------------
(***************************************************************************)
(* The PostgreSQL tables the services share (prisma/schema.prisma), the    *)
(* constraints the migrations declare on them, and the clock.              *)
(*                                                                         *)
(* A table is a function from the ids of its rows to the rows, so a row    *)
(* exists exactly when its id is in the domain.  A payment is keyed by its *)
(* bookingId, which the schema declares unique, and is represented by its  *)
(* amount.  Columns no service decides on are left out (name, city,        *)
(* address, stars, roomType, nights, email, passwordHash, timestamps).     *)
(***************************************************************************)
EXTENDS Stay, Functions

CONSTANTS Users, Hotels, Rooms,   \* ids of rows
          Calls,                  \* booking calls; a booking's id is the call that created it
          NoHotel,                \* the null of user.hotelId
          MaxNow,                 \* bound: the clock stops here
          SeedHotel, SeedRoom, SeedUser  \* the seeded catalogue, by id

VARIABLES hotel, room, user, booking, payment, now

tables == <<hotel, room, user, booking, payment>>

-----------------------------------------------------------------------------
Role == {"SUPER_ADMIN", "ADMIN", "HOTEL_MANAGER", "GUEST"}
HotelStatus == {"ACTIVE", "INACTIVE"}
BookingStatus == {"PENDING", "CONFIRMED", "CANCELLED"}

HotelRow == [status : HotelStatus, timezone : Int]
RoomRow == [hotelId : Hotels, isAvailable : BOOLEAN,
            capacity : Nat, pricePerNight : Nat]
UserRow == [role : Role, hotelId : Hotels \cup {NoHotel},
            mustChangePassword : BOOLEAN]
BookingRow == [userId : Users, hotelId : Hotels, roomId : Rooms,
               checkIn : Int, checkOut : Int, guestCount : Nat,
               totalAmount : Nat, status : BookingStatus]

(* A table whose ids are drawn from Ids and whose rows are drawn from Row. *)
IsTable(f, Ids, Row) ==
  /\ f = [i \in DOMAIN f |-> f[i]]
  /\ DOMAIN f \subseteq Ids
  /\ \A i \in DOMAIN f : f[i] \in Row

ASSUME TablesAssumption ==
  /\ NoHotel \notin Hotels
  /\ MaxNow \in Nat
  /\ IsTable(SeedHotel, Hotels, HotelRow)
  /\ IsTable(SeedRoom, Rooms, RoomRow)
  /\ IsTable(SeedUser, Users, UserRow)
  /\ \A r \in DOMAIN SeedRoom : SeedRoom[r].hotelId \in DOMAIN SeedHotel
  /\ \A u \in DOMAIN SeedUser : SeedUser[u].hotelId \in DOMAIN SeedHotel \cup {NoHotel}

TablesTypeOK ==
  /\ IsTable(hotel, Hotels, HotelRow)
  /\ IsTable(room, Rooms, RoomRow)
  /\ IsTable(user, Users, UserRow)
  /\ IsTable(booking, Calls, BookingRow)
  /\ IsTable(payment, Calls, Nat)
  /\ now \in 0 .. MaxNow

EmptyTable == [i \in {} |-> i]

(* A freshly seeded database: hotels, rooms and accounts, no booking yet.  *)
TablesInit ==
  /\ hotel = SeedHotel
  /\ room = SeedRoom
  /\ user = SeedUser
  /\ booking = EmptyTable
  /\ payment = EmptyTable
  /\ now = 0

Tick == now < MaxNow /\ now' = now + 1

-----------------------------------------------------------------------------
(* The table f with row in place of, or in addition to, the row of id.     *)
Put(f, id, row) == [i \in DOMAIN f \cup {id} |-> IF i = id THEN row ELSE f[i]]

(* The statuses hasOverlap and HotelsService.remove count as occupying.    *)
ActiveStatuses == {"PENDING", "CONFIRMED"}
IsActive(b) == booking[b].status \in ActiveStatuses

(* Foreign keys of booking: the rows an insert refers to must exist.       *)
BookingParentsExist(userId, hotelId, roomId) ==
  userId \in DOMAIN user /\ hotelId \in DOMAIN hotel /\ roomId \in DOMAIN room

(* ON DELETE RESTRICT of booking.hotelId, and of booking.roomId for the    *)
(* rooms the deletion cascades to: any booking blocks, cancelled or not.   *)
\* Variant: the database checks nothing, remove relies on its own count.
NeverReferenced(h) == FALSE
HotelReferenced(h) ==
  \E b \in DOMAIN booking :
    \/ booking[b].hotelId = h
    \/ booking[b].roomId \in DOMAIN room /\ room[booking[b].roomId].hotelId = h

(* DELETE FROM hotel: rooms go with it (CASCADE), a manager of it keeps    *)
(* the account without a hotel (SET NULL).                                 *)
DeleteHotel(h) ==
  /\ ~HotelReferenced(h)
  /\ hotel' = Restrict(hotel, DOMAIN hotel \ {h})
  /\ room' = Restrict(room, {r \in DOMAIN room : room[r].hotelId # h})
  /\ user' = [u \in DOMAIN user |->
                IF user[u].hotelId = h THEN [user[u] EXCEPT !.hotelId = NoHotel]
                                       ELSE user[u]]
  /\ UNCHANGED <<booking, payment>>

(* JwtStrategy.validate reads the account at every request, and the        *)
(* password-change guard turns away an account that must change its        *)
(* password first.                                                         *)
\* Variant: without the password-change guard.
AnyAccount(u) == u \in DOMAIN user
Authenticated(u) == u \in DOMAIN user /\ ~user[u].mustChangePassword
=============================================================================
