--------------------------- MODULE MCHotelSystem ----------------------------
(***************************************************************************)
(* Small instances of HotelSystem for TLC.  A day is two ticks; the open   *)
(* hotel is one tick ahead of UTC, so its dates change half a day early.   *)
(***************************************************************************)
EXTENDS HotelSystem, TLC

CONSTANTS guest, admin, manager, super,  \* accounts
          h1, h2,                 \* hotels: h1 is seeded, h2 is not
          r1, r2                  \* rooms: r1 is seeded, r2 is not

OneHotel == h1 :> [status |-> "ACTIVE", timezone |-> 1]

OneRoom == r1 :> [hotelId |-> h1, isAvailable |-> TRUE, capacity |-> 2, pricePerNight |-> 1]

Account(role, hotelId) == [role |-> role, hotelId |-> hotelId, mustChangePassword |-> FALSE]

\* A guest, and an employee who books too: cancelling, only the guest has a deadline.
GuestAndAdmin ==
  (guest :> Account("GUEST", NoHotel)) @@ (admin :> Account("ADMIN", NoHotel))

\* A manager besides, and nobody has to change a password.
WithManager == GuestAndAdmin @@ (manager :> Account("HOTEL_MANAGER", h1))

\* The super admin and a manager, of two hotels.
TwoHotels == OneHotel @@ (h2 :> [status |-> "ACTIVE", timezone |-> 0])
SuperAndManager ==
  (super :> Account("SUPER_ADMIN", NoHotel)) @@ (manager :> Account("HOTEL_MANAGER", h1))

Dto(h, r, in, out) ==
  [hotelId |-> h, roomId |-> r, checkIn |-> in, checkOut |-> out, guestCount |-> 2]

\* Two stays that share a night.  At instant 1 the first one's check-in is in
\* the past, at instant 2 a guest may no longer cancel the second one.
TwoStays == {Dto(h1, r1, 0, 3), Dto(h1, r1, 2, 4)}

OneStay == {Dto(h1, r1, 2, 4)}

\* TwoStays, and the second one with its dates the wrong way round.
StaysAndReversed == TwoStays \cup {Dto(h1, r1, 4, 2)}

\* A room with its hotel, and with a hotel it does not belong to.
RightAndWrongHotel == {Dto(h1, r1, 2, 3), Dto(h2, r1, 2, 3)}

\* Opening a hotel in UTC; closing it, wherever it is.
SomeHotelDtos == {[status |-> "ACTIVE", timezone |-> 0],
                  [status |-> "INACTIVE", timezone |-> Unset]}

\* A room as it is created, and one withdrawn from sale.
SomeRoomDtos == {[isAvailable |-> TRUE, capacity |-> 2, pricePerNight |-> 2],
                 [isAvailable |-> FALSE, capacity |-> Unset, pricePerNight |-> Unset]}

\* A manager for the second hotel, and an admin; a manager moves there or is
\* left where they are, and so is an admin.
SomeStaffDtos == {[role |-> "HOTEL_MANAGER", hotelId |-> h2],
                  [role |-> "ADMIN", hotelId |-> NoHotel]}
SomeStaffChanges == {[role |-> "HOTEL_MANAGER", hotelId |-> h2],
                     [role |-> Unset, hotelId |-> Unset]}

CallSymmetry == Permutations(Calls)
CatalogSymmetry == CallSymmetry \cup Permutations(Admins)
StaffSymmetry == Permutations(Clerks)
=============================================================================
