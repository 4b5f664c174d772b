----------------------------- MODULE MCQueries ------------------------------
(***************************************************************************)
(* Small instances of Queries for TLC.                                     *)
(***************************************************************************)
EXTENDS MCHotelSystem, Queries

\* Two stays that do not meet, so that one room may have two bookings.  When the
\* clock starts a guest may cancel the second one only, and in UTC both.
TomorrowAndLater == {Dto(h1, r1, 1, 2), Dto(h1, r1, 2, 4)}
Later == {Dto(h1, r1, 2, 4)}
LaterNights == {[checkIn |-> 2, checkOut |-> 4]}

\* No filter.
AnyBooking == {[hotelId |-> Unset, status |-> Unset]}

OneOfEach ==
  (guest :> Account("GUEST", NoHotel)) @@ (admin :> Account("ADMIN", NoHotel))
    @@ (manager :> Account("HOTEL_MANAGER", h1))
=============================================================================
