----------------------------- MODULE MCSeeding ------------------------------
(***************************************************************************)
(* Small instances of Seeding for TLC.                                     *)
(***************************************************************************)
EXTENDS MCHotelSystem, Seeding

CONSTANTS u1, u2   \* accounts yet to be enrolled

\* The super admin, the demo manager, and somebody else.
StaffAddresses ==
  (super :> "super") @@ (manager :> "manager") @@ (u1 :> "manager") @@ (u2 :> "somebody")
DemoManager == [email |-> "manager", role |-> "HOTEL_MANAGER", hotelId |-> h1]
OneDemoUser == <<DemoManager>>

BothHotels == <<h1, h2>>
FirstRoom == <<r1>>

\* A hotel closes.
Closing == {[status |-> "INACTIVE", timezone |-> Unset]}
\* Another manager for the first hotel.
OtherManager == {[role |-> "HOTEL_MANAGER", hotelId |-> h1]}
\* A manager moves to the other hotel.
Reassignment == {[role |-> "HOTEL_MANAGER", hotelId |-> h2]}
=============================================================================
