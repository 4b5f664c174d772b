---------------------------- MODULE Organisation -----------------------------
(***************************************************************************)
(* What the hotel, room, user and booking services promise of the people   *)
(* and places behind the bookings, as if each call were one step: hotels   *)
(* open and close, rooms are fitted out, people are enrolled, posted and   *)
(* dismissed, and nobody and nothing goes while a booking counts on it.    *)
(***************************************************************************)
CONSTANTS Hotels, Rooms, Accounts,
          Nowhere   \* in place of the hotel of an account without one

VARIABLES open,     \* the hotels there are
          wing,     \* the hotel of each room
          post,     \* role and hotel of each account
          engaged   \* who is booked where: account, hotel and room

organisation == <<open, wing, post, engaged>>

Staff == {"ADMIN", "HOTEL_MANAGER"}

(* No account but u's has hotel h.                                         *)
Vacant(h, u) == \A v \in DOMAIN post \ {u} : post[v].hotelId # h

(* A room is in a hotel there is, and so is a manager, alone there; nobody *)
(* else is in any.                                                         *)
InOrder ==
  /\ \A r \in DOMAIN wing : wing[r] \in open
  /\ \A u \in DOMAIN post : post[u].hotelId # Nowhere =>
       /\ post[u].hotelId \in open
       /\ post[u].role = "HOTEL_MANAGER"
       /\ Vacant(post[u].hotelId, u)

(* Whoever is booked exists, and so do the hotel and the room, still one   *)
(* of that hotel.                                                          *)
EngagementsStand ==
  \A e \in engaged : /\ e.userId \in DOMAIN post
                     /\ e.hotelId \in open
                     /\ e.roomId \in DOMAIN wing /\ wing[e.roomId] = e.hotelId

(* An account has a role and a hotel.                                      *)
Posts == \A u \in DOMAIN post : post[u] = [role |-> post[u].role, hotelId |-> post[u].hotelId]

Init == Posts /\ InOrder /\ engaged = {}

-----------------------------------------------------------------------------
Open(h) == h \notin open /\ open' = open \cup {h} /\ UNCHANGED <<wing, post, engaged>>

(* Its rooms go with a hotel, its manager stays without one.               *)
Close(h) ==
  /\ h \in open
  /\ \A e \in engaged : e.hotelId # h
  /\ open' = open \ {h}
  /\ wing' = [r \in {s \in DOMAIN wing : wing[s] # h} |-> wing[r]]
  /\ post' = [u \in DOMAIN post |->
                IF post[u].hotelId = h THEN [post[u] EXCEPT !.hotelId = Nowhere] ELSE post[u]]
  /\ UNCHANGED engaged

FitOut(r, h) ==
  /\ r \notin DOMAIN wing
  /\ h \in open
  /\ wing' = [s \in DOMAIN wing \cup {r} |-> IF s = r THEN h ELSE wing[s]]
  /\ UNCHANGED <<open, post, engaged>>

(* A manager comes with a hotel, anybody else without.                     *)
Enrol(u, role, h) ==
  /\ u \notin DOMAIN post
  /\ \/ role = "HOTEL_MANAGER" /\ h \in open /\ Vacant(h, u)
     \/ role # "HOTEL_MANAGER" /\ h = Nowhere
  /\ post' = [v \in DOMAIN post \cup {u} |->
                IF v = u THEN [role |-> role, hotelId |-> h] ELSE post[v]]
  /\ UNCHANGED <<open, wing, engaged>>

(* A manager is moved to another hotel, never to none.                     *)
Move(u, h) ==
  /\ u \in DOMAIN post
  /\ post[u].role = "HOTEL_MANAGER"
  /\ h \in open /\ Vacant(h, u)
  /\ post' = [post EXCEPT ![u].hotelId = h]
  /\ UNCHANGED <<open, wing, engaged>>

Dismiss(u) ==
  /\ u \in DOMAIN post
  /\ post[u].role \in Staff
  /\ \A e \in engaged : e.userId # u
  /\ post' = [v \in DOMAIN post \ {u} |-> post[v]]
  /\ UNCHANGED <<open, wing, engaged>>

Engage(u, h, r) ==
  /\ u \in DOMAIN post
  /\ h \in open
  /\ r \in DOMAIN wing /\ wing[r] = h
  /\ engaged' = engaged \cup {[userId |-> u, hotelId |-> h, roomId |-> r]}
  /\ UNCHANGED <<open, wing, post>>

(* The role and hotel of a new account are read off the next state.        *)
Next ==
  \/ \E h \in Hotels : \/ Open(h) \/ Close(h)
                       \/ \E r \in Rooms : FitOut(r, h)
                       \/ \E u \in Accounts : \/ Move(u, h)
                                              \/ \E r \in Rooms : Engage(u, h, r)
  \/ \E u \in Accounts :
       \/ u \in DOMAIN post' /\ Enrol(u, post'[u].role, post'[u].hotelId)
       \/ Dismiss(u)

Spec == Init /\ [][Next]_organisation

-----------------------------------------------------------------------------
(* Whoever has been booked stays with role, room and hotel: a hotel goes   *)
(* with its rooms and an account is dismissed only when nothing counts on  *)
(* them.  A guest or another account that is no staff stays anyway.        *)
NothingBookedGoes ==
  [][/\ engaged \subseteq engaged'
     /\ \A e \in engaged : /\ e.userId \in DOMAIN post'
                           /\ post'[e.userId].role = post[e.userId].role
                           /\ e.hotelId \in open'
                           /\ e.roomId \in DOMAIN wing'
                           /\ wing'[e.roomId] = e.hotelId
     /\ \A u \in DOMAIN post : post[u].role \notin Staff => u \in DOMAIN post'
    ]_organisation
=============================================================================
