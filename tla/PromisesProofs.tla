--------------------------- MODULE PromisesProofs ---------------------------
(***************************************************************************)
(* What the two abstract specifications mean.  HotelSystemProofs and       *)
(* SeedingProofs show that the services implement them; here is what a     *)
(* service that implements them can be relied on for, whatever the code    *)
(* behind it.                                                              *)
(***************************************************************************)
EXTENDS TLAPS

CONSTANTS Ids, Rooms, Hotels, Accounts, Nowhere

VARIABLES entry, charged, open, wing, post, engaged

L == INSTANCE ReservationLedger
O == INSTANCE Organisation

-----------------------------------------------------------------------------
(* The ledger.                                                             *)

(* A reservation has these four parts.                                     *)
IsRow(e) ==
  /\ e = [roomId |-> e.roomId, nights |-> e.nights, price |-> e.price, state |-> e.state]
  /\ e.state \in {"held", "paid", "released"}

LedgerInv ==
  /\ \A i \in DOMAIN entry : IsRow(entry[i])
  /\ L!NightsHeldOnce /\ L!PaidInFull

(* What Reserve writes, and what it leaves alone.                          *)
LEMMA ReserveRows ==
  ASSUME NEW i, NEW roomId, NEW nights, NEW price, L!Reserve(i, roomId, nights, price)
  PROVE  /\ i \notin DOMAIN entry
         /\ DOMAIN entry' = DOMAIN entry \cup {i}
         /\ entry'[i] = [roomId |-> roomId, nights |-> nights, price |-> price, state |-> "held"]
         /\ \A j \in DOMAIN entry : j # i /\ entry'[j] = entry[j]
         /\ charged' = charged
  BY DEF L!Reserve

(* Pay and Release change the state of one reservation and nothing else of *)
(* the rows.                                                               *)
LEMMA StateRows ==
  ASSUME LedgerInv, NEW i \in DOMAIN entry, NEW state \in {"held", "paid", "released"},
         entry' = [entry EXCEPT ![i].state = state]
  PROVE  /\ DOMAIN entry' = DOMAIN entry
         /\ entry'[i].state = state
         /\ \A j \in DOMAIN entry : /\ IsRow(entry'[j])
                                    /\ entry'[j].roomId = entry[j].roomId
                                    /\ entry'[j].nights = entry[j].nights
                                    /\ entry'[j].price = entry[j].price
                                    /\ j # i => entry'[j].state = entry[j].state
<1>1. DOMAIN entry' = DOMAIN entry OBVIOUS
<1>2. entry'[i] = [roomId |-> entry[i].roomId, nights |-> entry[i].nights,
                   price |-> entry[i].price, state |-> state]
  <2>1. entry'[i] = [entry[i] EXCEPT !.state = state] OBVIOUS
  <2> QED BY <2>1 DEF LedgerInv, IsRow
<1>3. \A j \in DOMAIN entry : j # i => entry'[j] = entry[j] OBVIOUS
<1> QED BY <1>1, <1>2, <1>3 DEF LedgerInv, IsRow

(* What a payment adds to what was paid.                                   *)
LEMMA PayCharges ==
  ASSUME NEW i, L!Pay(i)
  PROVE  /\ i \in DOMAIN entry /\ entry[i].state = "held" /\ i \notin DOMAIN charged
         /\ entry' = [entry EXCEPT ![i].state = "paid"]
         /\ DOMAIN charged' = DOMAIN charged \cup {i}
         /\ charged'[i] = entry[i].price
         /\ \A j \in DOMAIN charged : charged'[j] = charged[j]
  BY DEF L!Pay

LEMMA LedgerStep ==
  ASSUME LedgerInv, [L!Next]_<<entry, charged>>
  PROVE  LedgerInv'
<1>1. CASE UNCHANGED <<entry, charged>>
  BY <1>1 DEF LedgerInv, L!NightsHeldOnce, L!PaidInFull, L!Holding, IsRow
<1>2. ASSUME NEW i \in Ids, i \in DOMAIN entry',
             L!Reserve(i, entry'[i].roomId, entry'[i].nights, entry'[i].price)
      PROVE  LedgerInv'
  <2> DEFINE new == [roomId |-> entry'[i].roomId, nights |-> entry'[i].nights,
                     price |-> entry'[i].price, state |-> "held"]
  <2>1. /\ i \notin DOMAIN entry
        /\ DOMAIN entry' = DOMAIN entry \cup {i}
        /\ entry'[i] = new
        /\ \A j \in DOMAIN entry : j # i /\ entry'[j] = entry[j]
        /\ charged' = charged
    BY <1>2, ReserveRows
  <2>2. \A j \in DOMAIN entry : entry[j].state \in L!Holding /\ entry[j].roomId = entry'[i].roomId
                              => entry[j].nights \cap entry'[i].nights = {}
    BY <1>2 DEF L!Reserve, L!Free
  <2>3. \A j \in DOMAIN entry' : IsRow(entry'[j])
    BY <2>1 DEF LedgerInv, IsRow
  <2>4. L!NightsHeldOnce'
    <3> SUFFICES ASSUME NEW j \in DOMAIN entry', NEW k \in DOMAIN entry', j # k,
                        entry'[j].roomId = entry'[k].roomId,
                        entry'[j].state \in L!Holding, entry'[k].state \in L!Holding
                 PROVE  entry'[j].nights \cap entry'[k].nights = {}
      BY DEF L!NightsHeldOnce, L!Holding
    <3>1. CASE j = i
      BY <2>1, <2>2, <3>1
    <3>2. CASE k = i
      BY <2>1, <2>2, <3>2
    <3>3. CASE j # i /\ k # i
      BY <2>1, <3>3 DEF LedgerInv, L!NightsHeldOnce
    <3> QED BY <3>1, <3>2, <3>3
  <2>5. L!PaidInFull'
    <3>1. i \notin DOMAIN charged /\ entry'[i].state = "held"
      BY <2>1 DEF LedgerInv, L!PaidInFull
    <3> QED BY <2>1, <3>1 DEF LedgerInv, L!PaidInFull
  <2> QED BY <2>3, <2>4, <2>5 DEF LedgerInv
<1>3. ASSUME NEW i \in Ids, L!Pay(i)
      PROVE  LedgerInv'
  <2>1. /\ i \in DOMAIN entry /\ entry[i].state = "held" /\ i \notin DOMAIN charged
        /\ entry' = [entry EXCEPT ![i].state = "paid"]
        /\ DOMAIN charged' = DOMAIN charged \cup {i}
        /\ charged'[i] = entry[i].price
        /\ \A j \in DOMAIN charged : charged'[j] = charged[j]
    BY <1>3, PayCharges
  <2>2. /\ DOMAIN entry' = DOMAIN entry
        /\ entry'[i].state = "paid"
        /\ \A j \in DOMAIN entry : /\ IsRow(entry'[j])
                                   /\ entry'[j].roomId = entry[j].roomId
                                   /\ entry'[j].nights = entry[j].nights
                                   /\ entry'[j].price = entry[j].price
                                   /\ j # i => entry'[j].state = entry[j].state
    BY <2>1, StateRows
  <2>3. L!NightsHeldOnce'
    <3>1. \A j \in DOMAIN entry : entry'[j].state \in L!Holding => entry[j].state \in L!Holding
      BY <2>1, <2>2 DEF L!Holding
    <3> QED BY <2>2, <3>1 DEF LedgerInv, L!NightsHeldOnce, L!Holding
  <2>4. L!PaidInFull'
    BY <2>1, <2>2 DEF LedgerInv, L!PaidInFull
  <2> QED BY <2>2, <2>3, <2>4 DEF LedgerInv
<1>4. ASSUME NEW i \in Ids, L!Release(i)
      PROVE  LedgerInv'
  <2>1. i \in DOMAIN entry /\ entry' = [entry EXCEPT ![i].state = "released"] /\ charged' = charged
    BY <1>4 DEF L!Release
  <2>2. /\ DOMAIN entry' = DOMAIN entry
        /\ entry'[i].state = "released"
        /\ \A j \in DOMAIN entry : /\ IsRow(entry'[j])
                                   /\ entry'[j].roomId = entry[j].roomId
                                   /\ entry'[j].nights = entry[j].nights
                                   /\ entry'[j].price = entry[j].price
                                   /\ j # i => entry'[j].state = entry[j].state
    BY <2>1, StateRows
  <2>3. L!NightsHeldOnce'
    <3>1. \A j \in DOMAIN entry : entry'[j].state \in L!Holding => entry[j].state \in L!Holding
      BY <2>2 DEF L!Holding
    <3> QED BY <2>2, <3>1 DEF LedgerInv, L!NightsHeldOnce, L!Holding
  <2>4. L!PaidInFull'
    BY <2>1, <2>2 DEF LedgerInv, L!PaidInFull
  <2> QED BY <2>2, <2>3, <2>4 DEF LedgerInv
<1> QED BY <1>1, <1>2, <1>3, <1>4 DEF L!Next

(* In whatever keeps the ledger no night is held twice and what is paid is *)
(* the price of a reservation, once.                                       *)
THEOREM LedgerIsSound == L!Spec => [](L!NightsHeldOnce /\ L!PaidInFull)
<1>1. L!Init => LedgerInv
  BY DEF L!Init, LedgerInv, L!NightsHeldOnce, L!PaidInFull
<1>2. LedgerInv /\ [L!Next]_<<entry, charged>> => LedgerInv'
  BY LedgerStep
<1>3. LedgerInv => L!NightsHeldOnce /\ L!PaidInFull
  BY DEF LedgerInv
<1> QED BY <1>1, <1>2, <1>3, PTL DEF L!Spec

(* In whatever keeps the ledger the terms of a reservation never change, a *)
(* released one is never taken up again, and no payment is lost.           *)
THEOREM LedgerKeepsTerms == L!Spec => L!TermsAreKept
<1> DEFINE Kept ==
      /\ \A i \in DOMAIN entry :
           /\ i \in DOMAIN entry'
           /\ entry'[i].roomId = entry[i].roomId
           /\ entry'[i].nights = entry[i].nights
           /\ entry'[i].price = entry[i].price
           /\ entry[i].state = "released" => entry'[i].state = "released"
           /\ entry[i].state = "paid" => entry'[i].state \in {"paid", "released"}
      /\ \A i \in DOMAIN charged :
           i \in DOMAIN charged' /\ charged'[i] = charged[i]
<1>1. L!Init => LedgerInv
  BY DEF L!Init, LedgerInv, L!NightsHeldOnce, L!PaidInFull
<1>2. LedgerInv /\ [L!Next]_<<entry, charged>> => LedgerInv'
  BY LedgerStep
<1>3. LedgerInv /\ [L!Next]_<<entry, charged>> => [Kept]_<<entry, charged>>
  <2> SUFFICES ASSUME LedgerInv, L!Next PROVE Kept
    OBVIOUS
  <2>1. ASSUME NEW i \in Ids, i \in DOMAIN entry',
               L!Reserve(i, entry'[i].roomId, entry'[i].nights, entry'[i].price)
        PROVE  Kept
    <3>1. /\ DOMAIN entry' = DOMAIN entry \cup {i}
          /\ \A j \in DOMAIN entry : entry'[j] = entry[j]
          /\ charged' = charged
      BY <2>1, ReserveRows
    <3> QED BY <3>1 DEF LedgerInv, IsRow
  <2>2. ASSUME NEW i \in Ids, L!Pay(i)
        PROVE  Kept
    <3>1. /\ i \in DOMAIN entry /\ entry[i].state = "held"
          /\ entry' = [entry EXCEPT ![i].state = "paid"]
          /\ DOMAIN charged' = DOMAIN charged \cup {i}
          /\ \A j \in DOMAIN charged : charged'[j] = charged[j]
      BY <2>2, PayCharges
    <3>2. /\ DOMAIN entry' = DOMAIN entry
          /\ entry'[i].state = "paid"
          /\ \A j \in DOMAIN entry : /\ entry'[j].roomId = entry[j].roomId
                                     /\ entry'[j].nights = entry[j].nights
                                     /\ entry'[j].price = entry[j].price
                                     /\ j # i => entry'[j].state = entry[j].state
      BY <3>1, StateRows
    <3> QED BY <3>1, <3>2
  <2>3. ASSUME NEW i \in Ids, L!Release(i)
        PROVE  Kept
    <3>1. /\ i \in DOMAIN entry /\ entry[i].state \in L!Holding
          /\ entry' = [entry EXCEPT ![i].state = "released"]
          /\ charged' = charged
      BY <2>3 DEF L!Release
    <3>2. /\ DOMAIN entry' = DOMAIN entry
          /\ entry'[i].state = "released"
          /\ \A j \in DOMAIN entry : /\ entry'[j].roomId = entry[j].roomId
                                     /\ entry'[j].nights = entry[j].nights
                                     /\ entry'[j].price = entry[j].price
                                     /\ j # i => entry'[j].state = entry[j].state
      BY <3>1, StateRows
    <3> QED BY <3>1, <3>2 DEF L!Holding
  <2> QED BY <2>1, <2>2, <2>3 DEF L!Next
<1> QED BY <1>1, <1>2, <1>3, PTL DEF L!Spec, L!TermsAreKept

-----------------------------------------------------------------------------
(* The organisation.                                                       *)

OrganisationInv == O!Posts /\ O!InOrder /\ O!EngagementsStand

(* An opening, a new room and a new booking move nobody; the last needs    *)
(* all three to be there.                                                  *)
LEMMA PlacesStep ==
  ASSUME OrganisationInv, NEW h, NEW r, NEW u,
         O!Open(h) \/ O!FitOut(r, h) \/ O!Engage(u, h, r)
  PROVE  OrganisationInv'
<1>1. CASE O!Open(h)
  BY <1>1 DEF OrganisationInv, O!Posts, O!InOrder, O!EngagementsStand, O!Vacant, O!Open
<1>2. CASE O!FitOut(r, h)
  <2>1. /\ DOMAIN wing' = DOMAIN wing \cup {r}
        /\ wing'[r] = h /\ h \in open
        /\ \A s \in DOMAIN wing : wing'[s] = wing[s]
        /\ open' = open /\ post' = post /\ engaged' = engaged
    BY <1>2 DEF O!FitOut
  <2> QED BY <2>1 DEF OrganisationInv, O!Posts, O!InOrder, O!EngagementsStand, O!Vacant
<1>3. CASE O!Engage(u, h, r)
  BY <1>3 DEF OrganisationInv, O!Posts, O!InOrder, O!EngagementsStand, O!Vacant, O!Engage
<1> QED BY <1>1, <1>2, <1>3

(* A closed hotel takes its rooms along and leaves its manager without     *)
(* one; nothing that was booked is among them.                             *)
LEMMA CloseStep ==
  ASSUME OrganisationInv, NEW h, O!Close(h)
  PROVE  OrganisationInv'
<1>1. /\ open' = open \ {h}
      /\ \A r : r \in DOMAIN wing' <=> r \in DOMAIN wing /\ wing[r] # h
      /\ \A r \in DOMAIN wing' : wing'[r] = wing[r]
  BY DEF O!Close
<1>2. /\ DOMAIN post' = DOMAIN post
      /\ \A u \in DOMAIN post :
           /\ post[u].hotelId # h => post'[u] = post[u]
           /\ post[u].hotelId = h => post'[u] = [role |-> post[u].role, hotelId |-> Nowhere]
  <2>1. post' = [u \in DOMAIN post |->
                   IF post[u].hotelId = h THEN [post[u] EXCEPT !.hotelId = Nowhere] ELSE post[u]]
    BY DEF O!Close
  <2>2. \A u \in DOMAIN post : [post[u] EXCEPT !.hotelId = Nowhere]
                                = [role |-> post[u].role, hotelId |-> Nowhere]
    BY DEF OrganisationInv, O!Posts
  <2> QED BY <2>1, <2>2
<1>3. engaged' = engaged /\ \A e \in engaged : e.hotelId # h
  BY DEF O!Close
<1>4. O!Posts'
  BY <1>2 DEF OrganisationInv, O!Posts
<1>5. O!InOrder'
  BY <1>1, <1>2 DEF OrganisationInv, O!InOrder, O!Vacant
<1>6. O!EngagementsStand'
  BY <1>1, <1>2, <1>3 DEF OrganisationInv, O!EngagementsStand
<1> QED BY <1>4, <1>5, <1>6 DEF OrganisationInv

(* Nobody is enrolled or moved into a hotel that has somebody; nobody is   *)
(* dismissed who has booked.                                               *)
LEMMA PeopleStep ==
  ASSUME OrganisationInv, NEW u, NEW role, NEW h,
         O!Enrol(u, role, h) \/ O!Move(u, h) \/ O!Dismiss(u)
  PROVE  OrganisationInv'
<1>1. CASE O!Enrol(u, role, h)
  <2>1. /\ u \notin DOMAIN post
        /\ DOMAIN post' = DOMAIN post \cup {u}
        /\ post'[u] = [role |-> role, hotelId |-> h]
        /\ \A v \in DOMAIN post : post'[v] = post[v]
        /\ open' = open /\ wing' = wing /\ engaged' = engaged
    BY <1>1 DEF O!Enrol
  <2>2. h # Nowhere => role = "HOTEL_MANAGER" /\ h \in open /\ O!Vacant(h, u)
    BY <1>1 DEF O!Enrol
  <2> QED BY <2>1, <2>2
          DEF OrganisationInv, O!Posts, O!InOrder, O!EngagementsStand, O!Vacant
<1>2. CASE O!Move(u, h)
  <2>1. /\ u \in DOMAIN post /\ post[u].role = "HOTEL_MANAGER"
        /\ h \in open /\ O!Vacant(h, u)
        /\ open' = open /\ wing' = wing /\ engaged' = engaged
    BY <1>2 DEF O!Move
  <2>2. /\ DOMAIN post' = DOMAIN post
        /\ post'[u] = [role |-> post[u].role, hotelId |-> h]
        /\ \A v \in DOMAIN post \ {u} : post'[v] = post[v]
    <3>1. post' = [post EXCEPT ![u].hotelId = h]
      BY <1>2 DEF O!Move
    <3>2. [post[u] EXCEPT !.hotelId = h] = [role |-> post[u].role, hotelId |-> h]
      BY <2>1 DEF OrganisationInv, O!Posts
    <3> QED BY <2>1, <3>1, <3>2
  <2> QED BY <2>1, <2>2
          DEF OrganisationInv, O!Posts, O!InOrder, O!EngagementsStand, O!Vacant
<1>3. CASE O!Dismiss(u)
  <2>1. /\ DOMAIN post' = DOMAIN post \ {u}
        /\ \A v \in DOMAIN post \ {u} : post'[v] = post[v]
        /\ \A e \in engaged : e.userId # u
        /\ open' = open /\ wing' = wing /\ engaged' = engaged
    BY <1>3 DEF O!Dismiss
  <2> QED BY <2>1 DEF OrganisationInv, O!Posts, O!InOrder, O!EngagementsStand, O!Vacant
<1> QED BY <1>1, <1>2, <1>3

LEMMA OrganisationStep ==
  ASSUME OrganisationInv, [O!Next]_O!organisation
  PROVE  OrganisationInv'
<1>1. CASE UNCHANGED O!organisation
  BY <1>1 DEF O!organisation, OrganisationInv, O!Posts, O!InOrder, O!EngagementsStand, O!Vacant
<1>2. CASE O!Next
  BY <1>2, PlacesStep, CloseStep, PeopleStep DEF O!Next
<1> QED BY <1>1, <1>2

(* In whatever keeps the organisation rooms and managers are in hotels     *)
(* there are, and whoever and whatever is booked is there.                 *)
THEOREM OrganisationIsSound == O!Spec => [](O!InOrder /\ O!EngagementsStand)
<1>1. O!Init => OrganisationInv
  BY DEF O!Init, OrganisationInv, O!EngagementsStand
<1>2. OrganisationInv /\ [O!Next]_O!organisation => OrganisationInv'
  BY OrganisationStep
<1>3. OrganisationInv => O!InOrder /\ O!EngagementsStand
  BY DEF OrganisationInv
<1> QED BY <1>1, <1>2, <1>3, PTL DEF O!Spec
(* An account keeps its role, and only the staff is ever dismissed.        *)
LEMMA RolesAreKept ==
  ASSUME OrganisationInv, O!Next, NEW u \in DOMAIN post
  PROVE  /\ u \in DOMAIN post' => post'[u].role = post[u].role
         /\ post[u].role \notin O!Staff => u \in DOMAIN post'
<1> DEFINE Kept == /\ u \in DOMAIN post' => post'[u].role = post[u].role
                   /\ post[u].role \notin O!Staff => u \in DOMAIN post'
<1>1. ASSUME post' = post PROVE Kept
  BY <1>1
<1>2. ASSUME NEW h, O!Close(h) PROVE Kept
  <2>1. post' = [v \in DOMAIN post |->
                   IF post[v].hotelId = h THEN [post[v] EXCEPT !.hotelId = Nowhere] ELSE post[v]]
    BY <1>2 DEF O!Close
  <2>2. [post[u] EXCEPT !.hotelId = Nowhere] = [role |-> post[u].role, hotelId |-> Nowhere]
    BY DEF OrganisationInv, O!Posts
  <2> QED BY <2>1, <2>2
<1>3. ASSUME NEW v, NEW role, NEW h, O!Enrol(v, role, h) PROVE Kept
  BY <1>3 DEF O!Enrol
<1>4. ASSUME NEW v, NEW h, O!Move(v, h) PROVE Kept
  <2>1. post' = [post EXCEPT ![v].hotelId = h]
    BY <1>4 DEF O!Move
  <2>2. [post[u] EXCEPT !.hotelId = h] = [role |-> post[u].role, hotelId |-> h]
    BY DEF OrganisationInv, O!Posts
  <2> QED BY <2>1, <2>2
<1>5. ASSUME NEW v, O!Dismiss(v) PROVE Kept
  BY <1>5 DEF O!Dismiss
<1>6. post' = post \/ (\E h : O!Close(h)) \/ (\E v, h : O!Move(v, h))
        \/ (\E v, role, h : O!Enrol(v, role, h)) \/ (\E v : O!Dismiss(v))
  BY DEF O!Next, O!Open, O!FitOut, O!Engage
<1> QED BY <1>1, <1>2, <1>3, <1>4, <1>5, <1>6

(* In whatever keeps the organisation what a booking counts on stays: the  *)
(* account with its role, the hotel, and the room in that hotel.           *)
THEOREM NothingBookedEverGoes == O!Spec => O!NothingBookedGoes
<1> DEFINE Stays ==
      /\ engaged \subseteq engaged'
      /\ \A e \in engaged : /\ e.userId \in DOMAIN post'
                            /\ post'[e.userId].role = post[e.userId].role
                            /\ e.hotelId \in open'
                            /\ e.roomId \in DOMAIN wing'
                            /\ wing'[e.roomId] = e.hotelId
      /\ \A u \in DOMAIN post : post[u].role \notin O!Staff => u \in DOMAIN post'
<1>1. O!Init => OrganisationInv
  BY DEF O!Init, OrganisationInv, O!EngagementsStand
<1>2. OrganisationInv /\ [O!Next]_O!organisation => OrganisationInv'
  BY OrganisationStep
<1>3. OrganisationInv /\ [O!Next]_O!organisation => [Stays]_O!organisation
  <2> SUFFICES ASSUME OrganisationInv, O!Next PROVE Stays
    OBVIOUS
  <2>1. engaged \subseteq engaged'
    BY DEF O!Next, O!Open, O!Close, O!FitOut, O!Move, O!Engage, O!Enrol, O!Dismiss
  <2>2. \A e \in engaged : /\ e.userId \in DOMAIN post /\ e.userId \in DOMAIN post'
                           /\ e.hotelId \in open'
                           /\ e.roomId \in DOMAIN wing' /\ wing'[e.roomId] = e.hotelId
    BY <2>1, OrganisationStep DEF OrganisationInv, O!EngagementsStand
  <2> QED BY <2>1, <2>2, RolesAreKept
<1> QED BY <1>1, <1>2, <1>3, PTL DEF O!Spec, O!NothingBookedGoes
=============================================================================
