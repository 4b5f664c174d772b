------------------------- MODULE ReservationLedger --------------------------
(***************************************************************************)
(* What the booking and payment services promise, whatever happens between *)
(* their steps: a ledger of reservations in which a night of a room is     *)
(* held by at most one reservation, a reservation is paid once, in full    *)
(* and while it is held, and a released one stays released.                *)
(***************************************************************************)
CONSTANTS Ids, Rooms

VARIABLES entry,   \* the reservations, by id
          charged  \* what was paid, by reservation

Holding == {"held", "paid"}

(* Nobody holds any of these nights of the room.                           *)
Free(roomId, nights) ==
  \A i \in DOMAIN entry :
    entry[i].state \in Holding /\ entry[i].roomId = roomId
      => entry[i].nights \cap nights = {}

Init == entry = [i \in {} |-> i] /\ charged = [i \in {} |-> i]

Reserve(i, roomId, nights, price) ==
  /\ i \notin DOMAIN entry
  /\ nights # {}
  /\ Free(roomId, nights)
  /\ entry' = [j \in DOMAIN entry \cup {i} |->
                 IF j = i THEN [roomId |-> roomId, nights |-> nights,
                                price |-> price, state |-> "held"]
                 ELSE entry[j]]
  /\ UNCHANGED charged

Pay(i) ==
  /\ i \in DOMAIN entry \ DOMAIN charged
  /\ entry[i].state = "held"
  /\ entry' = [entry EXCEPT ![i].state = "paid"]
  /\ charged' = [j \in DOMAIN charged \cup {i} |->
                   IF j = i THEN entry[i].price ELSE charged[j]]

Release(i) ==
  /\ i \in DOMAIN entry
  /\ entry[i].state \in Holding
  /\ entry' = [entry EXCEPT ![i].state = "released"]
  /\ UNCHANGED charged

(* The parameters of Reserve are read off the next state: the prices and   *)
(* the nights there are have no bound.                                     *)
Next ==
  \E i \in Ids :
    \/ /\ i \in DOMAIN entry'
       /\ entry'[i].roomId \in Rooms
       /\ Reserve(i, entry'[i].roomId, entry'[i].nights, entry'[i].price)
    \/ Pay(i)
    \/ Release(i)

Spec == Init /\ [][Next]_<<entry, charged>>

-----------------------------------------------------------------------------
(* No night of a room is held by two reservations: Reserve looks before it *)
(* takes, and nothing else takes.                                          *)
NightsHeldOnce ==
  \A i, j \in DOMAIN entry :
    /\ i # j /\ entry[i].roomId = entry[j].roomId
    /\ entry[i].state \in Holding /\ entry[j].state \in Holding
    => entry[i].nights \cap entry[j].nights = {}

(* Whatever was paid was the price, a paid reservation was paid for, and   *)
(* one that is only held was not.                                          *)
PaidInFull ==
  /\ \A i \in DOMAIN charged : i \in DOMAIN entry /\ charged[i] = entry[i].price
  /\ \A i \in DOMAIN entry : /\ entry[i].state = "paid" => i \in DOMAIN charged
                             /\ entry[i].state = "held" => i \notin DOMAIN charged

(* A reservation keeps its terms, and what was paid for it is kept; it is  *)
(* never held again once it is paid or released.                           *)
TermsAreKept ==
  [][/\ \A i \in DOMAIN entry :
          /\ i \in DOMAIN entry'
          /\ entry'[i].roomId = entry[i].roomId
          /\ entry'[i].nights = entry[i].nights
          /\ entry'[i].price = entry[i].price
          /\ entry[i].state = "released" => entry'[i].state = "released"
          /\ entry[i].state = "paid" => entry'[i].state \in {"paid", "released"}
     /\ \A i \in DOMAIN charged :
          i \in DOMAIN charged' /\ charged'[i] = charged[i]]_<<entry, charged>>
=============================================================================
