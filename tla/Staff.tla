------------------------------- MODULE Staff -------------------------------
(***************************************************************************)
(* UsersService.create, update and remove, and the two operations of       *)
(* AuthService that write an account's own row: register and               *)
(* changePassword.  As in Catalog no call opens a transaction, and a call  *)
(* is a task of a slot that is used again when the task ends.              *)
(*                                                                         *)
(* The e-mail address and the password are left out: a request they make   *)
(* fail (address taken, password wrong) is one that is never begun, or     *)
(* one that is abandoned.                                                  *)
(***************************************************************************)
EXTENDS Catalog

CONSTANTS Clerks,         \* slots for calls to these services
          StaffDtos,      \* create-user requests
          StaffChanges,   \* update-user requests
          NewUser         \* in place of the id of an account still to be inserted

VARIABLES task,     \* what each slot is about to do
          enrolled  \* ids given to accounts: uuids are never given twice

StaffRole == {"ADMIN", "HOTEL_MANAGER"}

StaffDto == [role : StaffRole, hotelId : Hotels \cup {NoHotel}]
StaffChange == [role : StaffRole \cup {Unset}, hotelId : Hotels \cup {NoHotel, Unset}]

(* Both create and update, once their request has been checked, look at    *)
(* the hotel, look for its manager and write a row.                        *)
Assignment == [step : {"staffHotel", "staffManager", "staffWrite"},
               userId : Users \cup {NewUser}, role : StaffRole,
               hotelId : Hotels \cup {NoHotel}, mustChangePassword : BOOLEAN]

Task == {Idle} \cup Assignment
  \cup [step : {"staffCount", "staffDelete", "passwordWrite"}, userId : Users]

ASSUME StaffAssumption ==
  /\ NewUser \notin Users
  /\ Unset \notin StaffRole \cup Hotels \cup {NoHotel}
  /\ StaffDtos \subseteq StaffDto
  /\ StaffChanges \subseteq StaffChange
  /\ \A u \in DOMAIN SeedUser : SeedUser[u].hotelId # NoHotel =>
       /\ SeedUser[u].role = "HOTEL_MANAGER"
       /\ \A v \in DOMAIN SeedUser \ {u} : SeedUser[v].hotelId # SeedUser[u].hotelId

StaffTypeOK ==
  /\ task \in [Clerks -> Task]
  /\ enrolled \subseteq Users
  /\ DOMAIN user \subseteq enrolled

StaffInit ==
  /\ task = [k \in Clerks |-> Idle]
  /\ enrolled = DOMAIN SeedUser

-----------------------------------------------------------------------------
Take(k, t) == task[k] = Idle /\ task' = [task EXCEPT ![k] = t]
GoOn(k, step) == task' = [task EXCEPT ![k].step = step]
Drop(k) == task' = [task EXCEPT ![k] = Idle]

(* assertCanCreate, assertCanUpdate and assertCanDelete, on the two roles. *)
\* Variant: whoever may manage staff may manage every account.
ManagesAnyone(actorRole, role) == actorRole \in {"SUPER_ADMIN", "ADMIN"}
\* Variant: whoever ranks higher may.
Outranks(actorRole, role) ==
  \/ actorRole = "SUPER_ADMIN" /\ role # "SUPER_ADMIN"
  \/ actorRole = "ADMIN" /\ role \in {"HOTEL_MANAGER", "GUEST"}
Manages(actorRole, role) ==
  \/ actorRole = "SUPER_ADMIN" /\ role \in StaffRole
  \/ actorRole = "ADMIN" /\ role = "HOTEL_MANAGER"

(* Unique index on user.hotelId: h is the hotel of an account other than u.*)
\* Variant: without the index, assertHotelHasNoManager stands alone.
NoUniqueIndex(h, u) == FALSE
HotelTaken(h, u) == h # NoHotel /\ \E v \in DOMAIN user \ {u} : user[v].hotelId = h

(* assertHotelHasNoManager, but for u.                                     *)
HasManager(h, u) ==
  \E v \in DOMAIN user \ {u} : user[v].role = "HOTEL_MANAGER" /\ user[v].hotelId = h

(* The statement that writes role and hotel of account u.                  *)
RowAccepted(t, u) ==
  /\ t.hotelId \in DOMAIN hotel \cup {NoHotel}
  /\ ~HotelTaken(t.hotelId, u)

-----------------------------------------------------------------------------
(* requiresPasswordChangeOnFirstLogin.                                     *)
RequiresPasswordChange(actorRole, role) ==
  \/ actorRole = "SUPER_ADMIN" /\ role \in StaffRole
  \/ actorRole = "ADMIN" /\ role = "HOTEL_MANAGER"

(* UsersService.create: a manager comes with a hotel, an admin without.    *)
StaffCreateBegin(k, actor, dto) ==
  /\ Manages(user[actor].role, dto.role)
  /\ dto.role = "HOTEL_MANAGER" <=> dto.hotelId # NoHotel
  /\ Take(k, [step |-> IF dto.role = "HOTEL_MANAGER" THEN "staffHotel" ELSE "staffWrite",
              userId |-> NewUser, role |-> dto.role, hotelId |-> dto.hotelId,
              mustChangePassword |-> RequiresPasswordChange(user[actor].role, dto.role)])
  /\ UNCHANGED <<enrolled, tables>>

(* UsersService.update up to its second await.  The row to be written is   *)
(* made of the request and, where it leaves the hotel out, of the account  *)
(* as it is now; the hotel is looked up when the request names one.        *)
StaffUpdateBegin(k, actor, u, dto) ==
  LET target == user[u]
      nextHotelId == IF target.role = "ADMIN" THEN NoHotel
                     ELSE IF dto.hotelId = Unset THEN target.hotelId ELSE dto.hotelId
  IN  /\ Manages(user[actor].role, target.role)
      /\ dto.role \in {Unset, target.role}
      /\ target.role = "ADMIN" =>
           \/ dto.hotelId = Unset
           \/ dto.role = "ADMIN" /\ dto.hotelId = NoHotel
      /\ target.role = "HOTEL_MANAGER" => nextHotelId # NoHotel
      /\ dto.role = "HOTEL_MANAGER" => dto.hotelId # Unset
      /\ Take(k, [step |-> IF target.role = "ADMIN" THEN "staffWrite"
                           ELSE IF dto.hotelId = Unset THEN "staffManager"
                           ELSE "staffHotel",
                  userId |-> u, role |-> target.role, hotelId |-> nextHotelId,
                  mustChangePassword |-> FALSE])
      /\ UNCHANGED <<enrolled, tables>>

(* assertHotelExists.                                                      *)
StaffHotel(k) ==
  /\ task[k].step = "staffHotel"
  /\ \/ task[k].hotelId \in DOMAIN hotel /\ GoOn(k, "staffManager")
     \/ task[k].hotelId \notin DOMAIN hotel /\ Drop(k)
  /\ UNCHANGED <<enrolled, tables>>

(* assertHotelHasNoManager.                                                *)
StaffManager(k) ==
  LET taken == HasManager(task[k].hotelId, task[k].userId)
  IN  /\ task[k].step = "staffManager"
      /\ \/ ~taken /\ GoOn(k, "staffWrite")
         \/ taken /\ Drop(k)
      /\ UNCHANGED <<enrolled, tables>>

(* user.create, and the foreign key and the unique index it meets.         *)
StaffInsert(k, u) ==
  LET t == task[k]
  IN  /\ t.step = "staffWrite" /\ t.userId = NewUser
      /\ u \notin enrolled
      /\ \/ /\ RowAccepted(t, u)
            /\ user' = Put(user, u, [role |-> t.role, hotelId |-> t.hotelId,
                                     mustChangePassword |-> t.mustChangePassword])
            /\ enrolled' = enrolled \cup {u}
         \/ ~RowAccepted(t, u) /\ UNCHANGED <<user, enrolled>>
      /\ Drop(k)
      /\ UNCHANGED <<hotel, room, booking, payment>>

(* user.update by id: role and hotel as they were put together at the      *)
(* start.                                                                  *)
StaffUpdate(k) ==
  LET t == task[k]
      u == t.userId
      ok == u \in DOMAIN user /\ RowAccepted(t, u)
  IN  /\ t.step = "staffWrite" /\ u # NewUser
      /\ \/ /\ ok
            /\ user' = Put(user, u, [user[u] EXCEPT !.role = t.role, !.hotelId = t.hotelId])
         \/ ~ok /\ UNCHANGED user
      /\ Drop(k)
      /\ UNCHANGED <<enrolled, hotel, room, booking, payment>>

-----------------------------------------------------------------------------
(* UsersService.remove: the account is read, its bookings are counted, and *)
(* it is deleted, unless the foreign key of booking forbids it.            *)
StaffRemoveBegin(k, actor, u) ==
  /\ Manages(user[actor].role, user[u].role)
  /\ Take(k, [step |-> "staffCount", userId |-> u])
  /\ UNCHANGED <<enrolled, tables>>

HasBooking(u) == \E b \in DOMAIN booking : booking[b].userId = u

StaffRemoveCount(k) ==
  /\ task[k].step = "staffCount"
  /\ \/ ~HasBooking(task[k].userId) /\ GoOn(k, "staffDelete")
     \/ HasBooking(task[k].userId) /\ Drop(k)
  /\ UNCHANGED <<enrolled, tables>>

(* ON DELETE RESTRICT of booking.userId.                                   *)
\* Variant: remove relies on its own count.
NeverBooked(u) == FALSE
UserReferenced(u) == HasBooking(u)

StaffRemoveDelete(k) ==
  LET u == task[k].userId
  IN  /\ task[k].step = "staffDelete"
      /\ \/ u \in DOMAIN user /\ ~UserReferenced(u) /\ user' = Restrict(user, DOMAIN user \ {u})
         \/ (u \notin DOMAIN user \/ UserReferenced(u)) /\ UNCHANGED user
      /\ Drop(k)
      /\ UNCHANGED <<enrolled, hotel, room, booking, payment>>

-----------------------------------------------------------------------------
(* AuthService.register: one insert, of a guest who chose the password.    *)
Register(u) ==
  /\ u \notin enrolled
  /\ user' = Put(user, u, [role |-> "GUEST", hotelId |-> NoHotel, mustChangePassword |-> FALSE])
  /\ enrolled' = enrolled \cup {u}
  /\ UNCHANGED <<task, hotel, room, booking, payment>>

(* AuthService.changePassword: an account with a temporary password only.  *)
ChangePasswordBegin(k, u) ==
  /\ user[u].mustChangePassword
  /\ Take(k, [step |-> "passwordWrite", userId |-> u])
  /\ UNCHANGED <<enrolled, tables>>

ChangePassword(k) ==
  LET u == task[k].userId
  IN  /\ task[k].step = "passwordWrite"
      /\ \/ /\ u \in DOMAIN user
            /\ user' = Put(user, u, [user[u] EXCEPT !.mustChangePassword = FALSE])
         \/ u \notin DOMAIN user /\ UNCHANGED user
      /\ Drop(k)
      /\ UNCHANGED <<enrolled, hotel, room, booking, payment>>

(* The process dies or a statement fails: the statements so far were reads.*)
TaskAbandon(k) == task[k] # Idle /\ Drop(k) /\ UNCHANGED <<enrolled, tables>>

TaskBegin(k) ==
  \/ \E u \in DOMAIN user : ChangePasswordBegin(k, u)
  \/ \E actor \in DOMAIN user :
       /\ OrgAdmin(actor)
       /\ \/ \E dto \in StaffDtos : StaffCreateBegin(k, actor, dto)
          \/ \E u \in DOMAIN user :
               \/ \E dto \in StaffChanges : StaffUpdateBegin(k, actor, u, dto)
               \/ StaffRemoveBegin(k, actor, u)

TaskStep(k) ==
  \/ StaffHotel(k) \/ StaffManager(k)
  \/ \E u \in Users : StaffInsert(k, u)
  \/ StaffUpdate(k) \/ StaffRemoveCount(k) \/ StaffRemoveDelete(k)
  \/ ChangePassword(k)

StaffNext ==
  /\ \/ \E u \in Users : Register(u)
     \/ \E k \in Clerks : TaskBegin(k) \/ TaskStep(k) \/ TaskAbandon(k)
  /\ UNCHANGED now
=============================================================================
