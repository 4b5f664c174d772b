---------------------------- MODULE SeedingProofs ----------------------------
(***************************************************************************)
(* Proofs about Seeding, for every catalogue and every list of demo users  *)
(* that the seeders may be given.                                          *)
(***************************************************************************)
EXTENDS Seeding, HotelSystemProofs, SequenceTheorems

-----------------------------------------------------------------------------
(* Accounts                                                                *)
(*                                                                         *)
(* A seed changes the role of an account while a staff call is under way,  *)
(* so that TasksAreValidated fails here.  What remains of it does not      *)
(* mention the accounts: a task gives no hotel to an admin, and its target *)
(* is not the super admin.                                                 *)

TaskSpares(t, ids) ==
  /\ t.step \in {"staffHotel", "staffManager", "staffWrite"} =>
       /\ t.role = "ADMIN" => t.hotelId = NoHotel
       /\ t.userId # NewUser => t.userId \in ids /\ Email[t.userId] # SuperAdminEmail
  /\ t.step \in {"staffCount", "staffDelete"} => Email[t.userId] # SuperAdminEmail

TasksSpareSuperAdmin == \A k \in Clerks : TaskSpares(task[k], enrolled)

(* What the staff calls and the upserts do to the accounts.                *)
WritesAccount(u, row) ==
  /\ Assigned(u, row)
  /\ enrolled' = enrolled \cup {u}
  /\ row.mustChangePassword =>
       u \notin enrolled \/ (u \in DOMAIN user /\ user[u].mustChangePassword)
  /\ u \in DOMAIN user /\ Email[u] = SuperAdminEmail =>
       row.role = "SUPER_ADMIN" /\ row.hotelId = NoHotel

AccountsEffect ==
  /\ UNCHANGED <<hotel, room, booking, payment, now>>
  /\ \/ UNCHANGED <<user, enrolled>>
     \/ \E u \in Users : \E row \in UserRow : WritesAccount(u, row)
     \/ \E u \in DOMAIN user :
          /\ user' = Put(user, u, [user[u] EXCEPT !.mustChangePassword = FALSE])
          /\ UNCHANGED enrolled
     \/ \E u \in DOMAIN user :
          /\ Email[u] # SuperAdminEmail /\ ~UserReferenced(u)
          /\ user' = Restrict(user, DOMAIN user \ {u})
          /\ UNCHANGED enrolled

EnrolledTyped == enrolled \subseteq Users /\ DOMAIN user \subseteq enrolled

AccountsInv ==
  /\ EnrolledTyped
  /\ \A u \in DOMAIN user : user[u].hotelId \in DOMAIN hotel \cup {NoHotel}
  /\ OneManagerPerHotel
  /\ SuperAdminRemains

(* Each of these effects keeps the accounts in order.                      *)
LEMMA AccountsKept ==
  ASSUME IsTable(user, Users, UserRow), AccountsInv, AccountsEffect
  PROVE  IsTable(user', Users, UserRow) /\ AccountsInv' /\ enrolled \subseteq enrolled'
<1>1. \A u \in DOMAIN user : u \in Users /\ user[u] \in UserRow
  BY DEF IsTable
<1>2. UNCHANGED hotel
  BY DEF AccountsEffect
<1>3. CASE UNCHANGED <<user, enrolled>>
  BY <1>2, <1>3 DEF AccountsInv, EnrolledTyped, OneManagerPerHotel, SuperAdminRemains, HasAccount
<1>4. ASSUME NEW u \in Users, NEW row \in UserRow, WritesAccount(u, row)
      PROVE  IsTable(user', Users, UserRow) /\ AccountsInv' /\ enrolled \subseteq enrolled'
  <2>1. /\ DOMAIN user' = DOMAIN user \cup {u} /\ user'[u] = row
        /\ \A v \in DOMAIN user : v # u => user'[v] = user[v]
        /\ enrolled' = enrolled \cup {u}
    BY <1>4 DEF WritesAccount, Assigned, Put
  <2>2. /\ row.hotelId \in DOMAIN hotel \cup {NoHotel}
        /\ row.hotelId # NoHotel => row.role = "HOTEL_MANAGER"
        /\ row.hotelId # NoHotel => \A v \in DOMAIN user \ {u} : user[v].hotelId # row.hotelId
    BY <1>4 DEF WritesAccount, Assigned, HotelTaken
  <2>3. IsTable(user', Users, UserRow)
    BY <1>4, PutTable DEF WritesAccount, Assigned
  <2>4. EnrolledTyped' /\ enrolled \subseteq enrolled'
    BY <2>1 DEF AccountsInv, EnrolledTyped
  <2>5. \A v \in DOMAIN user' : user'[v].hotelId \in DOMAIN hotel' \cup {NoHotel}
    BY <1>2, <2>1, <2>2 DEF AccountsInv
  <2>6. OneManagerPerHotel'
    BY <2>1, <2>2 DEF AccountsInv, OneManagerPerHotel
  <2>7. SuperAdminRemains'
    <3> PICK s \in DOMAIN user :
           /\ Email[s] = SuperAdminEmail
           /\ user[s].role = "SUPER_ADMIN" /\ user[s].hotelId = NoHotel
      BY DEF AccountsInv, SuperAdminRemains, HasAccount
    <3>1. user'[s].role = "SUPER_ADMIN" /\ user'[s].hotelId = NoHotel
      BY <1>4, <2>1 DEF WritesAccount
    <3> QED BY <2>1, <3>1 DEF SuperAdminRemains, HasAccount
  <2> QED BY <2>3, <2>4, <2>5, <2>6, <2>7 DEF AccountsInv
<1>5. ASSUME NEW u \in DOMAIN user, UNCHANGED enrolled,
             user' = Put(user, u, [user[u] EXCEPT !.mustChangePassword = FALSE])
      PROVE  IsTable(user', Users, UserRow) /\ AccountsInv' /\ enrolled \subseteq enrolled'
  <2> DEFINE row == [user[u] EXCEPT !.mustChangePassword = FALSE]
  <2>1. row \in UserRow /\ row.role = user[u].role /\ row.hotelId = user[u].hotelId
    BY <1>1 DEF UserRow
  <2>2. user' = Put(user, u, row)
    BY <1>5
  <2> HIDE DEF row
  <2>3. IsTable(user', Users, UserRow)
    BY <1>1, <2>1, <2>2, PutTable
  <2>4. /\ DOMAIN user' = DOMAIN user
        /\ \A v \in DOMAIN user :
             user'[v].role = user[v].role /\ user'[v].hotelId = user[v].hotelId
    BY <2>1, <2>2 DEF Put
  <2>5. AccountsInv'
    <3>1. /\ EnrolledTyped'
          /\ \A v \in DOMAIN user' : user'[v].hotelId \in DOMAIN hotel' \cup {NoHotel}
      BY <1>2, <1>5, <2>4 DEF AccountsInv, EnrolledTyped
    <3>2. OneManagerPerHotel'
      BY <2>4 DEF AccountsInv, OneManagerPerHotel
    <3>3. SuperAdminRemains'
      BY <2>4 DEF AccountsInv, SuperAdminRemains, HasAccount
    <3> QED BY <3>1, <3>2, <3>3 DEF AccountsInv
  <2> QED BY <1>5, <2>3, <2>5
<1>6. ASSUME NEW u \in DOMAIN user, UNCHANGED enrolled, Email[u] # SuperAdminEmail,
             user' = Restrict(user, DOMAIN user \ {u})
      PROVE  IsTable(user', Users, UserRow) /\ AccountsInv' /\ enrolled \subseteq enrolled'
  <2>1. DOMAIN user' = DOMAIN user \ {u} /\ \A v \in DOMAIN user' : user'[v] = user[v]
    BY <1>6 DEF Restrict
  <2>2. IsTable(user', Users, UserRow)
    BY <1>6, RestrictTable
  <2>3. AccountsInv'
    <3>1. /\ EnrolledTyped'
          /\ \A v \in DOMAIN user' : user'[v].hotelId \in DOMAIN hotel' \cup {NoHotel}
      BY <1>2, <1>6, <2>1 DEF AccountsInv, EnrolledTyped
    <3>2. OneManagerPerHotel'
      BY <2>1 DEF AccountsInv, OneManagerPerHotel
    <3>3. SuperAdminRemains'
      BY <1>6, <2>1 DEF AccountsInv, SuperAdminRemains, HasAccount
    <3> QED BY <3>1, <3>2, <3>3 DEF AccountsInv
  <2> QED BY <1>6, <2>2, <2>3
<1> QED BY <1>3, <1>4, <1>5, <1>6 DEF AccountsEffect

(* A slot takes a task that spares the super admin, or drops its own.      *)
TasksInv == task \in [Clerks -> Task] /\ TasksSpareSuperAdmin

LEMMA TasksKept ==
  ASSUME TasksInv, enrolled \subseteq enrolled', NEW k \in Clerks, NEW t \in Task,
         TaskSpares(t, enrolled), task' = [task EXCEPT ![k] = t]
  PROVE  TasksInv'
<1>1. task' \in [Clerks -> Task]
  BY DEF TasksInv
<1>2. ASSUME NEW s, TaskSpares(s, enrolled) PROVE TaskSpares(s, enrolled')
  BY <1>2 DEF TaskSpares
<1>3. ASSUME NEW j \in Clerks PROVE TaskSpares(task'[j], enrolled')
  BY <1>2 DEF TasksInv, TasksSpareSuperAdmin
<1> QED BY <1>1, <1>3 DEF TasksInv, TasksSpareSuperAdmin

(* Each step of a staff call has one of the effects above.  The super      *)
(* admin is nobody's target: their role is in nobody's reach.              *)
LEMMA StaffSparesSuperAdmin ==
  ASSUME IsTable(user, Users, UserRow), EnrolledTyped, TasksInv, StaffNext,
         \A u \in DOMAIN user : Email[u] = SuperAdminEmail => user[u].role = "SUPER_ADMIN"
  PROVE  AccountsEffect /\ TasksInv'
<1> USE DEF tables
<1>1. /\ UNCHANGED now
      /\ DOMAIN user \subseteq enrolled /\ enrolled \subseteq Users
      /\ \A u \in DOMAIN user : user[u] \in UserRow
      /\ \A k \in Clerks : task[k] \in Task /\ TaskSpares(task[k], enrolled)
      /\ NewUser \notin Users
  BY StaffAssumption DEF StaffNext, EnrolledTyped, TasksInv, TasksSpareSuperAdmin, IsTable
<1>2. Idle \in Task /\ TaskSpares(Idle, enrolled)
  BY DEF Task, Idle, TaskSpares
<1>3. ASSUME NEW k \in Clerks, NEW t \in Task, TaskSpares(t, enrolled),
             task' = [task EXCEPT ![k] = t], UNCHANGED <<enrolled, tables>>
      PROVE  AccountsEffect /\ TasksInv'
  BY <1>1, <1>3, TasksKept DEF AccountsEffect
<1>4. ASSUME NEW k \in Clerks, Drop(k), UNCHANGED <<enrolled, tables>>
      PROVE  AccountsEffect /\ TasksInv'
  BY <1>2, <1>3, <1>4 DEF Drop
<1>5. ASSUME NEW k \in Clerks, Drop(k), enrolled \subseteq enrolled'
      PROVE  TasksInv'
  BY <1>2, <1>5, TasksKept DEF Drop
<1>6. ASSUME NEW u \in Users, Register(u)
      PROVE  AccountsEffect /\ TasksInv'
  <2> DEFINE row == [role |-> "GUEST", hotelId |-> NoHotel, mustChangePassword |-> FALSE]
  <2>1. row \in UserRow /\ row.hotelId = NoHotel /\ ~row.mustChangePassword
    BY DEF UserRow, Role
  <2>2. /\ u \notin enrolled /\ user' = Put(user, u, row) /\ enrolled' = enrolled \cup {u}
        /\ UNCHANGED <<task, hotel, room, booking, payment>>
    BY <1>6 DEF Register
  <2> HIDE DEF row
  <2>3. WritesAccount(u, row)
    BY <1>1, <2>1, <2>2 DEF WritesAccount, Assigned, HotelTaken
  <2>4. TasksInv'
    BY <2>2 DEF TasksInv, TasksSpareSuperAdmin, TaskSpares
  <2> QED BY <1>1, <2>1, <2>2, <2>3, <2>4 DEF AccountsEffect
<1>7. ASSUME NEW k \in Clerks, NEW actor \in DOMAIN user, NEW dto \in StaffDtos,
             StaffCreateBegin(k, actor, dto)
      PROVE  AccountsEffect /\ TasksInv'
  <2> DEFINE t == [step |-> IF dto.role = "HOTEL_MANAGER" THEN "staffHotel" ELSE "staffWrite",
                   userId |-> NewUser, role |-> dto.role, hotelId |-> dto.hotelId,
                   mustChangePassword |-> RequiresPasswordChange(user[actor].role, dto.role)]
  <2>1. dto \in StaffDto
    BY StaffAssumption
  <2>2. t \in Task /\ TaskSpares(t, enrolled)
    BY <1>7, <2>1 DEF StaffCreateBegin, StaffDto, StaffRole, Task, Assignment, TaskSpares,
                      RequiresPasswordChange
  <2>3. task' = [task EXCEPT ![k] = t] /\ UNCHANGED <<tables, enrolled>>
    BY <1>7 DEF StaffCreateBegin, Take
  <2> QED BY <1>3, <2>2, <2>3
<1>8. ASSUME NEW actor \in DOMAIN user, NEW u \in DOMAIN user,
             Manages(user[actor].role, user[u].role)
      PROVE  user[u].role \in StaffRole /\ Email[u] # SuperAdminEmail
  BY <1>8 DEF Manages, StaffRole
<1>9. ASSUME NEW k \in Clerks, NEW actor \in DOMAIN user, NEW u \in DOMAIN user,
             NEW dto \in StaffChanges, StaffUpdateBegin(k, actor, u, dto)
      PROVE  AccountsEffect /\ TasksInv'
  <2> DEFINE target == user[u]
             nextHotelId == IF target.role = "ADMIN" THEN NoHotel
                            ELSE IF dto.hotelId = Unset THEN target.hotelId ELSE dto.hotelId
             t == [step |-> IF target.role = "ADMIN" THEN "staffWrite"
                            ELSE IF dto.hotelId = Unset THEN "staffManager"
                            ELSE "staffHotel",
                   userId |-> u, role |-> target.role, hotelId |-> nextHotelId,
                   mustChangePassword |-> FALSE]
  <2>1. /\ target \in UserRow /\ target.role \in StaffRole /\ dto \in StaffChange
        /\ Email[u] # SuperAdminEmail
    BY <1>1, <1>8, <1>9, StaffAssumption DEF StaffUpdateBegin
  <2>2. nextHotelId \in Hotels \cup {NoHotel}
    BY <2>1 DEF UserRow, StaffChange
  <2>3. t \in Assignment
    BY <1>1, <2>1, <2>2 DEF Assignment
  <2>4. TaskSpares(t, enrolled)
    BY <1>1, <2>1 DEF TaskSpares
  <2>5. task' = [task EXCEPT ![k] = t] /\ UNCHANGED <<tables, enrolled>>
    BY <1>9 DEF StaffUpdateBegin, Take
  <2> QED BY <1>3, <2>3, <2>4, <2>5 DEF Task
<1>10. ASSUME NEW k \in Clerks, NEW step, GoOn(k, step), UNCHANGED <<tables, enrolled>>,
              \/ task[k].step \in {"staffHotel", "staffManager"}
                 /\ step \in {"staffManager", "staffWrite"}
              \/ task[k].step = "staffCount" /\ step = "staffDelete"
       PROVE  AccountsEffect /\ TasksInv'
  <2> DEFINE t == [task[k] EXCEPT !.step = step]
  <2>1. t \in Task
    BY <1>1, <1>10 DEF Task, Assignment, Idle
  <2>2. TaskSpares(t, enrolled)
    BY <1>1, <1>10 DEF Task, Assignment, Idle, TaskSpares
  <2>3. task' = [task EXCEPT ![k] = t]
    BY <1>10 DEF GoOn
  <2> QED BY <1>3, <1>10, <2>1, <2>2, <2>3
<1>11. ASSUME NEW k \in Clerks, StaffHotel(k) \/ StaffManager(k) \/ StaffRemoveCount(k)
       PROVE  AccountsEffect /\ TasksInv'
  BY <1>4, <1>10, <1>11 DEF StaffHotel, StaffManager, StaffRemoveCount
<1>12. ASSUME NEW k \in Clerks, task[k].step = "staffWrite"
       PROVE  /\ task[k] \in Assignment
              /\ task[k].role = "ADMIN" => task[k].hotelId = NoHotel
              /\ task[k].userId # NewUser =>
                   task[k].userId \in enrolled /\ Email[task[k].userId] # SuperAdminEmail
  BY <1>1, <1>12 DEF Task, Idle, TaskSpares
<1>13. ASSUME NEW k \in Clerks, NEW u \in Users, StaffInsert(k, u)
       PROVE  AccountsEffect /\ TasksInv'
  <2> DEFINE t == task[k]
             row == [role |-> t.role, hotelId |-> t.hotelId,
                     mustChangePassword |-> t.mustChangePassword]
  <2>1. t \in Assignment /\ (t.role = "ADMIN" => t.hotelId = NoHotel)
    BY <1>12, <1>13 DEF StaffInsert
  <2>2. /\ row \in UserRow /\ row.hotelId = t.hotelId
        /\ row.hotelId # NoHotel => row.role = "HOTEL_MANAGER"
    BY <2>1 DEF Assignment, UserRow, StaffRole, Role
  <2>3. Drop(k) /\ UNCHANGED <<hotel, room, booking, payment>> /\ u \notin enrolled
    BY <1>13 DEF StaffInsert
  <2>4. CASE UNCHANGED <<user, enrolled>>
    BY <1>4, <2>3, <2>4
  <2>5. CASE RowAccepted(t, u) /\ user' = Put(user, u, row) /\ enrolled' = enrolled \cup {u}
    <3> HIDE DEF row
    <3>1. WritesAccount(u, row)
      BY <1>1, <2>2, <2>3, <2>5 DEF WritesAccount, Assigned, RowAccepted
    <3> QED BY <1>1, <1>5, <2>2, <2>3, <2>5, <3>1 DEF AccountsEffect
  <2> QED BY <1>13, <2>4, <2>5 DEF StaffInsert
<1>14. ASSUME NEW k \in Clerks, StaffUpdate(k)
       PROVE  AccountsEffect /\ TasksInv'
  <2> DEFINE t == task[k]
             u == t.userId
             row == [user[u] EXCEPT !.role = t.role, !.hotelId = t.hotelId]
  <2>1. /\ Drop(k) /\ UNCHANGED <<enrolled, hotel, room, booking, payment>>
        /\ task[k].step = "staffWrite" /\ u # NewUser
    BY <1>14 DEF StaffUpdate
  <2>2. CASE UNCHANGED user
    BY <1>4, <2>1, <2>2
  <2>3. CASE u \in DOMAIN user /\ RowAccepted(t, u) /\ user' = Put(user, u, row)
    <3>1. /\ t \in Assignment /\ (t.role = "ADMIN" => t.hotelId = NoHotel)
          /\ u \in Users /\ u \in enrolled /\ Email[u] # SuperAdminEmail
      BY <1>1, <1>12, <2>1, <2>3
    <3>2. /\ row \in UserRow /\ row.hotelId = t.hotelId
          /\ row.hotelId # NoHotel => row.role = "HOTEL_MANAGER"
          /\ row.mustChangePassword = user[u].mustChangePassword
      BY <1>1, <2>3, <3>1 DEF Assignment, UserRow, StaffRole, Role
    <3> HIDE DEF row
    <3>3. WritesAccount(u, row)
      BY <2>1, <2>3, <3>1, <3>2 DEF WritesAccount, Assigned, RowAccepted
    <3> QED BY <1>1, <1>5, <2>1, <3>1, <3>2, <3>3 DEF AccountsEffect
  <2> QED BY <1>14, <2>2, <2>3 DEF StaffUpdate
<1>15. ASSUME NEW k \in Clerks, NEW actor \in DOMAIN user, NEW u \in DOMAIN user,
              StaffRemoveBegin(k, actor, u)
       PROVE  AccountsEffect /\ TasksInv'
  <2> DEFINE t == [step |-> "staffCount", userId |-> u]
  <2>1. t \in Task /\ TaskSpares(t, enrolled)
    BY <1>1, <1>8, <1>15 DEF StaffRemoveBegin, Task, TaskSpares
  <2> QED BY <1>3, <1>15, <2>1 DEF StaffRemoveBegin, Take
<1>16. ASSUME NEW k \in Clerks, StaffRemoveDelete(k)
       PROVE  AccountsEffect /\ TasksInv'
  <2> DEFINE u == task[k].userId
  <2>1. Drop(k) /\ UNCHANGED <<enrolled, hotel, room, booking, payment>>
    BY <1>16 DEF StaffRemoveDelete
  <2>2. CASE UNCHANGED user
    BY <1>4, <2>1, <2>2
  <2>3. CASE /\ u \in DOMAIN user /\ ~UserReferenced(u)
             /\ user' = Restrict(user, DOMAIN user \ {u})
    <3>1. Email[u] # SuperAdminEmail
      BY <1>1, <1>16 DEF StaffRemoveDelete, TaskSpares
    <3> QED BY <1>1, <1>5, <2>1, <2>3, <3>1 DEF AccountsEffect
  <2> QED BY <1>16, <2>2, <2>3 DEF StaffRemoveDelete
<1>17. ASSUME NEW k \in Clerks, NEW u \in DOMAIN user, ChangePasswordBegin(k, u)
       PROVE  AccountsEffect /\ TasksInv'
  <2> DEFINE t == [step |-> "passwordWrite", userId |-> u]
  <2>1. t \in Task /\ TaskSpares(t, enrolled)
    BY <1>1 DEF Task, TaskSpares
  <2> QED BY <1>3, <1>17, <2>1 DEF ChangePasswordBegin, Take
<1>18. ASSUME NEW k \in Clerks, ChangePassword(k)
       PROVE  AccountsEffect /\ TasksInv'
  BY <1>1, <1>4, <1>5, <1>18 DEF ChangePassword, AccountsEffect
<1>19. ASSUME NEW k \in Clerks, TaskAbandon(k)
       PROVE  AccountsEffect /\ TasksInv'
  BY <1>4, <1>19 DEF TaskAbandon
<1> QED BY <1>6, <1>7, <1>9, <1>11, <1>13, <1>14, <1>15, <1>16, <1>17, <1>18, <1>19
        DEF StaffNext, TaskBegin, TaskStep

-----------------------------------------------------------------------------
(* The tables                                                              *)

SeedsIssued == DOMAIN SeedHotel \cup DOMAIN SeedRoom \subseteq issued

(* What holds of the tables, whoever writes them.                          *)
TablesInv ==
  TypeInv /\ TasksInv /\ AccountsInv /\ NoOrphans /\ EmailsUnique /\ SeedsIssued

(* Whoever has the address of the super admin is the super admin.          *)
LEMMA SuperAdminIsUnique ==
  ASSUME SuperAdminRemains, EmailsUnique
  PROVE  \A u \in DOMAIN user : Email[u] = SuperAdminEmail => user[u].role = "SUPER_ADMIN"
BY DEF SuperAdminRemains, HasAccount, EmailsUnique

(* A write to the accounts alone keeps them.                               *)
LEMMA AccountsEffectSafe ==
  ASSUME TablesInv, AccountsEffect, TasksInv', EmailsUnique', UNCHANGED <<calls, catalog>>
  PROVE  TablesInv'
<1>1. /\ IsTable(user, Users, UserRow) /\ IsTable(hotel, Hotels, HotelRow)
      /\ IsTable(room, Rooms, RoomRow) /\ CatalogTypeOK /\ AccountsInv
      /\ UNCHANGED <<hotel, room, booking, payment, now>>
  BY DEF TablesInv, TypeInv, TablesTypeOK, AccountsEffect
<1>2. IsTable(user', Users, UserRow) /\ AccountsInv'
  BY <1>1, AccountsKept
<1>3. CatalogTypeOK'
  BY <1>1 DEF CatalogTypeOK, catalog
<1>4. TypeInv'
  BY <1>1, <1>2, <1>3, CatalogStepTyped DEF TablesInv
<1>5. NoOrphans'
  BY <1>1, <1>2 DEF TablesInv, NoOrphans, AccountsInv
<1> QED BY <1>2, <1>4, <1>5 DEF TablesInv, SeedsIssued, catalog

(* When the accounts lose a hotel at most, they are in order still.        *)
LEMMA AccountsFreed ==
  ASSUME TablesInv, UNCHANGED staff, NoOrphans',
         DOMAIN user' = DOMAIN user,
         \A u \in DOMAIN user : /\ user'[u].role = user[u].role
                                /\ user'[u].hotelId \in {user[u].hotelId, NoHotel}
  PROVE  AccountsInv' /\ EmailsUnique' /\ TasksInv'
<1>1. EmailsUnique' /\ TasksInv' /\ EnrolledTyped'
  BY DEF TablesInv, AccountsInv, EmailsUnique, TasksInv, TasksSpareSuperAdmin, EnrolledTyped, staff
<1>2. OneManagerPerHotel'
  BY DEF TablesInv, AccountsInv, OneManagerPerHotel
<1>3. SuperAdminRemains'
  BY DEF TablesInv, AccountsInv, SuperAdminRemains, HasAccount
<1> QED BY <1>1, <1>2, <1>3 DEF AccountsInv, NoOrphans

(* The services keep all this while the seeders are at work.               *)
LEMMA ServicesKeepTables ==
  ASSUME TablesInv, [Next]_vars, EmailsUnique'
  PROVE  TablesInv'
<1> USE DEF catalog, staff
<1>1. TypeInv /\ NoOrphans /\ SeedsIssued /\ \A u \in DOMAIN user : user[u] \in UserRow
  BY DEF TablesInv, TypeInv, TablesTypeOK, IsTable
<1>2. ASSUME TypeInv', NoOrphans', UNCHANGED <<user, staff>>, issued \subseteq issued'
      PROVE  TablesInv'
  <2>1. AccountsInv' /\ TasksInv' /\ EmailsUnique'
    BY <1>2, AccountsFreed
  <2> QED BY <1>1, <1>2, <2>1 DEF TablesInv, SeedsIssued
<1>3. CASE BookingsNext /\ UNCHANGED <<catalog, staff>>
  <2>1. UNCHANGED <<hotel, room, user>>
    BY <1>1, <1>3, CallReferences
  <2> QED BY <1>1, <1>2, <1>3, <2>1, BookingsTyped DEF NoOrphans
<1>4. CASE CatalogNext /\ UNCHANGED <<calls, staff>>
  <2>1. TypeInv'
    BY <1>1, <1>4, CatalogTyped
  <2>2. CASE SameCatalogue
    BY <1>1, <1>2, <1>4, <2>1, <2>2 DEF SameCatalogue, NoOrphans
  <2>3. ASSUME NEW h \in Hotels, DOMAIN hotel' = DOMAIN hotel \cup {h}, issued \subseteq issued',
               UNCHANGED <<room, user>>
        PROVE  TablesInv'
    BY <1>1, <1>2, <1>4, <2>1, <2>3 DEF NoOrphans
  <2>4. ASSUME NEW r \in Rooms, issued' = issued \cup {r},
               DOMAIN room' = DOMAIN room \cup {r}, \A q \in DOMAIN room : room'[q] = room[q],
               room'[r].hotelId \in DOMAIN hotel, UNCHANGED <<hotel, user>>
        PROVE  TablesInv'
    BY <1>1, <1>2, <1>4, <2>1, <2>4 DEF NoOrphans
  <2>5. ASSUME NEW h \in Hotels, DeleteHotel(h), UNCHANGED issued
        PROVE  TablesInv'
    <3>1. /\ DOMAIN hotel' = DOMAIN hotel \ {h}
          /\ DOMAIN room' = {r \in DOMAIN room : room[r].hotelId # h}
          /\ \A r \in DOMAIN room' : room'[r] = room[r]
          /\ DOMAIN user' = DOMAIN user
          /\ \A u \in DOMAIN user : /\ user'[u].role = user[u].role
                                    /\ user'[u].hotelId =
                                         IF user[u].hotelId = h THEN NoHotel ELSE user[u].hotelId
      BY <1>1, <2>5 DEF DeleteHotel, Restrict, UserRow
    <3>2. NoOrphans'
      BY <1>1, <3>1 DEF NoOrphans
    <3>3. AccountsInv' /\ EmailsUnique' /\ TasksInv'
      BY <1>4, <3>1, <3>2, AccountsFreed
    <3> QED BY <1>1, <2>1, <2>5, <3>2, <3>3 DEF TablesInv, SeedsIssued
  <2> QED BY <1>1, <1>4, <2>2, <2>3, <2>4, <2>5, CatalogReferences
<1>5. CASE StaffNext /\ UNCHANGED <<calls, catalog>>
  <2>1. IsTable(user, Users, UserRow) /\ EnrolledTyped /\ TasksInv
    BY DEF TablesInv, TypeInv, TablesTypeOK, AccountsInv
  <2>2. \A u \in DOMAIN user : Email[u] = SuperAdminEmail => user[u].role = "SUPER_ADMIN"
    BY SuperAdminIsUnique DEF TablesInv, AccountsInv
  <2>3. AccountsEffect /\ TasksInv'
    BY <1>5, <2>1, <2>2, StaffSparesSuperAdmin
  <2> QED BY <1>5, <2>3, AccountsEffectSafe
<1>6. CASE Tick /\ UNCHANGED <<tables, calls, catalog, staff>>
  <2>1. now' \in 0 .. MaxNow
    BY <1>6, TablesAssumption DEF Tick, TablesInv, TypeInv, TablesTypeOK
  <2>2. TypeInv'
    BY <1>1, <1>6, <2>1 DEF TypeInv, TablesTypeOK, BookingsTypeOK, CatalogTypeOK,
                            CallsAreValidated, tables, calls
  <2> QED BY <1>1, <1>2, <1>6, <2>2 DEF NoOrphans, tables
<1>7. CASE UNCHANGED vars
  <2>1. TypeInv'
    BY <1>1, <1>7 DEF vars, TypeInv, TablesTypeOK, BookingsTypeOK, CatalogTypeOK,
                      CallsAreValidated, tables, calls
  <2> QED BY <1>1, <1>2, <1>7, <2>1 DEF NoOrphans, tables, vars
<1> QED BY <1>3, <1>4, <1>5, <1>6, <1>7 DEF Next

-----------------------------------------------------------------------------
(* The scripts                                                             *)

DemoUpsert(d, looksUp) ==
  UpsertUser(DemoUsers[d].email, DemoUsers[d].role, DemoUsers[d].hotelId, looksUp)

UserStatement ==
  [table : {"user"}, email : STRING, role : Role, hotelId : Hotels \cup {NoHotel},
   looksUp : BOOLEAN]

AccountStatement ==
  {s \in UserStatement :
     \/ s.email = SuperAdminEmail /\ s.role = "SUPER_ADMIN" /\ s.hotelId = NoHotel
     \/ \E d \in DOMAIN DemoUsers : /\ s.email = DemoUsers[d].email
                                    /\ s.role = DemoUsers[d].role
                                    /\ s.hotelId = DemoUsers[d].hotelId}

KnownStatement ==
  AccountStatement
    \cup [table : {"hotel"}, id : DOMAIN SeedHotel]
    \cup [table : {"room"}, id : DOMAIN SeedRoom]
    \cup {FindHotels}

(* The hotels are written before they are looked up, and looked up before  *)
(* the rooms are written.                                                  *)
LookedUpLast(s) ==
  \A i, j \in DOMAIN s : i < j /\ s[i].table = "hotels" => s[j].table # "hotel"

RoomsLookedUp(s) ==
  \A i \in DOMAIN s : s[i].table = "room" => \E j \in 1 .. i - 1 : s[j].table = "hotels"

InOrder(s) == s \in Seq(KnownStatement) /\ LookedUpLast(s) /\ RoomsLookedUp(s)

(* The elements of a concatenation.                                        *)
LEMMA ConcatElements ==
  ASSUME NEW S, NEW s \in Seq(S), NEW t \in Seq(S)
  PROVE  /\ s \o t \in Seq(S)
         /\ \A i \in DOMAIN s : i \in DOMAIN (s \o t) /\ (s \o t)[i] = s[i]
         /\ \A j \in DOMAIN t : /\ Len(s) + j \in DOMAIN (s \o t)
                                /\ (s \o t)[Len(s) + j] = t[j]
         /\ \A i \in DOMAIN (s \o t) : i \in DOMAIN s \/ \E j \in DOMAIN t : i = Len(s) + j
<1>1. /\ DOMAIN s = 1 .. Len(s) /\ DOMAIN t = 1 .. Len(t)
      /\ Len(s) \in Nat /\ Len(t) \in Nat
  BY LenProperties
<1>2. /\ s \o t \in Seq(S) /\ Len(s \o t) = Len(s) + Len(t)
      /\ \A i \in 1 .. Len(s) + Len(t) :
           (s \o t)[i] = IF i <= Len(s) THEN s[i] ELSE t[i - Len(s)]
  BY ConcatProperties
<1>3. DOMAIN (s \o t) = 1 .. Len(s) + Len(t)
  BY <1>2, LenProperties
<1>4. \A j \in DOMAIN t : /\ Len(s) + j \in DOMAIN (s \o t)
                          /\ (s \o t)[Len(s) + j] = t[j]
  BY <1>1, <1>2, <1>3
<1>5. ASSUME NEW i \in DOMAIN (s \o t), i \notin DOMAIN s
      PROVE  \E j \in DOMAIN t : i = Len(s) + j
  <2>1. i - Len(s) \in DOMAIN t /\ i = Len(s) + (i - Len(s))
    BY <1>1, <1>3, <1>5
  <2> QED BY <2>1
<1> QED BY <1>1, <1>2, <1>3, <1>4, <1>5

(* Two scripts in order, one after the other, are in order unless a hotel  *)
(* is written after the hotels have been looked up.                        *)
LEMMA ConcatInOrder ==
  ASSUME NEW s, NEW t, InOrder(s), InOrder(t),
         \/ \A i \in DOMAIN s : s[i].table # "hotels"
         \/ \A j \in DOMAIN t : t[j].table # "hotel"
  PROVE  InOrder(s \o t)
<1> DEFINE u == s \o t
<1>1. /\ DOMAIN s = 1 .. Len(s) /\ DOMAIN t = 1 .. Len(t)
      /\ Len(s) \in Nat /\ Len(t) \in Nat
  BY LenProperties DEF InOrder
<1>2. /\ u \in Seq(KnownStatement)
      /\ \A i \in DOMAIN s : i \in DOMAIN u /\ u[i] = s[i]
      /\ \A j \in DOMAIN t : Len(s) + j \in DOMAIN u /\ u[Len(s) + j] = t[j]
      /\ \A i \in DOMAIN u : i \in DOMAIN s \/ \E j \in DOMAIN t : i = Len(s) + j
  BY ConcatElements DEF InOrder
<1> HIDE DEF u
<1>3. ASSUME NEW i \in DOMAIN u, NEW j \in DOMAIN u, i < j, u[i].table = "hotels"
      PROVE  u[j].table # "hotel"
  <2>1. CASE i \in DOMAIN s /\ j \in DOMAIN s
    BY <1>2, <1>3, <2>1 DEF InOrder, LookedUpLast
  <2>2. ASSUME i \in DOMAIN s, NEW q \in DOMAIN t, j = Len(s) + q
        PROVE  u[j].table # "hotel"
    BY <1>2, <1>3, <2>2
  <2>3. ASSUME NEW p \in DOMAIN t, i = Len(s) + p, NEW q \in DOMAIN t, j = Len(s) + q
        PROVE  u[j].table # "hotel"
    <3>1. p < q
      BY <1>1, <1>3, <2>3
    <3> QED BY <1>2, <1>3, <2>3, <3>1 DEF InOrder, LookedUpLast
  <2>4. ASSUME NEW p \in DOMAIN t, i = Len(s) + p, j \in DOMAIN s
        PROVE  FALSE
    BY <1>1, <1>3, <2>4
  <2> QED BY <1>2, <2>1, <2>2, <2>3, <2>4
<1>4. ASSUME NEW i \in DOMAIN u, u[i].table = "room"
      PROVE  \E j \in 1 .. i - 1 : u[j].table = "hotels"
  <2>1. CASE i \in DOMAIN s
    <3> PICK j \in 1 .. i - 1 : s[j].table = "hotels"
      BY <1>2, <1>4, <2>1 DEF InOrder, RoomsLookedUp
    <3>1. j \in DOMAIN s
      BY <1>1, <2>1
    <3> QED BY <1>2, <3>1
  <2>2. ASSUME NEW p \in DOMAIN t, i = Len(s) + p
        PROVE  \E j \in 1 .. i - 1 : u[j].table = "hotels"
    <3> PICK q \in 1 .. p - 1 : t[q].table = "hotels"
      BY <1>2, <1>4, <2>2 DEF InOrder, RoomsLookedUp
    <3>1. q \in DOMAIN t /\ Len(s) + q \in 1 .. i - 1
      BY <1>1, <2>2
    <3>2. u[Len(s) + q].table = "hotels"
      BY <1>2, <3>1
    <3> QED BY <3>1, <3>2
  <2> QED BY <1>2, <2>1, <2>2
<1> QED BY <1>2, <1>3, <1>4 DEF InOrder, LookedUpLast, RoomsLookedUp, u

(* One statement.                                                          *)
LEMMA OneStatement ==
  ASSUME NEW S, NEW x \in S
  PROVE  <<x>> \in Seq(S) /\ DOMAIN <<x>> = {1} /\ Len(<<x>>) = 1 /\ <<x>>[1] = x
OBVIOUS

(* Has(s, x): the statement x is one of s.                                 *)
Has(s, x) == \E i \in DOMAIN s : s[i] = x

LEMMA ConcatHas ==
  ASSUME NEW S, NEW s \in Seq(S), NEW t \in Seq(S), NEW x, Has(s, x) \/ Has(t, x)
  PROVE  Has(s \o t, x)
<1>1. /\ \A i \in DOMAIN s : i \in DOMAIN (s \o t) /\ (s \o t)[i] = s[i]
      /\ \A j \in DOMAIN t : Len(s) + j \in DOMAIN (s \o t) /\ (s \o t)[Len(s) + j] = t[j]
  BY ConcatElements
<1> QED BY <1>1 DEF Has

(* A list of statements, one for each entry of a list.                     *)
LEMMA OnePerEntry ==
  ASSUME NEW S, NEW T, NEW list \in Seq(S), NEW f, DOMAIN f = DOMAIN list,
         f = [i \in DOMAIN list |-> f[i]], \A i \in DOMAIN list : f[i] \in T
  PROVE  f \in Seq(T)
<1>1. DOMAIN list = 1 .. Len(list) /\ Len(list) \in Nat
  BY LenProperties
<1>2. f \in [1 .. Len(list) -> T]
  BY <1>1
<1> QED BY <1>1, <1>2, SeqDef

(* The lists of the seeders hold statements of their own kind.             *)
LEMMA ListsKnown ==
  /\ seedSuperAdmin \in Seq(KnownStatement)
  /\ DOMAIN seedSuperAdmin = {1}
  /\ seedSuperAdmin[1] = UpsertUser(SuperAdminEmail, "SUPER_ADMIN", NoHotel, FALSE)
  /\ SEED_HOTELS \in Seq(KnownStatement)
  /\ DOMAIN SEED_HOTELS = DOMAIN HotelOrder
  /\ \A i \in DOMAIN HotelOrder : SEED_HOTELS[i] = UpsertHotel(HotelOrder[i])
  /\ SEED_ROOMS \in Seq(KnownStatement)
  /\ DOMAIN SEED_ROOMS = DOMAIN RoomOrder
  /\ \A i \in DOMAIN RoomOrder : SEED_ROOMS[i] = UpsertRoom(RoomOrder[i])
  /\ SEED_DEMO_USERS \in Seq(KnownStatement)
  /\ DOMAIN SEED_DEMO_USERS = DOMAIN DemoUsers
  /\ \A i \in DOMAIN DemoUsers :
       SEED_DEMO_USERS[i] = DemoUpsert(i, DemoUsers[i].hotelId # NoHotel)
<1>1. /\ HotelOrder \in Seq(DOMAIN SeedHotel) /\ RoomOrder \in Seq(DOMAIN SeedRoom)
      /\ DemoUsers \in Seq(DemoUser)
  BY SeedingAssumption
<1>2. /\ \A i \in DOMAIN HotelOrder : HotelOrder[i] \in DOMAIN SeedHotel
      /\ \A i \in DOMAIN RoomOrder : RoomOrder[i] \in DOMAIN SeedRoom
  BY SeedListsAssumption
<1>3. \A i \in DOMAIN HotelOrder : UpsertHotel(HotelOrder[i]) \in KnownStatement
  BY <1>2 DEF KnownStatement, UpsertHotel
<1>4. \A i \in DOMAIN RoomOrder : UpsertRoom(RoomOrder[i]) \in KnownStatement
  BY <1>2 DEF KnownStatement, UpsertRoom
<1>5. ASSUME NEW i \in DOMAIN DemoUsers, NEW looksUp \in BOOLEAN
      PROVE  DemoUpsert(i, looksUp) \in KnownStatement
  <2>1. DemoUsers[i] \in DemoUser
    BY <1>1, ElementOfSeq, LenProperties
  <2> QED BY <2>1 DEF DemoUser, DemoUpsert, UpsertUser, KnownStatement, AccountStatement,
                      UserStatement
<1>6. UpsertUser(SuperAdminEmail, "SUPER_ADMIN", NoHotel, FALSE) \in KnownStatement
  BY SeedingAssumption DEF UpsertUser, KnownStatement, AccountStatement, UserStatement, Role
<1>7. SEED_HOTELS \in Seq(KnownStatement)
  BY <1>1, <1>3, OnePerEntry DEF SEED_HOTELS
<1>8. SEED_ROOMS \in Seq(KnownStatement)
  BY <1>1, <1>4, OnePerEntry DEF SEED_ROOMS
<1>9. SEED_DEMO_USERS \in Seq(KnownStatement)
  BY <1>1, <1>5, OnePerEntry DEF SEED_DEMO_USERS, DemoUpsert
<1>10. /\ seedSuperAdmin \in Seq(KnownStatement)
       /\ DOMAIN seedSuperAdmin = {1}
       /\ seedSuperAdmin[1] = UpsertUser(SuperAdminEmail, "SUPER_ADMIN", NoHotel, FALSE)
  BY <1>6, OneStatement DEF seedSuperAdmin
<1> QED BY <1>7, <1>8, <1>9, <1>10 DEF SEED_HOTELS, SEED_ROOMS, SEED_DEMO_USERS, DemoUpsert

(* The list of the rooms, with the look-up before it.                      *)
LEMMA RoomsInOrder ==
  /\ InOrder(seedRooms)
  /\ \A i \in DOMAIN seedRooms : seedRooms[i].table \in {"hotels", "room"}
  /\ \A i \in DOMAIN SEED_ROOMS : \E j \in DOMAIN seedRooms : seedRooms[j] = SEED_ROOMS[i]
<1> DEFINE find == <<FindHotels>>
<1>1. /\ find \in Seq(KnownStatement) /\ DOMAIN find = {1} /\ Len(find) = 1
      /\ find[1] = FindHotels
  BY OneStatement DEF KnownStatement
<1>2. /\ SEED_ROOMS \in Seq(KnownStatement)
      /\ \A i \in DOMAIN SEED_ROOMS : SEED_ROOMS[i].table = "room"
      /\ DOMAIN SEED_ROOMS = 1 .. Len(SEED_ROOMS) /\ Len(SEED_ROOMS) \in Nat
  BY ListsKnown, LenProperties DEF UpsertRoom
<1>3. /\ seedRooms \in Seq(KnownStatement)
      /\ 1 \in DOMAIN seedRooms /\ seedRooms[1] = FindHotels
      /\ \A j \in DOMAIN SEED_ROOMS : /\ 1 + j \in DOMAIN seedRooms
                                      /\ seedRooms[1 + j] = SEED_ROOMS[j]
      /\ \A i \in DOMAIN seedRooms : i = 1 \/ \E j \in DOMAIN SEED_ROOMS : i = 1 + j
  <2>1. seedRooms = find \o SEED_ROOMS
    BY DEF seedRooms
  <2> HIDE DEF find
  <2>2. find \in Seq(KnownStatement) /\ SEED_ROOMS \in Seq(KnownStatement)
    BY <1>1, <1>2
  <2>3. /\ find \o SEED_ROOMS \in Seq(KnownStatement)
        /\ \A i \in DOMAIN find :
             i \in DOMAIN (find \o SEED_ROOMS) /\ (find \o SEED_ROOMS)[i] = find[i]
        /\ \A j \in DOMAIN SEED_ROOMS :
             /\ Len(find) + j \in DOMAIN (find \o SEED_ROOMS)
             /\ (find \o SEED_ROOMS)[Len(find) + j] = SEED_ROOMS[j]
        /\ \A i \in DOMAIN (find \o SEED_ROOMS) :
             i \in DOMAIN find \/ \E j \in DOMAIN SEED_ROOMS : i = Len(find) + j
    BY <2>2, ConcatElements
  <2> QED BY <1>1, <2>1, <2>3
<1>4. FindHotels.table = "hotels"
  BY DEF FindHotels
<1>5. \A i \in DOMAIN seedRooms : IF i = 1 THEN seedRooms[i].table = "hotels"
                                           ELSE seedRooms[i].table = "room" /\ 1 \in 1 .. i - 1
  BY <1>2, <1>3, <1>4
<1> QED BY <1>3, <1>4, <1>5 DEF InOrder, LookedUpLast, RoomsLookedUp

(* Every script has its statements in order.                               *)
LEMMA ScriptsInOrder == \A script \in Scripts : InOrder(script)
<1>1. /\ InOrder(seedSuperAdmin)
      /\ \A i \in DOMAIN seedSuperAdmin : seedSuperAdmin[i].table = "user"
  BY ListsKnown DEF InOrder, LookedUpLast, RoomsLookedUp, UpsertUser
<1>2. /\ InOrder(SEED_HOTELS)
      /\ \A i \in DOMAIN SEED_HOTELS : SEED_HOTELS[i].table = "hotel"
  BY ListsKnown DEF InOrder, LookedUpLast, RoomsLookedUp, UpsertHotel
<1>3. /\ InOrder(SEED_DEMO_USERS)
      /\ \A i \in DOMAIN SEED_DEMO_USERS : SEED_DEMO_USERS[i].table = "user"
  BY ListsKnown DEF InOrder, LookedUpLast, RoomsLookedUp, DemoUpsert, UpsertUser
<1>4. InOrder(SEED_HOTELS \o seedRooms)
  BY <1>2, RoomsInOrder, ConcatInOrder
<1>5. InOrder(seedSuperAdmin \o SEED_HOTELS)
  BY <1>1, <1>2, ConcatInOrder
<1>6. InOrder(seedSuperAdmin \o SEED_HOTELS \o seedRooms)
  BY <1>5, RoomsInOrder, ConcatInOrder
<1>7. InOrder(runSeeders)
  BY <1>3, <1>6, ConcatInOrder DEF runSeeders
<1> QED BY <1>2, <1>4, <1>7 DEF Scripts

(* The full seed has a statement for everything it is about.               *)
LEMMA RunSeedersComplete ==
  /\ Has(runSeeders, UpsertUser(SuperAdminEmail, "SUPER_ADMIN", NoHotel, FALSE))
  /\ \A h \in DOMAIN SeedHotel : Has(runSeeders, UpsertHotel(h))
  /\ \A r \in DOMAIN SeedRoom : Has(runSeeders, UpsertRoom(r))
  /\ \A d \in DOMAIN DemoUsers : \E looksUp \in BOOLEAN : Has(runSeeders, DemoUpsert(d, looksUp))
<1>1. /\ seedSuperAdmin \in Seq(KnownStatement) /\ SEED_HOTELS \in Seq(KnownStatement)
      /\ seedRooms \in Seq(KnownStatement) /\ SEED_DEMO_USERS \in Seq(KnownStatement)
      /\ seedSuperAdmin \o SEED_HOTELS \in Seq(KnownStatement)
      /\ seedSuperAdmin \o SEED_HOTELS \o seedRooms \in Seq(KnownStatement)
  BY ListsKnown, RoomsInOrder, ConcatElements DEF InOrder
<1>2. ASSUME NEW x, Has(seedSuperAdmin, x) \/ Has(SEED_HOTELS, x)
      PROVE  Has(runSeeders, x)
  <2>1. Has(seedSuperAdmin \o SEED_HOTELS, x)
    BY <1>1, <1>2, ConcatHas
  <2>2. Has(seedSuperAdmin \o SEED_HOTELS \o seedRooms, x)
    BY <1>1, <2>1, ConcatHas
  <2> QED BY <1>1, <2>2, ConcatHas DEF runSeeders
<1>3. ASSUME NEW x, Has(seedRooms, x)
      PROVE  Has(runSeeders, x)
  <2>1. Has(seedSuperAdmin \o SEED_HOTELS \o seedRooms, x)
    BY <1>1, <1>3, ConcatHas
  <2> QED BY <1>1, <2>1, ConcatHas DEF runSeeders
<1>4. ASSUME NEW x, Has(SEED_DEMO_USERS, x)
      PROVE  Has(runSeeders, x)
  BY <1>1, <1>4, ConcatHas DEF runSeeders
<1>5. Has(seedSuperAdmin, UpsertUser(SuperAdminEmail, "SUPER_ADMIN", NoHotel, FALSE))
  BY ListsKnown DEF Has
<1>6. \A h \in DOMAIN SeedHotel : Has(SEED_HOTELS, UpsertHotel(h))
  BY ListsKnown, SeedListsAssumption DEF Has
<1>7. \A r \in DOMAIN SeedRoom : Has(seedRooms, UpsertRoom(r))
  BY ListsKnown, RoomsInOrder, SeedListsAssumption DEF Has
<1>8. ASSUME NEW d \in DOMAIN DemoUsers
      PROVE  Has(SEED_DEMO_USERS, DemoUpsert(d, DemoUsers[d].hotelId # NoHotel))
  BY ListsKnown DEF Has
<1> QED BY <1>2, <1>3, <1>4, <1>5, <1>6, <1>7, <1>8

-----------------------------------------------------------------------------
(* What the statements of a running script do to the tables                *)

(* The look-up of the hotels that is done or yet to come finds one at      *)
(* least, and all of them when nobody interferes.                          *)
HotelsKnown == found # {} /\ (undisturbed => found = DOMAIN SeedHotel)

ScriptInv ==
  /\ todo \in Seq(KnownStatement)
  /\ found \subseteq DOMAIN SeedHotel
  /\ undisturbed \in BOOLEAN
  /\ LookedUpLast(todo)
  /\ HotelsKnown \/ RoomsLookedUp(todo)

(* The statement a script is at is one of its kind.                        *)
LEMMA HeadKnown ==
  ASSUME ScriptInv, todo # <<>>
  PROVE  /\ Head(todo) \in KnownStatement /\ 1 \in DOMAIN todo /\ todo[1] = Head(todo)
         /\ Head(todo).table = "hotel" =>
              Head(todo).id \in DOMAIN SeedHotel /\ Head(todo) = UpsertHotel(Head(todo).id)
         /\ Head(todo).table = "room" =>
              /\ Head(todo).id \in DOMAIN SeedRoom /\ Head(todo) = UpsertRoom(Head(todo).id)
              /\ HotelsKnown
         /\ Head(todo).table = "hotels" => Head(todo) = FindHotels
         /\ Head(todo).table = "user" => Head(todo) \in AccountStatement
<1>1. Head(todo) \in KnownStatement /\ 1 \in DOMAIN todo /\ todo[1] = Head(todo)
  BY HeadTailProperties, EmptySeq DEF ScriptInv
<1>2. \A x \in AccountStatement : x.table = "user"
  BY DEF AccountStatement, UserStatement
<1>3. ~RoomsLookedUp(todo) \/ todo[1].table # "room"
  BY <1>1 DEF RoomsLookedUp
<1> QED BY <1>1, <1>2, <1>3 DEF ScriptInv, KnownStatement, UpsertHotel, UpsertRoom, FindHotels

(* The statements about accounts give a hotel to managers only, and the    *)
(* super admin nothing but what they are.                                  *)
LEMMA AccountStatements ==
  /\ \A s \in AccountStatement :
       /\ s.role \in Role /\ s.hotelId \in Hotels \cup {NoHotel}
       /\ s.hotelId # NoHotel => s.role = "HOTEL_MANAGER"
       /\ s.email = SuperAdminEmail => s.role = "SUPER_ADMIN" /\ s.hotelId = NoHotel
  /\ \A s, t \in AccountStatement :
       s.email = t.email => s.role = t.role /\ s.hotelId = t.hotelId
<1>1. \A d \in DOMAIN DemoUsers : DemoUsers[d].hotelId # NoHotel =>
                                  DemoUsers[d].role = "HOTEL_MANAGER"
  BY SeedingAssumption
<1> QED BY <1>1, SeedListsAssumption DEF AccountStatement, UserStatement

(* One turn of the loop of seedHotels.                                     *)
LEMMA SeedHotelSafe ==
  ASSUME TablesInv, ScriptInv, SeedHotelRow, UNCHANGED <<now, calls, catalog, task, enrolled>>
  PROVE  TablesInv'
<1> USE DEF catalog
<1> DEFINE h == Head(todo).id
<1>1. /\ h \in DOMAIN SeedHotel /\ hotel' = Put(hotel, h, SeedHotel[h])
      /\ UNCHANGED <<room, user, booking, payment>>
  BY HeadKnown DEF SeedHotelRow, Running, SeededHotel
<1> HIDE DEF h
<1>2. h \in Hotels /\ SeedHotel[h] \in HotelRow /\ h \in issued
  BY <1>1, TablesAssumption DEF IsTable, TablesInv, SeedsIssued
<1>3. IsTable(hotel', Hotels, HotelRow)
  BY <1>1, <1>2, PutTable DEF TablesInv, TypeInv, TablesTypeOK
<1>4. DOMAIN hotel' = DOMAIN hotel \cup {h}
  BY <1>1 DEF Put
<1>5. TypeInv /\ NoOrphans
  BY DEF TablesInv
<1>6. CatalogTypeOK'
  BY <1>1, <1>2, <1>4, <1>5 DEF TypeInv, CatalogTypeOK
<1>7. IsTable(room', Rooms, RoomRow) /\ IsTable(user', Users, UserRow)
  BY <1>1, <1>5 DEF TypeInv, TablesTypeOK
<1>8. TypeInv'
  BY <1>1, <1>3, <1>5, <1>6, <1>7, CatalogStepTyped
<1>9. NoOrphans'
  BY <1>1, <1>4, <1>5 DEF NoOrphans
<1>10. AccountsInv' /\ EmailsUnique' /\ TasksInv'
  BY <1>1, <1>9, AccountsFreed DEF staff
<1> QED BY <1>8, <1>9, <1>10 DEF TablesInv, SeedsIssued

(* One turn of the loop of seedRooms: the hotel was found, and is there    *)
(* still when the room is accepted.                                        *)
LEMMA SeedRoomSafe ==
  ASSUME TablesInv, ScriptInv, SeedRoomRow, UNCHANGED <<now, calls, catalog, task, enrolled>>
  PROVE  TablesInv'
<1> USE DEF catalog
<1> DEFINE r == Head(todo).id
<1>1. TypeInv /\ NoOrphans
  BY DEF TablesInv
<1>2. UNCHANGED <<hotel, user, booking, payment>>
  BY DEF SeedRoomRow
<1>3. ASSUME TypeInv', NoOrphans' PROVE TablesInv'
  <2>1. AccountsInv' /\ EmailsUnique' /\ TasksInv'
    BY <1>2, <1>3, AccountsFreed DEF staff
  <2> QED BY <1>3, <2>1 DEF TablesInv, SeedsIssued
<1>4. CASE UNCHANGED room
  <2>1. TypeInv'
    BY <1>1, <1>2, <1>4 DEF TypeInv, TablesTypeOK, BookingsTypeOK, CatalogTypeOK,
                            CallsAreValidated, calls
  <2> QED BY <1>1, <1>2, <1>3, <1>4, <2>1 DEF NoOrphans
<1>5. CASE room' = Put(room, r, SeededRoom(r)) /\ RoomAccepted(r)
  <2>1. r \in DOMAIN SeedRoom /\ SeedRoom[r].hotelId \in DOMAIN hotel
    BY <1>5, HeadKnown DEF SeedRoomRow, Running, RoomAccepted, RoomParentExists
  <2> HIDE DEF r
  <2>2. r \in Rooms /\ SeedRoom[r] \in RoomRow /\ r \in issued
    BY <2>1, TablesAssumption DEF IsTable, TablesInv, SeedsIssued
  <2>3. SeededRoom(r) \in RoomRow /\ SeededRoom(r).hotelId = SeedRoom[r].hotelId
    BY <2>2 DEF SeededRoom, RoomRow
  <2>4. IsTable(room', Rooms, RoomRow)
    BY <1>1, <1>5, <2>2, <2>3, PutTable DEF TypeInv, TablesTypeOK
  <2>5. /\ DOMAIN room' = DOMAIN room \cup {r} /\ room'[r] = SeededRoom(r)
        /\ \A q \in DOMAIN room : q # r => room'[q] = room[q]
    BY <1>5 DEF Put
  <2>6. CatalogTypeOK'
    BY <1>1, <1>2, <2>2, <2>5 DEF TypeInv, CatalogTypeOK
  <2>7. IsTable(hotel', Hotels, HotelRow) /\ IsTable(user', Users, UserRow)
    BY <1>1, <1>2 DEF TypeInv, TablesTypeOK
  <2>8. TypeInv'
    BY <1>1, <1>2, <2>4, <2>6, <2>7, CatalogStepTyped
  <2>9. NoOrphans'
    BY <1>1, <1>2, <2>1, <2>3, <2>5 DEF NoOrphans
  <2> QED BY <1>3, <2>8, <2>9
<1> QED BY <1>4, <1>5 DEF SeedRoomRow

(* The upserts of accounts: whoever else has had the hotel, the address of *)
(* the super admin belongs to no other statement.                          *)
LEMMA SeedUserWrites ==
  ASSUME TablesInv, ScriptInv, SeedUserRow, UNCHANGED <<now, task>>
  PROVE  AccountsEffect /\ TasksInv' /\ EmailsUnique'
<1> DEFINE s == Head(todo)
<1>1. /\ s \in AccountStatement
      /\ UNCHANGED <<hotel, room, booking, payment>>
  BY HeadKnown DEF SeedUserRow, Running
<1>2. /\ s.role \in Role /\ s.hotelId \in Hotels \cup {NoHotel}
      /\ s.hotelId # NoHotel => s.role = "HOTEL_MANAGER"
      /\ s.email = SuperAdminEmail => s.role = "SUPER_ADMIN" /\ s.hotelId = NoHotel
  BY <1>1, AccountStatements
<1>3. /\ enrolled \subseteq Users /\ DOMAIN user \subseteq enrolled
      /\ \A u \in DOMAIN user : user[u] \in UserRow
      /\ EmailsUnique /\ TasksInv
  BY DEF TablesInv, TypeInv, TablesTypeOK, IsTable, AccountsInv, EnrolledTyped
<1>4. ASSUME enrolled \subseteq enrolled' PROVE TasksInv'
  BY <1>3, <1>4 DEF TasksInv, TasksSpareSuperAdmin, TaskSpares
<1>5. PICK u \in Users : SeedUserUpdate(u) \/ SeedUserInsert(u)
  BY DEF SeedUserRow
<1>6. CASE UNCHANGED <<user, enrolled>>
  <2>1. AccountsEffect /\ EmailsUnique'
    BY <1>1, <1>3, <1>6 DEF AccountsEffect, EmailsUnique
  <2> QED BY <1>4, <1>6, <2>1
<1>7. ASSUME NEW row \in UserRow, row.role = s.role, row.hotelId = s.hotelId, RowAccepted(s, u),
             user' = Put(user, u, row), enrolled' = enrolled \cup {u}, Email[u] = s.email,
             \A v \in DOMAIN user : v # u => Email[v] # s.email,
             row.mustChangePassword => u \in DOMAIN user /\ user[u].mustChangePassword
      PROVE  AccountsEffect /\ TasksInv' /\ EmailsUnique'
  <2>1. WritesAccount(u, row)
    BY <1>2, <1>7 DEF WritesAccount, Assigned, RowAccepted
  <2>2. AccountsEffect
    BY <1>1, <1>7, <2>1 DEF AccountsEffect
  <2>3. EmailsUnique'
    <3>1. DOMAIN user' = DOMAIN user \cup {u}
      BY <1>7 DEF Put
    <3> QED BY <1>3, <1>7, <3>1 DEF EmailsUnique
  <2> QED BY <1>4, <1>7, <2>2, <2>3
<1>8. CASE SeedUserUpdate(u)
  <2> DEFINE row == [user[u] EXCEPT !.role = s.role, !.hotelId = s.hotelId]
  <2>1. u \in DOMAIN user /\ Email[u] = s.email /\ UNCHANGED enrolled
    BY <1>8 DEF SeedUserUpdate, HasEmail
  <2>2. CASE UNCHANGED user
    BY <1>6, <2>1, <2>2
  <2>3. CASE RowAccepted(s, u) /\ user' = Put(user, u, row)
    <3>1. /\ row \in UserRow /\ row.role = s.role /\ row.hotelId = s.hotelId
          /\ row.mustChangePassword = user[u].mustChangePassword
      BY <1>2, <1>3, <2>1 DEF UserRow
    <3>2. \A v \in DOMAIN user : v # u => Email[v] # s.email
      BY <1>3, <2>1 DEF EmailsUnique
    <3>3. enrolled' = enrolled \cup {u}
      BY <1>3, <2>1
    <3> HIDE DEF row, s
    <3> QED BY <1>7, <2>1, <2>3, <3>1, <3>2, <3>3
  <2> QED BY <1>8, <2>2, <2>3 DEF SeedUserUpdate, UpsertAccepted
<1>9. CASE SeedUserInsert(u)
  <2> DEFINE row == [role |-> s.role, hotelId |-> s.hotelId, mustChangePassword |-> FALSE]
  <2>1. Email[u] = s.email /\ \A v \in DOMAIN user : Email[v] # s.email
    BY <1>9 DEF SeedUserInsert, HasEmail
  <2>2. /\ row \in UserRow /\ row.role = s.role /\ row.hotelId = s.hotelId
        /\ ~row.mustChangePassword
    BY <1>2 DEF UserRow
  <2>3. CASE RowAccepted(s, u) /\ user' = Put(user, u, row) /\ enrolled' = enrolled \cup {u}
    <3> HIDE DEF row, s
    <3> QED BY <1>7, <2>1, <2>2, <2>3
  <2> QED BY <1>6, <1>9, <2>3 DEF SeedUserInsert, UpsertAccepted
<1> QED BY <1>5, <1>8, <1>9

LEMMA SeedUserSafe ==
  ASSUME TablesInv, ScriptInv, SeedUserRow, UNCHANGED <<now, calls, catalog, task>>
  PROVE  TablesInv'
BY SeedUserWrites, AccountsEffectSafe

-----------------------------------------------------------------------------
(* What a full seed has brought back                                       *)

(* The statement t is s, whether its hotel has been looked up or not.      *)
Matches(t, s) ==
  t = s \/ (t \in AccountStatement /\ s \in AccountStatement /\ t.email = s.email)

(* What the statement s is about is in the tables.                         *)
Fulfilled(s) ==
  /\ s.table = "hotel" => s.id \in DOMAIN hotel /\ hotel[s.id] = SeedHotel[s.id]
  /\ s.table = "room" => s.id \in DOMAIN room /\ room[s.id] = SeededRoom(s.id)
  /\ s.table = "user" => HasAccount(s.email, s.role, s.hotelId)

(* While nobody interferes, each statement of the full seed has been       *)
(* fulfilled or is yet to come.                                            *)
RestoredInv ==
  undisturbed => \A i \in DOMAIN runSeeders :
    Fulfilled(runSeeders[i]) \/ \E j \in DOMAIN todo : Matches(todo[j], runSeeders[i])

SeedInv == TablesInv /\ ScriptInv /\ RestoredInv

(* The script goes on to its next statement.                               *)
LEMMA TailInOrder ==
  ASSUME ScriptInv, todo # <<>>, todo' = Tail(todo)
  PROVE  /\ todo' \in Seq(KnownStatement)
         /\ LookedUpLast(todo')
         /\ Head(todo).table # "hotels" /\ RoomsLookedUp(todo) => RoomsLookedUp(todo')
         /\ \A j \in DOMAIN todo : j = 1 \/ (j - 1 \in DOMAIN todo' /\ todo'[j - 1] = todo[j])
<1>1. /\ todo \in Seq(KnownStatement) /\ todo' \in Seq(KnownStatement)
      /\ Len(todo) \in Nat /\ Len(todo') = Len(todo) - 1
      /\ \A i \in 1 .. Len(todo') : todo'[i] = todo[i + 1]
      /\ todo[1] = Head(todo)
  BY HeadTailProperties, LenProperties DEF ScriptInv
<1>2. DOMAIN todo = 1 .. Len(todo) /\ DOMAIN todo' = 1 .. Len(todo')
  BY <1>1, LenProperties
<1>3. LookedUpLast(todo')
  <2>1. \A i, j \in DOMAIN todo' : i < j => /\ i + 1 \in DOMAIN todo /\ j + 1 \in DOMAIN todo
                                            /\ i + 1 < j + 1
    BY <1>1, <1>2
  <2>2. LookedUpLast(todo)
    BY DEF ScriptInv
  <2> QED BY <1>1, <1>2, <2>1, <2>2 DEF LookedUpLast
<1>4. ASSUME Head(todo).table # "hotels", RoomsLookedUp(todo),
             NEW i \in DOMAIN todo', todo'[i].table = "room"
      PROVE  \E j \in 1 .. i - 1 : todo'[j].table = "hotels"
  <2>1. i + 1 \in DOMAIN todo /\ todo[i + 1].table = "room"
    BY <1>1, <1>2, <1>4
  <2> PICK j \in 1 .. (i + 1) - 1 : todo[j].table = "hotels"
    BY <1>4, <2>1 DEF RoomsLookedUp
  <2>2. j # 1
    BY <1>1, <1>4
  <2>3. j - 1 \in 1 .. i - 1 /\ j - 1 \in DOMAIN todo'
    BY <1>2, <2>2
  <2>4. todo'[j - 1] = todo[j]
    BY <1>1, <1>2, <2>3
  <2> QED BY <2>3, <2>4
<1>5. \A j \in DOMAIN todo : j = 1 \/ (j - 1 \in DOMAIN todo' /\ todo'[j - 1] = todo[j])
  BY <1>1, <1>2
<1> QED BY <1>1, <1>3, <1>4, <1>5 DEF RoomsLookedUp

(* A statement that has been carried out leaves what others have brought   *)
(* back, and brings back its own.                                          *)
LEMMA StatementRestores ==
  ASSUME ScriptInv, RestoredInv, todo # <<>>, todo' = Tail(todo), UNCHANGED undisturbed,
         undisturbed => \A s \in KnownStatement :
                          Fulfilled(s) \/ Matches(Head(todo), s) => Fulfilled(s)'
  PROVE  RestoredInv'
<1>1. \A i \in DOMAIN runSeeders : runSeeders[i] \in KnownStatement
  <2>1. runSeeders \in Seq(KnownStatement)
    BY ScriptsInOrder DEF Scripts, InOrder
  <2> QED BY <2>1, ElementOfSeq, LenProperties
<1>2. SUFFICES ASSUME undisturbed, NEW i \in DOMAIN runSeeders
               PROVE  \/ Fulfilled(runSeeders[i])'
                      \/ \E j \in DOMAIN todo' : Matches(todo'[j], runSeeders[i])
  BY DEF RestoredInv
<1>3. CASE Fulfilled(runSeeders[i])
  BY <1>1, <1>2, <1>3
<1>4. ASSUME NEW j \in DOMAIN todo, Matches(todo[j], runSeeders[i])
      PROVE  \/ Fulfilled(runSeeders[i])'
             \/ \E q \in DOMAIN todo' : Matches(todo'[q], runSeeders[i])
  <2>1. CASE j = 1
    BY <1>1, <1>2, <1>4, <2>1, HeadKnown
  <2>2. CASE j # 1
    <3>1. j - 1 \in DOMAIN todo' /\ todo'[j - 1] = todo[j]
      BY <2>2, TailInOrder
    <3> QED BY <1>4, <3>1
  <2> QED BY <2>1, <2>2
<1> QED BY <1>2, <1>3, <1>4 DEF RestoredInv

(* A script that stops claims nothing.                                     *)
LEMMA StopSafe ==
  ASSUME Stop
  PROVE  ScriptInv' /\ RestoredInv'
<1>1. todo' \in Seq(KnownStatement) /\ DOMAIN todo' = {}
  BY EmptySeq DEF Stop
<1>2. LookedUpLast(todo') /\ RoomsLookedUp(todo')
  BY <1>1 DEF LookedUpLast, RoomsLookedUp
<1> QED BY <1>1, <1>2 DEF Stop, ScriptInv, RestoredInv

(* Going on to the next statement keeps the script in order.               *)
LEMMA AdvanceInOrder ==
  ASSUME ScriptInv, todo # <<>>, Head(todo).table # "hotels", Advance
  PROVE  ScriptInv'
BY TailInOrder DEF Advance, ScriptInv, HotelsKnown

(* The hotels, the accounts and the rooms.                                 *)
LEMMA SeedHotelRestores ==
  ASSUME ScriptInv, RestoredInv, SeedHotelRow
  PROVE  ScriptInv' /\ RestoredInv'
<1> DEFINE h == Head(todo).id
<1>1. /\ todo # <<>> /\ Head(todo) = UpsertHotel(h) /\ Advance
      /\ Head(todo).table = "hotel"
      /\ hotel' = Put(hotel, h, SeedHotel[h])
      /\ UNCHANGED <<room, user>>
  BY HeadKnown DEF SeedHotelRow, Running, SeededHotel
<1>2. ASSUME NEW s \in KnownStatement, Fulfilled(s) \/ Matches(Head(todo), s)
      PROVE  Fulfilled(s)'
  <2>1. h \in DOMAIN hotel' /\ hotel'[h] = SeedHotel[h]
        /\ \A g \in DOMAIN hotel : g # h => g \in DOMAIN hotel' /\ hotel'[g] = hotel[g]
    BY <1>1 DEF Put
  <2>2. CASE s = Head(todo)
    <3>1. s.table = "hotel" /\ s.id = h
      BY <1>1, <2>2
    <3> QED BY <2>1, <3>1 DEF Fulfilled
  <2>3. CASE Fulfilled(s)
    BY <1>1, <2>1, <2>3 DEF Fulfilled, HasAccount
  <2>4. Head(todo) \notin AccountStatement
    BY <1>1 DEF AccountStatement, UserStatement
  <2> QED BY <1>2, <2>2, <2>3, <2>4 DEF Matches
<1> QED BY <1>1, <1>2, AdvanceInOrder, StatementRestores DEF Advance

LEMMA SeedRoomRestores ==
  ASSUME ScriptInv, RestoredInv, SeedRoomRow
  PROVE  ScriptInv' /\ RestoredInv'
<1> DEFINE r == Head(todo).id
<1>1. /\ todo # <<>> /\ Head(todo) = UpsertRoom(r) /\ r \in DOMAIN SeedRoom /\ HotelsKnown
      /\ Head(todo).table = "room"
      /\ UNCHANGED <<hotel, user>>
  BY HeadKnown DEF SeedRoomRow, Running
<1>2. CASE Stop
  BY <1>2, StopSafe
<1>3. CASE Advance /\ room' = Put(room, r, SeededRoom(r))
  <2>1. ASSUME NEW s \in KnownStatement, Fulfilled(s) \/ Matches(Head(todo), s)
        PROVE  Fulfilled(s)'
    <3>1. r \in DOMAIN room' /\ room'[r] = SeededRoom(r)
          /\ \A q \in DOMAIN room : q # r => q \in DOMAIN room' /\ room'[q] = room[q]
      BY <1>3 DEF Put
    <3>2. CASE s = Head(todo)
      <4>1. s.table = "room" /\ s.id = r
        BY <1>1, <3>2
      <4> QED BY <3>1, <4>1 DEF Fulfilled
    <3>3. CASE Fulfilled(s)
      BY <1>1, <3>1, <3>3 DEF Fulfilled, HasAccount
    <3>4. Head(todo) \notin AccountStatement
      BY <1>1 DEF AccountStatement, UserStatement
    <3> QED BY <2>1, <3>2, <3>3, <3>4 DEF Matches
  <2> QED BY <1>1, <1>3, <2>1, AdvanceInOrder, StatementRestores DEF Advance
<1>4. CASE SeedRoom[r].hotelId \notin found /\ Advance
  <2>1. SeedRoom[r].hotelId \in DOMAIN SeedHotel
    BY <1>1, TablesAssumption
  <2>2. ~undisturbed
    BY <1>1, <1>4, <2>1 DEF HotelsKnown
  <2> QED BY <1>1, <1>4, <2>2, AdvanceInOrder DEF Advance, RestoredInv
<1> QED BY <1>2, <1>3, <1>4 DEF SeedRoomRow

LEMMA SeedUserRestores ==
  ASSUME ScriptInv, RestoredInv, SeedUserRow, IsTable(user, Users, UserRow)
  PROVE  ScriptInv' /\ RestoredInv'
<1> DEFINE t == Head(todo)
<1>1. /\ todo # <<>> /\ t \in AccountStatement /\ t.table = "user"
      /\ UNCHANGED <<hotel, room>>
  BY HeadKnown DEF SeedUserRow, Running
<1> PICK u \in Users : SeedUserUpdate(u) \/ SeedUserInsert(u)
  BY DEF SeedUserRow
<1>2. CASE Stop
  BY <1>2, StopSafe
<1>3. ASSUME Advance, Email[u] = t.email, NEW row, row.role = t.role, row.hotelId = t.hotelId,
             user' = Put(user, u, row)
      PROVE  ScriptInv' /\ RestoredInv'
  <2>1. /\ u \in DOMAIN user' /\ user'[u] = row
        /\ \A v \in DOMAIN user : v # u => v \in DOMAIN user' /\ user'[v] = user[v]
    BY <1>3 DEF Put
  <2>2. ASSUME NEW s \in KnownStatement, Fulfilled(s) \/ Matches(t, s)
        PROVE  Fulfilled(s)'
    <3>1. CASE s.table # "user"
      <4>1. Fulfilled(s)
        BY <1>1, <2>2, <3>1 DEF Matches, AccountStatement, UserStatement
      <4> QED BY <1>1, <3>1, <4>1 DEF Fulfilled
    <3>2. CASE s.table = "user"
      <4>1. s \in AccountStatement
        BY <3>2 DEF KnownStatement, FindHotels
      <4>2. CASE s.email = t.email
        <5>1. row.role = s.role /\ row.hotelId = s.hotelId
          BY <1>1, <1>3, <4>1, <4>2, AccountStatements
        <5>2. HasAccount(s.email, s.role, s.hotelId)'
          BY <1>3, <2>1, <4>2, <5>1 DEF HasAccount
        <5> QED BY <3>2, <5>2 DEF Fulfilled
      <4>3. CASE s.email # t.email
        <5>1. HasAccount(s.email, s.role, s.hotelId)
          BY <2>2, <3>2, <4>3 DEF Matches, Fulfilled
        <5> PICK v \in DOMAIN user :
              Email[v] = s.email /\ user[v].role = s.role /\ user[v].hotelId = s.hotelId
          BY <5>1 DEF HasAccount
        <5>2. v # u
          BY <1>3, <4>3
        <5>3. HasAccount(s.email, s.role, s.hotelId)'
          BY <2>1, <5>2 DEF HasAccount
        <5> QED BY <3>2, <5>3 DEF Fulfilled
      <4> QED BY <4>2, <4>3
    <3> QED BY <3>1, <3>2
  <2> QED BY <1>1, <1>3, <2>2, AdvanceInOrder, StatementRestores DEF Advance
<1>4. CASE SeedUserUpdate(u)
  <2> DEFINE row == [user[u] EXCEPT !.role = t.role, !.hotelId = t.hotelId]
  <2>1. user[u] \in UserRow /\ Email[u] = t.email
    BY <1>4 DEF SeedUserUpdate, HasEmail, IsTable
  <2>2. row.role = t.role /\ row.hotelId = t.hotelId
    BY <2>1 DEF UserRow
  <2>3. Stop \/ (Advance /\ user' = Put(user, u, row))
    BY <1>4 DEF SeedUserUpdate
  <2> HIDE DEF row, t
  <2> QED BY <1>2, <1>3, <2>1, <2>2, <2>3
<1>5. CASE SeedUserInsert(u)
  <2> DEFINE row == [role |-> t.role, hotelId |-> t.hotelId, mustChangePassword |-> FALSE]
  <2>1. Email[u] = t.email /\ row.role = t.role /\ row.hotelId = t.hotelId
    BY <1>5 DEF SeedUserInsert
  <2>2. Stop \/ (Advance /\ user' = Put(user, u, row))
    BY <1>5 DEF SeedUserInsert
  <2> HIDE DEF row, t
  <2> QED BY <1>2, <1>3, <2>1, <2>2
<1> QED BY <1>4, <1>5

(* The look-ups: when nobody interferes the hotels have all been written   *)
(* by the time they are looked up.                                         *)
LEMMA FindHotelsRestores ==
  ASSUME ScriptInv, RestoredInv, FindSeedHotels
  PROVE  ScriptInv' /\ RestoredInv'
<1> DEFINE present == DOMAIN SeedHotel \cap DOMAIN hotel
<1>1. /\ todo # <<>> /\ Head(todo) = FindHotels /\ Head(todo).table = "hotels"
      /\ 1 \in DOMAIN todo /\ todo[1] = Head(todo)
      /\ UNCHANGED tables
  BY HeadKnown DEF FindSeedHotels, Running
<1>2. CASE Stop
  BY <1>2, StopSafe
<1>3. CASE /\ present # {} /\ todo' = Tail(todo) /\ found' = present /\ UNCHANGED undisturbed
  <2>1. undisturbed => present = DOMAIN SeedHotel
    <3> SUFFICES ASSUME undisturbed, NEW h \in DOMAIN SeedHotel PROVE h \in DOMAIN hotel
      OBVIOUS
    <3> PICK i \in DOMAIN runSeeders : runSeeders[i] = UpsertHotel(h)
      BY RunSeedersComplete DEF Has
    <3>1. \A j \in DOMAIN todo : ~Matches(todo[j], UpsertHotel(h))
      <4>1. DOMAIN todo = 1 .. Len(todo) /\ Len(todo) \in Nat
        BY LenProperties DEF ScriptInv
      <4>2. \A j \in DOMAIN todo : todo[j].table # "hotel"
        BY <1>1, <4>1 DEF ScriptInv, LookedUpLast
      <4>3. UpsertHotel(h) \notin AccountStatement
        BY DEF AccountStatement, UserStatement, UpsertHotel
      <4> QED BY <4>2, <4>3 DEF Matches, UpsertHotel
    <3>2. Fulfilled(UpsertHotel(h))
      BY <3>1 DEF RestoredInv
    <3> QED BY <3>2 DEF Fulfilled, UpsertHotel
  <2>2. ScriptInv'
    BY <1>1, <1>3, <2>1, TailInOrder DEF ScriptInv, HotelsKnown
  <2>3. ASSUME NEW s \in KnownStatement, Fulfilled(s) \/ Matches(Head(todo), s)
        PROVE  Fulfilled(s)'
    <3>1. Head(todo) \notin AccountStatement
      BY <1>1 DEF AccountStatement, UserStatement, FindHotels
    <3>2. CASE s = FindHotels
      BY <3>2 DEF Fulfilled, FindHotels
    <3>3. CASE Fulfilled(s)
      BY <1>1, <3>3 DEF Fulfilled, HasAccount, tables
    <3> QED BY <1>1, <2>3, <3>1, <3>2, <3>3 DEF Matches
  <2> QED BY <1>1, <1>3, <2>2, <2>3, StatementRestores
<1> QED BY <1>2, <1>3 DEF FindSeedHotels, SomeFound

LEMMA FindDemoHotelRestores ==
  ASSUME ScriptInv, RestoredInv, FindDemoHotel
  PROVE  ScriptInv' /\ RestoredInv'
<1> DEFINE s == Head(todo)
           t == [s EXCEPT !.looksUp = FALSE]
<1>1. /\ todo # <<>> /\ s \in AccountStatement /\ s.looksUp
      /\ 1 \in DOMAIN todo /\ todo[1] = s
      /\ UNCHANGED tables
  BY HeadKnown DEF FindDemoHotel, Running
<1>2. CASE Stop
  BY <1>2, StopSafe
<1>3. CASE todo' = <<t>> \o Tail(todo) /\ UNCHANGED <<found, undisturbed>>
  <2>1. t \in AccountStatement /\ t.email = s.email /\ t.table = "user" /\ s.table = "user"
    BY <1>1 DEF AccountStatement, UserStatement
  <2>2. <<t>> \in Seq(KnownStatement) /\ Len(<<t>>) = 1 /\ <<t>>[1] = t
    BY <2>1, OneStatement DEF KnownStatement
  <2>3. /\ todo \in Seq(KnownStatement) /\ Tail(todo) \in Seq(KnownStatement)
        /\ Len(todo) \in Nat /\ Len(Tail(todo)) = Len(todo) - 1
        /\ \A i \in 1 .. Len(Tail(todo)) : Tail(todo)[i] = todo[i + 1]
        /\ DOMAIN todo = 1 .. Len(todo)
    BY <1>1, HeadTailProperties, LenProperties DEF ScriptInv
  <2> HIDE DEF t, s
  <2>4. /\ <<t>> \o Tail(todo) \in Seq(KnownStatement)
        /\ Len(<<t>> \o Tail(todo)) = 1 + (Len(todo) - 1)
        /\ \A i \in 1 .. 1 + (Len(todo) - 1) :
             (<<t>> \o Tail(todo))[i] = IF i <= 1 THEN <<t>>[i] ELSE Tail(todo)[i - 1]
    BY <2>2, <2>3, ConcatProperties
  <2>5. /\ todo' \in Seq(KnownStatement) /\ DOMAIN todo' = DOMAIN todo
        /\ todo'[1] = t
        /\ \A i \in DOMAIN todo : i # 1 => todo'[i] = todo[i]
    BY <1>1, <1>3, <2>2, <2>3, <2>4, LenProperties
  <2>6. \A i \in DOMAIN todo : todo'[i].table = todo[i].table
    BY <1>1, <2>1, <2>5
  <2>7. ScriptInv'
    <3>1. LookedUpLast(todo')
      BY <2>5, <2>6 DEF ScriptInv, LookedUpLast
    <3>2. RoomsLookedUp(todo) => RoomsLookedUp(todo')
      <4>1. \A i \in DOMAIN todo : \A j \in 1 .. i - 1 : j \in DOMAIN todo
        BY <2>3
      <4> QED BY <2>5, <2>6, <4>1 DEF RoomsLookedUp
    <3> QED BY <1>3, <2>5, <3>1, <3>2 DEF ScriptInv, HotelsKnown
  <2>8. \A x, j : j \in DOMAIN todo /\ Matches(todo[j], x) => Matches(todo'[j], x)
    BY <1>1, <2>1, <2>5 DEF Matches
  <2>9. \A x : Fulfilled(x) => Fulfilled(x)'
    BY <1>1 DEF Fulfilled, HasAccount, tables
  <2> QED BY <1>3, <2>5, <2>7, <2>8, <2>9 DEF RestoredInv
<1> QED BY <1>2, <1>3 DEF FindDemoHotel

-----------------------------------------------------------------------------
(* The services and the seeders together                                   *)

LEMMA SeedInvInit == SeedInit => SeedInv
<1> SUFFICES ASSUME SeedInit PROVE SeedInv
  OBVIOUS
<1> USE DEF SeedInit, Init, TablesInit, BookingsInit, CatalogInit, StaffInit, EmptyTable
<1>1. TablesTypeOK
  BY TablesAssumption DEF TablesTypeOK, IsTable
<1>2. BookingsTypeOK /\ CallsAreValidated
  BY DEF BookingsTypeOK, Steps, CreateSteps, PaySteps, CancelSteps, CallsAreValidated,
         OwnerSteps
<1>3. CatalogTypeOK
  BY TablesAssumption DEF CatalogTypeOK, Job, IsTable
<1>4. TasksInv
  BY DEF TasksInv, TasksSpareSuperAdmin, TaskSpares, Task, Idle
<1>5. AccountsInv
  <2>1. EnrolledTyped
    BY TablesAssumption DEF EnrolledTyped, IsTable
  <2>2. OneManagerPerHotel
    BY StaffAssumption DEF OneManagerPerHotel
  <2>3. SuperAdminRemains
    BY SeedListsAssumption DEF SuperAdminRemains, HasAccount
  <2> QED BY <2>1, <2>2, <2>3, TablesAssumption DEF AccountsInv
<1>6. NoOrphans /\ EmailsUnique /\ SeedsIssued
  BY TablesAssumption, SeedListsAssumption DEF NoOrphans, EmailsUnique, SeedsIssued
<1>7. ScriptInv
  <2>1. todo \in Seq(KnownStatement) /\ DOMAIN todo = {}
    BY EmptySeq
  <2>2. LookedUpLast(todo) /\ RoomsLookedUp(todo)
    BY <2>1 DEF LookedUpLast, RoomsLookedUp
  <2> QED BY <2>1, <2>2 DEF ScriptInv
<1> QED BY <1>1, <1>2, <1>3, <1>4, <1>5, <1>6, <1>7 DEF SeedInv, TablesInv, TypeInv, RestoredInv

LEMMA SeedInvStep == SeedInv /\ [SeedNext]_<<vars, seedVars>> => SeedInv'
<1> SUFFICES ASSUME SeedInv, [SeedNext]_<<vars, seedVars>> PROVE SeedInv'
  OBVIOUS
<1>1. TablesInv /\ ScriptInv /\ RestoredInv /\ IsTable(user, Users, UserRow) /\ EmailsUnique
  BY DEF SeedInv, TablesInv, TypeInv, TablesTypeOK
<1>2. CASE ServiceStep
  <2>1. TablesInv'
    BY <1>1, <1>2, ServicesKeepTables DEF ServiceStep
  <2>2. ScriptInv'
    BY <1>1, <1>2 DEF ServiceStep, ScriptInv, HotelsKnown
  <2>3. RestoredInv'
    BY <1>1, <1>2 DEF ServiceStep, RestoredInv, Fulfilled, HasAccount
  <2> QED BY <2>1, <2>2, <2>3 DEF SeedInv
<1>3. ASSUME UNCHANGED vars PROVE TablesInv'
  <2>1. EmailsUnique'
    BY <1>1, <1>3 DEF vars, tables, EmailsUnique
  <2> QED BY <1>1, <1>3, <2>1, ServicesKeepTables
<1>4. ASSUME NEW script \in Scripts, SeedBegin(script)
      PROVE  SeedInv'
  <2>1. InOrder(script) /\ todo' = script /\ found' = {} /\ undisturbed' \in BOOLEAN
    BY <1>4, ScriptsInOrder DEF SeedBegin
  <2>2. ScriptInv'
    BY <2>1 DEF InOrder, ScriptInv
  <2>3. RestoredInv'
    BY <1>4 DEF SeedBegin, RestoredInv, Matches
  <2> QED BY <1>3, <1>4, <2>2, <2>3 DEF SeedBegin, SeedInv
<1>5. CASE SeedStep
  <2>1. UNCHANGED <<now, calls, catalog, task>>
    BY <1>5 DEF SeedStep
  <2>2. CASE SeedHotelRow /\ UNCHANGED enrolled
    BY <1>1, <2>1, <2>2, SeedHotelSafe, SeedHotelRestores DEF SeedInv
  <2>3. CASE SeedRoomRow /\ UNCHANGED enrolled
    BY <1>1, <2>1, <2>3, SeedRoomSafe, SeedRoomRestores DEF SeedInv
  <2>4. CASE SeedUserRow
    BY <1>1, <2>1, <2>4, SeedUserSafe, SeedUserRestores DEF SeedInv
  <2>5. CASE (FindSeedHotels \/ FindDemoHotel \/ SeedDies) /\ UNCHANGED enrolled
    <3>1. UNCHANGED vars
      BY <2>1, <2>5 DEF FindSeedHotels, FindDemoHotel, SeedDies, vars, staff
    <3>2. ScriptInv' /\ RestoredInv'
      BY <1>1, <2>5, FindHotelsRestores, FindDemoHotelRestores, StopSafe DEF SeedDies
    <3> QED BY <1>3, <3>1, <3>2 DEF SeedInv
  <2> QED BY <1>5, <2>2, <2>3, <2>4, <2>5 DEF SeedStep
<1>6. CASE UNCHANGED <<vars, seedVars>>
  <2>1. ScriptInv'
    BY <1>1, <1>6 DEF seedVars, ScriptInv, HotelsKnown
  <2>2. RestoredInv'
    BY <1>1, <1>6 DEF vars, tables, seedVars, RestoredInv, Fulfilled, HasAccount
  <2> QED BY <1>3, <1>6, <2>1, <2>2 DEF SeedInv
<1> QED BY <1>2, <1>4, <1>5, <1>6 DEF SeedNext

LEMMA SeedInvHolds == SeedSpec => []SeedInv
<1> QED BY SeedInvInit, SeedInvStep, PTL DEF SeedSpec

(* A script sends statements of its own kinds, and writes no room before a *)
(* seeded hotel has been found.                                            *)
THEOREM SeedingTypeCorrect == SeedSpec => []SeedingTypeOK
<1>1. SeedInv => SeedingTypeOK
  <2> SUFFICES ASSUME SeedInv PROVE SeedingTypeOK
    OBVIOUS
  <2>1. ScriptInv
    BY DEF SeedInv
  <2>2. KnownStatement \subseteq Statement
    BY DEF KnownStatement, AccountStatement, UserStatement, Statement
  <2>3. todo \in Seq(Statement)
    BY <2>1, <2>2, SeqMonotonic DEF ScriptInv
  <2>4. Running("room") => found # {}
    BY <2>1, HeadKnown DEF Running, HotelsKnown
  <2> QED BY <2>1, <2>3, <2>4 DEF ScriptInv, SeedingTypeOK
<1> QED BY <1>1, SeedInvHolds, PTL

(* No service and no seeder, finished or not, leaves the organisation      *)
(* without the super admin.                                                *)
THEOREM SuperAdminAlwaysRemains == SeedSpec => []SuperAdminRemains
<1>1. SeedInv => SuperAdminRemains
  BY DEF SeedInv, TablesInv, AccountsInv
<1> QED BY <1>1, SeedInvHolds, PTL

(* The seeders and the removal of hotels leave no room and no manager with *)
(* a hotel that is gone.                                                   *)
THEOREM SeedingNeverOrphans == SeedSpec => []NoOrphans
<1>1. SeedInv => NoOrphans
  BY DEF SeedInv, TablesInv
<1> QED BY <1>1, SeedInvHolds, PTL

(* The upsert of the demo manager gives no hotel a second manager.         *)
THEOREM SeedingKeepsOneManager == SeedSpec => []OneManagerPerHotel
<1>1. SeedInv => OneManagerPerHotel
  BY DEF SeedInv, TablesInv, AccountsInv
<1> QED BY <1>1, SeedInvHolds, PTL

(* A full seed that ends undisturbed has brought back all it is about.     *)
THEOREM SeedAlwaysRestores == SeedSpec => []SeedRestores
<1>1. SeedInv => SeedRestores
  <2> SUFFICES ASSUME SeedInv, undisturbed, todo = <<>>
               PROVE  /\ \A h \in DOMAIN SeedHotel : Fulfilled(UpsertHotel(h))
                      /\ \A r \in DOMAIN SeedRoom : Fulfilled(UpsertRoom(r))
                      /\ Fulfilled(UpsertUser(SuperAdminEmail, "SUPER_ADMIN", NoHotel, FALSE))
                      /\ \A d \in DOMAIN DemoUsers : \E looksUp \in BOOLEAN :
                           Fulfilled(DemoUpsert(d, looksUp))
    BY DEF SeedRestores, Fulfilled, UpsertHotel, UpsertRoom, UpsertUser, DemoUpsert
  <2>1. DOMAIN todo = {}
    OBVIOUS
  <2>2. \A i \in DOMAIN runSeeders : Fulfilled(runSeeders[i])
    BY <2>1 DEF SeedInv, RestoredInv
  <2> QED BY <2>2, RunSeedersComplete DEF Has
<1> QED BY <1>1, SeedInvHolds, PTL

-----------------------------------------------------------------------------
(* Bookings while the seeders are at work                                  *)

(* A seeded room that is removed with its hotel and seeded again is one of *)
(* the same hotel, so that a create which has validated it in between may  *)
(* go on.                                                                  *)
SeededRoomsStay ==
  /\ \A r \in DOMAIN room \cap DOMAIN SeedRoom : room[r].hotelId = SeedRoom[r].hotelId
  /\ \A c \in Calls :
       pc[c] \in {"createCheck", "createInsert"} /\ req[c].roomId \in DOMAIN SeedRoom
         => SeedRoom[req[c].roomId].hotelId = req[c].hotelId

BookedInv ==
  ReservationInv /\ ReferenceInv /\ AccountInv /\ OwnersAreChecked /\ SeededRoomsStay

(* A step that writes no booking keeps the bookings apart.                 *)
LEMMA WaitingKeepsReservations ==
  ASSUME TypeInv, ReservationInv, OwnersAreChecked, UNCHANGED <<booking, payment, calls>>
  PROVE  ReservationInv' /\ OwnersAreChecked'
<1>1. ReservationInv'
  BY OtherStepsSafe DEF BookingsUntouched, calls
<1>2. OwnersAreChecked'
  BY DEF calls, OwnersAreChecked, IsOwn
<1> QED BY <1>1, <1>2

(* What a service or an upsert writes to an account is no booking's loss.  *)
LEMMA AccountsKeepBooked ==
  ASSUME TablesInv, BookedInv, AccountsEffect, UNCHANGED <<calls, catalog>>
  PROVE  BookedInv'
<1>1. TypeInv /\ DOMAIN user \subseteq enrolled /\ ReferencesHold
  BY DEF TablesInv, AccountsInv, EnrolledTyped, BookedInv, ReferenceInv
<1>2. AccountsWritten
  BY DEF AccountsEffect, AccountsWritten, WritesAccount
<1>3. UNCHANGED <<room, booking, payment>>
  BY DEF AccountsEffect
<1>4. ReferenceInv' /\ AccountInv'
  BY <1>1, <1>2, AccountsKeepReferences, WritesKeepAccounts DEF BookedInv
<1>5. ReservationInv' /\ OwnersAreChecked'
  BY <1>1, <1>3, WaitingKeepsReservations DEF BookedInv
<1>6. SeededRoomsStay'
  BY <1>3 DEF BookedInv, SeededRoomsStay, calls
<1> QED BY <1>4, <1>5, <1>6 DEF BookedInv

(* Nor is a hotel or a room that comes back.                               *)
LEMMA SeedsKeepBooked ==
  ASSUME TablesInv, BookedInv, NoOrphans',
         UNCHANGED <<user, booking, payment, calls, issued, enrolled>>,
         DOMAIN hotel \subseteq DOMAIN hotel', DOMAIN room \subseteq DOMAIN room',
         \A r \in DOMAIN room' : \/ r \in DOMAIN room /\ room'[r].hotelId = room[r].hotelId
                                 \/ /\ r \in DOMAIN SeedRoom
                                    /\ room'[r].hotelId = SeedRoom[r].hotelId
  PROVE  BookedInv'
<1>1. TypeInv /\ ReferenceInv /\ SeededRoomsStay
  BY DEF TablesInv, BookedInv
<1>2. UNCHANGED <<pc, req>>
  BY DEF calls
<1>3. \A r \in DOMAIN room : room'[r].hotelId = room[r].hotelId
  BY <1>1 DEF SeededRoomsStay
<1>4. ReservationInv' /\ OwnersAreChecked'
  BY <1>1, WaitingKeepsReservations DEF BookedInv
<1>5. ReferencesHold'
  BY <1>1, <1>3 DEF ReferenceInv, ReferencesHold, BookingParentsExist
<1>6. RoomIsOfHotel'
  BY <1>1, <1>2 DEF ReferenceInv, RoomIsOfHotel, SeededRoomsStay
<1>7. AccountInv'
  BY <1>2 DEF BookedInv, AccountInv, OneManagerPerHotel, PasswordBeforeBooking, CallersAreEnrolled
<1>8. SeededRoomsStay'
  BY <1>1, <1>2 DEF SeededRoomsStay
<1> QED BY <1>4, <1>5, <1>6, <1>7, <1>8 DEF BookedInv, ReferenceInv

(* The services keep all this, whatever the seeders have done.             *)
LEMMA ServicesKeepBooked ==
  ASSUME TablesInv, BookedInv, [Next]_vars
  PROVE  BookedInv'
<1>1. /\ TypeInv /\ ReservationInv /\ ReferenceInv /\ AccountInv /\ OwnersAreChecked
      /\ SeededRoomsStay /\ NoOrphans /\ DOMAIN user \subseteq enrolled
  BY DEF TablesInv, AccountsInv, EnrolledTyped, BookedInv
<1>2. ReservationInv'
  BY <1>1, ReservationsKept
<1>3. CASE BookingsNext /\ UNCHANGED <<catalog, staff>>
  <2>1. ReferenceInv' /\ AccountInv' /\ OwnersAreChecked'
    BY <1>1, <1>3, CallsKeepReferences, CallsKeepAccounts, CallsKeepOwners
  <2>2. SeededRoomsStay'
    <3> PICK c \in Calls :
             /\ UNCHANGED room
             /\ \A d \in Calls \ {c} : ValidatedBefore(d)
             /\ \/ ValidatedBefore(c)
                \/ /\ req'[c] = req[c]
                   /\ req[c].roomId \in DOMAIN room
                   /\ room[req[c].roomId].hotelId = req[c].hotelId
      BY <1>1, <1>3, CallReferences
    <3>1. ASSUME NEW d \in Calls, ValidatedBefore(d), pc'[d] \in {"createCheck", "createInsert"},
                 req'[d].roomId \in DOMAIN SeedRoom
          PROVE  SeedRoom[req'[d].roomId].hotelId = req'[d].hotelId
      BY <1>1, <3>1 DEF ValidatedBefore, SeededRoomsStay
    <3>2. ASSUME req'[c] = req[c], req[c].roomId \in DOMAIN room,
                 room[req[c].roomId].hotelId = req[c].hotelId, req'[c].roomId \in DOMAIN SeedRoom
          PROVE  SeedRoom[req'[c].roomId].hotelId = req'[c].hotelId
      BY <1>1, <3>2 DEF SeededRoomsStay
    <3> QED BY <1>1, <3>1, <3>2 DEF SeededRoomsStay
  <2> QED BY <1>2, <2>1, <2>2 DEF BookedInv
<1>4. CASE CatalogNext /\ UNCHANGED <<calls, staff>>
  <2>1. ReferenceInv' /\ AccountInv'
    BY <1>1, <1>4, CatalogKeepsReferences, CatalogKeepsAccounts
  <2>2. UNCHANGED booking
    BY <1>1, <1>4, CatalogReferences
  <2>3. OwnersAreChecked'
    BY <1>1, <1>4, <2>2 DEF OwnersAreChecked, IsOwn, calls
  <2>4. ASSUME \A r \in DOMAIN room' : \/ r \in DOMAIN room /\ room'[r].hotelId = room[r].hotelId
                                       \/ r \notin issued
        PROVE  SeededRoomsStay'
    BY <1>1, <1>4, <2>4 DEF SeededRoomsStay, calls, TablesInv, SeedsIssued
  <2>5. SeededRoomsStay'
    <3>1. CASE SameCatalogue
      BY <2>4, <3>1 DEF SameCatalogue
    <3>2. ASSUME NEW h \in Hotels, DeleteHotel(h) PROVE SeededRoomsStay'
      BY <2>4, <3>2 DEF DeleteHotel, Restrict
    <3> QED BY <1>1, <1>4, <2>4, <3>1, <3>2, CatalogReferences
  <2> QED BY <1>2, <2>1, <2>3, <2>5 DEF BookedInv
<1>5. CASE StaffNext /\ UNCHANGED <<calls, catalog>>
  <2>1. IsTable(user, Users, UserRow) /\ EnrolledTyped /\ TasksInv
    BY DEF TablesInv, TypeInv, TablesTypeOK, AccountsInv
  <2>2. \A u \in DOMAIN user : Email[u] = SuperAdminEmail => user[u].role = "SUPER_ADMIN"
    BY SuperAdminIsUnique DEF TablesInv, AccountsInv
  <2>3. AccountsEffect
    BY <1>5, <2>1, <2>2, StaffSparesSuperAdmin
  <2> QED BY <1>5, <2>3, AccountsKeepBooked
<1>6. CASE UNCHANGED <<tables, calls, catalog, staff>>
  <2>1. NoOrphans'
    BY <1>1, <1>6 DEF NoOrphans, tables
  <2> QED BY <1>6, <2>1, SeedsKeepBooked DEF tables, catalog, staff
<1> QED BY <1>3, <1>4, <1>5, <1>6 DEF Next, vars

(* Nor does a seed, whatever it writes.                                    *)
LEMMA SeedKeepsBooked ==
  ASSUME SeedInv, BookedInv, SeedStep
  PROVE  BookedInv'
<1>1. /\ UNCHANGED <<now, calls, catalog, task>> /\ TablesInv /\ ScriptInv
      /\ UNCHANGED <<booking, payment>>
  BY DEF SeedStep, SeedInv, SeedHotelRow, FindSeedHotels, SeedRoomRow, FindDemoHotel, SeedDies,
         SeedUserRow, tables
<1>2. NoOrphans'
  <2>1. SeedInv'
    BY SeedInvStep DEF SeedNext
  <2> QED BY <2>1 DEF SeedInv, TablesInv
<1>3. CASE SeedHotelRow /\ UNCHANGED enrolled
  <2>1. DOMAIN hotel \subseteq DOMAIN hotel' /\ UNCHANGED <<room, user>>
    BY <1>3 DEF SeedHotelRow, Put
  <2> QED BY <1>1, <1>2, <1>3, <2>1, SeedsKeepBooked DEF catalog
<1>4. CASE SeedRoomRow /\ UNCHANGED enrolled
  <2> DEFINE r == Head(todo).id
  <2>1. UNCHANGED <<hotel, user>> /\ r \in DOMAIN SeedRoom
    BY <1>1, <1>4, HeadKnown DEF SeedRoomRow, Running
  <2>2. UNCHANGED room \/ room' = Put(room, r, SeededRoom(r))
    BY <1>4 DEF SeedRoomRow
  <2>3. SeededRoom(r).hotelId = SeedRoom[r].hotelId
    BY <2>1, TablesAssumption DEF SeededRoom, IsTable, RoomRow
  <2> HIDE DEF r
  <2>4. /\ DOMAIN room \subseteq DOMAIN room'
        /\ \A q \in DOMAIN room' : \/ q \in DOMAIN room /\ room'[q].hotelId = room[q].hotelId
                                   \/ q \in DOMAIN SeedRoom
                                      /\ room'[q].hotelId = SeedRoom[q].hotelId
    BY <2>1, <2>2, <2>3 DEF Put
  <2> QED BY <1>1, <1>2, <1>4, <2>1, <2>4, SeedsKeepBooked DEF catalog
<1>5. CASE SeedUserRow
  BY <1>1, <1>5, SeedUserWrites, AccountsKeepBooked
<1>6. CASE UNCHANGED tables /\ UNCHANGED enrolled
  BY <1>1, <1>2, <1>6, SeedsKeepBooked DEF tables, catalog
<1> QED BY <1>3, <1>4, <1>5, <1>6 DEF SeedStep, FindSeedHotels, FindDemoHotel, SeedDies

LEMMA BookedInvHolds == SeedSpec => []BookedInv
<1>1. SeedInit => BookedInv
  <2> SUFFICES ASSUME SeedInit PROVE BookedInv
    OBVIOUS
  <2> USE DEF SeedInit, Init, TablesInit, BookingsInit, EmptyTable
  <2>1. ReservationInv
    BY DEF ReservationInv, NoCollision, SnapshotIsComplete, PayIsCurrent, PaymentMatchesStatus
  <2>2. ReferenceInv
    BY TablesAssumption DEF ReferenceInv, NoOrphans, ReferencesHold, RoomIsOfHotel
  <2>3. AccountInv
    BY StaffAssumption DEF AccountInv, OneManagerPerHotel, PasswordBeforeBooking,
       CallersAreEnrolled, CreateSteps
  <2>4. OwnersAreChecked /\ SeededRoomsStay
    BY DEF OwnersAreChecked, OwnerSteps, SeededRoomsStay
  <2> QED BY <2>1, <2>2, <2>3, <2>4 DEF BookedInv
<1>2. SeedInv /\ BookedInv /\ [SeedNext]_<<vars, seedVars>> => BookedInv'
  <2> SUFFICES ASSUME SeedInv, BookedInv, [SeedNext]_<<vars, seedVars>> PROVE BookedInv'
    OBVIOUS
  <2>1. TablesInv
    BY DEF SeedInv
  <2>2. CASE [Next]_vars
    BY <2>1, <2>2, ServicesKeepBooked
  <2>3. CASE SeedStep
    BY <2>3, SeedKeepsBooked
  <2> QED BY <2>2, <2>3 DEF SeedNext, ServiceStep, SeedBegin
<1> QED BY <1>1, <1>2, SeedInvHolds, PTL DEF SeedSpec

(* The ledger is kept while seeds run: they write no booking and no        *)
(* payment, and what they put back are the rooms a create has validated.   *)
THEOREM SeedingImplementsLedger == SeedSpec => ImplementsLedger
<1>1. SeedInit => Ledger!Init
  BY DEF SeedInit, Init, TablesInit, EmptyTable, Ledger!Init, LedgerEntry
<1>2. SeedInv /\ BookedInv /\ [SeedNext]_<<vars, seedVars>>
        => [Ledger!Next]_<<LedgerEntry, payment>>
  <2> SUFFICES ASSUME SeedInv, BookedInv, [SeedNext]_<<vars, seedVars>>
               PROVE  Ledger!Next \/ UNCHANGED <<LedgerEntry, payment>>
    OBVIOUS
  <2>1. TypeInv /\ ReservationInv
    BY DEF SeedInv, TablesInv, BookedInv
  <2>2. CASE [Next]_vars
    BY <2>1, <2>2, LedgerMoves
  <2>3. CASE SeedStep
    <3>1. UNCHANGED <<booking, payment>>
      BY <2>3 DEF SeedStep, SeedHotelRow, FindSeedHotels, SeedRoomRow, FindDemoHotel, SeedDies,
                  SeedUserRow, tables
    <3> QED BY <3>1 DEF LedgerEntry
  <2> QED BY <2>2, <2>3 DEF SeedNext, ServiceStep, SeedBegin
<1> QED BY <1>1, <1>2, SeedInvHolds, BookedInvHolds, PTL
        DEF SeedSpec, ImplementsLedger, Ledger!Spec

(* No night is sold twice while rooms and hotels come back under the       *)
(* creates that are under way.                                             *)
THEOREM SeedingNoDoubleBooking == SeedSpec => []NoDoubleBooking
<1>1. SeedInv /\ BookedInv => NoDoubleBooking
  BY NightsApart DEF SeedInv, TablesInv, BookedInv
<1> QED BY <1>1, SeedInvHolds, BookedInvHolds, PTL

(* Whatever is removed and seeded again, the account, hotel and room of a  *)
(* booking are there, and the room is the hotel's.                         *)
THEOREM SeedingKeepsReferences == SeedSpec => []ReferencesHold
<1>1. BookedInv => ReferencesHold
  BY DEF BookedInv, ReferenceInv
<1> QED BY <1>1, BookedInvHolds, PTL

(* A seed makes no password temporary: nobody who has booked must change   *)
(* theirs.                                                                 *)
THEOREM SeedingKeepsPasswords == SeedSpec => []PasswordBeforeBooking
<1>1. BookedInv => PasswordBeforeBooking
  BY DEF BookedInv, AccountInv
<1> QED BY <1>1, BookedInvHolds, PTL

(* Seeds neither pay nor cancel, nor do they lend an owner's name: while   *)
(* they run a booking is still paid or cancelled by its owner alone.       *)
THEOREM SeedingLeavesOwnersDecide == SeedSpec => OwnersDecide
<1>1. SeedInv /\ BookedInv /\ [SeedNext]_<<vars, seedVars>> => [Decided]_vars
  <2> SUFFICES ASSUME SeedInv, BookedInv, [SeedNext]_<<vars, seedVars>> PROVE Decided
    OBVIOUS
  <2>1. TypeInv /\ ReferencesHold /\ PasswordBeforeBooking /\ OwnersAreChecked
    BY DEF SeedInv, TablesInv, BookedInv, ReferenceInv, AccountInv
  <2>2. CASE [Next]_vars
    BY <2>1, <2>2, StepsAreDecided
  <2>3. CASE SeedStep
    <3>1. UNCHANGED <<booking, payment>>
      BY <2>3 DEF SeedStep, SeedHotelRow, FindSeedHotels, SeedRoomRow, FindDemoHotel, SeedDies,
                  SeedUserRow, tables
    <3> QED BY <3>1 DEF Decided
  <2> QED BY <2>2, <2>3 DEF SeedNext, ServiceStep, SeedBegin
<1> QED BY <1>1, SeedInvHolds, BookedInvHolds, PTL
        DEF SeedSpec, OwnersDecide, Decided, Decides

(* With seeds at work, too, the terms of a booking never change, none is   *)
(* taken up again and no payment is lost.                                  *)
THEOREM SeedingKeepsTerms == SeedSpec => Ledger!TermsAreKept
  BY SeedingImplementsLedger, LedgerMeansTerms, PTL DEF ImplementsLedger
=============================================================================
