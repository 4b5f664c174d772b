----------------------------- MODULE Migrations -----------------------------
(***************************************************************************)
(* The three migrations of prisma/migrations that rewrite rows, applied in *)
(* their order to a database in use: one manager per hotel, thirteen room  *)
(* types, five room types.  Each changes rows so that the constraint it    *)
(* declares last can hold.                                                 *)
(*                                                                         *)
(* The statements of a migration are one READ COMMITTED transaction beside *)
(* a service that goes on: a statement sees what is committed before it    *)
(* begins, a row the migration has written is locked, and any other may be *)
(* written until the migration has locked the table.  Where the constraint *)
(* does not hold then, or in a deadlock, the migration fails, none of it   *)
(* remains, and no other is applied until somebody has stepped in.         *)
(***************************************************************************)
EXTENDS Naturals, FiniteSets, Functions

CONSTANTS Managers,     \* ids of accounts of managers: no other has a hotel
          Hotels, Rooms,
          NoHotel,      \* the null of user.hotelId
          CreatedAt,    \* of each account
          RoomIndex,    \* of each room the seeds give a fixed id, its place in the hotel
          LegacyTypes,  \* free-text room types besides those of the first enum
          Written       \* bound: the room types the service writes

VARIABLES applied,     \* how many of the three are applied
          failed,      \* one has failed
          assigned,    \* user.hotelId of the managers
          roomType,    \* room.roomType, by room
          booked,      \* rooms with bookings, cancelled ones included
          next,        \* what the migration that runs does next
          duplicates,  \* accounts it unassigns
          retyped,     \* rows of rooms it has written
          doomed,      \* rooms it deletes
          waiting,     \* the service waits for a row it has written
          meanwhile    \* history: what the service has written since it began

tables == <<assigned, roomType, booked>>
migration == <<next, duplicates, retyped, doomed>>
vars == <<applied, failed, tables, migration, waiting, meanwhile>>

-----------------------------------------------------------------------------
(* The thirteen values of the first enum and the five of the second.       *)
Remapped == {"Economy Twin", "Superior Queen", "Connecting Double", "Accessible Room",
             "Studio Apartment", "Executive Suite"}
FiveTypes == {"Standard Single", "Standard Double", "Deluxe King", "Junior Suite",
              "Family Room"}
ThirteenTypes == FiveTypes \cup Remapped \cup {"Penthouse Suite", "Presidential Suite"}

AnyType == ThirteenTypes \cup LegacyTypes

ASSUME MigrationsAssumption ==
  /\ NoHotel \notin Hotels
  /\ CreatedAt \in [Managers -> Nat]
  /\ DOMAIN RoomIndex \subseteq Rooms
  /\ \A r \in DOMAIN RoomIndex : RoomIndex[r] \in Nat \ {0}
  /\ Written \subseteq AnyType

(* The values the column takes once n migrations are applied.              *)
ColumnType(n) == IF n < 2 THEN AnyType ELSE IF n = 2 THEN ThirteenTypes ELSE FiveTypes

(* User_hotelId_key.                                                       *)
UniqueHotel(f) == \A u, v \in Managers : f[u] # NoHotel /\ f[u] = f[v] => u = v

ManagerSteps == {"unassign", "index"}
RoomSteps == {"toKing", "toSuite", "excess", "delete", "alter"}

NoRows == [r \in {} |-> r]

MigrationsTypeOK ==
  /\ applied \in 0 .. 3
  /\ failed \in BOOLEAN /\ waiting \in BOOLEAN
  /\ assigned \in [Managers -> Hotels \cup {NoHotel}]
  /\ DOMAIN roomType \subseteq Rooms
  /\ \A r \in DOMAIN roomType : roomType[r] \in ColumnType(applied)
  /\ booked \subseteq DOMAIN roomType
  /\ next \in {"none"} \cup ManagerSteps \cup RoomSteps
  /\ duplicates \subseteq Managers
  /\ DOMAIN retyped \subseteq DOMAIN roomType
  /\ \A r \in DOMAIN retyped : retyped[r] \in FiveTypes
  /\ doomed \subseteq DOMAIN roomType
  /\ meanwhile \subseteq Managers \cup Rooms

(* The initial migrations leave empty tables.                              *)
Init ==
  /\ applied = 0 /\ failed = FALSE
  /\ assigned = [u \in Managers |-> NoHotel]
  /\ roomType = NoRows /\ booked = {}
  /\ next = "none" /\ duplicates = {} /\ retyped = NoRows /\ doomed = {}
  /\ waiting = FALSE /\ meanwhile = {}

-----------------------------------------------------------------------------
(* The transaction of a migration                                          *)

(* The tables as its statements see them.                                  *)
Staffed ==
  [u \in Managers |-> IF next = "index" /\ u \in duplicates THEN NoHotel ELSE assigned[u]]
Rows ==
  [r \in DOMAIN roomType \ (IF next = "alter" THEN doomed ELSE {}) |->
     IF r \in DOMAIN retyped THEN retyped[r] ELSE roomType[r]]

Begins(n) == next = "none" /\ applied = n /\ ~failed

End ==
  /\ next' = "none" /\ duplicates' = {} /\ retyped' = NoRows /\ doomed' = {}
  /\ waiting' = FALSE /\ meanwhile' = {}
Commit == End /\ applied' = applied + 1 /\ UNCHANGED <<failed, booked>>
RollBack == End /\ failed' = TRUE /\ UNCHANGED <<applied, tables>>

Unfinished == UNCHANGED <<applied, failed, tables, waiting, meanwhile>>

-----------------------------------------------------------------------------
(* 20260522130000_unique_manager_per_hotel.  The rows of UPDATE are ranked *)
(* by its snapshot: ROW_NUMBER by hotel, in the order of createdAt, equal  *)
(* dates in any order; kept are the first ones.                            *)
\* Variant: the latest manager is kept.
LatestKept(kept, u) ==
  \A v \in Managers : assigned[v] = assigned[u] =>
    CreatedAt[v] <= CreatedAt[u] /\ (v \in kept => v = u)
RankedFirst(kept, u) ==
  \A v \in Managers : assigned[v] = assigned[u] =>
    CreatedAt[u] <= CreatedAt[v] /\ (v \in kept => v = u)

WithHotel == {u \in Managers : assigned[u] # NoHotel}

\* Variant: the duplicates are left to the index.
LeftToTheIndex(kept) == {}
RankedLater(kept) == WithHotel \ kept

RankManagers ==
  /\ Begins(0)
  /\ \E kept \in SUBSET WithHotel :
       /\ \A u \in kept : RankedFirst(kept, u)
       /\ \A u \in WithHotel : \E v \in kept : assigned[v] = assigned[u]
       /\ duplicates' = RankedLater(kept)
  /\ next' = "unassign"
  /\ UNCHANGED <<retyped, doomed>> /\ Unfinished

(* The ranks are not worked out again for rows that have changed since.    *)
UnassignDuplicates ==
  /\ next = "unassign"
  /\ next' = "index"
  /\ UNCHANGED <<duplicates, retyped, doomed>> /\ Unfinished

(* CREATE UNIQUE INDEX locks the table and is the last statement.          *)
CreateUniqueIndex ==
  /\ next = "index" /\ ~waiting
  /\ \/ UniqueHotel(Staffed) /\ Commit /\ assigned' = Staffed /\ UNCHANGED roomType
     \/ ~UniqueHotel(Staffed) /\ RollBack

-----------------------------------------------------------------------------
(* 20260522140000_room_type_enum and 20260522150000_room_type_five         *)

(* UPDATE of the rooms of some types.                                      *)
Update(Types, type, step) ==
  /\ retyped' = [r \in DOMAIN retyped \cup {r \in DOMAIN Rows : Rows[r] \in Types} |->
                   IF Rows[r] \in Types THEN type ELSE retyped[r]]
  /\ next' = step
  /\ UNCHANGED <<duplicates, doomed>> /\ Unfinished

NormalizeTypes == Begins(1) /\ Update(AnyType \ ThirteenTypes, "Standard Single", "alter")

ToDouble == Begins(2) /\ Update(Remapped, "Standard Double", "toKing")
ToKing == next = "toKing" /\ Update({"Penthouse Suite"}, "Deluxe King", "toSuite")
ToSuite == next = "toSuite" /\ Update({"Presidential Suite"}, "Junior Suite", "excess")

(* DELETE of the rooms the seeds no longer have, unless booked: its        *)
(* snapshot, and then the rows, which the foreign key of a booking made    *)
(* since protects.                                                         *)
\* Variant: the fifth room, which the seeds still have, goes as well.
FifthToo(r) == r \in DOMAIN RoomIndex /\ RoomIndex[r] >= 5
Excess(r) == r \in DOMAIN RoomIndex /\ RoomIndex[r] >= 6

(* The places the seeds have rooms for.                                    *)
SeedRooms == 1 .. 5

FindExcess ==
  /\ next = "excess"
  /\ doomed' = {r \in DOMAIN roomType \ booked : Excess(r)}
  /\ next' = "delete"
  /\ UNCHANGED <<duplicates, retyped>> /\ Unfinished

\* Variant: the foreign key of bookings is not there.
Unprotected(S) == {}
Protected(S) == S \cap booked

DeleteExcess ==
  /\ next = "delete"
  /\ \/ /\ Protected(doomed) = {}
        /\ next' = "alter"
        /\ UNCHANGED <<duplicates, retyped, doomed>> /\ Unfinished
     \/ Protected(doomed) # {} /\ RollBack

(* ALTER TABLE locks the table, and no statement after it can fail: the    *)
(* column takes the enum if every value is one of its own.                 *)
AlterRoomType ==
  /\ next = "alter" /\ ~waiting
  /\ \/ /\ \A r \in DOMAIN Rows : Rows[r] \in ColumnType(applied + 1)
        /\ Commit /\ roomType' = Rows /\ UNCHANGED assigned
     \/ /\ \E r \in DOMAIN Rows : Rows[r] \notin ColumnType(applied + 1)
        /\ RollBack

-----------------------------------------------------------------------------
(* The service: managers are assigned, rooms added, changed and booked, on *)
(* the constraints there are and in rows that are not locked.              *)
Since(x, steps) ==
  /\ meanwhile' = IF next \in steps THEN meanwhile \cup {x} ELSE meanwhile
  /\ UNCHANGED <<applied, failed, migration, waiting>>

Assign(u, h) ==
  LET result == [assigned EXCEPT ![u] = h]
  IN  /\ ~(next = "index" /\ u \in duplicates)
      /\ applied > 0 => UniqueHotel(result)
      /\ assigned' = result
      /\ Since(u, ManagerSteps) /\ UNCHANGED <<roomType, booked>>

SetType(r, type) ==
  /\ roomType' = [s \in DOMAIN roomType \cup {r} |-> IF s = r THEN type ELSE roomType[s]]
  /\ Since(r, RoomSteps) /\ UNCHANGED <<assigned, booked>>

AddRoom(r, type) == r \notin DOMAIN roomType /\ SetType(r, type)

Deleted == IF next = "alter" THEN doomed ELSE {}

UpdateRoom(r, type) == r \in DOMAIN roomType \ (DOMAIN retyped \cup Deleted) /\ SetType(r, type)

Book(r) ==
  /\ r \in DOMAIN roomType \ Deleted
  /\ booked' = booked \cup {r}
  /\ Since(r, RoomSteps) /\ UNCHANGED <<assigned, roomType>>

(* A statement wants a row that is locked.                                 *)
Wait ==
  /\ (next = "index" /\ duplicates # {}) \/ DOMAIN retyped \cup Deleted # {}
  /\ waiting' = TRUE
  /\ UNCHANGED <<applied, failed, tables, migration, meanwhile>>

(* Its transaction has locked the table, or a row, for which the migration *)
(* waits in turn: one of the two has to give way.                          *)
Deadlock ==
  /\ waiting
  /\ \/ RollBack
     \/ waiting' = FALSE /\ UNCHANGED <<applied, failed, tables, migration, meanwhile>>

Migrate ==
  \/ RankManagers \/ UnassignDuplicates \/ CreateUniqueIndex
  \/ NormalizeTypes \/ ToDouble \/ ToKing \/ ToSuite \/ FindExcess \/ DeleteExcess
  \/ AlterRoomType

Next ==
  \/ Migrate
  \/ \E u \in Managers, h \in Hotels \cup {NoHotel} : Assign(u, h)
  \/ \E r \in Rooms, type \in Written \cap ColumnType(applied) :
       AddRoom(r, type) \/ UpdateRoom(r, type)
  \/ \E r \in Rooms : Book(r)
  \/ Wait \/ Deadlock

Spec == Init /\ [][Next]_vars

-----------------------------------------------------------------------------
(* A migration fails over what the service has done beside it, never over  *)
(* rows it found: at fault is an account assigned since the ranking, a     *)
(* room written or booked since the first UPDATE, or a deadlock.  With the *)
(* service stopped, every migration applies.                               *)
UndisturbedApply ==
  [][failed' # failed =>
       \/ waiting
       \/ /\ next = "index"
          /\ \A u, v \in Managers :
               u # v /\ Staffed[u] = Staffed[v] /\ Staffed[u] # NoHotel
                 => {u, v} \cap meanwhile # {}
       \/ next = "delete" /\ doomed \cap booked \subseteq meanwhile
       \/ /\ next = "alter"
          /\ \A r \in DOMAIN Rows : Rows[r] \notin ColumnType(applied + 1) => r \in meanwhile]_vars

(* A migration gives nobody a hotel, and takes one from a manager only if  *)
(* somebody of an earlier or the same date keeps it, unless the service    *)
(* has moved one of the two since the ranking.                             *)
EarliestManagerStays ==
  [][applied' # applied =>
       \A u \in Managers : assigned'[u] # assigned[u] =>
         /\ assigned'[u] = NoHotel
         /\ \/ u \in meanwhile
            \/ \E v \in Managers \ {u} :
                 /\ CreatedAt[v] <= CreatedAt[u]
                 /\ assigned'[v] = assigned[u] \/ v \in meanwhile]_vars

(* The rooms that go have no booking, however late it might come, and are  *)
(* rooms the seeds would not put back; after the last migration none of    *)
(* those is left but for what came or was booked beside it.  A room of one *)
(* of the five types keeps it: no guest finds another than was booked.     *)
BookedRoomsStay ==
  [][applied' # applied =>
       /\ \A r \in DOMAIN roomType \ DOMAIN roomType' :
            r \notin booked /\ r \in DOMAIN RoomIndex /\ RoomIndex[r] \notin SeedRooms
       /\ applied' = 3 => \A r \in DOMAIN roomType' \cap DOMAIN RoomIndex :
            RoomIndex[r] \in SeedRooms \/ r \in booked \cup meanwhile
       /\ \A r \in DOMAIN roomType \cap DOMAIN roomType' :
            roomType[r] \in FiveTypes => roomType'[r] = roomType[r]]_vars
=============================================================================
