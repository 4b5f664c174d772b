-------------------------- MODULE MigrationsProofs --------------------------
(***************************************************************************)
(* Proofs about Migrations, for any managers, dates, rooms, free-text      *)
(* types and any types the service writes.                                 *)
(***************************************************************************)
EXTENDS Migrations, TLAPS

(* The type of a room as the migration that runs sees it.                  *)
TypeNow(r) == IF r \in DOMAIN retyped THEN retyped[r] ELSE roomType[r]

(* Which migration a step belongs to, and what it has not begun with.      *)
StepInv ==
  /\ next \in ManagerSteps => applied = 0
  /\ next = "alter" => applied \in {1, 2}
  /\ next \in RoomSteps \ {"alter"} => applied = 2
  /\ next \notin RoomSteps => DOMAIN retyped = {} /\ doomed = {}
  /\ next = "alter" /\ applied = 1 => doomed = {}
  /\ applied > 0 => UniqueHotel(assigned)

(* What the ranking has found, but for accounts the service has assigned   *)
(* since: who is not a duplicate has a hotel of his own, and who is one    *)
(* has the hotel of somebody who is not.                                   *)
ManagersInv ==
  next \in ManagerSteps =>
    /\ \A u, v \in Managers \ (duplicates \cup meanwhile) :
         assigned[u] # NoHotel /\ assigned[u] = assigned[v] => u = v
    /\ \A u \in duplicates \ meanwhile :
         \E v \in Managers \ duplicates :
           /\ v # u /\ CreatedAt[v] <= CreatedAt[u]
           /\ v \in meanwhile \/ assigned[v] = assigned[u]

(* What the statements so far have made of the rooms, but for those the    *)
(* service has written since the first.                                    *)
RoomsInv ==
  /\ \A r \in DOMAIN roomType \ meanwhile :
       /\ next = "alter" /\ applied = 1 => TypeNow(r) \in ThirteenTypes
       /\ next \in RoomSteps /\ applied = 2 =>
            /\ TypeNow(r) \notin Remapped
            /\ next # "toKing" =>
                 /\ TypeNow(r) # "Penthouse Suite"
                 /\ next # "toSuite" => TypeNow(r) # "Presidential Suite"
       /\ next \in {"delete", "alter"} /\ applied = 2 /\ Excess(r) => r \in doomed \cup booked
  /\ \A r \in DOMAIN retyped : roomType[r] \notin FiveTypes
  /\ \A r \in doomed : Excess(r)
  /\ next = "delete" => doomed \cap booked \subseteq meanwhile
  /\ next = "alter" => doomed \cap booked = {}

Inv == MigrationsTypeOK /\ StepInv /\ ManagersInv /\ RoomsInv

-----------------------------------------------------------------------------
(* The steps, each by what it does                                         *)

(* No migration is under way.                                              *)
Idle ==
  next = "none" /\ duplicates = {} /\ retyped = NoRows /\ doomed = {}
  /\ waiting = FALSE /\ meanwhile = {}

LEMMA EndIsIdle == End => Idle'
BY DEF End, Idle

LEMMA ColumnTypes ==
  /\ \A n : ColumnType(n) \subseteq AnyType
  /\ FiveTypes \subseteq ThirteenTypes /\ ThirteenTypes \subseteq AnyType
  /\ ColumnType(1) = ColumnType(0) /\ ColumnType(2) = ThirteenTypes /\ ColumnType(3) = FiveTypes
  /\ \A type \in ThirteenTypes :
       \/ type \in FiveTypes \/ type \in Remapped
       \/ type = "Penthouse Suite" \/ type = "Presidential Suite"
  /\ FiveTypes \cap (Remapped \cup {"Penthouse Suite", "Presidential Suite"}) = {}
<1>1. FiveTypes \subseteq ThirteenTypes /\ ThirteenTypes \subseteq AnyType
  BY DEF AnyType, ThirteenTypes
<1>2. \A n : ColumnType(n) \subseteq AnyType
  BY <1>1 DEF ColumnType
<1>3. ColumnType(0) = AnyType /\ ColumnType(1) = AnyType
  BY DEF ColumnType
<1>4. ColumnType(2) = ThirteenTypes /\ ColumnType(3) = FiveTypes
  BY DEF ColumnType
<1>5. \A type \in ThirteenTypes :
        \/ type \in FiveTypes \/ type \in Remapped
        \/ type = "Penthouse Suite" \/ type = "Presidential Suite"
  BY DEF ThirteenTypes
<1>6. FiveTypes \cap (Remapped \cup {"Penthouse Suite", "Presidential Suite"}) = {}
  BY DEF FiveTypes, Remapped
<1> QED BY <1>1, <1>2, <1>3, <1>4, <1>5, <1>6

(* The rows a transaction sees.                                            *)
LEMMA RowsSeen ==
  /\ DOMAIN Rows = DOMAIN roomType \ Deleted
  /\ \A r \in DOMAIN Rows : Rows[r] = TypeNow(r)
BY DEF Rows, TypeNow, Deleted

(* An UPDATE of rooms gives those of some types another and leaves the     *)
(* rest.                                                                   *)
LEMMA UpdateUpdates ==
  ASSUME MigrationsTypeOK, next # "alter", NEW Types, NEW type, NEW step, Update(Types, type, step)
  PROVE  /\ DOMAIN retyped' = DOMAIN retyped \cup {r \in DOMAIN roomType : TypeNow(r) \in Types}
         /\ \A r \in DOMAIN roomType : TypeNow(r)' = IF TypeNow(r) \in Types THEN type ELSE TypeNow(r)
         /\ \A r \in DOMAIN retyped' : retyped'[r] = type \/ (r \in DOMAIN retyped /\ retyped'[r] = retyped[r])
         /\ next' = step /\ UNCHANGED <<duplicates, doomed>> /\ Unfinished
<1>1. DOMAIN Rows = DOMAIN roomType /\ \A r \in DOMAIN roomType : Rows[r] = TypeNow(r)
  BY RowsSeen DEF Deleted
<1>2. /\ retyped' = [r \in DOMAIN retyped \cup {r \in DOMAIN Rows : Rows[r] \in Types} |->
                      IF Rows[r] \in Types THEN type ELSE retyped[r]]
      /\ next' = step /\ UNCHANGED <<duplicates, doomed, roomType>> /\ Unfinished
  BY DEF Update, Unfinished, tables
<1>3. DOMAIN retyped \subseteq DOMAIN roomType
  BY DEF MigrationsTypeOK
<1>4. DOMAIN retyped' = DOMAIN retyped \cup {r \in DOMAIN roomType : TypeNow(r) \in Types}
  BY <1>1, <1>2
<1>5. \A r \in DOMAIN retyped' : retyped'[r] = IF TypeNow(r) \in Types THEN type ELSE retyped[r]
  BY <1>1, <1>2, <1>3
<1>6. ASSUME NEW r \in DOMAIN roomType
      PROVE  TypeNow(r)' = IF TypeNow(r) \in Types THEN type ELSE TypeNow(r)
  <2>1. roomType'[r] = roomType[r]
    BY <1>2
  <2>2. CASE TypeNow(r) \in Types
    BY <1>4, <1>5, <2>2 DEF TypeNow
  <2>3. CASE TypeNow(r) \notin Types
    BY <1>4, <1>5, <2>1, <2>3 DEF TypeNow
  <2> QED BY <2>2, <2>3
<1>7. ASSUME NEW r \in DOMAIN retyped'
      PROVE  retyped'[r] = type \/ (r \in DOMAIN retyped /\ retyped'[r] = retyped[r])
  BY <1>4, <1>5, <1>7
<1> QED BY <1>2, <1>4, <1>6, <1>7

(* The UPDATEs: which types become which, between which steps.             *)
Updates(Types, type, from, to, n) ==
  /\ next = from /\ applied = n /\ Update(Types, type, to)

LEMMA TheUpdates ==
  ASSUME StepInv, NormalizeTypes \/ ToDouble \/ ToKing \/ ToSuite
  PROVE  \/ Updates(AnyType \ ThirteenTypes, "Standard Single", "none", "alter", 1)
         \/ Updates(Remapped, "Standard Double", "none", "toKing", 2)
         \/ Updates({"Penthouse Suite"}, "Deluxe King", "toKing", "toSuite", 2)
         \/ Updates({"Presidential Suite"}, "Junior Suite", "toSuite", "excess", 2)
BY DEF StepInv, RoomSteps, Updates, NormalizeTypes, ToDouble, ToKing, ToSuite, Begins

(* A step of the service writes one row.                                   *)
ServiceStep ==
  \/ \E u \in Managers, h \in Hotels \cup {NoHotel} : Assign(u, h)
  \/ \E r \in Rooms, type \in Written \cap ColumnType(applied) :
       AddRoom(r, type) \/ UpdateRoom(r, type)
  \/ \E r \in Rooms : Book(r)

WritesType(r, type) ==
  /\ r \notin DOMAIN retyped \cup Deleted
  /\ DOMAIN roomType' = DOMAIN roomType \cup {r}
  /\ roomType'[r] = type
  /\ \A s \in DOMAIN roomType : s # r => roomType'[s] = roomType[s]
  /\ Since(r, RoomSteps) /\ UNCHANGED <<assigned, booked>>

LEMMA ServiceWrites ==
  ASSUME MigrationsTypeOK, StepInv, ServiceStep
  PROVE  \/ \E u \in Managers, h \in Hotels \cup {NoHotel} : Assign(u, h)
         \/ \E r \in Rooms, type \in Written \cap ColumnType(applied) : WritesType(r, type)
         \/ \E r \in Rooms : Book(r)
<1>1. ASSUME NEW r \in Rooms, NEW type \in Written \cap ColumnType(applied),
             AddRoom(r, type) \/ UpdateRoom(r, type)
      PROVE  WritesType(r, type)
  <2>1. DOMAIN retyped \subseteq DOMAIN roomType /\ Deleted \subseteq DOMAIN roomType
    BY DEF MigrationsTypeOK, Deleted
  <2> QED BY <1>1, <2>1 DEF AddRoom, UpdateRoom, SetType, WritesType
<1> QED BY <1>1 DEF ServiceStep

(* A migration ends by committing or by leaving nothing.                   *)
LEMMA Ends ==
  ASSUME MigrationsTypeOK, StepInv
  PROVE  /\ CreateUniqueIndex /\ ~RollBack =>
              /\ UniqueHotel(Staffed) /\ assigned' = Staffed /\ applied = 0 /\ applied' = 1
              /\ UNCHANGED <<roomType, booked, failed>> /\ Idle'
         /\ AlterRoomType /\ ~RollBack =>
              /\ \A r \in DOMAIN Rows : Rows[r] \in ColumnType(applied + 1)
              /\ roomType' = Rows /\ applied \in {1, 2} /\ applied' = applied + 1
              /\ UNCHANGED <<assigned, booked, failed>> /\ Idle'
         /\ RollBack => UNCHANGED <<applied, tables>> /\ Idle' /\ failed' = TRUE
BY EndIsIdle DEF CreateUniqueIndex, AlterRoomType, RollBack, Commit, StepInv, ManagerSteps

StandsStill ==
  /\ UNCHANGED <<applied, failed, tables, migration, meanwhile>>
  /\ waiting' \in BOOLEAN

LEMMA Steps ==
  ASSUME MigrationsTypeOK, [Next]_vars
  PROVE  \/ RollBack
         \/ CreateUniqueIndex /\ ~RollBack
         \/ AlterRoomType /\ ~RollBack
         \/ NormalizeTypes \/ ToDouble \/ ToKing \/ ToSuite
         \/ RankManagers \/ UnassignDuplicates \/ FindExcess
         \/ DeleteExcess /\ ~RollBack
         \/ ServiceStep
         \/ StandsStill
<1>1. CASE UNCHANGED vars
  BY <1>1 DEF vars, StandsStill, MigrationsTypeOK
<1>2. CASE Wait \/ Deadlock
  BY <1>2 DEF Wait, Deadlock, StandsStill
<1>3. CASE Migrate
  BY <1>3 DEF Migrate
<1> QED BY <1>1, <1>2, <1>3 DEF Next, ServiceStep

-----------------------------------------------------------------------------
(* Each part of the invariant is kept                                      *)

LEMMA TypeKept ==
  ASSUME Inv, [Next]_vars
  PROVE  MigrationsTypeOK'
<1> USE DEF Inv
<1>0. ASSUME Idle', applied' \in 0 .. 3, failed' \in BOOLEAN,
             assigned' \in [Managers -> Hotels \cup {NoHotel}],
             DOMAIN roomType' \subseteq Rooms,
             \A r \in DOMAIN roomType' : roomType'[r] \in ColumnType(applied)',
             booked' \subseteq DOMAIN roomType'
      PROVE  MigrationsTypeOK'
  BY <1>0 DEF MigrationsTypeOK, Idle, NoRows
<1>1. CASE RollBack
  BY <1>0, <1>1, Ends DEF MigrationsTypeOK, tables, ColumnType
<1>2. CASE CreateUniqueIndex /\ ~RollBack
  <2>1. Staffed \in [Managers -> Hotels \cup {NoHotel}]
    BY DEF Staffed, MigrationsTypeOK
  <2>2. /\ assigned' = Staffed /\ applied = 0 /\ applied' = 1
        /\ UNCHANGED <<roomType, booked, failed>> /\ Idle'
    BY <1>2, Ends
  <2>3. \A r \in DOMAIN roomType' : roomType'[r] \in ColumnType(applied)'
    BY <2>2, ColumnTypes DEF MigrationsTypeOK
  <2> QED BY <1>0, <2>1, <2>2, <2>3 DEF MigrationsTypeOK
<1>3. CASE AlterRoomType /\ ~RollBack
  <2>1. /\ \A r \in DOMAIN Rows : Rows[r] \in ColumnType(applied + 1)
        /\ roomType' = Rows /\ applied \in {1, 2} /\ applied' = applied + 1
        /\ UNCHANGED <<assigned, booked, failed>> /\ Idle' /\ next = "alter"
    BY <1>3, Ends DEF AlterRoomType
  <2>2. DOMAIN roomType' = DOMAIN roomType \ doomed
    BY <2>1, RowsSeen DEF Deleted
  <2>3. booked' \subseteq DOMAIN roomType'
    BY <2>1, <2>2 DEF RoomsInv, MigrationsTypeOK
  <2>4. \A r \in DOMAIN roomType' : roomType'[r] \in ColumnType(applied)'
    BY <2>1 DEF ColumnType
  <2> QED BY <1>0, <2>1, <2>2, <2>3, <2>4 DEF MigrationsTypeOK
<1>4. CASE NormalizeTypes \/ ToDouble \/ ToKing \/ ToSuite
  <2>1. PICK Types, type, from, to, n :
          /\ Updates(Types, type, from, to, n) /\ from # "alter" /\ type \in FiveTypes
          /\ to \in RoomSteps
    BY <1>4, TheUpdates DEF FiveTypes, RoomSteps
  <2>2. /\ DOMAIN retyped' = DOMAIN retyped \cup {r \in DOMAIN roomType : TypeNow(r) \in Types}
        /\ \A r \in DOMAIN roomType : TypeNow(r)' = IF TypeNow(r) \in Types THEN type ELSE TypeNow(r)
        /\ \A r \in DOMAIN retyped' :
             retyped'[r] = type \/ (r \in DOMAIN retyped /\ retyped'[r] = retyped[r])
        /\ next' = to /\ UNCHANGED <<duplicates, doomed>> /\ Unfinished
    <3>1. MigrationsTypeOK /\ next # "alter" /\ Update(Types, type, to)
      BY <2>1 DEF Updates
    <3> HIDE DEF Inv
    <3> QED BY <3>1, UpdateUpdates
  <2>3. /\ DOMAIN retyped' \subseteq DOMAIN roomType
        /\ \A r \in DOMAIN retyped' : retyped'[r] \in FiveTypes
    BY <2>1, <2>2 DEF MigrationsTypeOK
  <2>4. UNCHANGED <<applied, failed, assigned, roomType, booked, waiting, meanwhile, duplicates, doomed>>
    BY <2>2 DEF Unfinished, tables
  <2> QED BY <2>1, <2>2, <2>3, <2>4 DEF MigrationsTypeOK, ColumnType
<1>5. CASE RankManagers \/ UnassignDuplicates \/ FindExcess \/ (DeleteExcess /\ ~RollBack)
  <2>1. /\ UNCHANGED <<applied, failed, assigned, roomType, booked, waiting, meanwhile, retyped>>
        /\ next' \in ManagerSteps \cup RoomSteps
    BY <1>5 DEF RankManagers, UnassignDuplicates, FindExcess, DeleteExcess, Unfinished, tables,
                ManagerSteps, RoomSteps
  <2>2. duplicates' \subseteq Managers /\ doomed' \subseteq DOMAIN roomType
    BY <1>5 DEF RankManagers, UnassignDuplicates, FindExcess, DeleteExcess, MigrationsTypeOK,
                RankedLater, WithHotel
  <2> QED BY <2>1, <2>2 DEF MigrationsTypeOK, ColumnType
<1>6. CASE ServiceStep
  <2>1. ASSUME NEW u \in Managers, NEW h \in Hotels \cup {NoHotel}, Assign(u, h)
        PROVE  MigrationsTypeOK'
    BY <2>1 DEF Assign, Since, migration, MigrationsTypeOK, ColumnType
  <2>2. ASSUME NEW r \in Rooms, NEW type \in Written \cap ColumnType(applied), WritesType(r, type)
        PROVE  MigrationsTypeOK'
    <3>1. \A s \in DOMAIN roomType' : roomType'[s] \in ColumnType(applied)
      BY <2>2 DEF WritesType, MigrationsTypeOK
    <3>2. /\ UNCHANGED <<applied, failed, assigned, booked, waiting, next, duplicates, retyped, doomed>>
          /\ DOMAIN roomType' = DOMAIN roomType \cup {r}
          /\ meanwhile' \subseteq meanwhile \cup {r}
      BY <2>2 DEF WritesType, Since, migration
    <3> QED BY <3>1, <3>2 DEF MigrationsTypeOK, ColumnType
  <2>3. ASSUME NEW r \in Rooms, Book(r) PROVE MigrationsTypeOK'
    BY <2>3 DEF Book, Since, migration, MigrationsTypeOK, ColumnType
  <2> QED BY <1>6, <2>1, <2>2, <2>3, ServiceWrites
<1>7. CASE StandsStill
  BY <1>7 DEF StandsStill, tables, migration, MigrationsTypeOK, ColumnType
<1> QED BY <1>1, <1>2, <1>3, <1>4, <1>5, <1>6, <1>7, Steps

LEMMA StepKept ==
  ASSUME Inv, [Next]_vars
  PROVE  StepInv'
<1> USE DEF Inv
<1>1. CASE RollBack
  BY <1>1, Ends DEF StepInv, Idle, NoRows, tables, UniqueHotel, ManagerSteps, RoomSteps
<1>2. CASE CreateUniqueIndex /\ ~RollBack
  BY <1>2, Ends DEF StepInv, Idle, NoRows, UniqueHotel, ManagerSteps, RoomSteps
<1>3. CASE AlterRoomType /\ ~RollBack
  <2>1. /\ applied \in {1, 2} /\ applied' = applied + 1 /\ UNCHANGED assigned /\ Idle'
    BY <1>3, Ends
  <2>2. UniqueHotel(assigned)' /\ applied' > 0
    BY <2>1 DEF StepInv, UniqueHotel
  <2> QED BY <2>1, <2>2 DEF StepInv, Idle, NoRows, ManagerSteps, RoomSteps
<1>4. CASE NormalizeTypes \/ ToDouble \/ ToKing \/ ToSuite
  <2>1. \/ next = "none" /\ applied = 1 /\ next' = "alter"
        \/ next \in RoomSteps \cup {"none"} /\ applied = 2 /\ next' \in RoomSteps \ {"alter"}
    BY <1>4, TheUpdates DEF Updates, Update, RoomSteps
  <2>2. UNCHANGED <<applied, assigned, doomed>>
    BY <1>4, TheUpdates DEF Updates, Update, Unfinished, tables
  <2> QED BY <2>1, <2>2 DEF StepInv, UniqueHotel, ManagerSteps, RoomSteps
<1>5. CASE RankManagers \/ UnassignDuplicates
  BY <1>5 DEF RankManagers, UnassignDuplicates, Begins, Unfinished, tables, StepInv, UniqueHotel,
              ManagerSteps, RoomSteps
<1>6. CASE FindExcess \/ (DeleteExcess /\ ~RollBack)
  BY <1>6 DEF FindExcess, DeleteExcess, Unfinished, tables, StepInv, UniqueHotel,
              ManagerSteps, RoomSteps
<1>7. CASE ServiceStep
  <2>1. UNCHANGED <<applied, next, retyped, doomed>>
    BY <1>7, ServiceWrites DEF Assign, WritesType, Book, Since, migration
  <2>2. applied > 0 => UniqueHotel(assigned)'
    BY <1>7, ServiceWrites DEF Assign, WritesType, Book, UniqueHotel, StepInv
  <2> QED BY <2>1, <2>2 DEF StepInv
<1>8. CASE StandsStill
  BY <1>8 DEF StandsStill, tables, migration, StepInv, UniqueHotel
<1> QED BY <1>1, <1>2, <1>3, <1>4, <1>5, <1>6, <1>7, <1>8, Steps

LEMMA ManagersKept ==
  ASSUME Inv, [Next]_vars
  PROVE  ManagersInv'
<1> USE DEF Inv
<1>1. ASSUME next' \notin ManagerSteps PROVE ManagersInv'
  BY <1>1 DEF ManagersInv
<1>2. CASE RollBack \/ CreateUniqueIndex \/ AlterRoomType
  BY <1>1, <1>2, Ends DEF Idle, ManagerSteps
<1>3. CASE NormalizeTypes \/ ToDouble \/ ToKing \/ ToSuite
  BY <1>1, <1>3, TheUpdates DEF Updates, Update, ManagerSteps
<1>4. CASE FindExcess \/ (DeleteExcess /\ ~RollBack)
  BY <1>1, <1>4 DEF FindExcess, DeleteExcess, ManagerSteps
<1>5. CASE RankManagers
  <2>1. PICK kept \in SUBSET WithHotel :
          /\ \A u \in kept : RankedFirst(kept, u)
          /\ \A u \in WithHotel : \E v \in kept : assigned[v] = assigned[u]
          /\ duplicates' = WithHotel \ kept
    BY <1>5 DEF RankManagers, RankedLater
  <2>2. UNCHANGED <<assigned, meanwhile>>
    BY <1>5 DEF RankManagers, Unfinished, tables
  <2>3. \A u, v \in Managers \ duplicates' :
          assigned[u] # NoHotel /\ assigned[u] = assigned[v] => u = v
    BY <2>1 DEF WithHotel, RankedFirst
  <2>4. ASSUME NEW u \in duplicates'
        PROVE  \E v \in Managers \ duplicates' :
                 v # u /\ CreatedAt[v] <= CreatedAt[u] /\ assigned[v] = assigned[u]
    <3>1. PICK v \in kept : assigned[v] = assigned[u]
      BY <2>1, <2>4
    <3>2. u \in Managers /\ v \in Managers \ duplicates' /\ v # u
      BY <2>1, <2>4 DEF WithHotel
    <3>3. CreatedAt[v] <= CreatedAt[u]
      BY <2>1, <3>1, <3>2 DEF RankedFirst
    <3> QED BY <3>1, <3>2, <3>3
  <2> QED BY <2>2, <2>3, <2>4 DEF ManagersInv
<1>6. CASE UnassignDuplicates
  BY <1>6 DEF UnassignDuplicates, Unfinished, tables, ManagersInv, ManagerSteps
<1>7. CASE ServiceStep
  <2>1. ASSUME NEW w \in Managers, NEW h \in Hotels \cup {NoHotel}, Assign(w, h),
               next \in ManagerSteps
        PROVE  ManagersInv'
    <3>1. /\ meanwhile' = meanwhile \cup {w} /\ UNCHANGED duplicates
          /\ \A u \in Managers \ {w} : assigned'[u] = assigned[u]
      BY <2>1 DEF Assign, Since, migration, MigrationsTypeOK
    <3>2. \A u, v \in Managers \ (duplicates' \cup meanwhile') :
            assigned'[u] # NoHotel /\ assigned'[u] = assigned'[v] => u = v
      BY <2>1, <3>1 DEF ManagersInv
    <3>3. ASSUME NEW u \in duplicates' \ meanwhile'
          PROVE  \E v \in Managers \ duplicates' :
                   /\ v # u /\ CreatedAt[v] <= CreatedAt[u]
                   /\ v \in meanwhile' \/ assigned'[v] = assigned'[u]
      <4>1. u \in duplicates \ meanwhile /\ u # w /\ u \in Managers
        BY <3>1 DEF MigrationsTypeOK
      <4>2. PICK v \in Managers \ duplicates :
              /\ v # u /\ CreatedAt[v] <= CreatedAt[u]
              /\ v \in meanwhile \/ assigned[v] = assigned[u]
        BY <2>1, <4>1 DEF ManagersInv
      <4>3. v \in meanwhile' \/ assigned'[v] = assigned'[u]
        BY <3>1, <4>1, <4>2
      <4> QED BY <3>1, <4>2, <4>3
    <3> QED BY <3>2, <3>3 DEF ManagersInv
  <2>2. ASSUME NEW r \in Rooms, NEW type, WritesType(r, type) \/ Book(r), next \in ManagerSteps
        PROVE  ManagersInv'
    <3>1. UNCHANGED <<meanwhile, duplicates, assigned>>
      BY <2>2 DEF WritesType, Book, Since, migration, ManagerSteps, RoomSteps
    <3> QED BY <2>2, <3>1 DEF ManagersInv
  <2>3. UNCHANGED next
    BY <1>7, ServiceWrites DEF Assign, WritesType, Book, Since, migration
  <2> QED BY <1>1, <1>7, <2>1, <2>2, <2>3, ServiceWrites
<1>8. CASE StandsStill
  BY <1>8 DEF StandsStill, tables, migration, ManagersInv
<1> QED BY <1>2, <1>3, <1>4, <1>5, <1>6, <1>7, <1>8, Steps

(* Each UPDATE leaves no room of the types it is about.                    *)
LEMMA UpdateKept ==
  ASSUME Inv, NormalizeTypes \/ ToDouble \/ ToKing \/ ToSuite
  PROVE  RoomsInv'
<1> USE DEF Inv
<1> DEFINE Effect(Types, type, to) ==
             /\ DOMAIN retyped' = DOMAIN retyped \cup {r \in DOMAIN roomType : TypeNow(r) \in Types}
             /\ \A r \in DOMAIN roomType : TypeNow(r)' = IF TypeNow(r) \in Types THEN type ELSE TypeNow(r)
             /\ next' = to
             /\ UNCHANGED <<duplicates, doomed, applied, roomType, booked, meanwhile>>
<1>1. ASSUME NEW Types, NEW type, NEW from, NEW to, NEW n, from # "alter",
             Updates(Types, type, from, to, n)
      PROVE  Effect(Types, type, to)
  <2>1. MigrationsTypeOK /\ next # "alter" /\ Update(Types, type, to)
    BY <1>1 DEF Updates
  <2>2. /\ DOMAIN retyped' = DOMAIN retyped \cup {r \in DOMAIN roomType : TypeNow(r) \in Types}
        /\ \A r \in DOMAIN roomType : TypeNow(r)' = IF TypeNow(r) \in Types THEN type ELSE TypeNow(r)
        /\ \A r \in DOMAIN retyped' :
             retyped'[r] = type \/ (r \in DOMAIN retyped /\ retyped'[r] = retyped[r])
        /\ next' = to /\ UNCHANGED <<duplicates, doomed>> /\ Unfinished
    <3> HIDE DEF Inv
    <3> QED BY <2>1, UpdateUpdates
  <2> QED BY <2>2 DEF Unfinished, tables
<1>2. \A r \in DOMAIN roomType : TypeNow(r) \in AnyType
  <2>1. FiveTypes \subseteq AnyType /\ ColumnType(applied) \subseteq AnyType
    BY ColumnTypes
  <2> QED BY <2>1 DEF TypeNow, MigrationsTypeOK
<1>3. ASSUME NEW Types, NEW type, NEW to, Effect(Types, type, to), Types \cap FiveTypes = {}
      PROVE  \A r \in DOMAIN retyped' : roomType'[r] \notin FiveTypes
  <2> SUFFICES ASSUME NEW r \in DOMAIN retyped' PROVE roomType'[r] \notin FiveTypes
    OBVIOUS
  <2>1. CASE r \in DOMAIN retyped
    BY <1>3, <2>1 DEF RoomsInv
  <2>2. CASE r \notin DOMAIN retyped
    BY <1>3, <2>2 DEF TypeNow
  <2> QED BY <2>1, <2>2
<1>4. CASE Updates(AnyType \ ThirteenTypes, "Standard Single", "none", "alter", 1)
  <2>1. Effect(AnyType \ ThirteenTypes, "Standard Single", "alter")
    BY <1>1, <1>4
  <2>2. applied = 1 /\ doomed = {}
    BY <1>4 DEF Updates, StepInv, RoomSteps
  <2>3. \A r \in DOMAIN roomType : TypeNow(r)' \in ThirteenTypes
    BY <1>2, <2>1 DEF ThirteenTypes, FiveTypes
  <2>4. \A r \in DOMAIN retyped' : roomType'[r] \notin FiveTypes
    <3>1. (AnyType \ ThirteenTypes) \cap FiveTypes = {}
      BY ColumnTypes
    <3> HIDE DEF Effect
    <3> QED BY <1>3, <2>1, <3>1
  <2>5. next' = "alter" /\ applied' = 1 /\ doomed' = {} /\ UNCHANGED roomType
    BY <2>1, <2>2
  <2> HIDE DEF Inv, Effect
  <2> QED BY <2>3, <2>4, <2>5 DEF RoomsInv
<1>5. CASE Updates(Remapped, "Standard Double", "none", "toKing", 2)
  <2>1. Effect(Remapped, "Standard Double", "toKing")
    BY <1>1, <1>5
  <2>2. applied = 2 /\ doomed = {}
    BY <1>5 DEF Updates, StepInv, RoomSteps
  <2>3. \A r \in DOMAIN roomType : TypeNow(r)' \notin Remapped
    BY <2>1 DEF Remapped
  <2>4. \A r \in DOMAIN retyped' : roomType'[r] \notin FiveTypes
    BY <1>3, <2>1, ColumnTypes
  <2> HIDE DEF Inv
  <2> QED BY <2>1, <2>2, <2>3, <2>4 DEF RoomsInv
<1>6. CASE Updates({"Penthouse Suite"}, "Deluxe King", "toKing", "toSuite", 2)
  <2>1. Effect({"Penthouse Suite"}, "Deluxe King", "toSuite")
    BY <1>1, <1>6
  <2>2. applied = 2 /\ next = "toKing"
    BY <1>6 DEF Updates
  <2>3. \A r \in DOMAIN roomType \ meanwhile :
          TypeNow(r)' \notin Remapped /\ TypeNow(r)' # "Penthouse Suite"
    <3>1. \A r \in DOMAIN roomType \ meanwhile : TypeNow(r) \notin Remapped
      BY <2>2 DEF RoomsInv, RoomSteps
    <3> QED BY <2>1, <3>1 DEF Remapped
  <2>4. \A r \in DOMAIN retyped' : roomType'[r] \notin FiveTypes
    BY <1>3, <2>1, ColumnTypes
  <2>5. \A r \in doomed : Excess(r)
    BY DEF RoomsInv
  <2> HIDE DEF Inv
  <2> QED BY <2>1, <2>2, <2>3, <2>4, <2>5 DEF RoomsInv, Excess
<1>7. CASE Updates({"Presidential Suite"}, "Junior Suite", "toSuite", "excess", 2)
  <2>1. Effect({"Presidential Suite"}, "Junior Suite", "excess")
    BY <1>1, <1>7
  <2>2. applied = 2 /\ next = "toSuite"
    BY <1>7 DEF Updates
  <2>3. \A r \in DOMAIN roomType \ meanwhile :
          /\ TypeNow(r)' \notin Remapped /\ TypeNow(r)' # "Penthouse Suite"
          /\ TypeNow(r)' # "Presidential Suite"
    <3>1. \A r \in DOMAIN roomType \ meanwhile :
            TypeNow(r) \notin Remapped /\ TypeNow(r) # "Penthouse Suite"
      BY <2>2 DEF RoomsInv, RoomSteps
    <3> QED BY <2>1, <3>1 DEF Remapped
  <2>4. \A r \in DOMAIN retyped' : roomType'[r] \notin FiveTypes
    BY <1>3, <2>1, ColumnTypes
  <2>5. \A r \in doomed : Excess(r)
    BY DEF RoomsInv
  <2> HIDE DEF Inv
  <2> QED BY <2>1, <2>2, <2>3, <2>4, <2>5 DEF RoomsInv, Excess
<1> QED BY <1>4, <1>5, <1>6, <1>7, TheUpdates

LEMMA RoomsKept ==
  ASSUME Inv, [Next]_vars
  PROVE  RoomsInv'
<1> USE DEF Inv
<1>1. CASE RollBack \/ CreateUniqueIndex \/ AlterRoomType
  <2>1. next' = "none" /\ DOMAIN retyped' = {} /\ doomed' = {}
    BY <1>1, Ends DEF Idle, NoRows
  <2> QED BY <2>1 DEF RoomsInv, RoomSteps
<1>2. CASE NormalizeTypes \/ ToDouble \/ ToKing \/ ToSuite
  BY <1>2, UpdateKept
<1>3. CASE RankManagers \/ UnassignDuplicates
  <2>1. next' \in ManagerSteps /\ UNCHANGED <<retyped, doomed>> /\ next \notin RoomSteps
    BY <1>3 DEF RankManagers, UnassignDuplicates, Begins, ManagerSteps, RoomSteps
  <2>2. DOMAIN retyped' = {} /\ doomed' = {}
    BY <2>1 DEF StepInv
  <2> QED BY <2>1, <2>2 DEF RoomsInv, ManagerSteps, RoomSteps
<1>4. CASE FindExcess
  <2>1. /\ next = "excess" /\ next' = "delete"
        /\ doomed' = {r \in DOMAIN roomType \ booked : Excess(r)}
        /\ UNCHANGED <<retyped, applied, roomType, booked, meanwhile>>
    BY <1>4 DEF FindExcess, Unfinished, tables
  <2>2. \A r : TypeNow(r)' = TypeNow(r) /\ (Excess(r)' <=> Excess(r))
    BY <2>1 DEF TypeNow, Excess
  <2> QED BY <2>1, <2>2 DEF RoomsInv, RoomSteps
<1>5. CASE DeleteExcess /\ ~RollBack
  <2>1. /\ next = "delete" /\ next' = "alter" /\ doomed \cap booked = {}
        /\ UNCHANGED <<retyped, doomed, applied, roomType, booked, meanwhile>>
    BY <1>5 DEF DeleteExcess, Protected, Unfinished, tables
  <2>2. applied = 2
    BY <2>1 DEF StepInv, RoomSteps
  <2>3. \A r : TypeNow(r)' = TypeNow(r) /\ (Excess(r)' <=> Excess(r))
    BY <2>1 DEF TypeNow, Excess
  <2>4. \A r \in DOMAIN roomType \ meanwhile :
          /\ TypeNow(r) \notin Remapped
          /\ TypeNow(r) # "Penthouse Suite" /\ TypeNow(r) # "Presidential Suite"
          /\ Excess(r) => r \in doomed \cup booked
    BY <2>1, <2>2 DEF RoomsInv, RoomSteps
  <2>5. (\A r \in DOMAIN retyped : roomType[r] \notin FiveTypes) /\ \A r \in doomed : Excess(r)
    BY DEF RoomsInv
  <2>6. \A r \in DOMAIN roomType' \ meanwhile' :
          /\ TypeNow(r)' \notin Remapped
          /\ TypeNow(r)' # "Penthouse Suite" /\ TypeNow(r)' # "Presidential Suite"
          /\ Excess(r)' => r \in doomed' \cup booked'
    BY <2>1, <2>3, <2>4
  <2>7. /\ \A r \in DOMAIN retyped' : roomType'[r] \notin FiveTypes
        /\ \A r \in doomed' : Excess(r)'
    BY <2>1, <2>3, <2>5
  <2>8. next' # "delete" /\ applied' # 1 /\ doomed' \cap booked' = {}
    BY <2>1, <2>2
  <2> HIDE DEF Inv
  <2> QED BY <2>6, <2>7, <2>8 DEF RoomsInv
<1>6. ASSUME NEW u \in Managers, NEW h \in Hotels \cup {NoHotel}, Assign(u, h)
      PROVE  RoomsInv'
  <2>1. UNCHANGED <<next, retyped, doomed, applied, roomType, booked>> /\ meanwhile \subseteq meanwhile'
    BY <1>6 DEF Assign, Since, migration
  <2>2. \A r : TypeNow(r)' = TypeNow(r) /\ (Excess(r)' <=> Excess(r))
    BY <2>1 DEF TypeNow, Excess
  <2> QED BY <2>1, <2>2 DEF RoomsInv
<1>7. ASSUME NEW r \in Rooms, NEW type, WritesType(r, type)
      PROVE  RoomsInv'
  <2>1. /\ UNCHANGED <<next, retyped, doomed, applied, booked>>
        /\ next \in RoomSteps => meanwhile' = meanwhile \cup {r}
        /\ next \notin RoomSteps => meanwhile' = meanwhile
        /\ r \notin DOMAIN retyped /\ DOMAIN roomType' = DOMAIN roomType \cup {r}
        /\ \A s \in DOMAIN roomType : s # r => roomType'[s] = roomType[s]
    BY <1>7 DEF WritesType, Since, migration
  <2>2. \A s \in DOMAIN roomType : s # r => TypeNow(s)' = TypeNow(s)
    BY <2>1 DEF TypeNow
  <2>3. \A s : Excess(s)' <=> Excess(s)
    BY DEF Excess
  <2>4. \A s \in DOMAIN retyped : s \in DOMAIN roomType /\ roomType'[s] = roomType[s]
    BY <2>1 DEF MigrationsTypeOK
  <2>5. CASE next \in RoomSteps
    BY <2>1, <2>2, <2>3, <2>4, <2>5 DEF RoomsInv
  <2>6. CASE next \notin RoomSteps
    <3>1. next \notin {"delete", "alter"}
      BY <2>6 DEF RoomSteps
    <3> QED BY <2>1, <2>3, <2>4, <2>6, <3>1 DEF RoomsInv
  <2> QED BY <2>5, <2>6
<1>8. ASSUME NEW r \in Rooms, Book(r) PROVE RoomsInv'
  <2>1. /\ UNCHANGED <<next, retyped, doomed, applied, roomType>> /\ booked' = booked \cup {r}
        /\ meanwhile \subseteq meanwhile' /\ (next \in RoomSteps => r \in meanwhile')
        /\ next = "alter" => r \notin doomed
    BY <1>8 DEF Book, Since, migration, Deleted
  <2>2. \A s : TypeNow(s)' = TypeNow(s) /\ (Excess(s)' <=> Excess(s))
    BY <2>1 DEF TypeNow, Excess
  <2> QED BY <2>1, <2>2 DEF RoomsInv, RoomSteps
<1>9. CASE ServiceStep
  BY <1>6, <1>7, <1>8, <1>9, ServiceWrites
<1>10. CASE StandsStill
  BY <1>10 DEF StandsStill, tables, migration, RoomsInv, TypeNow, Excess
<1> QED BY <1>1, <1>2, <1>3, <1>4, <1>5, <1>9, <1>10, Steps

-----------------------------------------------------------------------------
(* The theorems                                                            *)

LEMMA InvStep == Inv /\ [Next]_vars => Inv'
BY TypeKept, StepKept, ManagersKept, RoomsKept DEF Inv

(* The tables and the migration are in order, whatever the service writes. *)
THEOREM InvHolds == Spec => []Inv
<1>1. Init => Inv
  <2> SUFFICES ASSUME Init PROVE Inv
    OBVIOUS
  <2>0. failed \in BOOLEAN /\ waiting \in BOOLEAN
    BY DEF Init
  <2>1. applied = 0 /\ applied \in 0 .. 3
    BY SMT DEF Init
  <2>2. assigned \in [Managers -> Hotels \cup {NoHotel}]
    BY DEF Init
  <2>3. /\ DOMAIN roomType = {} /\ DOMAIN retyped = {} /\ booked = {} /\ next = "none"
        /\ duplicates = {} /\ doomed = {} /\ meanwhile = {}
    BY DEF Init, NoRows
  <2>4. MigrationsTypeOK
    BY <2>0, <2>1, <2>2, <2>3 DEF MigrationsTypeOK
  <2>5. StepInv /\ ManagersInv /\ RoomsInv
    BY <2>1, <2>3 DEF StepInv, ManagersInv, RoomsInv, ManagerSteps, RoomSteps
  <2> QED BY <2>4, <2>5 DEF Inv
<1> QED BY <1>1, InvStep, PTL DEF Spec

(* The room types are those the column takes, the rows a migration writes  *)
(* are rows that are there, and a booked room is one that is there.        *)
THEOREM MigrationsTypeCorrect == Spec => []MigrationsTypeOK
<1>1. Inv => MigrationsTypeOK
  BY DEF Inv
<1> QED BY <1>1, InvHolds, PTL

(* A migration fails over what the service does beside it and over nothing *)
(* that was there before.                                                  *)
THEOREM UndisturbedAlwaysApply == Spec => UndisturbedApply
<1> DEFINE Blamed ==
      failed' # failed =>
        \/ waiting
        \/ /\ next = "index"
           /\ \A u, v \in Managers :
                u # v /\ Staffed[u] = Staffed[v] /\ Staffed[u] # NoHotel
                  => {u, v} \cap meanwhile # {}
        \/ next = "delete" /\ doomed \cap booked \subseteq meanwhile
        \/ /\ next = "alter"
           /\ \A r \in DOMAIN Rows : Rows[r] \notin ColumnType(applied + 1) => r \in meanwhile
<1>1. ASSUME Inv, [Next]_vars PROVE Blamed
  <2> USE <1>1 DEF Inv
  <2>1. CASE CreateUniqueIndex
    <3>1. next = "index"
      BY <2>1 DEF CreateUniqueIndex
    <3>2. \A u \in Managers : Staffed[u] # NoHotel => u \notin duplicates /\ Staffed[u] = assigned[u]
      BY <3>1 DEF Staffed
    <3>3. \A u, v \in Managers :
            u # v /\ Staffed[u] = Staffed[v] /\ Staffed[u] # NoHotel => {u, v} \cap meanwhile # {}
      BY <3>1, <3>2 DEF ManagersInv, ManagerSteps
    <3> QED BY <3>1, <3>3
  <2>2. CASE DeleteExcess
    BY <2>2 DEF DeleteExcess, RoomsInv
  <2>3. CASE AlterRoomType
    <3>1. next = "alter" /\ applied \in {1, 2}
      BY <2>3 DEF AlterRoomType, StepInv
    <3>2. ASSUME NEW r \in DOMAIN Rows \ meanwhile PROVE Rows[r] \in ColumnType(applied + 1)
      <4>1. r \in DOMAIN roomType /\ Rows[r] = TypeNow(r)
        BY <3>2, RowsSeen
      <4>2. CASE applied = 1
        <5>1. TypeNow(r) \in ThirteenTypes
          BY <3>1, <3>2, <4>1, <4>2 DEF RoomsInv
        <5>2. ColumnType(applied + 1) = ThirteenTypes
          <6>1. applied + 1 = 2
            BY <4>2
          <6> QED BY <6>1, ColumnTypes
        <5> QED BY <4>1, <5>1, <5>2
      <4>3. CASE applied = 2
        <5>1. /\ TypeNow(r) \notin Remapped
              /\ TypeNow(r) # "Penthouse Suite" /\ TypeNow(r) # "Presidential Suite"
          BY <3>1, <3>2, <4>1, <4>3 DEF RoomsInv, RoomSteps
        <5>2. TypeNow(r) \in ThirteenTypes
          BY <4>1, <4>3, ColumnTypes DEF TypeNow, MigrationsTypeOK
        <5>3. TypeNow(r) \in FiveTypes
          BY <5>1, <5>2, ColumnTypes
        <5>4. ColumnType(applied + 1) = FiveTypes
          <6>1. applied + 1 = 3
            BY <4>3
          <6> QED BY <6>1, ColumnTypes
        <5> QED BY <4>1, <5>3, <5>4
      <4> QED BY <3>1, <4>2, <4>3
    <3> QED BY <3>1, <3>2
  <2>4. CASE Deadlock
    BY <2>4 DEF Deadlock
  <2>5. CASE UNCHANGED failed
    BY <2>5
  <2>6. CASE NormalizeTypes \/ ToDouble \/ ToKing \/ ToSuite
    BY <2>5, <2>6, TheUpdates DEF Updates, Update, Unfinished
  <2>7. CASE RankManagers \/ UnassignDuplicates \/ FindExcess
    BY <2>5, <2>7 DEF RankManagers, UnassignDuplicates, FindExcess, Unfinished
  <2>8. CASE ServiceStep
    BY <2>5, <2>8, ServiceWrites DEF Assign, WritesType, Book, Since
  <2>9. CASE Wait \/ UNCHANGED vars
    BY <2>5, <2>9 DEF Wait, vars
  <2> QED BY <1>1, <2>1, <2>2, <2>3, <2>4, <2>6, <2>7, <2>8, <2>9 DEF Next, Migrate, ServiceStep
<1>2. Inv /\ [Next]_vars => [Blamed]_vars
  BY <1>1
<1> QED BY <1>2, InvHolds, PTL DEF Spec, UndisturbedApply

(* What the commit of the migration under way does.                        *)
LEMMA Commits ==
  ASSUME Inv, [Next]_vars, applied' # applied
  PROVE  \/ CreateUniqueIndex /\ ~RollBack
         \/ AlterRoomType /\ ~RollBack
<1> USE DEF Inv
<1>1. CASE RollBack
  BY <1>1 DEF RollBack
<1>2. CASE NormalizeTypes \/ ToDouble \/ ToKing \/ ToSuite
  BY <1>2, TheUpdates DEF Updates, Update, Unfinished
<1>3. CASE RankManagers \/ UnassignDuplicates \/ FindExcess \/ (DeleteExcess /\ ~RollBack)
  BY <1>3 DEF RankManagers, UnassignDuplicates, FindExcess, DeleteExcess, Unfinished
<1>4. CASE ServiceStep
  BY <1>4, ServiceWrites DEF Assign, WritesType, Book, Since
<1>5. CASE StandsStill
  BY <1>5 DEF StandsStill
<1> QED BY <1>1, <1>2, <1>3, <1>4, <1>5, Steps

(* A manager loses a hotel to nobody but an earlier one, or to the service *)
(* that moved one of them in between.                                      *)
THEOREM EarliestManagerKept == Spec => EarliestManagerStays
<1> DEFINE Kept ==
      applied' # applied =>
       \A u \in Managers : assigned'[u] # assigned[u] =>
         /\ assigned'[u] = NoHotel
         /\ \/ u \in meanwhile
            \/ \E v \in Managers \ {u} :
                 /\ CreatedAt[v] <= CreatedAt[u]
                 /\ assigned'[v] = assigned[u] \/ v \in meanwhile
<1>1. ASSUME Inv, [Next]_vars PROVE Kept
  <2> USE <1>1 DEF Inv
  <2> SUFFICES ASSUME applied' # applied, NEW u \in Managers, assigned'[u] # assigned[u]
               PROVE  /\ assigned'[u] = NoHotel
                      /\ \/ u \in meanwhile
                         \/ \E v \in Managers \ {u} :
                              /\ CreatedAt[v] <= CreatedAt[u]
                              /\ assigned'[v] = assigned[u] \/ v \in meanwhile
    OBVIOUS
  <2>1. CASE AlterRoomType /\ ~RollBack
    BY <2>1, Ends
  <2>2. CASE CreateUniqueIndex /\ ~RollBack
    <3>1. assigned' = Staffed /\ next = "index"
      BY <2>2, Ends DEF CreateUniqueIndex
    <3>2. u \in duplicates /\ assigned'[u] = NoHotel
      BY <3>1 DEF Staffed
    <3>3. ASSUME u \notin meanwhile
          PROVE  \E v \in Managers \ {u} :
                   /\ CreatedAt[v] <= CreatedAt[u]
                   /\ assigned'[v] = assigned[u] \/ v \in meanwhile
      <4>1. PICK v \in Managers \ duplicates :
              /\ v # u /\ CreatedAt[v] <= CreatedAt[u]
              /\ v \in meanwhile \/ assigned[v] = assigned[u]
        BY <3>1, <3>2, <3>3 DEF ManagersInv, ManagerSteps
      <4>2. assigned'[v] = assigned[v]
        BY <3>1 DEF Staffed
      <4> QED BY <4>1, <4>2
    <3> QED BY <3>2, <3>3
  <2> QED BY <2>1, <2>2, Commits
<1>2. Inv /\ [Next]_vars => [Kept]_vars
  BY <1>1
<1> QED BY <1>2, InvHolds, PTL DEF Spec, EarliestManagerStays

(* The rooms that go are the excess ones without a booking, and those that *)
(* stay with one of the five types keep it.                                *)
THEOREM BookedRoomsAlwaysStay == Spec => BookedRoomsStay
<1> DEFINE Stays ==
      applied' # applied =>
       /\ \A r \in DOMAIN roomType \ DOMAIN roomType' :
            r \notin booked /\ r \in DOMAIN RoomIndex /\ RoomIndex[r] \notin SeedRooms
       /\ applied' = 3 => \A r \in DOMAIN roomType' \cap DOMAIN RoomIndex :
            RoomIndex[r] \in SeedRooms \/ r \in booked \cup meanwhile
       /\ \A r \in DOMAIN roomType \cap DOMAIN roomType' :
            roomType[r] \in FiveTypes => roomType'[r] = roomType[r]
<1>1. ASSUME Inv, [Next]_vars PROVE Stays
  <2> USE <1>1 DEF Inv
  <2> SUFFICES ASSUME applied' # applied PROVE Stays
    OBVIOUS
  <2>0. \A r \in DOMAIN RoomIndex : Excess(r) <=> RoomIndex[r] \notin SeedRooms
    BY MigrationsAssumption DEF Excess, SeedRooms
  <2>1. CASE CreateUniqueIndex /\ ~RollBack
    BY <2>1, Ends
  <2>2. CASE AlterRoomType /\ ~RollBack
    <3>1. /\ next = "alter" /\ roomType' = Rows /\ applied \in {1, 2} /\ applied' = applied + 1
      BY <2>2, Ends DEF AlterRoomType
    <3>2. DOMAIN roomType' = DOMAIN roomType \ doomed /\ \A r \in DOMAIN roomType' : roomType'[r] = TypeNow(r)
      BY <3>1, RowsSeen DEF Deleted
    <3>3. \A r \in doomed : r \notin booked /\ Excess(r) /\ r \in DOMAIN RoomIndex
      BY <3>1 DEF RoomsInv, Excess
    <3>4. \A r \in DOMAIN roomType \ DOMAIN roomType' :
            r \notin booked /\ r \in DOMAIN RoomIndex /\ RoomIndex[r] \notin SeedRooms
      BY <2>0, <3>2, <3>3
    <3>5. ASSUME applied' = 3, NEW r \in DOMAIN roomType' \cap DOMAIN RoomIndex,
                 RoomIndex[r] \notin SeedRooms
          PROVE  r \in booked \cup meanwhile
      <4>1. applied = 2 /\ Excess(r) /\ r \in DOMAIN roomType \ doomed
        BY <2>0, <3>1, <3>2, <3>5
      <4> QED BY <3>1, <4>1 DEF RoomsInv
    <3>6. ASSUME NEW r \in DOMAIN roomType \cap DOMAIN roomType', roomType[r] \in FiveTypes
          PROVE  roomType'[r] = roomType[r]
      <4>1. r \notin DOMAIN retyped
        BY <3>6 DEF RoomsInv
      <4> QED BY <3>2, <4>1 DEF TypeNow
    <3> QED BY <3>4, <3>5, <3>6
  <2> QED BY <2>1, <2>2, Commits
<1>2. Inv /\ [Next]_vars => [Stays]_vars
  BY <1>1
<1> QED BY <1>2, InvHolds, PTL DEF Spec, BookedRoomsStay
=============================================================================
