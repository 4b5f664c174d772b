------------------------------ MODULE Seeding -------------------------------
(***************************************************************************)
(* The seed scripts (prisma/seeders), run again over a database in use.    *)
(* A script is a program of its own beside the backend: it sends its       *)
(* statements one by one, outside any transaction, and stops at the first  *)
(* that fails.  The services go on in between.                             *)
(*                                                                         *)
(* The seeders find an account by its e-mail address.  An address never    *)
(* changes, so that of every id is given once and for all, those of ids    *)
(* yet to be enrolled included.                                            *)
(***************************************************************************)
EXTENDS HotelSystem, Sequences

CONSTANTS Email,            \* the address of each account
          SuperAdminEmail,  \* SEED_SUPER_ADMIN_EMAIL
          HotelOrder,       \* the ids of SEED_HOTELS, in their order
          RoomOrder,        \* the ids of SEED_ROOMS, in theirs
          DemoUsers         \* SEED_DEMO_USERS

VARIABLES todo,         \* the statements the script has yet to send
          found,        \* the seeded hotels seedRooms has found
          undisturbed   \* history: the last seed is a full one, and nobody else wrote since

seedVars == <<todo, found, undisturbed>>

DemoUser == [email : STRING, role : Role, hotelId : Hotels \cup {NoHotel}]

ASSUME SeedingAssumption ==
  /\ Email \in [Users -> STRING]
  /\ SuperAdminEmail \in STRING
  /\ HotelOrder \in Seq(DOMAIN SeedHotel)
  /\ RoomOrder \in Seq(DOMAIN SeedRoom)
  /\ DemoUsers \in Seq(DemoUser)
  /\ \A i \in DOMAIN DemoUsers :
       DemoUsers[i].hotelId # NoHotel => DemoUsers[i].role = "HOTEL_MANAGER"

(* What the lists of the seeders name, and that the super admin is seeded  *)
(* under an address of their own.                                          *)
ASSUME SeedListsAssumption ==
  /\ DOMAIN SeedHotel = {HotelOrder[i] : i \in DOMAIN HotelOrder}
  /\ DOMAIN SeedRoom = {RoomOrder[i] : i \in DOMAIN RoomOrder}
  /\ \A i, j \in DOMAIN DemoUsers : DemoUsers[i].email = DemoUsers[j].email => i = j
  /\ \A i \in DOMAIN DemoUsers : DemoUsers[i].email # SuperAdminEmail
  /\ \A u, v \in DOMAIN SeedUser : Email[u] = Email[v] => u = v
  /\ \E u \in DOMAIN SeedUser :
       /\ Email[u] = SuperAdminEmail
       /\ SeedUser[u].role = "SUPER_ADMIN"
       /\ SeedUser[u].hotelId = NoHotel

-----------------------------------------------------------------------------
(* The statements of a script.  Those of an account that manages a hotel   *)
(* are two: the hotel is looked up first.                                  *)
UpsertUser(email, role, hotelId, looksUp) ==
  [table |-> "user", email |-> email, role |-> role, hotelId |-> hotelId, looksUp |-> looksUp]
UpsertHotel(h) == [table |-> "hotel", id |-> h]
UpsertRoom(r) == [table |-> "room", id |-> r]
FindHotels == [table |-> "hotels"]

SEED_HOTELS == [i \in DOMAIN HotelOrder |-> UpsertHotel(HotelOrder[i])]
SEED_ROOMS == [i \in DOMAIN RoomOrder |-> UpsertRoom(RoomOrder[i])]
SEED_DEMO_USERS ==
  [i \in DOMAIN DemoUsers |->
     UpsertUser(DemoUsers[i].email, DemoUsers[i].role, DemoUsers[i].hotelId,
                DemoUsers[i].hotelId # NoHotel)]

seedSuperAdmin == <<UpsertUser(SuperAdminEmail, "SUPER_ADMIN", NoHotel, FALSE)>>
seedRooms == <<FindHotels>> \o SEED_ROOMS

\* Variant: the rooms before the hotels they are in.
roomsFirst == seedSuperAdmin \o seedRooms \o SEED_HOTELS \o SEED_DEMO_USERS
runSeeders == seedSuperAdmin \o SEED_HOTELS \o seedRooms \o SEED_DEMO_USERS

(* seed.ts, seed-hotels.ts and seed-rooms.ts.                              *)
Scripts == {runSeeders, SEED_HOTELS, SEED_HOTELS \o seedRooms}

-----------------------------------------------------------------------------
Statement ==
  [table : {"user"}, email : STRING, role : Role, hotelId : Hotels \cup {NoHotel},
   looksUp : BOOLEAN]
    \cup [table : {"hotel"}, id : DOMAIN SeedHotel]
    \cup [table : {"room"}, id : DOMAIN SeedRoom]
    \cup {FindHotels}

Running(table) == todo # <<>> /\ Head(todo).table = table

(* The types; and no room is written before a seeded hotel has been found. *)
SeedingTypeOK ==
  /\ todo \in Seq(Statement)
  /\ found \subseteq DOMAIN SeedHotel
  /\ undisturbed \in BOOLEAN
  /\ Running("room") => found # {}

SeedInit == Init /\ todo = <<>> /\ found = {} /\ undisturbed = FALSE

(* Unique index on user.email.                                             *)
EmailsUnique == \A u, v \in DOMAIN user : Email[u] = Email[v] => u = v

HasEmail(u, email) == u \in DOMAIN user /\ Email[u] = email

-----------------------------------------------------------------------------
(* A script is started by hand, one at a time.                             *)
SeedBegin(script) ==
  /\ todo = <<>>
  /\ todo' = script
  /\ found' = {}
  /\ undisturbed' = (script = runSeeders)
  /\ UNCHANGED vars

Advance == todo' = Tail(todo) /\ UNCHANGED <<found, undisturbed>>

(* A statement fails or a check throws: main reports it and exits.         *)
Stop == todo' = <<>> /\ found' = {} /\ undisturbed' = FALSE

(* One turn of the loop of seedHotels: all columns, there or not.          *)
\* Variant: a hotel that is there already is left as it is (update: {}).
KeptHotel(h) == IF h \in DOMAIN hotel THEN hotel[h] ELSE SeedHotel[h]
SeededHotel(h) == SeedHotel[h]

SeedHotelRow ==
  /\ Running("hotel")
  /\ hotel' = Put(hotel, Head(todo).id, SeededHotel(Head(todo).id))
  /\ Advance
  /\ UNCHANGED <<room, user, booking, payment>>

(* seedRooms looks up which of the seeded hotels exist; none is an error.  *)
\* Variant: it goes on even so.
AnyOrNone(hotels) == TRUE
SomeFound(hotels) == hotels # {}

FindSeedHotels ==
  LET present == DOMAIN SeedHotel \cap DOMAIN hotel
  IN  /\ Running("hotels")
      /\ \/ /\ SomeFound(present)
            /\ todo' = Tail(todo)
            /\ found' = present
            /\ UNCHANGED undisturbed
         \/ ~SomeFound(present) /\ Stop
      /\ UNCHANGED tables

(* buildSeedRooms: a room can be had when its hotel is seeded as open.     *)
SeededRoom(r) ==
  [SeedRoom[r] EXCEPT !.isAvailable = SeedHotel[SeedRoom[r].hotelId].status = "ACTIVE"]

(* One turn of the loop of seedRooms: a room whose hotel was not found is  *)
(* passed over, one whose hotel has gone since is refused.                 *)
\* Variant: the room is written without the foreign key.
RoomAcceptedAnyway(r) == TRUE
RoomAccepted(r) == RoomParentExists(SeedRoom[r].hotelId)

SeedRoomRow ==
  LET r == Head(todo).id
      known == SeedRoom[r].hotelId \in found
  IN  /\ Running("room")
      /\ \/ known /\ RoomAccepted(r) /\ room' = Put(room, r, SeededRoom(r)) /\ Advance
         \/ known /\ ~RoomAccepted(r) /\ Stop /\ UNCHANGED room
         \/ ~known /\ Advance /\ UNCHANGED room
      /\ UNCHANGED <<hotel, user, booking, payment>>

(* seedDemoUsers looks for the hotel of the demo manager.                  *)
FindDemoHotel ==
  LET s == Head(todo)
  IN  /\ Running("user")
      /\ s.looksUp
      /\ \/ /\ s.hotelId \in DOMAIN hotel
            /\ todo' = <<[s EXCEPT !.looksUp = FALSE]>> \o Tail(todo)
            /\ UNCHANGED <<found, undisturbed>>
         \/ s.hotelId \notin DOMAIN hotel /\ Stop
      /\ UNCHANGED tables

(* user.upsert by address, in seedSuperAdmin and seedDemoUsers.            *)
\* Variant: the upsert is not held to the unique index on the hotel.
UpsertAnyway(s, u) == s.hotelId \in DOMAIN hotel \cup {NoHotel}
UpsertAccepted(s, u) == RowAccepted(s, u)

SeedUserUpdate(u) ==
  LET s == Head(todo)
  IN  /\ HasEmail(u, s.email)
      /\ \/ /\ UpsertAccepted(s, u)
            /\ user' = Put(user, u, [user[u] EXCEPT !.role = s.role, !.hotelId = s.hotelId])
            /\ Advance
         \/ ~UpsertAccepted(s, u) /\ Stop /\ UNCHANGED user
      /\ UNCHANGED enrolled

SeedUserInsert(u) ==
  LET s == Head(todo)
  IN  /\ \A v \in DOMAIN user : ~HasEmail(v, s.email)
      /\ u \notin enrolled /\ Email[u] = s.email
      /\ \/ /\ UpsertAccepted(s, u)
            /\ user' = Put(user, u, [role |-> s.role, hotelId |-> s.hotelId,
                                     mustChangePassword |-> FALSE])
            /\ enrolled' = enrolled \cup {u}
            /\ Advance
         \/ ~UpsertAccepted(s, u) /\ Stop /\ UNCHANGED <<user, enrolled>>

SeedUserRow ==
  /\ Running("user")
  /\ ~Head(todo).looksUp
  /\ \E u \in Users : SeedUserUpdate(u) \/ SeedUserInsert(u)
  /\ UNCHANGED <<hotel, room, booking, payment>>

(* The script is killed or loses its connection.                           *)
SeedDies == todo # <<>> /\ Stop /\ UNCHANGED tables

SeedStep ==
  /\ \/ /\ SeedHotelRow \/ FindSeedHotels \/ SeedRoomRow \/ FindDemoHotel \/ SeedDies
        /\ UNCHANGED enrolled
     \/ SeedUserRow
  /\ UNCHANGED <<now, calls, catalog, task>>

(* The services, which insert no account with an address that is taken.    *)
ServiceStep ==
  /\ Next
  /\ EmailsUnique'
  /\ UNCHANGED <<todo, found>>
  /\ undisturbed' = (undisturbed /\ UNCHANGED <<hotel, room, user>>)

SeedNext ==
  \/ ServiceStep
  \/ SeedStep
  \/ \E script \in Scripts : SeedBegin(script)

SeedSpec == SeedInit /\ [][SeedNext]_<<vars, seedVars>>

-----------------------------------------------------------------------------
HasAccount(email, role, hotelId) ==
  \E u \in DOMAIN user :
    Email[u] = email /\ user[u].role = role /\ user[u].hotelId = hotelId

(* A full seed that reaches its end, with nobody else writing meanwhile,   *)
(* has brought back everything it is about, whatever had been removed,     *)
(* reassigned or left half seeded before: the seeders depend on each other *)
(* and each passes over, or trips on, what an earlier one has not written. *)
SeedRestores ==
  undisturbed /\ todo = <<>> =>
    /\ \A h \in DOMAIN SeedHotel : h \in DOMAIN hotel /\ hotel[h] = SeedHotel[h]
    /\ \A r \in DOMAIN SeedRoom : r \in DOMAIN room /\ room[r] = SeededRoom(r)
    /\ HasAccount(SuperAdminEmail, "SUPER_ADMIN", NoHotel)
    /\ \A i \in DOMAIN DemoUsers :
         HasAccount(DemoUsers[i].email, DemoUsers[i].role, DemoUsers[i].hotelId)

(* The super admin is there at every moment and stays what they are: no    *)
(* service and no seeder, finished or not, leaves the organisation without *)
(* the one account that can appoint admins.                                *)
SuperAdminRemains == HasAccount(SuperAdminEmail, "SUPER_ADMIN", NoHotel)

(* What demo-users.seeder.ts:14 says: the demo accounts are upserted on    *)
(* every seed, so the upsert of one whose hotel is there is not refused.   *)
DemoUsersUpserted ==
  todo # <<>> /\ Head(todo).table = "user" /\ Head(todo).hotelId \in DOMAIN hotel =>
    \A u \in Users : HasEmail(u, Head(todo).email) => UpsertAccepted(Head(todo), u)
=============================================================================
