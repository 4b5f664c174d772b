# A verification of the hotel booking backend

This directory holds a TLA+ model of the NestJS/Prisma/PostgreSQL backend in
this repository, the TLC runs that check it on small instances, and proofs,
checked by TLAPS, that its main properties hold for every number of calls,
hotels, rooms and accounts. Paths below are relative to the repository root.

## 1. The system

A single-page client talks to a stateless Node process; everything that lasts is
in five PostgreSQL tables. A request passes the guards (which read the account
once), runs through one service method, and every `await` in that method is a
statement sent to the database. Between two awaits of one call the awaits of any
number of other calls may take effect. Only `BookingsService.create` and
`PaymentsService.pay` use a transaction.

| Component | State | Operations that write | Talks to |
|---|---|---|---|
| Bookings (`src/bookings`) | `booking` rows; dates, amount and parents never change after the insert, status does | `create`, `cancel`; `list` and `quote` read | hotel and room rows (validation), Availability |
| Availability (`src/bookings/booking-availability.service.ts`) | none | `runSerializable` wraps the writes of create and pay | `booking` |
| Payments (`src/payments`) | `payment` rows, one per booking | `pay`: inserts a payment and confirms the booking | Availability, `booking` |
| Hotels (`src/hotels`) | `hotel` rows | `create`, `update`, `remove`; `list`, `findOne` read | `booking` (count before a removal); the delete cascades to rooms and clears managers' `hotelId` |
| Rooms (`src/rooms`) | `room` rows | `create`, `update`; `list` reads, by stay too | `hotel` rows |
| Users (`src/users`) | `user` rows of staff | `create`, `update`, `remove`; `list` reads | `hotel`, `booking` (count before a removal) |
| Auth (`src/auth`) | own `user` row | `register`, `changePassword`; `login`, `refresh`, `logout` on the refresh-token columns | cookies |
| Guards, JWT strategy (`src/common`) | none | none: they decide whether a call begins | `user` row |
| Dashboard (`src/dashboard`) | none | none: five statements side by side | `hotel`, `booking` |
| Schema (`prisma/schema.prisma`) | constraints | foreign keys with RESTRICT, CASCADE, SET NULL; unique payment per booking; unique manager per hotel | |
| Migrations (`prisma/migrations`) | the constraints there are so far | three of them rewrite rows so that the next constraint can hold | `user`, `room` |
| Seeders (`prisma/seeders`) | the initial rows | three scripts of upserts, run again by hand | all tables but bookings |

What makes each part correct:

- **Bookings, Availability, Payments.** No night of a room is sold twice;
  confirmed means paid, pending means unpaid; a cancelled booking stays
  cancelled. All of it although availability, status and payment are read one or
  more awaits before they are written.
- **Hotels, Rooms.** No booking, room or assignment is left referring to a row
  that is gone, although existence is checked before the write.
- **Users, Auth.** One manager per hotel; staff calls never reach guests or the
  super admin; nobody with a temporary password books.
- **Lists, figures, quotes.** Read over several statements and several requests,
  without a transaction, they still say what they should: a client that pages
  through its bookings passes over no `createdAt` (of bookings of one millisecond,
  which nothing puts in an order, it may see one twice and another not at all),
  revenue is money that was paid, an offer stands until somebody new books, a list
  never shows what the next call would refuse.
- **Seeders.** Run again over anything, killed anywhere, they bring back what they
  are about and never lose the super admin.
- **Migrations.** Whatever rows one finds, it does not fail over them: only over what
  the service has written beside it, or in a deadlock. No hotel loses its first manager,
  no booked room goes.
- **Calendar arithmetic.** Half-open stays, nights as a rounded quotient of instants,
  which has to refuse exactly the stays whose dates are in the wrong order, two
  conversions between dates at the hotel and instants that must agree.

What is hard to test here: interleavings (two creates, pay against cancel,
removal against insert), values that are stale when used (hotel status, the
target of a staff call), the one write that runs outside a transaction
(`cancel`), aborts and lost answers at any point, boundaries of dates.
`PROJECT.json` lists each hazard at its line with the properties that would catch
it, or says why none does.

## 2. Modules

| Module | Lines of code it stands for | Content |
|---|---|---|
| `Stay` | date helpers of `bookings.service.ts`, date conditions of `hasOverlap` | pure functions on dates, instants and zones |
| `Tables` | `prisma/schema.prisma`, the migrations' constraints, guards | the tables as functions from ids to rows, the clock, foreign keys, `Authenticated` |
| `Bookings` | `bookings.service.ts`, `booking-availability.service.ts`, `payments.service.ts` | create, pay, cancel: one action per await; serializable transactions |
| `Catalog` | `hotels.service.ts`, `rooms.service.ts` | hotels and rooms: one action per statement |
| `Staff` | `users.service.ts`, `register` and `changePassword` of `auth.service.ts` | accounts: one action per statement |
| `HotelSystem` | all of them over the same tables | composition, properties, refinement mapping, strengthenings |
| `ReservationLedger` | the promise of bookings and payments | abstract specification: reserve, pay, release |
| `Organisation` | the promise of hotels, rooms, users and, towards them, bookings | abstract specification: open, close, fit out, enrol, move, dismiss, engage |
| `Sessions` | `login`, `refresh`, `logout` of `auth.controller.ts` and `auth.service.ts` | the row's refresh token and the cookies of several browsers |
| `Queries` | the reads of `bookings`, `rooms`, `hotels`, `users` services; `dashboard.service.ts` | calls that only read, one action per statement, beside the services |
| `Seeding` | `prisma/seeders` | the seed scripts, one action per statement, beside the services |
| `Migrations` | the three migrations of `prisma/migrations` that rewrite rows | what their statements make of the rows, and what the service writes before and beside them |
| `MCHotelSystem`, `MCStay`, `MCSessions`, `MCQueries`, `MCSeeding`, `MCMigrations` | | instances for TLC |
| `StayProofs`, `MCStayProofs`, `HotelSystemProofs`, `SessionsProofs`, `QueriesProofs`, `SeedingProofs`, `MigrationsProofs` | | theorems |
| `PromisesProofs` | | theorems about the two abstract specifications themselves |

`HotelSystem` EXTENDS `Bookings` and `Staff`; `Staff` EXTENDS `Catalog`; both
sides EXTEND `Tables`, which EXTENDS `Stay`. The `Ledger` of `HotelSystem` is an
INSTANCE of `ReservationLedger` under the refinement mapping `LedgerEntry`, its `Org` one of
`Organisation` under `Wing`, `Post` and `Engaged`.
`Sessions` stands alone: no other service reads or writes the refresh-token columns, and
what it shares with the others, an account's existence, is its `present`.
`Queries` and `Seeding` EXTEND `HotelSystem`, each with variables of its own: a step of
`Queries` is a step of the services or leaves their variables alone, a script of
`Seeding` writes the services' tables. `Migrations` stands alone, over the tables as
they were before the constraints the others assume.

### State and actions against the code

*Tables.* `hotel`, `room`, `user`, `booking`, `payment` are functions whose domain
is the set of ids present. A payment is keyed by its booking, which the schema
makes unique. Columns no service decides on (names, city, address, stars, room
type, e-mail, password hash, timestamps) are left out. `DeleteHotel` is
`DELETE FROM hotel` with what the foreign keys do: refuse if any booking refers to
the hotel or to one of its rooms, take the rooms, clear managers' `hotelId`. Ids are
uuids: `issued` and `enrolled` remember the ids given, so none is given twice; the
id of a booking is the call that created it.

*Dates.* `Nights` is `calculateNights` step by step: `ParseDate` puts a date at
midnight UTC, `RoundedQuotient` is `Math.round` of a quotient (a half goes up), and
`AtLeastOneNight` is the condition under which it throws. `CreateReadRoom` and `QuoteRoom`
have it as a guard next to the comparison of the dates at the beginning of the call.

*Booking calls.* `pc[c]` is the step a call takes next and `req[c]` what it was
asked. `create` is `BeginCreate` (guards), `CreateReadHotel`, `CreateReadRoom`
(`validateBookingInput` around its two awaits), `CreateCheck` (the transaction's
first read) and `CreateInsert` (insert and COMMIT). `pay` is `BeginPay`, `PayRead`
(checks outside the transaction), `PayCheck` (the same checks and availability
inside), `PayWrite` (payment, booking, COMMIT). `cancel` is `BeginCancel`,
`CancelRead`, for a guest `CancelReadHotel` (deadline), and `CancelUpdate`, an
update by id whatever the row is by then. `ctx[c]` carries what validation read
(the zone, then the amount). A call is used once; a client that retries makes
another call. `Abandon` ends a call at any step without having written: a crash,
a lost connection, a timeout, a failed statement.

*Serializable transactions.* A transaction's reads are one step, the snapshot;
its writes and COMMIT are another, which loses nothing because uncommitted writes
are seen by nobody. In between, `missed[c]` collects bookings that serializable
transactions have written since the snapshot, and `stale[c]` notes that the row
the call is to update has been updated. `SerializationFailure` is what PostgreSQL
is *bound* to abort: an update of a row that has been updated since the snapshot,
and the second of two committed transactions each of which has read past the
other's booking (a cycle of two read-write dependencies). PostgreSQL may abort more;
`Abandon` allows every such abort. `cancel` runs outside any serializable transaction,
so it adds nothing to `missed`, exactly as the database's conflict detection ignores it.

*Catalogue and staff calls* run outside transactions: `job[a]` and `task[k]` say
which statement a slot is about to send and with what, each action is one
statement together with the checks the code makes on its result, and a slot is
reused afterwards. `StaffUpdate` writes back the role and hotel put together from
the account as it was when the call began, as the code does.

*The two abstract specifications.* `ReservationLedger` sees of the tables the bookings and
payments: nights of a room are reserved, paid for once, released. `Organisation` sees who
and what a booking counts on: which hotels there are (`open`), the hotel of each room
(`wing`), role and hotel of each account (`post`), and who is booked where (`engaged`).
There every call is one step with all its conditions in front of it: a hotel closes only
if nobody is booked there, a manager moves only into a hotel that is open and vacant,
an account goes only if it has not booked. In the code the conditions are statements of
their own, one or more awaits before the write. Neither has a variable the tables lack,
so both refinement mappings are plain state functions.

*Sessions.* One account and several browsers. `stored` is the token of the account's
row (`refreshTokenId` and `refreshTokenHash` are written and compared together, so one
value stands for both), `jar[b]` the refresh cookie of browser `b`, `call[r]` the await
at which a call is suspended. `login` is `LoginBegin`, `LoginRead`, `Issue`; `refresh` is
`RefreshBegin` (`verifyRefreshToken` of the cookie), `RefreshRead` (comparison with the
row), `Issue`, or `Clear` when they differ; `logout` is `LogoutBegin`, `Clear`. The answer
with its `Set-Cookie` headers is a step of its own (`Deliver`), so that answers overtake
each other, or get lost (`Lose`). A failed statement ends a login with an error and a refresh or
logout with the cookie cleared (`Fail`). `owner` is a history variable: the browser that
wrote the row last, if no other call of it was under way, forgotten when an answer of
it is lost, its cookie is dropped, or it starts a second call.

*Reads.* `view[q]` is what a call of a slot has read: the filter it was begun with, the
statements of its `Promise.all` still unanswered (`waiting`), and the answers, each
taken on the snapshot of its own step. A count is the set it counts and a sum the set of
its terms, so that two of them can be compared as sets. `list` is `ListBegin`
(the filter by role), `ListFindMany` and `ListCount` in any order, for a guest
`ListZones` (the time zones of the page's hotels, then `toResponse`), and `ListNextPage`
when the client asks on; `owed` and `seen` are history variables: what matched when it
asked for the first page, and what it has been shown. `newer` gives of each booking
those with a later `createdAt`: a booking is dated within its transaction and committed
later, so it may come in below bookings committed before it, and it may have the
`createdAt` of others (`Dated`, `SameDate`; the column has milliseconds). The query sorts by
`createdAt` alone, so a statement may sort rows of one date in any way, each time anew:
`Pages` is the set of all pages that some order allows, and `ListFindMany` takes any of them. `quote` is `QuoteBegin`,
`QuoteRoom`, `QuoteCheck`, the steps of `create` outside a transaction; `getStats` is
`StatsBegin` and five answers. Orders by name or room type are left out: a page of those
lists is any set of rows that is not too large.

*Seeders.* `todo` is what a script has yet to send; a script is the concatenation of its
seeders (`runSeeders` = `seed.ts`, and two shorter ones). Each action is one statement
with the checks on its result: `SeedHotelRow`, `FindSeedHotels` (none found: error),
`SeedRoomRow` (skipped if its hotel was not found, refused if it has gone since),
`FindDemoHotel`, `SeedUserRow` (an upsert by e-mail address, an update or an insert).
An error or a death ends the script where it is (`Stop`, `SeedDies`); nothing is
rolled back. Addresses never change, so `Email` is a constant.

*Migrations.* `applied` counts the migrations. Each is one transaction of READ COMMITTED
statements beside a service that goes on, and `next` is the statement it comes to. What it
has written is kept apart until it commits, because nobody else sees it: `duplicates` (the
accounts `UPDATE` takes the hotel from), `retyped` (rooms with their new types), `doomed`
(rooms to be deleted). A statement sees what the service has committed by then and the
migration's own writes (`Staffed`, `Rows`). `RankManagers` is the snapshot of the
`UPDATE` and `UnassignDuplicates` its writes: an account assigned in between is not ranked
again. `FindExcess` and `DeleteExcess` take the `DELETE` apart in the same way: a room booked
after the snapshot is still to go, and it is the foreign key that refuses (`Protected`).
`CreateUniqueIndex` and `AlterRoomType` lock the table, and nothing that comes after them
in their migration can fail. If their condition does not hold of the rows, `RollBack`:
nothing of the migration remains, and no other follows. The service assigns managers, adds
rooms, changes their types and books them at any time, in rows that the migration has not
written; where it wants one of those it waits (`Wait`), and if its own transaction holds a
lock the migration needs, one of the two is rolled back (`Deadlock`). `meanwhile` is a
history variable: the accounts and rooms the service has written since the migration began.

*Time.* An instant is a number of ticks, `DayLen` ticks to a day; a zone is its
offset in ticks, constant per zone (no change to summer time). `Tick` lets the
clock run between any two steps, up to `MaxNow`.

## 3. What TLC checks

| Run | Instance | Shows |
|---|---|---|
| `booking_races` | 4 calls, 1 room, a guest and an admin, two stays that share a night and one with its dates reversed, the clock over the deadline and past the check-in | `CallsKnowTheirPast`, `NoDoubleBooking`, `PaymentMatchesStatus`, `CancelledIsFinal`, `OwnersDecide`, `ImplementsLedger` |
| `catalog_races` | 1 booking call, 2 catalogue slots, 2 hotels, 2 rooms, requests with the right and the wrong hotel | `CallsKnowTheirPast`, `ReferencesHold`, `ImplementsOrganisation` |
| `staff_races` | 2 staff slots, 1 booking call, 1 catalogue slot, 3 accounts, 2 hotels | `TypeOK`, `OneManagerPerHotel`, `PasswordBeforeBooking`, `ProtectedAccountsStay`, `ImplementsOrganisation` |
| `session_races` | 2 browsers, 3 calls at a time, 3 tokens | `SessionsTypeOK`, `LastWriterHoldsSession`, `OneBrowserPerToken`, `SupersededStaysDead` |
| `stay_arithmetic` | all pairs of stays in four days, the requested one with its dates in any order, all zones up to a day from UTC, three ticks to a day | the four properties of `MCStay` |
| `reads` | 1 reader, 2 booking calls, 1 catalogue slot, a guest, a manager and an admin, pages of one row | `QueriesTypeOK`, `NothingSkipped`, `LastPageCompletes`, `ZonesFound`, `CancellableAgrees`, `RevenueIsPaid`, `ListedStaffIsManaged` |
| `offers` | 1 reader, 3 booking calls, 1 room | `OfferStands` |
| `seeding` | the three scripts; 2 seeded hotels, 1 room, the super admin and the demo manager; 1 staff slot, 1 catalogue slot | `SeedingTypeOK`, `SeedRestores`, `SuperAdminRemains`, `NoOrphans`, `OneManagerPerHotel` |
| `migrations` | 3 managers, two of one date, 2 hotels, 2 rooms, the last the seeds have and the first they have no more | `MigrationsTypeOK`, `UndisturbedApply`, `EarliestManagerStays`, `BookedRoomsStay` |
| `closed_hotel` | 1 booking call, 1 catalogue slot | finds `NewBookingOnlyAtActiveHotel` violated |
| `cancelled_bookings_block` | 2 booking calls, 1 catalogue slot | finds `RemovableWithoutActiveBookings` violated |
| `demo_manager_refused` | as `seeding` | finds `DemoUsersUpserted` violated |

*Why the bounds are enough.* A double booking takes two creates; four calls
also allow each of them to be paid or cancelled, or a third create to run into
two open transactions, which is the longest chain the conflict detection could
get wrong. A catalogue race takes one create, one removal and one further call
that changes what the create has read; a race for a manager takes two
staff calls, and the hotel may be removed meanwhile. Sessions go wrong
between two calls of one browser and one of another; three tokens are three
rotations, so a token can be superseded, its successor too, and a late write or
answer of the first arrive after both. A reader is torn by the calls beside it, not by
other readers, so one slot is enough; two bookings and pages of one row let a booking come
in above, below and beside the page while the client reads, and two stays on either side of
the deadline, at a hotel ahead of UTC, tell the hotel's time from UTC. An offer is at stake
when a booking it knows of comes back after a cancellation: a create, a cancel and a pay,
hence three calls in `offers`. A seed needs two
hotels (one found, one not), a second account for the demo manager's hotel, and somebody
who can remove, close, assign and delete in between. Two managers of the same date and one
later, rooms of index 5 and 6, and one type of each kind that the statements tell apart
(`Written` bounds the types the service writes to those) meet every condition of the
migrations on both sides. Stays, zones and the clock
are chosen so that both answers of every date check occur. In the instances
`MaxNow` and the sizes of the sets (`Tokens` bounds how many sessions are begun) are the only bounds; there is no state constraint.
Calls, slots, clerks, browsers and tokens are interchangeable in their runs (SYMMETRY). Deadlock is checked in `session_races`
and `migrations` only: elsewhere a system whose calls have all been answered and whose
clock is at its bound has stopped.

*No liveness, no fairness.* Nothing in the services waits for anything but an answer of
the database: there is no lock, loop, queue, retry or expiry, a failed check throws, and a
transaction that cannot be serialized is refused. That every call ends would follow from
fairness alone and say nothing about this code. The migrations do wait, for rows and tables;
there PostgreSQL breaks a deadlock, and what matters is what the migrations then leave
behind, which is safety.

*What the three violations show.* `closed_hotel`: the status of the hotel is read
before the transaction (`src/bookings/bookings.service.ts:240`), so a hotel closed
in between still gets a booking, against the message on line 242.
`cancelled_bookings_block`: `remove` refuses for pending and confirmed bookings only
(`src/hotels/hotels.service.ts:132-142`), but the foreign keys refuse for any
booking: once a hotel has had a booking, cancelled or not, its removal ends in a
database error. `demo_manager_refused`: the upsert of the demo manager names the first
seeded hotel whoever manages it by now; if an admin has given it to another account, the
unique index refuses the upsert and the seed ends in an error, against the comment that
the demo accounts are upserted on every seed
(`prisma/seeders/demo-users.seeder.ts:14`).

Each property of a passing run is also run against a plausible bug in the code (the
operators commented `Variant:`), which it must detect: a missing isolation level,
re-check, foreign key, unique index, guard, or an off-by-one in the dates.

## 4. What is proved

TLAPS proves, for every value of the constants that satisfies the assumptions
`DayLenAssumption`, `TablesAssumption`, `BookingsAssumption`, `CatalogAssumption` and
`StaffAssumption` (for `Queries` also `QueriesAssumption`, for `Sessions`: `SessionsAssumption`, for `Migrations`:
`MigrationsAssumption`; sensible types; a seeded database without orphans and with one
manager per hotel; a null that is not an id; for `Seeding`: `SeedingAssumption` and
`SeedListsAssumption`, that the seeded accounts have addresses of their own, the super
admin's among them):

| Theorem | Property |
|---|---|
| `TypeCorrect` | `TypeOK` |
| `NoDoubleBookingAlways` | `NoDoubleBooking` |
| `PaymentAlwaysMatchesStatus` | `PaymentMatchesStatus` |
| `CancelledStaysCancelled` | `CancelledIsFinal` |
| `OwnersAlwaysDecide` | `OwnersDecide` |
| `SystemImplementsLedger`, `SystemImplementsOrganisation` | `ImplementsLedger`, `ImplementsOrganisation` |
| `BookingsAreKept` | `TermsAreKept` of the ledger and `NothingBookedGoes` of the organisation, for the tables |
| `ReferencesAlwaysHold`, `NeverOrphans` | `ReferencesHold`, `NoOrphans` |
| `OneManagerAlways` | `OneManagerPerHotel` |
| `PasswordBeforeBookingAlways` | `PasswordBeforeBooking` |
| `ProtectedAlwaysStay` | `ProtectedAccountsStay` |
| `CallsAlwaysKnowTheirPast` | `CallsKnowTheirPast` |
| `SessionsTypeCorrect` | `SessionsTypeOK` |
| `SupersededAlwaysDead` | `SupersededStaysDead` |
| `OneBrowserAlways` | `OneBrowserPerToken` |
| `LastWriterAlwaysHolds` | `LastWriterHoldsSession` |
| `QueriesTypeCorrect` | `QueriesTypeOK` |
| `NothingEverSkipped`, `LastPageAlwaysCompletes` | `NothingSkipped`, `LastPageCompletes` |
| `ZonesAlwaysFound`, `CancellableAlwaysAgrees` | `ZonesFound`, `CancellableAgrees` |
| `RevenueAlwaysPaid`, `OfferAlwaysStands` | `RevenueIsPaid`, `OfferStands` |
| `ListedStaffAlwaysManaged` | `ListedStaffIsManaged` |
| `SeedingTypeCorrect`, `SeedAlwaysRestores` | `SeedingTypeOK`, `SeedRestores` |
| `SuperAdminAlwaysRemains` | `SuperAdminRemains` |
| `SeedingNeverOrphans`, `SeedingKeepsOneManager` | `NoOrphans`, `OneManagerPerHotel`, with the seeders at work |
| `SeedingImplementsLedger`, `SeedingKeepsTerms`, `SeedingNoDoubleBooking`, `SeedingKeepsReferences`, `SeedingKeepsPasswords`, `SeedingLeavesOwnersDecide` | `ImplementsLedger`, the ledger's `TermsAreKept`, `NoDoubleBooking`, `ReferencesHold`, `PasswordBeforeBooking`, `OwnersDecide`, with the seeders at work |
| `LedgerIsSound`, `LedgerKeepsTerms` | of any ledger: `NightsHeldOnce` and `PaidInFull`, `TermsAreKept` |
| `OrganisationIsSound`, `NothingBookedEverGoes` | of any organisation: `InOrder` and `EngagementsStand`, `NothingBookedGoes` |
| `MigrationsTypeCorrect` | `MigrationsTypeOK` |
| `UndisturbedAlwaysApply`, `EarliestManagerKept`, `BookedRoomsAlwaysStay` | `UndisturbedApply`, `EarliestManagerStays`, `BookedRoomsStay` |
| `OverlapAlwaysMeansSharedNight`, `NightsAlwaysCounted`, `CancellableAlwaysBeforeCheckInDay`, `PastAlwaysFromNextMidnight` | the four properties of `MCStay`, for all dates, all zones of constant offset and all lengths of the day |
| `NightsAreDays` | the rounded quotient of the two instants is the difference of the dates: what `NightsAlwaysCounted` and the amounts of bookings rest on |

The argument is a tower of inductive invariants, each proved from the ones before:

1. `TypeInv /\ StaffInv`: types, and what a call's position says about its request
   (`CallsAreValidated`: a create past its first check has a stay of at least one
   night, a pay past its first read names a booking that exists; `TasksAreValidated`:
   the account a staff call is about has the role the call has checked).
2. `ReservationInv`: `NoCollision` (no two active bookings satisfy the availability
   query), `SnapshotIsComplete` (a create that found its room free has in `missed`
   every booking that took it since), `PayIsCurrent` (a pay that found its booking
   unpaid still would, or is `stale`), `PaymentMatchesStatus`. `NoDoubleBooking` alone
   is not inductive: what keeps two creates apart is what each knows about the
   bookings committed since its snapshot. Every step is first reduced to one of six
   effects on the bookings (`BookingEffect`), so that the invariant, `CancelledIsFinal`
   and the refinement have three writing cases each. `OverlapIsSharedNight` turns
   `NoCollision` into a statement about nights.
3. `ReferenceInv`: the references and `RoomIsOfHotel` (the room a create has validated
   is of its hotel as long as it exists), which needs ids never to be given twice.
4. `AccountInv`: one manager per hotel, no booking under a temporary password,
   `CallersAreEnrolled` (the account of a create is not one yet to be inserted).
5. `OwnersAreChecked`: a pay or cancel that has read its booking was begun by its owner,
   and still is when it writes, because no step gives a booking to somebody else.
   `StepsAreDecided` draws `OwnersDecide` from it: `ReferenceInv` has the account still
   there, `AccountInv` its password its own.

*Two refinements.* `SystemImplementsLedger` needs 1 and 2. For
`SystemImplementsOrganisation` all of 1, 3 and 4 are used, each where a check and its write
are apart. A booking inserted long after validation is an `Engage`: the foreign keys have its
parents there at that moment, and `RoomIsOfHotel` has the room still in the
hotel (`CallsEngage`). A removal is a `Close`: `DeleteHotel` is refused while anything is
booked there, and what it takes along is what `Close` takes (`CatalogOrganises`). A staff call's
write is an `Enrol`, a `Move`, a `Dismiss` or nothing: the unique index has the
hotel vacant, `TaskHolds` has the role of the target unchanged since it was read, with a
hotel exactly if it is a manager's (`StaffOrganises`). Without that `exactly` an update could
have left a manager without a hotel, which no `Move` does; the invariant said less before.

*What the refinements are worth.* `PromisesProofs` proves of the abstract
specifications alone, by invariants of a few lines (`LedgerInv`, `OrganisationInv`), what
follows from keeping them, with nothing of the code in sight. `HotelSystemProofs`
instantiates it with the mappings (`Promises`), so `BookingsAreKept` costs no
step of the services: it is the refinements and the abstract theorems put together.
`SeedingKeepsTerms` takes the same theorem once more.

`Sessions` has an invariant of its own. `OneBrowserPerToken` follows from no step adding
a holder to a token already given (`HoldersStep`) and a new one having a single holder
(`NewHolder`). `LastWriterHoldsSession` is strengthened to `OwnerInTouch`: while the
answer to the last writer is still under way it carries what the row has, and that browser
has no second call.

`Queries` rests on what is proved of the services: `QueriesAreServices` shows that every
behaviour of `QueriesSpec` is one of `Spec`, so the tower above holds beside the reads.
On top of it:

- `RowsAreKept`: a step changes of a booking its status at most, and a cancelled one
  not at all. From it `RevenueIsPaid` (what was confirmed had been paid and payments
  stay) and, with `NoCollision`, `OfferStands`, strengthened to offers that are still
  being put together (`OffersInv`).
- `DatesInv`: `createdAt` orders the bookings, finitely many, with ties; a new one goes in
  somewhere, or beside others, without disturbing them (`DatedInOrder`).
- `PagingInv`: of what is owed, each booking has been met (it or one of its `createdAt` has
  been seen), or is on the page being read or a later one; a page that left something
  unmet was full, and a total that has been read counts all that is owed. `PlacesGrow` (new
  bookings push others down, never up, and bookings of one date stay together) keeps it
  under inserts. Under reads it is `PagesFill`: whichever order the statement has chosen
  among ties, a booking not ahead of the page and not on it is behind all of a full page, or
  has the date of one that is shown. Both rest on cardinalities of finite sets (`PlaceCounts`,
  `RowsOfPage`).
- `PageInv`: the zones that `ListZones` reads are those of the page's hotels, which
  cannot go while they are booked, and the flags were computed from them.
- `StaffListsInv`: the accounts on a list keep the role it is of, because nobody's role
  changes and ids are not given twice.

`Seeding` does not implement `Spec`: an upsert changes the role of an account under a
staff call, so `TasksAreValidated` and with it `ProtectedAccountsStay` fail there, and the
tower cannot stand on it as it is. `SeedInv` has three parts:

- `TablesInv`: types, `NoOrphans`, one manager per hotel, and the super admin. What is
  left of a staff call's checks is that its target is not the super admin and that it
  gives no hotel to an admin (`TaskSpares`), which no upsert can undo. The lemmas on the
  booking and catalogue calls are those of `HotelSystemProofs`.
- `ScriptInv`: the order of the statements left to send (`LookedUpLast`, `RoomsLookedUp`),
  and that the hotels have been found once rooms are written.
- `RestoredInv`: while nobody interferes, each statement of the full seed has had its
  effect (`Fulfilled`) or is yet to come. An upsert that comes later undoes none that
  came before, because the addresses differ; a room is not passed over, because by then
  all hotels have been written.

The bookings beside a running seed have an invariant of their own, `BookedInv`: 2 to 5 of the
tower, and in place of what ids never given twice did for `RoomIsOfHotel`,
`SeededRoomsStay`. A seed does give ids twice: a room that has gone with its hotel
comes back under its old id, while a create that has validated it may still be under way.
`SeededRoomsStay` says that a room of the seeds is always in the hotel the seeds put it in,
and was so when any create validated it. The step lemmas of the tower (`ReservationsKept`,
`CallsKeepReferences`, `CatalogKeepsReferences`, `AccountsKeepReferences`, `WritesKeepAccounts`,
`CallsKeepOwners`) do not ask where the other rows came from and serve both; what is new
is what an upsert does (`AccountsKeepBooked`, `SeedsKeepBooked`). So the ledger is kept with
seeds at work. The organisation is not: an upsert changes roles and moves the demo manager in
one statement, which no step of `Organisation` does.

`Migrations`: `MigrationsTypeOK` needs three more parts to be inductive, each with what
`meanwhile` leaves open. `StepInv` ties `next` to the migration it belongs to and has the
unique index hold once it is declared. `ManagersInv`: since the ranking, who is no
duplicate has a hotel of his own and who is one has the hotel of somebody earlier who keeps
it, but for accounts assigned meanwhile. `RoomsInv`: the types that the statements so far
have got rid of are gone, but for rooms written meanwhile; what is retyped was of no retained type; what
is doomed is excess, and from the `DELETE` on not booked. Each step has a lemma
(`ManagersKept`, `UpdateKept`, `RoomsKept`), and the action properties are read off the
invariant at the last statement (`Commits`). A failure is then a row in `meanwhile`, because
the invariant excludes all others.

`CallsKnowTheirPast` gathers the strengthenings of the services and is checked by TLC too.

Every property of a passing run has a theorem; none is about liveness or ENABLED, which
would be out of the prover's reach. Only model-checked is what the three violations show, that the
code reaches those states. There is no RECURSIVE operator anywhere and no proof by
induction over data.

## 5. Not modelled, and the plan

Possible extensions, in this order:

1. An abstract specification of a session, which `Sessions` implements. Who a token was
   given to is nowhere in the state once the answer is lost, so it takes a history variable.
2. What of `Organisation` survives a seed: the same steps and one more for an upsert.
3. Passwords: two changes of a temporary password checked against the same hash.

Left out for good: formatting, validation of strings, Swagger, logging and error
filters (no state); signing and expiry of access tokens (a call that the guards
turn away does not begin); migrations that only add columns or rename tables; summer time and invalid zone
names; overflow of `Decimal(10,2)` (the failed insert is an `Abandon`); accounts and hotels
removed while a migration runs (they take rows away, and fewer rows fail no constraint; a
first manager who is deleted meanwhile is nobody the migration could keep).
