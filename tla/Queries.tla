------------------------------ MODULE Queries -------------------------------
(***************************************************************************)
(* The calls that only read: BookingsService.list and quote,               *)
(* DashboardService.getStats, RoomsService.list and HotelsService.list and *)
(* findOne, beside the calls that write.  None opens a transaction: every  *)
(* statement has a snapshot of its own, those of one Promise.all are       *)
(* answered in any order, and what is reported is put together from them.  *)
(*                                                                         *)
(* The answer to a statement is the set of its rows, with the columns that *)
(* matter; a count is the set counted, a sum the set of its terms.  The    *)
(* order within a page, names and search terms are left out.               *)
(***************************************************************************)
EXTENDS HotelSystem, FiniteSets

CONSTANTS Readers,       \* slots for calls that read
          Reads,         \* bound: what they are used for
          PageLimit,     \* rows of a page
          ListQueries,   \* filters of the list of bookings
          StayQueries,   \* stays the list of rooms is asked for, or Unset
          QuoteDtos      \* quote requests

VARIABLES view,    \* what each slot has read so far
          newer    \* of each booking, those with a later createdAt

reads == <<view, newer>>

ListQuery == [hotelId : Hotels \cup {Unset}, status : BookingStatus \cup {Unset}]
StayDates == [checkIn : Int, checkOut : Int]
Where == [userId : Users \cup {Unset}, hotelId : Hotels \cup {Unset},
          status : BookingStatus \cup {Unset}]

ASSUME QueriesAssumption ==
  /\ PageLimit \in Nat \ {0}
  /\ Unset \notin Users \cup Hotels \cup BookingStatus
  /\ ListQueries \subseteq ListQuery
  /\ StayQueries \subseteq StayDates \cup {Unset}
  /\ \A dto \in QuoteDtos :
       [hotelId |-> dto.hotelId, roomId |-> dto.roomId, checkIn |-> dto.checkIn,
        checkOut |-> dto.checkOut, guestCount |-> dto.guestCount]
         \in [hotelId : Hotels, roomId : Rooms, checkIn : Int, checkOut : Int, guestCount : Nat]

PageStatements == {"findMany", "count"}
DashboardStatements == {"hotels", "bookings", "confirmed", "pending", "revenue"}

ListView ==
  [step : {"list", "listZones", "listed"}, guest : BOOLEAN, where : Where, offset : Nat,
   waiting : SUBSET PageStatements, rows : SUBSET [id : Calls, status : BookingStatus],
   total : SUBSET Calls, zones : SUBSET [id : Hotels, timezone : Int],
   cancellable : SUBSET Calls, at : Nat, owed : SUBSET Calls, seen : SUBSET Calls]
StatsView ==
  [step : {"stats", "statsAnswered"}, scope : Hotels \cup {Unset},
   waiting : SUBSET DashboardStatements, hotels : SUBSET Hotels, bookings : SUBSET Calls,
   confirmed : SUBSET Calls, pending : SUBSET Calls,
   revenue : SUBSET [id : Calls, amount : Nat]]
RoomsView ==
  [step : {"rooms", "roomsAnswered"}, hotelId : Hotels, inventory : BOOLEAN,
   stay : StayDates \cup {Unset}, waiting : SUBSET PageStatements,
   rows : SUBSET Rooms, total : SUBSET Rooms, known : SUBSET Calls]
QuoteView ==
  [step : {"quoteRoom", "quoteCheck", "quoted"}, dto : QuoteDtos, zone : Int,
   amount : Int, known : SUBSET Calls]
HotelsView ==
  [step : {"hotels", "hotelRooms", "hotelsAnswered"}, status : HotelStatus \cup {Unset},
   waiting : SUBSET PageStatements, rows : SUBSET Hotels, total : SUBSET Hotels,
   forSale : SUBSET Rooms]
UsersView ==
  [step : {"users", "usersAnswered"}, actorRole : Role, role : StaffRole,
   waiting : SUBSET PageStatements, rows : SUBSET Users, total : SUBSET Users]

(* createdAt has milliseconds: two bookings may have the same.             *)
SameDate(a, b) == newer[a] = newer[b]

(* What the slots have read is of its types, and of two bookings one has   *)
(* the later createdAt or both have the same.                              *)
QueriesTypeOK ==
  /\ view \in [Readers -> {Idle} \cup ListView \cup StatsView \cup RoomsView
                         \cup QuoteView \cup HotelsView \cup UsersView]
  /\ DOMAIN newer = DOMAIN booking
  /\ \A b \in DOMAIN newer : newer[b] \subseteq DOMAIN booking \ {b}
  /\ \A a, b \in DOMAIN newer : a \in newer[b] \/ b \in newer[a] \/ SameDate(a, b)

QueriesInit == Init /\ view = [q \in Readers |-> Idle] /\ newer = EmptyTable

-----------------------------------------------------------------------------
Open(q, v) == view[q] = Idle /\ view' = [view EXCEPT ![q] = v]
Show(q, v) == view' = [view EXCEPT ![q] = v]
At(q, step) == view[q].step = step
Ids(rows) == {x.id : x \in rows}

(* Statement s of the Promise.all of step is answered; v is the view with  *)
(* its answer, and next the step after the last answer.                    *)
Answer(q, step, s, v, next) ==
  LET waiting == view[q].waiting \ {s}
  IN  /\ s \in view[q].waiting
      /\ Show(q, [v EXCEPT !.waiting = waiting, !.step = IF waiting = {} THEN next ELSE step])

(* The client has its answer, or a statement has failed, or the process    *)
(* has died.                                                               *)
Close(q) == view[q] # Idle /\ Show(q, Idle)

-----------------------------------------------------------------------------
(* BookingsService.list                                                    *)

(* where: a guest's own bookings, those of a manager's hotel, or all.      *)
ListPermitted(u, query) ==
  user[u].role = "HOTEL_MANAGER" =>
    user[u].hotelId # NoHotel /\ query.hotelId \in {Unset, user[u].hotelId}

ListWhere(u, query) ==
  [userId |-> IF user[u].role = "GUEST" THEN u ELSE Unset,
   hotelId |-> IF user[u].role = "HOTEL_MANAGER" THEN user[u].hotelId ELSE query.hotelId,
   status |-> query.status]

Matching(w) ==
  {b \in DOMAIN booking :
     /\ w.userId \in {Unset, booking[b].userId}
     /\ w.hotelId \in {Unset, booking[b].hotelId}
     /\ w.status \in {Unset, booking[b].status}}

(* The bookings that come before b in any order by createdAt, descending.  *)
Place(b, w) == Cardinality(newer[b] \cap Matching(w))

(* T may come first when the rows S are sorted.                            *)
Leads(T, S) == \A b \in T : newer[b] \cap S \subseteq T

(* LIMIT n of the rows S.                                                  *)
AtMost(n, S) == IF Cardinality(S) < n THEN Cardinality(S) ELSE n

(* orderBy createdAt desc, skip and take: nothing says how rows of the     *)
(* same createdAt are sorted, and each statement may sort them anew.       *)
\* Variant: pages are counted from one, but skip takes no account of it.
PagesOneTooFar(S, offset) ==
  {page \in SUBSET S : \E skipped \in SUBSET (S \ page) :
     /\ Cardinality(skipped) = AtMost(offset + PageLimit, S)
     /\ Cardinality(page) = AtMost(PageLimit, S \ skipped)
     /\ Leads(skipped, S) /\ Leads(skipped \cup page, S)}
Pages(S, offset) ==
  {page \in SUBSET S : \E skipped \in SUBSET (S \ page) :
     /\ Cardinality(skipped) = AtMost(offset, S)
     /\ Cardinality(page) = AtMost(PageLimit, S \ skipped)
     /\ Leads(skipped, S) /\ Leads(skipped \cup page, S)}

(* The rows that count counts.                                             *)
\* Variant: the total is of the bookings that are not cancelled.
TotalActive(w) == {b \in Matching(w) : IsActive(b)}
Total(w) == Matching(w)

(* A client reads page after page: owed and seen are what it should see    *)
(* and has seen.                                                           *)
FirstPage(u, query) ==
  [step |-> "list", guest |-> user[u].role = "GUEST", where |-> ListWhere(u, query),
   offset |-> 0, waiting |-> PageStatements, rows |-> {}, total |-> {},
   zones |-> {}, cancellable |-> {}, at |-> 0,
   owed |-> Matching(ListWhere(u, query)), seen |-> {}]

ListBegin(q, u, query) ==
  /\ Authenticated(u)
  /\ ListPermitted(u, query)
  /\ Open(q, FirstPage(u, query))

AfterPage(v) == IF v.guest /\ v.rows # {} THEN "listZones" ELSE "listed"

ListFindMany(q) ==
  /\ At(q, "list")
  /\ \E page \in Pages(Matching(view[q].where), view[q].offset) :
       LET v == [view[q] EXCEPT !.rows = {[id |-> b, status |-> booking[b].status] : b \in page},
                                !.seen = @ \cup page]
       IN  Answer(q, "list", "findMany", v, AfterPage(v))

ListCount(q) ==
  LET v == [view[q] EXCEPT !.total = Total(view[q].where)]
  IN  At(q, "list") /\ Answer(q, "list", "count", v, AfterPage(v))

(* isCancellableByGuest, with the zone that was found or UTC.              *)
\* Variant: the zones are not looked up, every hotel is in UTC.
ZoneIsUtc(zones, h) == 0
ZoneOr(zones, h) ==
  IF h \in Ids(zones) THEN (CHOOSE z \in zones : z.id = h).timezone ELSE 0

CancellableByGuest(rows, zones) ==
  {x.id : x \in
     {x \in rows :
        /\ x.status \in ActiveStatuses
        /\ GuestCancellationAllowed(booking[x.id].checkIn, now,
                                    ZoneOr(zones, booking[x.id].hotelId))}}

(* The zones of the hotels of the page, then toResponse for each booking.  *)
ListZones(q) ==
  LET rows == view[q].rows
      zones == {[id |-> h, timezone |-> hotel[h].timezone] :
                  h \in {booking[b].hotelId : b \in Ids(rows)} \cap DOMAIN hotel}
  IN  /\ At(q, "listZones")
      /\ Show(q, [view[q] EXCEPT !.step = "listed", !.zones = zones, !.at = now,
                                 !.cancellable = CancellableByGuest(rows, zones)])

(* The client asks for the next page after one that was full.              *)
ListNextPage(q) ==
  /\ At(q, "listed")
  /\ Cardinality(view[q].rows) = PageLimit
  /\ Show(q, [view[q] EXCEPT !.step = "list", !.waiting = PageStatements,
                             !.offset = @ + PageLimit, !.rows = {}, !.total = {},
                             !.zones = {}, !.cancellable = {}, !.at = 0])

-----------------------------------------------------------------------------
(* DashboardService.getStats                                               *)

(* buildHotelScope and buildBookingScope; assertManagerHotelAssigned.       *)
\* Variant: a manager without a hotel is not stopped.
NotAsked(u) == TRUE
ManagerHotelAssigned(u) == user[u].role = "HOTEL_MANAGER" => user[u].hotelId # NoHotel
Scope(u) == IF user[u].role = "HOTEL_MANAGER" THEN user[u].hotelId ELSE Unset

StatsBegin(q, u) ==
  /\ Authenticated(u)
  /\ user[u].role \in Role \ {"GUEST"}
  /\ ManagerHotelAssigned(u)
  /\ Open(q, [step |-> "stats", scope |-> Scope(u), waiting |-> DashboardStatements,
              hotels |-> {}, bookings |-> {}, confirmed |-> {}, pending |-> {},
              revenue |-> {}])

InScope(scope, status) == Matching([userId |-> Unset, hotelId |-> scope, status |-> status])

(* aggregate: the amounts that are summed.                                 *)
\* Variant: the sum is over all bookings that are not cancelled.
AmountsHeld(scope) ==
  {[id |-> b, amount |-> booking[b].totalAmount] : b \in {b \in InScope(scope, Unset) : IsActive(b)}}
Revenue(scope) ==
  {[id |-> b, amount |-> booking[b].totalAmount] : b \in InScope(scope, "CONFIRMED")}

StatsStatement(q) ==
  LET v == view[q]
      answered(s, w) == Answer(q, "stats", s, w, "statsAnswered")
  IN  /\ At(q, "stats")
      /\ \/ answered("hotels", [v EXCEPT !.hotels = {h \in DOMAIN hotel : v.scope \in {Unset, h}}])
         \/ answered("bookings", [v EXCEPT !.bookings = InScope(v.scope, Unset)])
         \/ answered("confirmed", [v EXCEPT !.confirmed = InScope(v.scope, "CONFIRMED")])
         \/ answered("pending", [v EXCEPT !.pending = InScope(v.scope, "PENDING")])
         \/ answered("revenue", [v EXCEPT !.revenue = Revenue(v.scope)])

-----------------------------------------------------------------------------
(* RoomsService.list                                                       *)

(* A page in an order by columns that are left out.                        *)
SomePage(S) == {page \in SUBSET S : Cardinality(page) <= PageLimit}

(* The manager of the hotel sees its whole inventory, others the rooms of  *)
(* an active hotel that are for sale and free for the stay they ask for.   *)
RoomsBegin(q, u, h, stay) ==
  LET inventory == user[u].role = "HOTEL_MANAGER" /\ user[u].hotelId = h
  IN  /\ Authenticated(u)
      /\ h \in DOMAIN hotel
      /\ ~inventory =>
           /\ hotel[h].status = "ACTIVE"
           /\ stay # Unset => stay.checkOut > stay.checkIn
      /\ Open(q, [step |-> "rooms", hotelId |-> h, inventory |-> inventory,
                  stay |-> IF inventory THEN Unset ELSE stay,
                  waiting |-> PageStatements, rows |-> {}, total |-> {}, known |-> {}])

(* NOT bookings some: no active booking of the room overlaps the stay.     *)
FreeFor(r, stay) ==
  ~\E b \in DOMAIN booking :
     /\ booking[b].roomId = r
     /\ booking[b].status \in ActiveStatuses
     /\ booking[b].checkIn < stay.checkOut
     /\ booking[b].checkOut > stay.checkIn

RoomsWhere(v) ==
  {r \in DOMAIN room :
     /\ room[r].hotelId = v.hotelId
     /\ v.inventory \/ room[r].isAvailable
     /\ v.stay # Unset => FreeFor(r, v.stay)}

RoomsStatement(q) ==
  /\ At(q, "rooms")
  /\ \/ \E page \in SomePage(RoomsWhere(view[q])) :
          Answer(q, "rooms", "findMany",
                 [view[q] EXCEPT !.rows = page, !.known = DOMAIN booking], "roomsAnswered")
     \/ Answer(q, "rooms", "count",
               [view[q] EXCEPT !.total = RoomsWhere(view[q])], "roomsAnswered")

-----------------------------------------------------------------------------
(* BookingsService.quote: validateBookingInput and assertAvailable as in   *)
(* create, but outside any transaction.                                    *)
QuoteBegin(q, u, dto) ==
  /\ Authenticated(u)
  /\ DatesInOrder(dto)
  /\ dto.hotelId \in DOMAIN hotel
  /\ hotel[dto.hotelId].status # "INACTIVE"
  /\ Open(q, [step |-> "quoteRoom", dto |-> dto, zone |-> hotel[dto.hotelId].timezone,
              amount |-> 0, known |-> {}])

QuoteRoom(q) ==
  LET v == view[q]
      r == v.dto.roomId
  IN  /\ At(q, "quoteRoom")
      /\ r \in DOMAIN room
      /\ RoomAccepts(r, v.dto)
      /\ CheckInNotInPast(v.dto.checkIn, now, v.zone)
      /\ AtLeastOneNight(v.dto.checkIn, v.dto.checkOut)
      /\ Show(q, [v EXCEPT !.step = "quoteCheck",
                    !.amount = room[r].pricePerNight * Nights(v.dto.checkIn, v.dto.checkOut)])

QuoteCheck(q) ==
  LET v == view[q]
  IN  /\ At(q, "quoteCheck")
      /\ ~HasOverlap(v.dto.roomId, v.dto.checkIn, v.dto.checkOut, {})
      /\ Show(q, [v EXCEPT !.step = "quoted", !.known = DOMAIN booking])

-----------------------------------------------------------------------------
(* HotelsService.list and findOne: the hotels, then the number of rooms    *)
(* for sale of each (availableRoomCounts, refreshAvailableRoomCount).      *)
HotelsBegin(q, u, status) ==
  /\ Authenticated(u)
  /\ Open(q, [step |-> "hotels", status |-> status, waiting |-> PageStatements,
              rows |-> {}, total |-> {}, forSale |-> {}])

HotelsWhere(status) == {h \in DOMAIN hotel : status \in {Unset, hotel[h].status}}

AfterHotels(v) == IF v.rows # {} THEN "hotelRooms" ELSE "hotelsAnswered"

HotelsStatement(q) ==
  LET v == view[q]
      all == HotelsWhere(v.status)
  IN  /\ At(q, "hotels")
      /\ \/ \E page \in SomePage(all) :
              LET w == [v EXCEPT !.rows = page]
              IN  Answer(q, "hotels", "findMany", w, AfterHotels(w))
         \/ Answer(q, "hotels", "count", [v EXCEPT !.total = all], AfterHotels(v))

HotelFindOne(q, u, h) ==
  /\ Authenticated(u)
  /\ h \in DOMAIN hotel
  /\ Open(q, [step |-> "hotelRooms", status |-> Unset, waiting |-> {},
              rows |-> {h}, total |-> {h}, forSale |-> {}])

HotelRooms(q) ==
  /\ At(q, "hotelRooms")
  /\ Show(q, [view[q] EXCEPT !.step = "hotelsAnswered",
       !.forSale = {r \in DOMAIN room : room[r].hotelId \in view[q].rows /\ room[r].isAvailable}])

-----------------------------------------------------------------------------
(* UsersService.list: a role that the actor may manage.                    *)
\* Variant: whoever may list staff may list all of it.
AnyStaff(actorRole) == StaffRole
ListableRoles(actorRole) ==
  IF actorRole = "SUPER_ADMIN" THEN {"ADMIN", "HOTEL_MANAGER"} ELSE {"HOTEL_MANAGER"}

UsersBegin(q, u, role) ==
  /\ OrgAdmin(u)
  /\ role \in ListableRoles(user[u].role)
  /\ Open(q, [step |-> "users", actorRole |-> user[u].role, role |-> role,
              waiting |-> PageStatements, rows |-> {}, total |-> {}])

UsersStatement(q) ==
  LET v == view[q]
      all == {u \in DOMAIN user : user[u].role = v.role}
  IN  /\ At(q, "users")
      /\ \/ \E page \in SomePage(all) :
              Answer(q, "users", "findMany", [v EXCEPT !.rows = page], "usersAnswered")
         \/ Answer(q, "users", "count", [v EXCEPT !.total = all], "usersAnswered")

-----------------------------------------------------------------------------
ReadBegin(q, u) ==
  \/ "list" \in Reads /\ \E query \in ListQueries : ListBegin(q, u, query)
  \/ "stats" \in Reads /\ StatsBegin(q, u)
  \/ "rooms" \in Reads /\ \E h \in DOMAIN hotel, stay \in StayQueries : RoomsBegin(q, u, h, stay)
  \/ "quote" \in Reads /\ \E dto \in QuoteDtos : QuoteBegin(q, u, dto)
  \/ /\ "hotels" \in Reads
     /\ \/ \E status \in HotelStatus \cup {Unset} : HotelsBegin(q, u, status)
        \/ \E h \in DOMAIN hotel : HotelFindOne(q, u, h)
  \/ "users" \in Reads /\ \E role \in StaffRole : UsersBegin(q, u, role)

ReadStep(q) ==
  \/ ListFindMany(q) \/ ListCount(q) \/ ListZones(q) \/ ListNextPage(q)
  \/ StatsStatement(q)
  \/ RoomsStatement(q)
  \/ QuoteRoom(q) \/ QuoteCheck(q)
  \/ HotelsStatement(q) \/ HotelRooms(q)
  \/ UsersStatement(q)

Reading ==
  /\ \E q \in Readers : (\E u \in DOMAIN user : ReadBegin(q, u)) \/ ReadStep(q) \/ Close(q)
  /\ UNCHANGED <<vars, newer>>

(* createdAt is a moment of the transaction that inserts: bookings that    *)
(* were committed since its snapshot may come before it or after it, and   *)
(* any may have been made in the same millisecond.                         *)
Dated(c) ==
  \E later \in SUBSET (missed[c] \cap DOMAIN newer), tied \in BOOLEAN :
    LET same == {b \in DOMAIN newer \ later : tied /\ newer[b] = later}
    IN  /\ Leads(later, DOMAIN newer)
        /\ \A a \in later, b \in DOMAIN newer : SameDate(a, b) => b \in later
        /\ newer' = [b \in DOMAIN newer \cup {c} |->
                      IF b = c THEN later
                      ELSE IF b \in later \cup same THEN newer[b] ELSE newer[b] \cup {c}]

Writing ==
  /\ Next
  /\ \/ \E c \in DOMAIN booking' \ DOMAIN booking : Dated(c)
     \/ DOMAIN booking' = DOMAIN booking /\ UNCHANGED newer
  /\ UNCHANGED view

QueriesNext == Reading \/ Writing

QueriesSpec == QueriesInit /\ [][QueriesNext]_<<vars, reads>>

-----------------------------------------------------------------------------
(* Reading page after page, without a filter on the status, skips no       *)
(* createdAt: of a booking that was there when the client began, it has    *)
(* seen that booking, or one of the same createdAt in its place, or the    *)
(* booking is still ahead, although others come in above it, below it or   *)
(* beside it between the pages and shift them.                             *)
NothingSkipped ==
  \A q \in Readers :
    view[q].step \in {"list", "listZones", "listed"} /\ view[q].where.status = Unset =>
      \A b \in view[q].owed :
        \/ \E a \in view[q].seen : SameDate(a, b)
        \/ Place(b, view[q].where) >=
             view[q].offset + (IF "findMany" \in view[q].waiting THEN 0 ELSE PageLimit)

(* So the client that ends with a page that is not full has seen each      *)
(* createdAt, and every booking whose createdAt no other has; and no page  *)
(* came with a total that leaves a booking out.                            *)
LastPageCompletes ==
  \A q \in Readers :
    At(q, "listed") /\ view[q].where.status = Unset =>
      /\ view[q].owed \subseteq view[q].total
      /\ Cardinality(view[q].rows) < PageLimit =>
           \A b \in view[q].owed : \E a \in view[q].seen : SameDate(a, b)

(* A guest's list never falls back on UTC: the hotels of the page are read *)
(* one await later, and may be removed, but not those that were booked.    *)
ZonesFound ==
  \A q \in Readers : At(q, "listed") /\ view[q].guest =>
    \A b \in Ids(view[q].rows) : booking[b].hotelId \in Ids(view[q].zones)

(* What a guest's list says of cancelling is what cancel decides: as long  *)
(* as neither the clock nor the booking nor the zone of its hotel has      *)
(* moved on since, cancel accepts exactly the bookings shown so.           *)
CancellableAgrees ==
  \A q \in Readers : At(q, "listed") /\ view[q].guest /\ view[q].at = now =>
    \A b \in DOMAIN booking, h \in DOMAIN hotel :
      /\ [id |-> b, status |-> booking[b].status] \in view[q].rows
      /\ booking[b].hotelId = h /\ [id |-> h, timezone |-> hotel[h].timezone] \in view[q].zones
      => (b \in view[q].cancellable <=> IsActive(b) /\ InWindow(b))

(* The revenue on the dashboard is money that was paid, in full, for       *)
(* bookings in the scope of the account that asks, and every booking       *)
(* counted as confirmed has been paid, whatever is paid or cancelled       *)
(* between the five statements.                                            *)
RevenueIsPaid ==
  \A q \in Readers : view[q].step \in {"stats", "statsAnswered"} =>
    /\ view[q].confirmed \subseteq DOMAIN payment
    /\ \A x \in view[q].revenue :
         /\ x.id \in DOMAIN payment /\ payment[x.id] = x.amount
         /\ view[q].scope \in {Unset, booking[x.id].hotelId}

(* A room that was offered for a stay, in the list of rooms or in a quote, *)
(* stays free for it until a booking is made: none that was there already  *)
(* ever takes it, so a cancelled one must not come back.                   *)
OfferStands ==
  \A q \in Readers : \A b \in DOMAIN booking : IsActive(b) =>
    /\ /\ view[q].step \in {"rooms", "roomsAnswered"}
       /\ view[q].stay # Unset /\ b \in view[q].known
       => \A r \in view[q].rows : ~Collides(b, r, view[q].stay.checkIn, view[q].stay.checkOut)
    /\ /\ At(q, "quoted") /\ b \in view[q].known
       => ~Collides(b, view[q].dto.roomId, view[q].dto.checkIn, view[q].dto.checkOut)

(* Every account a list of staff shows, however old the list, is one that  *)
(* the actor may update and delete: the roles that list offers and those   *)
(* that assertCanUpdate and assertCanDelete want are written separately.   *)
ListedStaffIsManaged ==
  \A q \in Readers : view[q].step \in {"users", "usersAnswered"} =>
    \A u \in view[q].rows \cap DOMAIN user : Manages(view[q].actorRole, user[u].role)
=============================================================================
