------------------------------ MODULE Catalog -------------------------------
(***************************************************************************)
(* HotelsService.create, update and remove and RoomsService.create and     *)
(* update.  None of them opens a transaction: each statement sees the      *)
(* tables as they are when it runs, whatever an earlier await of the same  *)
(* call has read.  A call is a job of a slot that is used again when the   *)
(* job ends; how a job ended is not kept.                                  *)
(***************************************************************************)
EXTENDS Tables

CONSTANTS Admins,      \* slots for calls to these services
          HotelDtos,   \* create- and update-hotel requests
          RoomDtos,    \* create- and update-room requests
          Unset        \* of a field an update request leaves out

VARIABLES job,     \* what each slot is about to do
          issued   \* ids given to hotels and rooms: uuids are never given twice

Idle == [step |-> "idle"]

HotelDto == [status : HotelStatus \cup {Unset}, timezone : Int \cup {Unset}]
RoomDto == [isAvailable : BOOLEAN \cup {Unset}, capacity : Nat \cup {Unset},
            pricePerNight : Nat \cup {Unset}]

Complete(dto) == \A field \in DOMAIN dto : dto[field] # Unset
CompleteRoomDtos == {dto \in RoomDtos : Complete(dto)}

Job == {Idle}
  \cup [step : {"hotelUpdate"}, hotelId : Hotels, dto : HotelDtos]
  \cup [step : {"hotelCount", "hotelDelete"}, hotelId : Hotels]
  \cup [step : {"roomInsert"}, hotelId : Hotels, dto : CompleteRoomDtos]
  \cup [step : {"roomUpdate"}, roomId : Rooms, dto : RoomDtos]

ASSUME CatalogAssumption ==
  /\ HotelDtos \subseteq HotelDto
  /\ RoomDtos \subseteq RoomDto

CatalogTypeOK ==
  /\ job \in [Admins -> Job]
  /\ issued \subseteq Hotels \cup Rooms
  /\ DOMAIN hotel \subseteq issued
  /\ DOMAIN room \subseteq issued

CatalogInit ==
  /\ job = [a \in Admins |-> Idle]
  /\ issued = DOMAIN SeedHotel \cup DOMAIN SeedRoom

-----------------------------------------------------------------------------
Given(new, old) == IF new = Unset THEN old ELSE new

Start(a, j) == job[a] = Idle /\ job' = [job EXCEPT ![a] = j]
Finish(a) == job' = [job EXCEPT ![a] = Idle]

(* HotelsController and UsersController admit the organisation's admins.   *)
OrgAdmin(u) == Authenticated(u) /\ user[u].role \in {"SUPER_ADMIN", "ADMIN"}

(* RoomsController admits managers, and assertCanManageHotel compares the  *)
(* hotel with the one the account had when the request came in.            *)
CanManageHotel(u, h) ==
  /\ Authenticated(u)
  /\ user[u].role = "HOTEL_MANAGER"
  /\ user[u].hotelId # NoHotel
  /\ user[u].hotelId = h

-----------------------------------------------------------------------------
(* HotelsService.create: one insert; a request without a zone means UTC.   *)
HotelCreate(h, dto) ==
  /\ h \notin issued
  /\ dto.status # Unset
  /\ hotel' = Put(hotel, h, [status |-> dto.status, timezone |-> Given(dto.timezone, 0)])
  /\ issued' = issued \cup {h}
  /\ UNCHANGED <<job, room, user, booking, payment>>

(* HotelsService.update: assertExists, then the update.                    *)
HotelUpdateBegin(a, h, dto) ==
  /\ h \in DOMAIN hotel
  /\ Start(a, [step |-> "hotelUpdate", hotelId |-> h, dto |-> dto])
  /\ UNCHANGED <<issued, tables>>

HotelUpdate(a) ==
  LET h == job[a].hotelId
      dto == job[a].dto
  IN  /\ job[a].step = "hotelUpdate"
      /\ \/ /\ h \in DOMAIN hotel
            /\ hotel' = Put(hotel, h, [status |-> Given(dto.status, hotel[h].status),
                                       timezone |-> Given(dto.timezone, hotel[h].timezone)])
         \/ h \notin DOMAIN hotel /\ UNCHANGED hotel
      /\ Finish(a)
      /\ UNCHANGED <<issued, room, user, booking, payment>>

(* HotelsService.remove: assertExists, the count of active bookings, then  *)
(* the delete, which the foreign keys may still refuse.                    *)
HotelRemoveBegin(a, h) ==
  /\ h \in DOMAIN hotel
  /\ Start(a, [step |-> "hotelCount", hotelId |-> h])
  /\ UNCHANGED <<issued, tables>>

HotelHasActiveBooking(h) ==
  \E b \in DOMAIN booking : booking[b].hotelId = h /\ IsActive(b)

HotelRemoveCount(a) ==
  /\ job[a].step = "hotelCount"
  /\ \/ /\ ~HotelHasActiveBooking(job[a].hotelId)
        /\ job' = [job EXCEPT ![a].step = "hotelDelete"]
     \/ HotelHasActiveBooking(job[a].hotelId) /\ Finish(a)
  /\ UNCHANGED <<issued, tables>>

HotelRemoveDelete(a) ==
  LET h == job[a].hotelId
  IN  /\ job[a].step = "hotelDelete"
      /\ \/ h \in DOMAIN hotel /\ DeleteHotel(h)
         \/ (h \notin DOMAIN hotel \/ HotelReferenced(h)) /\ UNCHANGED tables
      /\ Finish(a)
      /\ UNCHANGED issued

-----------------------------------------------------------------------------
(* RoomsService.create: assertHotelExists and assertCanManageHotel, then   *)
(* the insert, whose foreign key wants the hotel to be there still.        *)
RoomCreateBegin(a, u, h, dto) ==
  /\ h \in DOMAIN hotel
  /\ CanManageHotel(u, h)
  /\ Complete(dto)
  /\ Start(a, [step |-> "roomInsert", hotelId |-> h, dto |-> dto])
  /\ UNCHANGED <<issued, tables>>

(* The foreign key of room: the hotel it names must exist.                 *)
\* Variant: no such constraint; create relies on assertHotelExists alone.
NoForeignKey(h) == TRUE
RoomParentExists(h) == h \in DOMAIN hotel

RoomInsert(a, r) ==
  LET h == job[a].hotelId
      dto == job[a].dto
  IN  /\ job[a].step = "roomInsert"
      /\ r \notin issued
      /\ \/ /\ RoomParentExists(h)
            /\ room' = Put(room, r,
                 [hotelId |-> h, isAvailable |-> dto.isAvailable,
                  capacity |-> dto.capacity, pricePerNight |-> dto.pricePerNight])
            /\ issued' = issued \cup {r}
         \/ ~RoomParentExists(h) /\ UNCHANGED <<room, issued>>
      /\ Finish(a)
      /\ UNCHANGED <<hotel, user, booking, payment>>

(* RoomsService.update: the room is read, the actor checked against its    *)
(* hotel, then the update.                                                 *)
RoomUpdateBegin(a, u, r, dto) ==
  /\ r \in DOMAIN room
  /\ CanManageHotel(u, room[r].hotelId)
  /\ Start(a, [step |-> "roomUpdate", roomId |-> r, dto |-> dto])
  /\ UNCHANGED <<issued, tables>>

RoomUpdate(a) ==
  LET r == job[a].roomId
      dto == job[a].dto
  IN  /\ job[a].step = "roomUpdate"
      /\ \/ /\ r \in DOMAIN room
            /\ room' = Put(room, r,
                 [room[r] EXCEPT
                    !.isAvailable = Given(dto.isAvailable, room[r].isAvailable),
                    !.capacity = Given(dto.capacity, room[r].capacity),
                    !.pricePerNight = Given(dto.pricePerNight, room[r].pricePerNight)])
         \/ r \notin DOMAIN room /\ UNCHANGED room
      /\ Finish(a)
      /\ UNCHANGED <<issued, hotel, user, booking, payment>>

(* The process dies or a statement fails before the job's next statement:  *)
(* the statements so far were reads.                                       *)
JobAbandon(a) == job[a] # Idle /\ Finish(a) /\ UNCHANGED <<issued, tables>>

JobStep(a) ==
  \/ HotelUpdate(a) \/ HotelRemoveCount(a) \/ HotelRemoveDelete(a)
  \/ \E r \in Rooms : RoomInsert(a, r)
  \/ RoomUpdate(a)

JobBegin(a, u) ==
  \/ /\ OrgAdmin(u)
     /\ \E h \in DOMAIN hotel :
          \/ \E dto \in HotelDtos : HotelUpdateBegin(a, h, dto)
          \/ HotelRemoveBegin(a, h)
  \/ \E dto \in RoomDtos :
       \/ \E h \in DOMAIN hotel : RoomCreateBegin(a, u, h, dto)
       \/ \E r \in DOMAIN room : RoomUpdateBegin(a, u, r, dto)

CatalogNext ==
  /\ \/ \E u \in DOMAIN user : OrgAdmin(u)
          /\ \E h \in Hotels, dto \in HotelDtos : HotelCreate(h, dto)
     \/ \E a \in Admins :
          (\E u \in DOMAIN user : JobBegin(a, u)) \/ JobStep(a) \/ JobAbandon(a)
  /\ UNCHANGED now
=============================================================================
