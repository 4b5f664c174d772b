\* A client of each kind reads while bookings are made, paid and cancelled and the hotel goes.
SPECIFICATION QueriesSpec
CONSTANTS
  DayLen = 2
  MaxNow = 0
  guest = guest
  admin = admin
  manager = manager
  super = super
  h1 = h1
  h2 = h2
  r1 = r1
  r2 = r2
  Users = {guest, admin, manager}
  Hotels = {h1}
  Rooms = {r1}
  Calls = {c1, c2}
  Admins = {a1}
  Clerks = {}
  NoHotel = NoHotel
  NewUser = NewUser
  NoRequest = NoRequest
  Unset = Unset
  SeedHotel <- OneHotel
  SeedRoom <- OneRoom
  SeedUser <- OneOfEach
  CreateDtos <- TomorrowAndLater
  HotelDtos = {}
  RoomDtos = {}
  StaffDtos = {}
  StaffChanges = {}
  Readers = {q1}
  Reads = {"list", "users", "hotels", "stats"}
  PageLimit = 1
  ListQueries <- AnyBooking
  StayQueries <- LaterNights
  QuoteDtos <- Later
INVARIANTS
  QueriesTypeOK
  NothingSkipped
  LastPageCompletes
  ZonesFound
  CancellableAgrees
  RevenueIsPaid
  ListedStaffIsManaged
SYMMETRY CallSymmetry
CHECK_DEADLOCK FALSE
