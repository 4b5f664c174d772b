\* Rooms are offered for a stay while three calls make, pay and cancel bookings of it.
SPECIFICATION QueriesSpec
CONSTANTS
  DayLen = 2
  MaxNow = 0
  guest = guest
  admin = admin
  manager = manager
  super = super
  h1 = h1
  h2 = h2
  r1 = r1
  r2 = r2
  Users = {guest, admin, manager}
  Hotels = {h1}
  Rooms = {r1}
  Calls = {c1, c2, c3}
  Admins = {}
  Clerks = {}
  NoHotel = NoHotel
  NewUser = NewUser
  NoRequest = NoRequest
  Unset = Unset
  SeedHotel <- OneHotel
  SeedRoom <- OneRoom
  SeedUser <- OneOfEach
  CreateDtos <- Later
  HotelDtos = {}
  RoomDtos = {}
  StaffDtos = {}
  StaffChanges = {}
  Readers = {q1}
  Reads = {"rooms", "quote"}
  PageLimit = 1
  ListQueries <- AnyBooking
  StayQueries <- LaterNights
  QuoteDtos <- Later
INVARIANTS
  OfferStands
SYMMETRY CallSymmetry
CHECK_DEADLOCK FALSE
