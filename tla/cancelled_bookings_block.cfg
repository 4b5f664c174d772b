\* A hotel whose bookings are all cancelled is to be removed.
SPECIFICATION Spec
CONSTANTS
  DayLen = 2
  MaxNow = 0
  guest = guest
  admin = admin
  manager = manager
  super = super
  h1 = h1
  h2 = h2
  r1 = r1
  r2 = r2
  Users = {guest, admin, manager}
  Hotels = {h1}
  Rooms = {r1}
  Calls = {c1, c2}
  Admins = {a1}
  Clerks = {}
  NoHotel = NoHotel
  NewUser = NewUser
  NoRequest = NoRequest
  Unset = Unset
  SeedHotel <- OneHotel
  SeedRoom <- OneRoom
  SeedUser <- WithManager
  CreateDtos <- TwoStays
  HotelDtos <- SomeHotelDtos
  RoomDtos = {}
  StaffDtos = {}
  StaffChanges = {}
INVARIANTS
  RemovableWithoutActiveBookings
CHECK_DEADLOCK FALSE
