\* A booking call, a hotel removal and two staff calls over the same accounts.
SPECIFICATION Spec
CONSTANTS
  DayLen = 2
  MaxNow = 0
  guest = guest
  admin = admin
  manager = manager
  super = super
  h1 = h1
  h2 = h2
  r1 = r1
  r2 = r2
  Users = {super, manager, u1}
  Hotels = {h1, h2}
  Rooms = {r1}
  Calls = {c1}
  Admins = {a1}
  Clerks = {k1, k2}
  NoHotel = NoHotel
  NewUser = NewUser
  NoRequest = NoRequest
  Unset = Unset
  SeedHotel <- TwoHotels
  SeedRoom <- OneRoom
  SeedUser <- SuperAndManager
  CreateDtos <- OneStay
  HotelDtos = {}
  RoomDtos = {}
  StaffDtos <- SomeStaffDtos
  StaffChanges <- SomeStaffChanges
INVARIANTS
  TypeOK
  OneManagerPerHotel
  PasswordBeforeBooking
PROPERTIES
  ProtectedAccountsStay
  ImplementsOrganisation
SYMMETRY StaffSymmetry
CHECK_DEADLOCK FALSE
