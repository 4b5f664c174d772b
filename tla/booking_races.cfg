\* Four concurrent calls on one room: create, pay and cancel in every order.
SPECIFICATION Spec
CONSTANTS
  DayLen = 2
  MaxNow = 2
  guest = guest
  admin = admin
  manager = manager
  super = super
  h1 = h1
  h2 = h2
  r1 = r1
  r2 = r2
  Users = {guest, admin}
  Hotels = {h1}
  Rooms = {r1}
  Calls = {c1, c2, c3, c4}
  Admins = {}
  Clerks = {}
  NoHotel = NoHotel
  NewUser = NewUser
  NoRequest = NoRequest
  Unset = Unset
  SeedHotel <- OneHotel
  SeedRoom <- OneRoom
  SeedUser <- GuestAndAdmin
  CreateDtos <- StaysAndReversed
  HotelDtos = {}
  RoomDtos = {}
  StaffDtos = {}
  StaffChanges = {}
INVARIANTS
  CallsKnowTheirPast
  NoDoubleBooking
  PaymentMatchesStatus
PROPERTIES
  CancelledIsFinal
  OwnersDecide
  ImplementsLedger
SYMMETRY CallSymmetry
CHECK_DEADLOCK FALSE
