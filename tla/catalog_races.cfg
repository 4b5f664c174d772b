\* A booking call against two catalogue calls: the hotel closes, changes or goes.
SPECIFICATION Spec
CONSTANTS
  DayLen = 2
  MaxNow = 0
  guest = guest
  admin = admin
  manager = manager
  super = super
  h1 = h1
  h2 = h2
  r1 = r1
  r2 = r2
  Users = {guest, admin, manager}
  Hotels = {h1, h2}
  Rooms = {r1, r2}
  Calls = {c1}
  Admins = {a1, a2}
  Clerks = {}
  NoHotel = NoHotel
  NewUser = NewUser
  NoRequest = NoRequest
  Unset = Unset
  SeedHotel <- OneHotel
  SeedRoom <- OneRoom
  SeedUser <- WithManager
  CreateDtos <- RightAndWrongHotel
  HotelDtos <- SomeHotelDtos
  RoomDtos <- SomeRoomDtos
  StaffDtos = {}
  StaffChanges = {}
INVARIANTS
  CallsKnowTheirPast
  ReferencesHold
PROPERTIES
  ImplementsOrganisation
SYMMETRY CatalogSymmetry
CHECK_DEADLOCK FALSE
