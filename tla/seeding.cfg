\* The seed scripts run again while hotels close or go and staff come, go and move.
SPECIFICATION SeedSpec
CONSTANTS
  DayLen = 2
  MaxNow = 0
  guest = guest
  admin = admin
  manager = manager
  super = super
  h1 = h1
  h2 = h2
  r1 = r1
  r2 = r2
  u1 = u1
  u2 = u2
  Users = {super, manager, u1, u2}
  Hotels = {h1, h2}
  Rooms = {r1}
  Calls = {}
  Admins = {a1}
  Clerks = {k1}
  NoHotel = NoHotel
  NewUser = NewUser
  NoRequest = NoRequest
  Unset = Unset
  SeedHotel <- TwoHotels
  SeedRoom <- OneRoom
  SeedUser <- SuperAndManager
  CreateDtos = {}
  HotelDtos <- Closing
  RoomDtos = {}
  StaffDtos <- OtherManager
  StaffChanges <- Reassignment
  Email <- StaffAddresses
  SuperAdminEmail = "super"
  HotelOrder <- BothHotels
  RoomOrder <- FirstRoom
  DemoUsers <- OneDemoUser
INVARIANTS
  SeedingTypeOK
  SeedRestores
  SuperAdminRemains
  NoOrphans
  OneManagerPerHotel
CHECK_DEADLOCK FALSE
