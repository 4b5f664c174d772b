\* Three migrations over a database in use.
SPECIFICATION Spec
CONSTANTS
  m1 = m1
  m2 = m2
  m3 = m3
  r1 = r1
  r2 = r2
  Managers = {m1, m2, m3}
  Hotels = {h1, h2}
  Rooms = {r1, r2}
  NoHotel = NoHotel
  CreatedAt <- Dates
  RoomIndex <- LastAndNext
  LegacyTypes <- OldTypes
  Written <- OneOfEach
INVARIANTS
  MigrationsTypeOK
PROPERTIES
  UndisturbedApply
  EarliestManagerStays
  BookedRoomsStay
