SPECIFICATION FairSpec
CONSTANTS
  Bookings = {b1, b2, b3}
  Requests = {r1, r2}
  Beds = 1
  RoomCounts = {1, 2}
  NoOne = NoOne
INVARIANTS
  NoRoomOvercrowded
  PlacesAreKept
PROPERTIES
  RequestsEnd
