SPECIFICATION Spec
CONSTANTS
  Bookings = {b1, b2}
  Requests = {r1, r2}
  Steps = {s1}
  InitCapacity = 1
  NewCapacities = {}
  Handlers = {"create"}
  MayFail = FALSE
  NoBooking = NoBooking
INVARIANTS
  NoOverbooking
CHECK_DEADLOCK FALSE
