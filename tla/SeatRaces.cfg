SPECIFICATION Spec
CONSTANTS
  Bookings = {b1, b2}
  Requests = {r1, r2, r3}
  Steps = {s1}
  InitCapacity = 1
  NewCapacities = {1, 2}
  Handlers = {"create", "cancel", "close"}
  MayFail = TRUE
  NoBooking = NoBooking
SYMMETRY Symmetry
INVARIANTS
  StatusMatchesCount
  SeatsWithinOffer
  CancelledSeatWasReleased
