SPECIFICATION FairSpec
CONSTANTS
  Bookings = {b1}
  Requests = {r1, r2, r3}
  Steps = {s1, s2}
  InitCapacity = 1
  NewCapacities = {}
  Handlers = {"create", "cancel", "step"}
  MayFail = FALSE
  NoBooking = NoBooking
INVARIANTS
  ConfirmedDossierWasComplete
PROPERTIES
  CompleteDossierIsSettled
