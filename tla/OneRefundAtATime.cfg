SPECIFICATION FairSpec
CONSTANTS
  Payments = {p1, p2, p3}
  Amount <- MCAmount
  Price = 2
  Requests = {r1, r2}
  Refunders = {r1}
  Initiators = {r2}
  Orderly = TRUE
  MayFail = FALSE
  NoPayment = NoPayment
PROPERTIES
  ImplementsLifecycle
  CoveredBookingIsMarked
