SPECIFICATION Spec
CONSTANTS
  Payments = {p1}
  Amount <- MCAmount
  Price = 1
  Requests = {r1}
  Refunders = {r1}
  Initiators = {r1}
  Orderly = FALSE
  MayFail = FALSE
  NoPayment = NoPayment
INVARIANTS
  RefundedOnce
