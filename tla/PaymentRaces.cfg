SPECIFICATION Spec
CONSTANTS
  Payments = {p1, p2}
  Amount <- MCAmount
  Price = 2
  Requests = {r1, r2}
  Refunders = {r1, r2}
  Initiators = {r1, r2}
  Orderly = FALSE
  MayFail = TRUE
  NoPayment = NoPayment
SYMMETRY Symmetry
INVARIANTS
  MoneyWasReceived
  RefundsWerePaid
  StepWasCovered
