SPECIFICATION Spec
CONSTANTS
  Users = {u1}
  Kinds = {"passport", "flight_ticket"}
  Extensions = {TRUE}
  LinkTtl = 1
  MaxNow = 2
INVARIANTS
  FreshLinksServe
CHECK_DEADLOCK FALSE
