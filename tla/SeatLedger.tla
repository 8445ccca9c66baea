----------------------------- MODULE SeatLedger -----------------------------
(***************************************************************************)
(* What the seat counter of a package promises: each active booking holds  *)
(* one seat, there are never more holders than seats, nobody takes a seat  *)
(* of a closed package, and a closed package stays closed.                 *)
(***************************************************************************)
EXTENDS Naturals, FiniteSets

CONSTANTS Bookings, Capacity

VARIABLES
  holders,  \* the bookings that hold a seat
  closed    \* the agency takes no more bookings

Init == holders = {} /\ closed = FALSE

Take(b) ==
  /\ ~closed /\ b \notin holders
  /\ Cardinality(holders) < Capacity
  /\ holders' = holders \union {b}
  /\ UNCHANGED closed

Release(b) ==
  /\ b \in holders
  /\ holders' = holders \ {b}
  /\ UNCHANGED closed

Close ==
  /\ closed' = TRUE
  /\ UNCHANGED holders

Next == Close \/ \E b \in Bookings : Take(b) \/ Release(b)

Spec == Init /\ [][Next]_<<holders, closed>>
=============================================================================
