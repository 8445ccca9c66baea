----------------------------- MODULE MCBookings -----------------------------
(* Symmetries for the safety runs of Bookings. *)
EXTENDS Bookings, TLC

Symmetry == Permutations(Bookings) \union Permutations(Requests) \union Permutations(Steps)
=============================================================================
