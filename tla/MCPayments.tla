----------------------------- MODULE MCPayments -----------------------------
(* Two or three installments of one unit each: Price of them pay the        *)
(* package, so the coverage of the price depends on several callbacks.      *)
EXTENDS Payments, TLC

MCAmount == [p \in Payments |-> 1]

Symmetry == Permutations(Payments)
=============================================================================
