--------------------------- MODULE MCRefundPolicy ---------------------------
(* Small instances of RefundPolicy for TLC. *)
EXTENDS RefundPolicy, FiniteSets, TLC

CONSTANTS e1, e2

\* Every list of at most two tiers, the inconsistent ones included.
MCSubmitted == {S \in SUBSET Tier : Cardinality(S) <= 2}

Symmetry == Permutations(Editors)
=============================================================================
