------------------------------- MODULE MCTravel -------------------------------
(* Travel with two bookings of one package and one of another, each package of *)
(* its own agency, and with two groups, two guides and one pilgrim's dossier.  *)
EXTENDS Travel, TLC

CONSTANTS r1, r2, b1, b2, b3, p1, p2, a1, a2, u1, u2, g1, g2, o1, o2, root, s1, s2

MCPackageOf == (b1 :> p1) @@ (b2 :> p1) @@ (b3 :> p2)
MCAgencyOf == (p1 :> a1) @@ (p2 :> a2)
MCTrip == [from |-> 1, to |-> 4]

\* The slots of the requests are alike, and so are the groups.
Symmetry == Permutations(Requests) \union Permutations(Groups)

\* A part that is not chosen starts in one of its initial states only.
MCInit ==
  /\ TravelInit
  /\ part # "accounts" => user = None
  /\ part # "planning" => \A g \in Groups : dates[g] = [start |-> 1, end |-> 1]
  /\ part # "progress" => kind = "rite"
  /\ part # "savings" => departure = 21

MCSpec == MCInit /\ [][TravelNext]_travelVars
=============================================================================
