------------------------------- MODULE MCOffice -------------------------------
(* Office on small sets, with requests to book that come one at a time.        *)
EXTENDS Office

CONSTANTS r1, r2, r3, d1, d2, d3, b1, b2, b3, b4, k1, k2, c1, c2, t1, t2, p1, p2, a1, a2

MCPlans == {[next |-> 1, period |-> 2, amount |-> 2]}

\* A part that is not chosen starts in one of its initial states only.
MCInit ==
  /\ OfficeInit
  /\ part # "profitability" => rate = 0
  /\ part # "treasury" => departure = 2 /\ plan = None

MCSpec == MCInit /\ [][OfficeNext]_officeVars /\ OfficeFairness
=============================================================================
