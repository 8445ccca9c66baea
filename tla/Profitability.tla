----------------------------- MODULE Profitability -----------------------------
(***************************************************************************)
(* The simulation of what a package earns (ProfitabilityService), with the *)
(* commission rate of the agency, which is read from the database while    *)
(* every other hypothesis comes from the owner or from the package.        *)
(* Amounts are exact; the rounding to cents is left out, the rounding of   *)
(* pilgrims is not.                                                        *)
(***************************************************************************)
EXTENDS Integers

CONSTANTS
  Prices, Rates, Costs, FixedCosts, Capacities,  \* Rates in percent
  None

\* hypotheses: those of the last simulation; rate: of the agency.
VARIABLES hypotheses, rate
vars == <<hypotheses, rate>>

\* packageId gives a price and a capacity, which the owner may replace; it sells too.
Hypotheses == [price : Prices, capacity : Capacities, expected : 0..9, sold : {None} \union (0..9),
               cost : Costs, fixed : FixedCosts]

Init == hypotheses = None /\ rate \in Rates

\* "Le remplissage attendu dépasse la capacité" is refused.
Simulate(h) ==
  /\ h.expected <= h.capacity /\ (h.sold # None => h.sold <= h.capacity)
  /\ hypotheses' = h /\ UNCHANGED rate

Next == \E h \in Hypotheses : Simulate(h)

Spec == Init /\ [][Next]_vars

-----------------------------------------------------------------------------
(* The simulation; margins and contributions are in hundredths *)

Ceil(n, d) == (n + d - 1) \div d

Margin(n) ==
  LET h == hypotheses
      revenue == h.price * n
  IN  100 * revenue - revenue * rate - 100 * (h.cost * n + h.fixed)

UnitContribution == hypotheses.price * (100 - rate) - 100 * hypotheses.cost

BreakEven ==
  IF UnitContribution > 0 THEN Ceil(100 * hypotheses.fixed, UnitContribution) ELSE None
BreakEvenReachable == BreakEven # None /\ BreakEven <= hypotheses.capacity

Half(n) == (n + 1) \div 2                 \* Math.round(n * 0.5)
ThreeQuarters(n) == (3 * n + 2) \div 4    \* Math.round(n * 0.75)
Scenarios ==
  {hypotheses.expected, Half(hypotheses.capacity), ThreeQuarters(hypotheses.capacity),
   hypotheses.capacity} \union ({hypotheses.sold} \ {None})

-----------------------------------------------------------------------------
(* Properties *)

\* The break-even point is exact: its margin is no loss, and one pilgrim less is one;
\* without it, or when the capacity does not reach it, every scenario within the
\* capacity loses money, unless there are no fixed costs to cover.
BreakEvenIsExact ==
  hypotheses # None =>
    /\ BreakEven # None =>
         Margin(BreakEven) >= 0 /\ (BreakEven > 0 => Margin(BreakEven - 1) < 0)
    /\ ~BreakEvenReachable /\ hypotheses.fixed > 0 => \A n \in Scenarios : Margin(n) < 0
=============================================================================
