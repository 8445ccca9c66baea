------------------------------- MODULE Capacity -------------------------------
(***************************************************************************)
(* The simulation of how many guides the trips of an agency need at once   *)
(* (CapacityService), while packages are created, moved and sold.          *)
(*                                                                         *)
(* A definition commented "Mutant" is no part of the specification.        *)
(***************************************************************************)
EXTENDS Integers, FiniteSetsExt

CONSTANTS
  Trips,
  LastDay,           \* bound on the dates
  Seats,             \* capacities a package may have
  PilgrimsPerGuide, Guides,
  None

VARIABLE trips
vars == <<trips>>

Init == trips = [t \in Trips |-> None]

Days == 0..LastDay
Planned == {t \in Trips : trips[t] # None}

Create(t, from, to, seats) ==
  /\ trips[t] = None /\ from <= to
  /\ trips' = [trips EXCEPT ![t] = [from |-> from, to |-> to, capacity |-> seats, sold |-> 0]]

Move(t, from, to) ==
  /\ t \in Planned /\ from <= to
  /\ trips' = [trips EXCEPT ![t].from = from, ![t].to = to]

Sell(t) ==
  /\ t \in Planned /\ trips[t].sold < trips[t].capacity
  /\ trips' = [trips EXCEPT ![t].sold = @ + 1]

Next ==
  \E t \in Trips : \/ \E from, to \in Days : Move(t, from, to)
                                             \/ \E s \in Seats : Create(t, from, to, s)
                   \/ Sell(t)

Spec == Init /\ [][Next]_vars

-----------------------------------------------------------------------------
(* The simulation *)

Ceil(n, d) == (n + d - 1) \div d
GuidesNeeded(t) == Ceil(trips[t].capacity, PilgrimsPerGuide)
GuidesNeededForSold(t) == Ceil(trips[t].sold, PilgrimsPerGuide)

\* Mutant: a trip ends as its last day begins.
EndEarly(t) == trips[t].to

\* A trip lasts until midnight of its last day.
End(t) == trips[t].to + 1

Instants == {trips[t].from : t \in Planned} \union {End(t) : t \in Planned}

\* Between two instants that follow each other, the same trips are under way.
Periods ==
  {p \in [from : Instants, to : Instants] :
     p.from < p.to /\ \A i \in Instants : i <= p.from \/ i >= p.to}

UnderWay(p) == {t \in Planned : trips[t].from <= p.from /\ End(t) >= p.to}

SumOver(f(_), S) == FoldSet(LAMBDA t, n : f(t) + n, 0, S)
Load(p) == [planned |-> SumOver(LAMBDA t : trips[t].capacity, UnderWay(p)),
            sold |-> SumOver(LAMBDA t : trips[t].sold, UnderWay(p)),
            needed |-> SumOver(GuidesNeeded, UnderWay(p)),
            neededForSold |-> SumOver(GuidesNeededForSold, UnderWay(p))]

Peak == Max({0} \union {Load(p).needed : p \in {q \in Periods : UnderWay(q) # {}}})
SpareGuidesAtPeak == Guides - Peak
ExtraPilgrimsAtPeak == Max({0, SpareGuidesAtPeak}) * PilgrimsPerGuide

-----------------------------------------------------------------------------
(* Properties *)

GuidesOn(d) == SumOver(GuidesNeeded, {t \in Planned : trips[t].from <= d /\ d <= trips[t].to})

\* The peak is what the worst single day needs, the first and the last day of every
\* trip included, however the trips overlap; and the pilgrims the simulation adds to
\* that day can be led by the guides of the agency.
PeakIsTheWorstDay ==
  /\ Peak = Max({GuidesOn(d) : d \in Days})
  /\ \A d \in Days : ExtraPilgrimsAtPeak > 0 =>
       GuidesOn(d) + Ceil(ExtraPilgrimsAtPeak, PilgrimsPerGuide) <= Guides
=============================================================================
