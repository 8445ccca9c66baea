------------------------------- MODULE Treasury -------------------------------
(***************************************************************************)
(* What the books of an agency say of one booking: the journal it exports, *)
(* period after period, to its accounting software                         *)
(* (AccountingExportService), and the receipts it may expect               *)
(* (PaymentsService.getTreasuryProjection).                                *)
(*                                                                         *)
(* A definition commented "Mutant" is no part of the specification.        *)
(***************************************************************************)
EXTENDS Integers, FiniteSetsExt

CONSTANTS
  Payments,
  Amount,              \* of one payment
  Price,
  LastDay,             \* bound on the calendar
  Departures, Month,   \* days of departure; days of a month
  DueDays,             \* BALANCE_DUE_DAYS_BEFORE_DEPARTURE
  Plans,               \* savings plans: [next, period, amount]
  None

\* pays: the rows; closed: the last day exported; exported: how many times each piece
\* was; moved: the provider has confirmed a payment again on a later day.
VARIABLES today, pays, closed, exported, moved, departure, plan
vars == <<today, pays, closed, exported, moved, departure, plan>>

NoDay == -1
Pieces == Payments \X {"ENC", "REM"}

Init ==
  /\ today = 0 /\ closed = NoDay /\ moved = FALSE
  /\ pays = [p \in Payments |-> [status |-> "pending", confirmed |-> NoDay, refunded |-> NoDay]]
  /\ exported = [x \in Pieces |-> 0]
  /\ departure \in Departures /\ plan \in Plans \union {None}

\* handleWebhook, first or repeated: the day is written each time.
Confirm(p) ==
  /\ moved' = (moved \/ pays[p].confirmed \notin {NoDay, today})
  /\ pays' = [pays EXCEPT ![p].status = "succeeded", ![p].confirmed = today]
  /\ UNCHANGED <<today, closed, exported, departure, plan>>

Refund(p) ==
  /\ pays[p].status = "succeeded" /\ pays[p].refunded = NoDay
  /\ pays' = [pays EXCEPT ![p].status = "refunded", ![p].refunded = today]
  /\ UNCHANGED <<today, closed, exported, moved, departure, plan>>

NextDay == today < LastDay /\ today' = today + 1
           /\ UNCHANGED <<pays, closed, exported, moved, departure, plan>>

Dated(x) == IF x[2] = "ENC" THEN pays[x[1]].confirmed ELSE pays[x[1]].refunded

\* Mutant: the last day of the period is left out.
EntriesShort(from, to) == {x \in Pieces : Dated(x) # NoDay /\ from <= Dated(x) /\ Dated(x) < to}

\* getJournal: both days of the period included.
Entries(from, to) == {x \in Pieces : Dated(x) # NoDay /\ from <= Dated(x) /\ Dated(x) <= to}

\* The owner exports the days gone by since the last export.
Export ==
  /\ closed < today - 1
  /\ exported' = [x \in Pieces |-> exported[x] +
                    IF x \in Entries(closed + 1, today - 1) THEN 1 ELSE 0]
  /\ closed' = today - 1
  /\ UNCHANGED <<today, pays, moved, departure, plan>>

Next == Export \/ NextDay \/ \E p \in Payments : Confirm(p) \/ Refund(p)

Spec == Init /\ [][Next]_vars

-----------------------------------------------------------------------------
(* The projection *)

SumOver(f(_), S) == FoldSet(LAMBDA k, n : f(k) + n, 0, S)

Collected == SumOver(LAMBDA p : IF pays[p].status = "succeeded" THEN Amount ELSE 0, Payments)
Balance == Max({0, Price - Collected})

\* The loop over the installments to come: Left[k], the balance after k of them.
Ks == 0..Price
Left[k \in Ks] == IF k = 0 THEN Balance ELSE Left[k - 1] - Min({Left[k - 1], plan.amount})
Date(k) == plan.next + (k - 1) * plan.period
PaidOn == {k \in Ks \ {0} : Left[k - 1] > 0 /\ Date(k) < departure}

\* Without a plan the balance is expected when it is due, or now.
Expected ==
  IF plan = None
    THEN {[day |-> Max({departure - DueDays, today}), amount |-> Balance]}
    ELSE {[day |-> Date(k), amount |-> Left[k - 1] - Left[k]] : k \in PaidOn}
         \union {[day |-> departure, amount |-> Left[Cardinality(PaidOn)]]}

Months == 0..((LastDay + Max(Departures)) \div Month)
Projection == [m \in Months |->
  SumOver(LAMBDA e : e.amount, {e \in Expected : e.day \div Month = m})]

-----------------------------------------------------------------------------
(* Properties *)

\* Exports of periods that follow each other neither lose an entry nor repeat one,
\* unless the provider confirms a payment again after its day was exported.
JournalsAddUp == ~moved => \A x \in Pieces : exported[x] =
  IF Dated(x) # NoDay /\ Dated(x) <= closed THEN 1 ELSE 0

\* The months of the projection add up to what the pilgrim still owes.
ForecastAddsUp == SumOver(LAMBDA m : Projection[m], Months) = Balance

\* What an owner exports and what he may expect of a booking are complete, once each.
BooksAddUp == JournalsAddUp /\ ForecastAddsUp
=============================================================================
