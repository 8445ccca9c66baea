-------------------------------- MODULE Savings --------------------------------
(***************************************************************************)
(* The savings plan of one booking, the daily job that asks for its        *)
(* installments (SavingsSchedulerService) and the one that recalls an      *)
(* unpaid balance (PaymentRemindersService).  A job may miss its day, when *)
(* the API is down, and fail between two of its steps; an error is logged. *)
(*                                                                         *)
(* A definition commented "Mutant" is no part of the specification.        *)
(***************************************************************************)
EXTENDS Integers, FiniteSetsExt

CONSTANTS
  MaxDay,      \* bound on the calendar
  Period,      \* days of a week, or of a month
  Departures,  \* days a package may leave, at any hour
  DueDays,     \* BALANCE_DUE_DAYS_BEFORE_DEPARTURE
  Offsets      \* BALANCE_REMINDER_OFFSETS_DAYS

\* departure: in thirds of a day; plan: the row; wanted: the pilgrim's last choice;
\* started, asked: when, and the installments asked since; settled, cancelled: of
\* the booking; job: the run of the savings job; ran: the jobs of today; recall: what
\* the reminders did today; stale: the plan was set up during a run of the job;
\* failed: a run died after it had asked for the money.
VARIABLES today, departure, plan, wanted, started, asked, settled, cancelled,
          job, ran, recall, stale, failed
bookingVars == <<departure, settled, cancelled>>
planVars == <<plan, wanted, started, asked, stale, failed>>
vars == <<today, bookingVars, planVars, job, ran, recall>>

NoDay == -1
Off == [on |-> FALSE, next |-> NoDay]
Idle == [pc |-> "idle", seen |-> Off]

Init ==
  /\ today = 0 /\ departure \in {3 * d + h : d \in Departures, h \in 0..2}
  /\ plan = Off /\ wanted = FALSE /\ started = 0 /\ asked = 0
  /\ settled = FALSE /\ cancelled = FALSE
  /\ job = Idle /\ ran = {} /\ recall = "none"
  /\ stale = FALSE /\ failed = FALSE

\* A plan that does not exist yet is one that is off; off keeps the old date.
SetupSavingsPlan(on) ==
  /\ ~cancelled
  /\ plan' = [on |-> on, next |-> IF on THEN today + Period ELSE plan.next]
  /\ wanted' = on /\ started' = today /\ asked' = 0
  /\ stale' = (stale \/ job # Idle)
  /\ UNCHANGED <<today, bookingVars, failed, job, ran, recall>>

\* The payments confirmed cover the price, or one of them is refunded.
Settle ==
  /\ settled' = ~settled
  /\ UNCHANGED <<today, departure, cancelled, planVars, job, ran, recall>>

Cancel ==
  /\ ~cancelled /\ cancelled' = TRUE
  /\ UNCHANGED <<today, departure, settled, planVars, job, ran, recall>>

\* Mutant: a plan is due a day early.
DueEarly == plan.on /\ plan.next <= today + 1

Due == plan.on /\ plan.next <= today

\* processDueSavings at 10: neither the booking nor its balance is looked at.
JobRead ==
  /\ job = Idle /\ "savings" \notin ran
  /\ ran' = ran \union {"savings"}
  /\ job' = IF Due THEN [pc |-> "ask", seen |-> plan] ELSE Idle
  /\ UNCHANGED <<today, bookingVars, planVars, recall>>

JobInitiate ==
  /\ job.pc = "ask"
  /\ asked' = asked + 1
  /\ job' = [job EXCEPT !.pc = "update"]
  /\ UNCHANGED <<today, bookingVars, plan, wanted, started, stale, failed, ran, recall>>

\* The date and the switch are written from what the job has read.
JobUpdate ==
  /\ job.pc = "update"
  /\ plan' = [job.seen EXCEPT !.next = @ + Period]
  /\ job' = Idle
  /\ UNCHANGED <<today, bookingVars, wanted, started, asked, stale, failed, ran, recall>>

JobFails ==
  /\ job # Idle
  /\ failed' = (failed \/ job.pc = "update")
  /\ job' = Idle
  /\ UNCHANGED <<today, bookingVars, plan, wanted, started, asked, stale, ran, recall>>

\* In thirds of a day, from 8 in the morning.
WindowStart == 3 * today + 1 + 3 * DueDays

\* Mutant: the window ends as many days later as the first reminder is early.
InWindowShort == departure >= WindowStart /\ departure < WindowStart + 3 * Max(Offsets)

InWindow == departure >= WindowStart /\ departure < WindowStart + 3 * (Max(Offsets) + 1)

DaysLeft == departure \div 3 - DueDays - today

\* sendPreventiveReminders; the notification may be lost.
Remind(sent) ==
  /\ "reminders" \notin ran /\ "savings" \notin ran
  /\ ran' = ran \union {"reminders"}
  /\ recall' = IF cancelled \/ settled THEN "none"
               ELSE IF ~(InWindow /\ DaysLeft \in Offsets) THEN "owing"
               ELSE IF sent THEN "sent" ELSE "lost"
  /\ UNCHANGED <<today, bookingVars, planVars, job>>

\* At the bound, the calendar stands still.
NextDay ==
  /\ job = Idle
  /\ IF today < MaxDay THEN today' = today + 1 /\ ran' = {} /\ recall' = "none"
     ELSE UNCHANGED <<today, ran, recall>>
  /\ UNCHANGED <<bookingVars, planVars, job>>

Next ==
  \/ \E on \in BOOLEAN : SetupSavingsPlan(on)
  \/ Settle \/ Cancel
  \/ JobRead \/ JobInitiate \/ JobUpdate \/ JobFails
  \/ \E sent \in BOOLEAN : Remind(sent)
  \/ NextDay

Spec == Init /\ [][Next]_vars

-----------------------------------------------------------------------------
(* Properties *)

\* The pilgrim is asked for one installment a period: however many days the API was
\* down, never more of them than periods gone by since the plan was set up, and none
\* when the plan is off.  A run that dies before it moves the date, or a plan set up
\* during a run, may break it.
InstallmentsFollowPlan ==
  ~stale =>
    /\ plan.on = wanted
    /\ ~failed => asked * Period <= today - started

\* "un rappel 14 jours, 7 jours puis la veille de la date limite": whatever the hour
\* of the departure, a run of the job on one of these days reaches a pilgrim who owes.
RemindersArrive == recall = "owing" => DaysLeft \notin Offsets
=============================================================================
