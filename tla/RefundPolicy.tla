---------------------------- MODULE RefundPolicy ----------------------------
(***************************************************************************)
(* The refund schedule of one agency and the terms of one booking made     *)
(* with it: RefundPolicyService (replacing the schedule), the snapshot     *)
(* that BookingsService.create freezes on the booking, and the rate that   *)
(* eligibilite() computes from the frozen terms as the departure comes     *)
(* nearer.                                                                 *)
(*                                                                         *)
(* A replacement is one database transaction, DELETE then INSERT, at the   *)
(* database's default isolation (READ COMMITTED): a DELETE sees the rows   *)
(* committed when it starts, waits for those another transaction is        *)
(* deleting, and skips those it finds gone.  Rates are percentages.        *)
(*                                                                         *)
(* A definition commented "Mutant" is no part of the specification.        *)
(***************************************************************************)
EXTENDS Integers

CONSTANTS
  Editors,         \* slots for the replacements in flight
  Thresholds,      \* the minDaysBeforeDeparture an agency uses
  Rates,           \* the rates it uses
  Submitted,       \* the schedules it submits
  Farthest,        \* bound: the days before departure at the beginning
  MovesDeparture   \* TRUE: the agency also edits the package's startDate

Tier == [days : Thresholds, rate : Rates]

ASSUME RefundPolicyAssumption ==
  /\ Thresholds \subseteq 0..730 /\ Rates \subseteq 0..100
  /\ Submitted \subseteq SUBSET Tier
  /\ Farthest \in Nat
  /\ MovesDeparture \in BOOLEAN

VARIABLES
  tiers,      \* the committed rows of the agency's schedule
  edit,       \* the replacements in flight
  booking,    \* the booking: status and frozen snapshot
  days,       \* days left before the departure
  inForce,    \* history: the schedule submitted with the last commit
  agreed,     \* history: what was in force when the booking read its terms
  overlapped  \* history: a replacement began while another one was in flight

vars == <<tiers, edit, booking, days, inForce, agreed, overlapped>>
history == <<inForce, agreed, overlapped>>

-----------------------------------------------------------------------------
(* The schedule and the rate *)

\* Sorting by threshold and comparing neighbours compares every pair.
VerifierPaliers(S) ==
  \A t, u \in S :
    /\ t # u => t.days # u.days
    /\ t.days < u.days => t.rate <= u.rate

Reached(S, d) == {t \in S : d >= t.days}
Highest(S) == CHOOSE t \in S : \A u \in S : u.days <= t.days

Eligibilite(status, S, d) ==
  CASE status = "pending_payment" -> 100
    [] status # "pending_payment" /\ status # "confirmed" -> 0
    [] OTHER -> IF S = {} THEN 50
                ELSE IF Reached(S, d) = {} THEN 0
                ELSE Highest(Reached(S, d)).rate

\* Cents given back of an amount in cents: Math.round.
RefundAmount(cents, rate) == (cents * rate + 50) \div 100

\* Mutant: the agency's schedule of the day instead of the frozen one.
RateOfTheDay == Eligibilite(booking.status, tiers, days)

Rate == Eligibilite(booking.status, booking.terms, days)

-----------------------------------------------------------------------------
NoEdit == [pc |-> "idle", offer |-> {}, seen |-> {}, held |-> {}]
Edit == [pc : {"idle", "deleting", "inserting"},
         offer : SUBSET Tier, seen : SUBSET Tier, held : SUBSET Tier]

\* "drafting": create() has read the schedule and has not inserted its row.
BookingStatus == {"none", "drafting", "pending_payment", "confirmed", "cancelled"}

\* Nothing sets the fourth status of a booking, and the countdown stops once the
\* group has left.
TypeOK ==
  /\ tiers \subseteq Tier
  /\ edit \in [Editors -> Edit]
  /\ booking \in [status : BookingStatus, terms : SUBSET Tier]
  /\ days \in -1..Farthest
  /\ inForce \subseteq Tier /\ agreed \subseteq Tier
  /\ overlapped \in BOOLEAN

Init ==
  /\ tiers = {}
  /\ edit = [e \in Editors |-> NoEdit]
  /\ booking = [status |-> "none", terms |-> {}]
  /\ days = Farthest
  /\ inForce = {} /\ agreed = {} /\ overlapped = FALSE

-----------------------------------------------------------------------------
(* RefundPolicyService.replaceForOwner *)

\* The list is checked, and the DELETE starts.
Replace(e, S) ==
  /\ edit[e].pc = "idle" /\ VerifierPaliers(S)
  /\ edit' = [edit EXCEPT ![e] = [pc |-> "deleting", offer |-> S,
                                  seen |-> tiers, held |-> {}]]
  /\ overlapped' = (overlapped \/ \E f \in Editors : edit[f].pc # "idle")
  /\ UNCHANGED <<tiers, booking, days, inForce, agreed>>

HeldByOthers(e) == UNION {edit[f].held : f \in Editors \ {e}}

\* Mutant: no transaction, the DELETE takes effect at once.
DeleteTiersAtOnce(e) ==
  /\ edit[e].pc = "deleting" /\ edit[e].seen \intersect HeldByOthers(e) = {}
  /\ edit' = [edit EXCEPT ![e].pc = "inserting"]
  /\ tiers' = tiers \ edit[e].seen
  /\ UNCHANGED <<booking, days, history>>

\* The DELETE has every row it saw and that is still there.
DeleteTiers(e) ==
  /\ edit[e].pc = "deleting" /\ edit[e].seen \intersect HeldByOthers(e) = {}
  /\ edit' = [edit EXCEPT ![e].pc = "inserting", ![e].held = edit[e].seen]
  /\ UNCHANGED <<tiers, booking, days, history>>

Clashes(S, rows) == \E t \in S, u \in rows : t.days = u.days

\* The INSERT and the COMMIT.  The others no longer find the rows deleted here.
InsertTiers(e) ==
  /\ edit[e].pc = "inserting"
  /\ ~Clashes(edit[e].offer, HeldByOthers(e))
  /\ ~Clashes(edit[e].offer, tiers \ edit[e].held)
  /\ tiers' = (tiers \ edit[e].held) \union edit[e].offer
  /\ inForce' = edit[e].offer
  /\ edit' = [f \in Editors |->
                IF f = e THEN NoEdit
                ELSE [edit[f] EXCEPT !.seen = @ \ edit[e].held]]
  /\ UNCHANGED <<booking, days, agreed, overlapped>>

\* The INSERT meets a threshold another transaction committed (unique index):
\* the transaction is rolled back.
InsertRefused(e) ==
  /\ edit[e].pc = "inserting"
  /\ ~Clashes(edit[e].offer, HeldByOthers(e))
  /\ Clashes(edit[e].offer, tiers \ edit[e].held)
  /\ edit' = [edit EXCEPT ![e] = NoEdit]
  /\ UNCHANGED <<tiers, booking, days, history>>

-----------------------------------------------------------------------------
(* The booking *)

\* BookingsService.create reads the schedule.  An empty one is not stored: the
\* column stays null, and lirePaliers reads that as an empty list again.
ReadSchedule ==
  /\ booking.status = "none"
  /\ booking' = [status |-> "drafting", terms |-> tiers]
  /\ agreed' = inForce
  /\ UNCHANGED <<tiers, edit, days, inForce, overlapped>>

\* ... and inserts its row, unless the reservation of the seat fails.
CreateBooking ==
  /\ booking.status = "drafting"
  /\ \/ booking' = [booking EXCEPT !.status = "pending_payment"]
     \/ booking' = [status |-> "none", terms |-> {}]
  /\ UNCHANGED <<tiers, edit, days, history>>

\* maybeConfirm and cancel, as in Bookings.
Confirm ==
  /\ booking.status \in {"pending_payment", "cancelled"}
  /\ booking' = [booking EXCEPT !.status = "confirmed"]
  /\ UNCHANGED <<tiers, edit, days, history>>

Cancel ==
  /\ booking.status \in {"pending_payment", "confirmed", "cancelled"}
  /\ booking' = [booking EXCEPT !.status = "cancelled"]
  /\ UNCHANGED <<tiers, edit, days, history>>

\* A day passes; the count goes negative once the group has left.
Tick ==
  /\ days >= 0
  /\ days' = days - 1
  /\ UNCHANGED <<tiers, edit, booking, history>>

\* PackagesService.update accepts a new startDate, with or without bookings.
MoveDeparture ==
  /\ MovesDeparture
  /\ days' \in 0..Farthest
  /\ UNCHANGED <<tiers, edit, booking, history>>

Next ==
  \/ \E e \in Editors :
       \/ \E S \in Submitted : Replace(e, S)
       \/ DeleteTiers(e) \/ InsertTiers(e) \/ InsertRefused(e)
  \/ ReadSchedule \/ CreateBooking \/ Confirm \/ Cancel
  \/ Tick \/ MoveDeparture

Spec == Init /\ [][Next]_vars

-----------------------------------------------------------------------------
(* Properties *)

\* As long as replacements have not overlapped, the schedule in force never gives
\* back more nearer to the departure, from one threshold to the next.
ScheduleIsConsistent ==
  ~overlapped => \A t, u \in tiers : t.days <= u.days =>
    Eligibilite("confirmed", tiers, t.days) <= Eligibilite("confirmed", tiers, u.days)

\* Even when replacements overlap, no threshold has two rates, so that the rate of
\* a booking is never a matter of chance.
ThresholdsAreDistinct == \A t, u \in tiers : t # u => t.days # u.days

\* As long as replacements have not overlapped, a booking is bound by a schedule the
\* agency published as a whole, never by one caught in the middle of a replacement.
TermsWereInForce ==
  ~overlapped /\ booking.status # "none" => booking.terms = agreed

\* While the booking keeps its status, its rate only moves with time, and, as long
\* as replacements have not overlapped, waiting never pays: whatever happens to
\* the agency's schedule, the rate does not rise as the departure comes nearer.
RateOnlyFalls ==
  [][booking'.status = booking.status =>
       /\ ~overlapped /\ days' <= days => Rate' <= Rate
       /\ days' = days => Rate' = Rate]_vars
=============================================================================
