------------------------- MODULE RefundPolicyProofs -------------------------
(***************************************************************************)
(* Proofs about RefundPolicy for any thresholds, rates and schedules.  The *)
(* theorems about the schedule in force are about the behaviour until two  *)
(* replacements overlap for the first time.                                *)
(***************************************************************************)
EXTENDS RefundPolicy, WellFoundedInduction, TLAPS

-----------------------------------------------------------------------------
(* The rate as a function of the days left *)

\* A nonempty set of naturals has a smallest member.
LEMMA SmallestExists ==
  ASSUME NEW T \in SUBSET Nat, T # {}
  PROVE  \E m \in T : \A k \in T : m <= k
  <1> DEFINE R == {ss \in Nat \X Nat : ss[1] < ss[2]}
  <1>1. IsWellFoundedOn(R, Nat)
    BY NatLessThanWellFounded DEF OpToRel
  <1>2. \A j, k \in Nat : j < k => <<j, k>> \in R
    OBVIOUS
  <1> HIDE DEF R
  <1>3. PICK m \in T : \A k \in T : <<k, m>> \notin R
    BY <1>1, WFMin, Zenon
  <1>4. ASSUME NEW k \in T PROVE m <= k
    <2>1. k \in Nat /\ m \in Nat
      OBVIOUS
    <2>2. ~(k < m)
      BY <1>2, <1>3, <2>1, Zenon
    <2>3. QED
      BY <2>1, <2>2
  <1>5. QED
    BY <1>4, Zenon

LEMMA TierParts ==
  ASSUME NEW t \in Tier
  PROVE  t.days \in 0..730 /\ t.rate \in 0..100
  <1>1. t.days \in Thresholds /\ t.rate \in Rates
    BY DEF Tier
  <1>2. \A d \in Thresholds : d \in 0..730
    BY RefundPolicyAssumption
  <1>3. \A q \in Rates : q \in 0..100
    BY RefundPolicyAssumption
  <1>4. t.days \in 0..730
    BY <1>1, <1>2
  <1>5. t.rate \in 0..100
    BY <1>1, <1>3
  <1>6. QED
    BY <1>4, <1>5

\* The tier that find() returns exists as soon as a threshold is reached.
LEMMA HighestIsTier ==
  ASSUME NEW S \in SUBSET Tier, S # {}
  PROVE  Highest(S) \in S /\ \A u \in S : u.days <= Highest(S).days
  <1> DEFINE T == {730 - t.days : t \in S}
  <1>0. \A t \in S : t.days \in 0..730
    BY TierParts
  <1>1. T \in SUBSET Nat /\ T # {}
    BY <1>0
  <1>2. PICK m \in T : \A k \in T : m <= k
    BY <1>1, SmallestExists, Zenon
  <1>3. PICK t \in S : m = 730 - t.days
    OBVIOUS
  <1>4. ASSUME NEW u \in S PROVE u.days <= t.days
    <2>1. 730 - u.days \in T
      OBVIOUS
    <2>2. m <= 730 - u.days
      BY <1>2, <2>1, Zenon
    <2>3. QED
      <3>1. PICK i \in 0..730 : i = t.days
        BY <1>0, Zenon
      <3>2. PICK j \in 0..730 : j = u.days
        BY <1>0, Zenon
      <3>3. 730 - i <= 730 - j
        BY <1>3, <2>2, <3>1, <3>2, Zenon
      <3>4. j <= i
        BY <3>3, SMT
      <3>5. QED
        BY <3>1, <3>2, <3>4, Zenon
  <1>5. \E v \in S : \A u \in S : u.days <= v.days
    BY <1>4, Zenon
  <1>6. QED
    BY <1>5 DEF Highest

LEMMA EligibiliteIsRate ==
  ASSUME NEW status, NEW S \in SUBSET Tier, NEW d \in Int
  PROVE  Eligibilite(status, S, d) \in 0..100
  <1>1. Reached(S, d) \in SUBSET Tier
    BY DEF Reached
  <1>2. Reached(S, d) # {} => Highest(Reached(S, d)).rate \in 0..100
    BY <1>1, HighestIsTier, TierParts
  <1>3. QED
    BY <1>2 DEF Eligibilite

\* A checked schedule gives back no more when the departure is nearer.
LEMMA EligibiliteIsMonotone ==
  ASSUME NEW status, NEW S \in SUBSET Tier, VerifierPaliers(S),
         NEW d \in Int, NEW e \in Int, d <= e
  PROVE  Eligibilite(status, S, d) <= Eligibilite(status, S, e)
  <1>1. CASE status = "confirmed" /\ Reached(S, d) # {}
    <2> DEFINE t == Highest(Reached(S, d))
               u == Highest(Reached(S, e))
    <2>1. /\ Reached(S, d) \subseteq Reached(S, e)
          /\ Reached(S, e) \subseteq S
      BY TierParts DEF Reached
    <2>2. t \in Reached(S, d)
      BY <1>1, <2>1, HighestIsTier
    <2>3. u \in Reached(S, e) /\ t.days <= u.days
      BY <1>1, <2>1, <2>2, HighestIsTier
    <2>4. t \in S /\ u \in S
      BY <2>1, <2>2, <2>3
    <2> HIDE DEF t, u
    <2>5. t.rate <= u.rate
      <3>1. t.rate \in Int /\ u.rate \in Int /\ t.days \in Int /\ u.days \in Int
        BY <2>4, TierParts
      <3>2. t = u \/ t.days < u.days
        BY <2>3, <2>4, <3>1 DEF VerifierPaliers
      <3>3. QED
        BY <2>4, <3>1, <3>2 DEF VerifierPaliers
    <2>6. QED
      BY <1>1, <2>1, <2>5 DEF Eligibilite, t, u
  <1>2. CASE status = "confirmed" /\ Reached(S, d) = {}
    <2>1. Eligibilite(status, S, e) \in 0..100
      BY EligibiliteIsRate
    <2>2. QED
      BY <1>2, <2>1 DEF Eligibilite
  <1>3. CASE status # "confirmed"
    BY <1>3 DEF Eligibilite
  <1>4. QED
    BY <1>1, <1>2, <1>3

\* Math.round never gives back more than was paid, at any rate of a schedule, and
\* gives back everything at 100 %.
THEOREM RefundIsBounded ==
  ASSUME NEW cents \in Nat, NEW rate \in 0..100
  PROVE  RefundAmount(cents, rate) <= cents /\ RefundAmount(cents, 100) = cents
  <1>1. cents * rate <= cents * 100
    OBVIOUS
  <1>2. cents * rate \in Nat
    OBVIOUS
  <1>3. \A n \in Nat : n <= cents * 100 => (n + 50) \div 100 <= cents
    OBVIOUS
  <1>4. (cents * 100 + 50) \div 100 = cents
    OBVIOUS
  <1>5. QED
    BY <1>1, <1>2, <1>3, <1>4 DEF RefundAmount

-----------------------------------------------------------------------------
(* Types *)

LEMMA NoEditIsEdit == NoEdit \in Edit
  BY DEF NoEdit, Edit

\* Every variable keeps its type, however replacements and the booking interleave.
THEOREM TypeCorrect == Spec => []TypeOK
  <1> USE RefundPolicyAssumption, NoEditIsEdit
  <1>1. Init => TypeOK
    <2>1. Farthest \in -1..Farthest
      OBVIOUS
    <2>2. ASSUME Init PROVE TypeOK
      BY <2>1, <2>2 DEF Init, TypeOK, BookingStatus
    <2>3. QED
      BY <2>2
  <1>2. TypeOK /\ [Next]_vars => TypeOK'
    <2> SUFFICES ASSUME TypeOK, [Next]_vars PROVE TypeOK'
      OBVIOUS
    <2> USE DEF TypeOK, history
    <2>1. ASSUME NEW e \in Editors, NEW S \in Submitted, Replace(e, S) PROVE TypeOK'
      <3>1. [pc |-> "deleting", offer |-> S, seen |-> tiers, held |-> {}] \in Edit
        BY DEF Edit
      <3>2. QED
        BY <2>1, <3>1 DEF Replace
    <2>2. ASSUME NEW e \in Editors, DeleteTiers(e) PROVE TypeOK'
      <3>1. [edit[e] EXCEPT !.pc = "inserting", !.held = edit[e].seen] \in Edit
        BY DEF Edit
      <3>2. edit' = [edit EXCEPT ![e] =
                       [edit[e] EXCEPT !.pc = "inserting", !.held = edit[e].seen]]
        BY <2>2 DEF DeleteTiers
      <3>3. QED
        BY <2>2, <3>1, <3>2 DEF DeleteTiers
    <2>3. ASSUME NEW e \in Editors, InsertTiers(e) PROVE TypeOK'
      <3>1. \A f \in Editors : [edit[f] EXCEPT !.seen = @ \ edit[e].held] \in Edit
        BY DEF Edit
      <3>2. edit' \in [Editors -> Edit]
        BY <2>3, <3>1 DEF InsertTiers
      <3>3. edit[e].offer \subseteq Tier /\ tiers' \subseteq Tier
        BY <2>3 DEF InsertTiers, Edit
      <3>4. QED
        BY <2>3, <3>2, <3>3 DEF InsertTiers
    <2>4. ASSUME NEW e \in Editors, InsertRefused(e) PROVE TypeOK'
      BY <2>4 DEF InsertRefused
    <2>5. CASE ReadSchedule
      BY <2>5 DEF ReadSchedule, BookingStatus
    <2>6. CASE CreateBooking \/ Confirm \/ Cancel
      BY <2>6 DEF CreateBooking, Confirm, Cancel, BookingStatus
    <2>7. CASE Tick \/ MoveDeparture
      BY <2>7 DEF Tick, MoveDeparture
    <2>8. CASE UNCHANGED vars
      BY <2>8 DEF vars
    <2>9. QED
      BY <2>1, <2>2, <2>3, <2>4, <2>5, <2>6, <2>7, <2>8 DEF Next
  <1>3. QED
    BY <1>1, <1>2, PTL DEF Spec

-----------------------------------------------------------------------------
(* Until two replacements overlap, a transaction finds the schedule as it   *)
(* left it: what it deletes is everything.                                  *)

AloneInv ==
  /\ VerifierPaliers(tiers) /\ tiers = inForce
  /\ VerifierPaliers(booking.terms)
  /\ booking.status # "none" => booking.terms = agreed
  /\ \A e, f \in Editors : edit[e].pc # "idle" /\ edit[f].pc # "idle" => e = f
  /\ \A e \in Editors :
       /\ edit[e].pc # "idle" => VerifierPaliers(edit[e].offer)
       /\ edit[e].pc = "deleting" => edit[e].seen = tiers
       /\ edit[e].pc = "inserting" => edit[e].held = tiers

PolicyInv == ~overlapped => AloneInv

LEMMA OverlapStays == ASSUME [Next]_vars, overlapped PROVE overlapped'
  BY DEF Next, vars, history, Replace, DeleteTiers, InsertTiers, InsertRefused,
         ReadSchedule, CreateBooking, Confirm, Cancel, Tick, MoveDeparture

LEMMA PolicyInvHolds == Spec => []PolicyInv
  <1>1. Init => PolicyInv
    BY DEF Init, PolicyInv, AloneInv, VerifierPaliers, NoEdit
  <1>2. TypeOK /\ PolicyInv /\ [Next]_vars => PolicyInv'
    <2> SUFFICES ASSUME TypeOK, AloneInv, [Next]_vars, ~overlapped' PROVE AloneInv'
      BY OverlapStays DEF PolicyInv
    <2> USE DEF AloneInv, TypeOK, history
    <2>1. ASSUME NEW e \in Editors, NEW S \in Submitted, Replace(e, S) PROVE AloneInv'
      BY <2>1 DEF Replace, VerifierPaliers
    <2>2. ASSUME NEW e \in Editors, DeleteTiers(e) PROVE AloneInv'
      BY <2>2 DEF DeleteTiers, VerifierPaliers, Edit
    <2>3. ASSUME NEW e \in Editors, InsertTiers(e) PROVE AloneInv'
      <3>1. tiers' = edit[e].offer /\ inForce' = edit[e].offer
        BY <2>3 DEF InsertTiers
      <3>2. VerifierPaliers(edit[e].offer)
        BY <2>3 DEF InsertTiers
      <3>3. \A f \in Editors : edit'[f].pc = "idle"
        BY <2>3 DEF InsertTiers, NoEdit, Edit
      <3>4. UNCHANGED <<booking, agreed>>
        BY <2>3 DEF InsertTiers
      <3>5. QED
        BY <3>1, <3>2, <3>3, <3>4 DEF VerifierPaliers
    <2>4. ASSUME NEW e \in Editors, InsertRefused(e) PROVE AloneInv'
      BY <2>4 DEF InsertRefused, VerifierPaliers, NoEdit
    <2>5. CASE ReadSchedule
      BY <2>5 DEF ReadSchedule, VerifierPaliers
    <2>6. CASE CreateBooking \/ Confirm \/ Cancel
      BY <2>6 DEF CreateBooking, Confirm, Cancel, VerifierPaliers
    <2>7. CASE Tick \/ MoveDeparture
      BY <2>7 DEF Tick, MoveDeparture, VerifierPaliers
    <2>8. CASE UNCHANGED vars
      BY <2>8 DEF vars, VerifierPaliers
    <2>9. QED
      BY <2>1, <2>2, <2>3, <2>4, <2>5, <2>6, <2>7, <2>8 DEF Next
  <1>3. QED
    BY <1>1, <1>2, TypeCorrect, PTL DEF Spec

DistinctDays(S) == \A t, u \in S : t # u => t.days # u.days

OffersAreDistinct == \A e \in Editors : edit[e].pc # "idle" => DistinctDays(edit[e].offer)

\* However replacements overlap, the unique index leaves one rate per threshold: an
\* insertion that meets a threshold of another transaction is rolled back.
THEOREM ThresholdsStayDistinct == Spec => []ThresholdsAreDistinct
  <1> DEFINE Inv == OffersAreDistinct /\ DistinctDays(tiers)
  <1>1. Init => Inv
    BY DEF Init, OffersAreDistinct, DistinctDays, NoEdit
  <1>2. TypeOK /\ Inv /\ [Next]_vars => Inv'
    <2> SUFFICES ASSUME TypeOK, Inv, [Next]_vars PROVE Inv'
      OBVIOUS
    <2> USE DEF TypeOK, OffersAreDistinct, history
    <2>1. ASSUME NEW e \in Editors, NEW S \in Submitted, Replace(e, S) PROVE Inv'
      <3>1. DistinctDays(S)
        BY <2>1 DEF Replace, VerifierPaliers, DistinctDays
      <3>2. QED
        BY <2>1, <3>1 DEF Replace, DistinctDays
    <2>2. ASSUME NEW e \in Editors, DeleteTiers(e) PROVE Inv'
      BY <2>2 DEF DeleteTiers, DistinctDays
    <2>3. ASSUME NEW e \in Editors, InsertTiers(e) PROVE Inv'
      <3>1. DistinctDays(edit[e].offer) /\ tiers' = (tiers \ edit[e].held) \union edit[e].offer
        BY <2>3 DEF InsertTiers
      <3>2. \A t \in edit[e].offer, u \in tiers \ edit[e].held : t.days # u.days
        BY <2>3 DEF InsertTiers, Clashes
      <3>3. DistinctDays(tiers')
        BY <3>1, <3>2 DEF DistinctDays
      <3>4. \A f \in Editors : edit'[f].pc # "idle" =>
              edit'[f].offer = edit[f].offer /\ edit[f].pc # "idle"
        BY <2>3 DEF InsertTiers, NoEdit, Edit
      <3>5. QED
        BY <3>3, <3>4 DEF DistinctDays
    <2>4. ASSUME NEW e \in Editors, InsertRefused(e) PROVE Inv'
      BY <2>4 DEF InsertRefused, DistinctDays, NoEdit
    <2>5. CASE ReadSchedule \/ CreateBooking \/ Confirm \/ Cancel \/ Tick \/ MoveDeparture
               \/ UNCHANGED vars
      <3>1. UNCHANGED <<tiers, edit>>
        BY <2>5 DEF ReadSchedule, CreateBooking, Confirm, Cancel, Tick, MoveDeparture, vars
      <3>2. QED
        BY <3>1 DEF DistinctDays
    <2>6. QED
      BY <2>1, <2>2, <2>3, <2>4, <2>5 DEF Next
  <1>3. Inv => ThresholdsAreDistinct
    BY DEF ThresholdsAreDistinct, DistinctDays
  <1>4. QED
    BY <1>1, <1>2, <1>3, TypeCorrect, PTL DEF Spec

\* Until replacements overlap, no inconsistent schedule is ever in force.
THEOREM SchedulesStayConsistent == Spec => []ScheduleIsConsistent
  <1>1. TypeOK /\ PolicyInv => ScheduleIsConsistent
    <2> SUFFICES ASSUME TypeOK, AloneInv, NEW t \in tiers, NEW u \in tiers,
                        t.days <= u.days
                 PROVE  Eligibilite("confirmed", tiers, t.days)
                          <= Eligibilite("confirmed", tiers, u.days)
      BY DEF ScheduleIsConsistent, PolicyInv
    <2>1. tiers \in SUBSET Tier /\ VerifierPaliers(tiers)
      BY DEF TypeOK, AloneInv
    <2>2. t.days \in 0..730 /\ u.days \in 0..730
      BY <2>1, TierParts
    <2>3. t.days \in Int /\ u.days \in Int
      BY <2>2
    <2>4. QED
      BY <2>1, <2>3, EligibiliteIsMonotone
  <1>2. QED
    BY <1>1, TypeCorrect, PolicyInvHolds, PTL

\* A booking is never bound by a schedule read in the middle of a replacement.
THEOREM TermsAreWhole == Spec => []TermsWereInForce
  <1>1. PolicyInv => TermsWereInForce
    BY DEF PolicyInv, AloneInv, TermsWereInForce
  <1>2. QED
    BY <1>1, PolicyInvHolds, PTL

\* While the booking keeps its status, its rate only moves with time and never
\* rises as the departure comes nearer.
THEOREM WaitingNeverPays == Spec => RateOnlyFalls
  <1>1. TypeOK /\ TypeOK' /\ PolicyInv /\ PolicyInv' /\ [Next]_vars =>
          [booking'.status = booking.status =>
             /\ ~overlapped /\ days' <= days => Rate' <= Rate
             /\ days' = days => Rate' = Rate]_vars
    <2> SUFFICES ASSUME TypeOK, TypeOK', PolicyInv, PolicyInv', [Next]_vars,
                        booking'.status = booking.status
                 PROVE  /\ ~overlapped /\ days' <= days => Rate' <= Rate
                        /\ days' = days => Rate' = Rate
      OBVIOUS
    <2>1. booking' = booking
      <3>1. CASE ReadSchedule \/ CreateBooking \/ Confirm
        BY <3>1 DEF ReadSchedule, CreateBooking, Confirm, TypeOK
      <3>2. CASE Cancel
        BY <3>2 DEF Cancel, TypeOK
      <3>3. CASE UNCHANGED booking
        BY <3>3
      <3>4. QED
        BY <3>1, <3>2, <3>3
        DEF Next, Replace, DeleteTiers, InsertTiers, InsertRefused, Tick, MoveDeparture, vars
    <2>2. Rate' = Eligibilite(booking.status, booking.terms, days')
      BY <2>1 DEF Rate
    <2>3. /\ booking.terms \in SUBSET Tier
          /\ days \in Int /\ days' \in Int
      BY RefundPolicyAssumption DEF TypeOK
    <2>4. ~overlapped /\ days' <= days => Rate' <= Rate
      BY <2>2, <2>3, EligibiliteIsMonotone DEF Rate, PolicyInv, AloneInv
    <2>5. days' = days => Rate' = Rate
      BY <2>2 DEF Rate
    <2>6. QED
      BY <2>4, <2>5
  <1>2. QED
    BY <1>1, TypeCorrect, PolicyInvHolds, PTL DEF Spec, RateOnlyFalls
=============================================================================
