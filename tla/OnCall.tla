-------------------------------- MODULE OnCall --------------------------------
(***************************************************************************)
(* The shifts on call of one agency and the cover of one trip:             *)
(* OnCallService.  Instants are 0 .. Horizon; a shift runs from `from` up to  *)
(* and without `to`, and serves one package, or all of them.               *)
(*                                                                         *)
(* A definition commented "Mutant" is no part of the specification.        *)
(***************************************************************************)
EXTENDS Integers, Sequences, SequencesExt

CONSTANTS
  Requests,   \* slots for the requests in flight
  Shifts,     \* identifiers of shifts
  Horizon,    \* the last instant
  MaxShift,   \* MAX_SHIFT_DAYS, in instants
  Take,       \* rows that getForBooking looks at
  Trip,       \* the dates of the trip, [from, to]
  None

VARIABLES shift, req
vars == <<shift, req>>

Instants == 0 .. Horizon
Periods == [from : Instants, to : Instants]
Idle == [pc |-> "idle", id |-> None, dates |-> None]

Init ==
  /\ shift = [s \in Shifts |-> None]
  /\ req = [r \in Requests |-> Idle]

Existing == {s \in Shifts : shift[s] # None}

\* verifierPeriode
Valid(p) == p.to > p.from /\ p.to - p.from <= MaxShift

\* ours: for this trip, or for every trip (packageId null); else for another one.
CreateShift(s, p, ours) ==
  /\ s \notin Existing /\ \A r \in Requests : req[r].id # s
  /\ Valid(p)
  /\ shift' = [shift EXCEPT ![s] = [dates |-> p, ours |-> ours]]
  /\ UNCHANGED req

\* An end that the request does not move is the one that the handler reads.
UpdateRead(r, s, p) ==
  /\ req[r].pc = "idle" /\ s \in Existing /\ Valid(p)
  /\ req' = [req EXCEPT ![r] = [pc |-> "update", id |-> s, dates |-> p]]
  /\ UNCHANGED shift

\* Both bounds are written, the pair that was checked.
UpdateWrite(r) ==
  LET s == req[r].id
  IN  /\ req[r].pc = "update" /\ req' = [req EXCEPT ![r] = Idle]
      /\ shift' = IF s \in Existing THEN [shift EXCEPT ![s].dates = req[r].dates] ELSE shift

DeleteShift(s) ==
  /\ s \in Existing /\ shift' = [shift EXCEPT ![s] = None]
  /\ UNCHANGED req

-----------------------------------------------------------------------------
(* Views *)

Serving == {s \in Existing : shift[s].ours}
Dates(S) == {shift[s].dates : s \in S}

Latest(a, b) == IF a > b THEN a ELSE b
Earliest(a, b) == IF a < b THEN a ELSE b

\* Mutant: the cursor follows the shift just read, wherever it ends.
CurseurDuDernier(acc, c) == c.to

\* How far the trip is known to be covered once shift c is read.
Curseur(acc, c) == Latest(acc.curseur, c.to)

\* One turn of the loop of trousDeCouverture.
Avance(acc, c, to) ==
  IF acc.curseur >= to THEN acc
  ELSE [curseur |-> Curseur(acc, c),
        trous |-> IF c.from > acc.curseur
                  THEN Append(acc.trous, [from |-> acc.curseur, to |-> Earliest(c.from, to)])
                  ELSE acc.trous]

\* Sorted by start, whatever the order of shifts that start together.
ParDebut(creneaux) ==
  CHOOSE tries \in SetToSeqs(creneaux) :
    \A i, j \in DOMAIN tries : i < j => tries[i].from <= tries[j].from

\* The turns of the loop: the cursor and the gaps after k shifts.
Tours(from, to, tries) ==
  LET etat[k \in 0 .. Len(tries)] ==
        IF k = 0 THEN [curseur |-> from, trous |-> <<>>] ELSE Avance(etat[k - 1], tries[k], to)
  IN  etat

\* The hours left when the loop ends are a gap too.
TrousDeCouverture(from, to, creneaux) ==
  LET tries == ParDebut(creneaux)
      fin == Tours(from, to, tries)[Len(tries)]
  IN  IF fin.curseur < to THEN Append(fin.trous, [from |-> fin.curseur, to |-> to])
                          ELSE fin.trous

\* getCoverage: the shifts that serve the trip and meet it.
Gaps == TrousDeCouverture(Trip.from, Trip.to,
          {d \in Dates(Serving) : d.from < Trip.to /\ d.to > Trip.from})

\* getForBooking: the first shifts that are not over, those on now and the next.
Listed(now) ==
  LET due == {s \in Serving : shift[s].dates.to > now}
      sorted == CHOOSE l \in SetToSeqs(due) :
        \A i, j \in DOMAIN l : i < j => shift[l[i]].dates.from <= shift[l[j]].dates.from
  IN  SubSeq(sorted, 1, Earliest(Take, Len(sorted)))
OnCallNow(now) == {s \in Range(Listed(now)) : shift[s].dates.from <= now}

Next ==
  \/ \E s \in Shifts, p \in Periods, ours \in BOOLEAN : CreateShift(s, p, ours)
  \/ \E r \in Requests :
       \/ \E s \in Shifts, p \in Periods : UpdateRead(r, s, p)
       \/ UpdateWrite(r)
  \/ \E s \in Shifts : DeleteShift(s)

Spec == Init /\ [][Next]_vars

-----------------------------------------------------------------------------
(* Properties *)

\* A shift always ends after it starts and lasts no longer than a shift may, even when
\* two requests each move one of its ends.
ShiftsAreValid == \A s \in Existing : Valid(shift[s].dates)

OnDuty(t) == \E s \in Serving : shift[s].dates.from <= t /\ t < shift[s].dates.to

\* The gaps shown for a trip are the hours at which nobody who serves it is on call,
\* in order and apart from each other; and at each of the other hours the pilgrim is
\* shown somebody to call.
GapsAreUncovered ==
  /\ \A t \in Trip.from .. Trip.to - 1 :
       /\ (\E i \in DOMAIN Gaps : Gaps[i].from <= t /\ t < Gaps[i].to) <=> ~OnDuty(t)
       /\ OnDuty(t) => OnCallNow(t) # {}
  /\ \A i \in DOMAIN Gaps :
       /\ Gaps[i].from < Gaps[i].to
       /\ i > 1 => Gaps[i - 1].to < Gaps[i].from

\* Whatever the changes that overlap, the rota is valid and says who can be called.
RotaIsSound == ShiftsAreValid /\ GapsAreUncovered
=============================================================================
