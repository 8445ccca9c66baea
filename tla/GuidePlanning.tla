----------------------------- MODULE GuidePlanning -----------------------------
(***************************************************************************)
(* The guides of one agency: GroupsService.assignGuide, which refuses a    *)
(* guide who is taken, and GuidePlanningService, which shows the conflicts *)
(* that arise all the same.  A group has the dates of its package, and the *)
(* agency may move them.                                                   *)
(*                                                                         *)
(* A definition commented "Mutant" is no part of the specification.        *)
(***************************************************************************)
EXTENDS Naturals, FiniteSets, Sequences, SequencesExt

CONSTANTS
  Requests,     \* slots for the requests in flight
  Guides, Groups,
  Absences,     \* identifiers of declared unavailabilities
  LastDay,      \* days are 1 .. LastDay
  None

\* guideOf: guideId; dates: of the group's package; absence: rows, or None;
\* excused: groups assigned across another assignment, or moved since.
VARIABLES guideOf, dates, absence, excused, req
vars == <<guideOf, dates, absence, excused, req>>

Periods == {p \in [start : 1 .. LastDay, end : 1 .. LastDay] : p.start <= p.end}
Idle == [pc |-> "idle", group |-> None, guide |-> None, dates |-> None, late |-> FALSE]

Init ==
  /\ guideOf = [g \in Groups |-> None]
  /\ dates \in [Groups -> Periods]
  /\ absence = [a \in Absences |-> None]
  /\ excused = {}
  /\ req = [r \in Requests |-> Idle]

\* Do two periods, ends included, have a day in common?
Chevauche(a, b) == a.start <= b.end /\ b.start <= a.end

Declared(u) == {a \in Absences : absence[a] # None /\ absence[a].guide = u}

-----------------------------------------------------------------------------
(* assignGuide: it reads the group and its dates, looks for another group of  *)
(* the guide, then for an absence, and writes the group.                      *)

AssignRead(r, g, u) ==
  /\ req[r].pc = "idle"
  /\ req' = [req EXCEPT ![r] = [Idle EXCEPT !.pc = "groups", !.group = g,
                                            !.guide = u, !.dates = dates[g]]]
  /\ UNCHANGED <<guideOf, dates, absence, excused>>

Busy(r) == \E g \in Groups \ {req[r].group} :
             guideOf[g] = req[r].guide /\ Chevauche(dates[g], req[r].dates)
Absent(r) == \E a \in Declared(req[r].guide) : Chevauche(absence[a].dates, req[r].dates)

\* Mutant: only the groups that start on the same day are looked for.
FindGroupSameStart(r) ==
  /\ req[r].pc = "groups"
  /\ req' = IF \E g \in Groups \ {req[r].group} :
                 guideOf[g] = req[r].guide /\ dates[g].start = req[r].dates.start
            THEN [req EXCEPT ![r] = Idle] ELSE [req EXCEPT ![r].pc = "absences"]
  /\ UNCHANGED <<guideOf, dates, absence, excused>>

FindGroup(r) ==
  /\ req[r].pc = "groups"
  /\ req' = IF Busy(r) THEN [req EXCEPT ![r] = Idle] ELSE [req EXCEPT ![r].pc = "absences"]
  /\ UNCHANGED <<guideOf, dates, absence, excused>>

FindAbsence(r) ==
  /\ req[r].pc = "absences"
  /\ req' = IF Absent(r) THEN [req EXCEPT ![r] = Idle] ELSE [req EXCEPT ![r].pc = "write"]
  /\ UNCHANGED <<guideOf, dates, absence, excused>>

\* The assignments in flight have read what is changed now.
Overtaken(r) == [q \in Requests |-> IF q = r \/ req[q].pc = "idle" THEN Idle
                                    ELSE [req[q] EXCEPT !.late = TRUE]]

AssignWrite(r) ==
  /\ req[r].pc = "write"
  /\ guideOf' = [guideOf EXCEPT ![req[r].group] = req[r].guide]
  /\ excused' = IF req[r].late THEN excused \union {req[r].group}
                ELSE excused \ {req[r].group}
  /\ req' = Overtaken(r)
  /\ UNCHANGED <<dates, absence>>

\* PackagesService.update: nothing asks the guides.
MovePackage(g, p) ==
  /\ dates[g] # p /\ dates' = [dates EXCEPT ![g] = p]
  /\ excused' = excused \union {g}
  /\ req' = Overtaken(None)
  /\ UNCHANGED <<guideOf, absence>>

\* Declared after the fact, an absence may meet a group.
AddUnavailability(a, u, p) ==
  /\ absence[a] = None
  /\ absence' = [absence EXCEPT ![a] = [guide |-> u, dates |-> p]]
  /\ UNCHANGED <<guideOf, dates, excused, req>>

DeleteUnavailability(a) ==
  /\ absence[a] # None /\ absence' = [absence EXCEPT ![a] = None]
  /\ UNCHANGED <<guideOf, dates, excused, req>>

-----------------------------------------------------------------------------
(* The schedule *)

Engagements(u) ==
  {[id |-> g, dates |-> dates[g]] : g \in {h \in Groups : guideOf[h] = u}}
    \union {[id |-> a, dates |-> absence[a].dates] : a \in Declared(u)}

\* What meets the window that is asked for.
Entries(u, window) == {e \in Engagements(u) : Chevauche(e.dates, window)}

\* Sorted by start, whatever the order of entries that start together.
ParDebut(entries) ==
  CHOOSE sorted \in SetToSeqs(entries) :
    \A i, j \in DOMAIN sorted : i < j => sorted[i].dates.start <= sorted[j].dates.start

\* Each pair that overlaps, once: an earlier one with a later one.
Conflits(entries) ==
  LET sorted == ParDebut(entries)
  IN  UNION {{{sorted[i].id, sorted[j].id} :
                j \in {k \in i + 1 .. Len(sorted) : Chevauche(sorted[i].dates, sorted[k].dates)}} :
             i \in 1 .. Len(sorted)}

Next ==
  \/ \E r \in Requests :
       \/ \E g \in Groups, u \in Guides : AssignRead(r, g, u)
       \/ FindGroup(r) \/ FindAbsence(r) \/ AssignWrite(r)
  \/ \E g \in Groups, p \in Periods : MovePackage(g, p)
  \/ \E a \in Absences :
       \/ \E u \in Guides, p \in Periods : AddUnavailability(a, u, p)
       \/ DeleteUnavailability(a)

Spec == Init /\ [][Next]_vars

-----------------------------------------------------------------------------
(* Properties *)

SameDay(p, q) == \E d \in 1 .. LastDay : d \in p.start .. p.end /\ d \in q.start .. q.end

\* "un guide ne mène pas deux groupes à la fois": two groups led by the same guide
\* have no day in common, until an assignment overlaps a change of what it has read
\* or the dates of a package are moved.
GuideLeadsOneGroup ==
  \A g, h \in Groups :
    g # h /\ guideOf[g] = guideOf[h] /\ guideOf[g] # None /\ SameDay(dates[g], dates[h]) =>
      g \in excused \/ h \in excused

\* Whatever the cause, the schedule shows it: a guide with two engagements on one day
\* sees exactly these pairs among the conflicts.
ScheduleShowsConflicts ==
  \A u \in Guides :
    LET all == Engagements(u)
    IN  Conflits(Entries(u, [start |-> 1, end |-> LastDay])) =
          {{pair[1].id, pair[2].id} : pair \in
             {p \in all \X all : p[1].id # p[2].id /\ SameDay(p[1].dates, p[2].dates)}}
=============================================================================
