------------------------------- MODULE Disputes -------------------------------
(***************************************************************************)
(* The disputes about one booking: DisputesService and the nightly purge.  *)
(* Every operation reads the dispute, decides, and writes it by its id     *)
(* alone, without saying which status it decided from.                     *)
(*                                                                         *)
(* Dates are ages in days, counted up to the last one the code compares:   *)
(* nothing tells an older date apart.                                      *)
(*                                                                         *)
(* A definition commented "Mutant" is no part of the specification.        *)
(***************************************************************************)
EXTENDS Naturals

CONSTANTS
  Disputes,      \* rows a dispute of the booking may take
  Requests,      \* slots for the requests in flight
  ResponseDays,  \* AGENCY_RESPONSE_DAYS
  Retention,     \* DISPUTE_RETENTION_MONTHS, in days
  None           \* no row; a request about no dispute

VARIABLES dispute, req
vars == <<dispute, req>>

Roles == {"pilgrim", "agency", "admin"}
Actifs == {"open", "agency_responded", "escalated"}
Clos == {"resolved", "closed"}
VisiblesAdmin == {"escalated", "closed"}

\* age: since createdAt; sinceClosed: since closedAt, 0 before; escalatedAt: the
\* age at which it was escalated; authors: who has written a message.
Dates == [set : BOOLEAN, days : Nat]
Row == [status : Actifs \union Clos, age : Nat, escalatedAt : Dates,
        closedAt : Dates, decision : BOOLEAN, authors : SUBSET Roles]
Unset == [set |-> FALSE, days |-> 0]
Opened == [status |-> "open", age |-> 0, escalatedAt |-> Unset,
           closedAt |-> Unset, decision |-> FALSE, authors |-> {"pilgrim"}]

Pc == {"idle", "create", "message", "resolve", "escalate", "decide"}
\* seen: the status that the handler has read; author: of the message it adds.
Request == [pc : Pc, target : Disputes \union {None},
            author : Roles, seen : Actifs \union Clos]
Idle == [pc |-> "idle", target |-> None, author |-> "pilgrim", seen |-> "open"]

\* A row only takes a status of the enum, and no date outgrows what is compared.
TypeOK ==
  /\ \A d \in Disputes : dispute[d] = None \/
       /\ dispute[d] \in Row
       /\ dispute[d].age <= ResponseDays /\ dispute[d].closedAt.days <= Retention
  /\ req \in [Requests -> Request]

Init ==
  /\ dispute = [d \in Disputes |-> None]
  /\ req = [r \in Requests |-> Idle]

Existing == {d \in Disputes : dispute[d] # None}
Active == {d \in Existing : dispute[d].status \in Actifs}

\* The handler has read dispute d, for the given role; it writes in a later step.
StartAs(r, pc, d, role) ==
  /\ req[r].pc = "idle"
  /\ req' = [req EXCEPT ![r] = [pc |-> pc, target |-> d, author |-> role,
                                seen |-> dispute[d].status]]
  /\ UNCHANGED dispute

Start(r, pc, d) == StartAs(r, pc, d, Idle.author)

\* The update by id of a handler at pc; on a purged row it fails.
Update(r, pc, row) ==
  /\ req[r].pc = pc
  /\ dispute' = IF req[r].target \in Existing
                THEN [dispute EXCEPT ![req[r].target] = row] ELSE dispute
  /\ req' = [req EXCEPT ![r] = Idle]

-----------------------------------------------------------------------------
(* create, addMessage *)

CreateRead(r) ==
  /\ req[r].pc = "idle" /\ Active = {}
  /\ req' = [req EXCEPT ![r] = [Idle EXCEPT !.pc = "create"]]
  /\ UNCHANGED dispute

\* Identifiers are not used again: a purged row's slot serves only when no
\* request still means the dispute it held.
CreateWrite(r) ==
  /\ req[r].pc = "create"
  /\ \E d \in Disputes \ Existing :
       /\ \A q \in Requests : req[q].target # d
       /\ dispute' = [dispute EXCEPT ![d] = Opened]
  /\ req' = [req EXCEPT ![r] = Idle]

\* Mutant: an escalated dispute alternates like the others.
SuivantAlternates(status, role) ==
  IF role = "agency" THEN "agency_responded" ELSE "open"

\* The status that an author's message leaves.
Suivant(status, role) ==
  IF status = "escalated" THEN status
  ELSE IF role = "agency" THEN "agency_responded" ELSE "open"

\* The administration sees escalated and closed disputes only.
MessageRead(r, d, role) ==
  /\ d \in Active
  /\ role = "admin" => dispute[d].status \in VisiblesAdmin
  /\ StartAs(r, "message", d, role)

\* The new status is computed from the one read, whatever it has become.
MessageWrite(r) ==
  LET row == dispute[req[r].target]
  IN  Update(r, "message", [row EXCEPT !.status = Suivant(req[r].seen, req[r].author),
                                       !.authors = @ \union {req[r].author}])

-----------------------------------------------------------------------------
(* resolve, escalate, decide *)

ResolveRead(r, d) == d \in Active /\ Start(r, "resolve", d)

ResolveWrite(r) ==
  LET row == dispute[req[r].target]
  IN  Update(r, "resolve", [row EXCEPT !.status = "resolved",
                                       !.closedAt = [set |-> TRUE, days |-> 0]])

\* Mutant: the delay is not asked for.
EscalateReadEarly(r, d) ==
  /\ d \in Active /\ dispute[d].status \in {"agency_responded", "open"}
  /\ Start(r, "escalate", d)

\* After the agency's answer, or after the delay without one.
EscalateRead(r, d) ==
  /\ d \in Active
  /\ \/ dispute[d].status = "agency_responded"
     \/ dispute[d].status = "open" /\ dispute[d].age >= ResponseDays
  /\ Start(r, "escalate", d)

EscalateWrite(r) ==
  LET row == dispute[req[r].target]
  IN  Update(r, "escalate", [row EXCEPT !.status = "escalated",
                                        !.escalatedAt = [set |-> TRUE, days |-> row.age]])

DecideRead(r, d) ==
  /\ d \in Active /\ dispute[d].status = "escalated"
  /\ Start(r, "decide", d)

DecideWrite(r) ==
  LET row == dispute[req[r].target]
  IN  Update(r, "decide", [row EXCEPT !.status = "closed", !.decision = TRUE,
                                      !.closedAt = [set |-> TRUE, days |-> 0]])

-----------------------------------------------------------------------------
(* Time and the purge *)

Older(n, limit) == IF n < limit THEN n + 1 ELSE n

OneDay(row) ==
  [row EXCEPT !.age = Older(row.age, ResponseDays),
              !.closedAt.days = IF row.closedAt.set THEN Older(row.closedAt.days, Retention)
                                                    ELSE row.closedAt.days]

Tick ==
  /\ dispute' = [d \in Disputes |-> IF d \in Existing THEN OneDay(dispute[d]) ELSE None]
  /\ UNCHANGED req

Purgeable(d) ==
  /\ d \in Existing /\ dispute[d].status \in Clos
  /\ dispute[d].closedAt.set /\ dispute[d].closedAt.days >= Retention

PurgeClosedDisputes ==
  /\ dispute' = [d \in Disputes |-> IF Purgeable(d) THEN None ELSE dispute[d]]
  /\ UNCHANGED req

Next ==
  \/ \E r \in Requests :
       \/ CreateRead(r) \/ CreateWrite(r) \/ MessageWrite(r)
       \/ ResolveWrite(r) \/ EscalateWrite(r) \/ DecideWrite(r)
       \/ \E d \in Disputes :
            \/ \E role \in Roles : MessageRead(r, d, role)
            \/ ResolveRead(r, d) \/ EscalateRead(r, d) \/ DecideRead(r, d)
  \/ Tick \/ PurgeClosedDisputes

Spec == Init /\ [][Next]_vars

\* Days pass, and the purge runs every night.
Fairness == WF_vars(Tick) /\ WF_vars(PurgeClosedDisputes)

FairSpec == Spec /\ Fairness

-----------------------------------------------------------------------------
(* Properties *)

\* Nobody reaches the administration before the agency had its say: an escalated
\* dispute has an answer of the agency, or was old enough when it was escalated.
EscalationIsEarned ==
  \A d \in Existing : dispute[d].escalatedAt.set =>
    "agency" \in dispute[d].authors \/ dispute[d].escalatedAt.days >= ResponseDays

\* The administration decides nothing it was not asked: a decision, and a message
\* of its own, belong to a dispute that was escalated.
ArbitrationWasAsked ==
  \A d \in Existing :
    dispute[d].decision \/ "admin" \in dispute[d].authors => dispute[d].escalatedAt.set

\* The arbitration is the last resort.
ArbitrationIsEarned == EscalationIsEarned /\ ArbitrationWasAsked

\* A dispute that stays closed is purged in the end.
ClosedIsPurged ==
  \A d \in Disputes :
    (d \in Existing /\ dispute[d].status \in Clos)
      ~> (d \notin Existing \/ d \in Active)

\* The handlers at work on d have all read the status it has now.
UpToDate(d) ==
  \A r \in Requests : req[r].target = d => req[r].seen = dispute[d].status

\* Messages, answers, resolutions and decisions that have read the escalation leave
\* it standing: only a closing ends it, however many of them overlap.
EscalationStands ==
  [][\A d \in Existing :
       dispute[d].status = "escalated" /\ UpToDate(d) =>
         /\ dispute'[d] # None
         /\ dispute'[d].status \in {"escalated"} \union Clos]_vars

\* Once the handlers that read it active are done, a closed dispute is never open
\* again.
ClosingIsFinal ==
  [][\A d \in Existing :
       dispute[d].status \in Clos /\ UpToDate(d) /\ dispute'[d] # None
         => dispute'[d].status \in Clos]_vars

\* What has been escalated or closed stays so for those who have seen it.
VerdictsStand == EscalationStands /\ ClosingIsFinal

\* "une fois escaladé, l'état ne bouge plus": only a closing ever ends it.
EscalationNeverUndone ==
  [][\A d \in Existing :
       dispute[d].status = "escalated" => dispute'[d].status \notin {"open", "agency_responded"}]_vars
=============================================================================
