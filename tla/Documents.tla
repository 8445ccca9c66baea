------------------------------- MODULE Documents -------------------------------
(***************************************************************************)
(* The documents of one booking: DocumentsService.  Validating one of them *)
(* is three statements, the write, the reading of the whole file and the   *)
(* mark on the step; the API may die between any two of them.              *)
(*                                                                         *)
(* A definition commented "Mutant" is no part of the specification.        *)
(***************************************************************************)
CONSTANTS
  Requests,       \* slots for the requests in flight
  Docs,           \* the documents that can be uploaded
  Types,          \* REQUIRED_TYPES
  None

\* docs: the rows; step: this service has marked the DOCUMENTS step, which the agency
\* may also set by hand (Bookings); earned: every type was validated at one moment;
\* dropped: a request died on its way.
VARIABLES docs, step, earned, dropped, req
vars == <<docs, step, earned, dropped, req>>

Idle == [pc |-> "idle", doc |-> None]

Init ==
  /\ docs = [d \in Docs |-> None] /\ step = FALSE
  /\ earned = FALSE /\ dropped = FALSE
  /\ req = [r \in Requests |-> Idle]

Uploaded == {d \in Docs : docs[d] # None}
TypesValidated(rows) ==
  {rows[d].type : d \in {e \in Docs : rows[e] # None /\ rows[e].status = "validated"}}
AllValidated == Types \subseteq TypesValidated(docs)

\* store, then the row of a pending document.
Upload(d, t) ==
  /\ docs[d] = None
  /\ docs' = [docs EXCEPT ![d] = [type |-> t, status |-> "pending"]]
  /\ UNCHANGED <<step, earned, dropped, req>>

Store(d, status) ==
  /\ docs' = [docs EXCEPT ![d].status = status]
  /\ earned' = (earned \/ Types \subseteq TypesValidated(docs'))

Validate(r, d) ==
  /\ req[r].pc = "idle" /\ d \in Uploaded
  /\ Store(d, "validated")
  /\ req' = [req EXCEPT ![r] = [pc |-> "read", doc |-> d]]
  /\ UNCHANGED <<step, dropped>>

Reject(d) ==
  /\ d \in Uploaded
  /\ Store(d, "rejected")
  /\ UNCHANGED <<step, dropped, req>>

\* Mutant: a type counts as soon as it is uploaded.
CompleteReadUploaded(r) ==
  /\ req[r].pc = "read"
  /\ req' = [req EXCEPT ![r] =
       IF Types \subseteq {docs[d].type : d \in Uploaded} THEN [@ EXCEPT !.pc = "mark"] ELSE Idle]
  /\ UNCHANGED <<docs, step, earned, dropped>>

\* maybeCompleteDocumentsStep: what it finds, and what it then does.
CompleteRead(r) ==
  /\ req[r].pc = "read"
  /\ req' = [req EXCEPT ![r] = IF AllValidated THEN [@ EXCEPT !.pc = "mark"] ELSE Idle]
  /\ UNCHANGED <<docs, step, earned, dropped>>

CompleteMark(r) ==
  /\ req[r].pc = "mark"
  /\ step' = TRUE
  /\ req' = [req EXCEPT ![r] = Idle]
  /\ UNCHANGED <<docs, earned, dropped>>

Drop(r) ==
  /\ req[r].pc # "idle"
  /\ req' = [req EXCEPT ![r] = Idle] /\ dropped' = TRUE
  /\ UNCHANGED <<docs, step, earned>>

Next ==
  \/ \E d \in Docs, t \in Types : Upload(d, t)
  \/ \E d \in Docs : Reject(d) \/ \E r \in Requests : Validate(r, d)
  \/ \E r \in Requests : CompleteRead(r) \/ CompleteMark(r) \/ Drop(r)

Spec == Init /\ [][Next]_vars

-----------------------------------------------------------------------------
(* Properties *)

\* The service only marks the step of a file whose required documents were all
\* validated at one same moment, whatever has been rejected since.
StepWasEarned == step => earned

\* And it marks it: when every request has ended, none of them half-way, a file
\* whose documents are all validated has its step, in whatever order the last two
\* of them were validated.
CompleteFileIsMarked ==
  AllValidated /\ ~dropped /\ (\A r \in Requests : req[r] = Idle) => step

\* The mark on the step follows the documents, both ways.
StepFollowsDocuments == StepWasEarned /\ CompleteFileIsMarked
=============================================================================
