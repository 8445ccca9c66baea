------------------------------ MODULE Moderation ------------------------------
(***************************************************************************)
(* What must be reviewed before the pilgrims see it: a rite sheet          *)
(* (RiteSheetsService), published, edited and published again, and a quiz  *)
(* question (QuizService), published or refused, with the attempts it gets.*)
(* Neither service uses a transaction.                                     *)
(*                                                                         *)
(* A definition commented "Mutant" is no part of the specification.        *)
(***************************************************************************)
EXTENDS Naturals

CONSTANTS
  Reviewers,
  Requests,     \* slots for the requests about the question
  MaxVersion,   \* bound on the edits of the sheet
  MaxAttempts   \* bound on the attempts at the question

\* sheet: the version and whether it is published; seen: the version each reviewer
\* has read; blind: the sheet was edited between the reading and the publication.
\* question: its state in the database; attempts: kept; made: ever recorded;
\* raced: the question was published while a refusal was on its way.
VARIABLES sheet, seen, blind, question, attempts, made, raced, req
vars == <<sheet, seen, blind, question, attempts, made, raced, req>>
sheetVars == <<sheet, seen, blind>>
quizVars == <<question, attempts, made, raced, req>>

Init ==
  /\ sheet = [version |-> 1, valid |-> FALSE, reviewed |-> 0]
  /\ seen = [a \in Reviewers |-> 0] /\ blind = FALSE
  /\ question = "none" /\ attempts = 0 /\ made = 0 /\ raced = FALSE
  /\ req = [r \in Requests |-> "idle"]

ListAll(a) ==
  /\ seen' = [seen EXCEPT ![a] = sheet.version]
  /\ UNCHANGED <<sheet, blind, quizVars>>

\* Mutant: an edit keeps the sheet published.
UpdateSheetPublished ==
  /\ sheet.version < MaxVersion
  /\ sheet' = [sheet EXCEPT !.version = @ + 1]
  /\ UNCHANGED <<seen, blind, quizVars>>

UpdateSheet ==
  /\ sheet.version < MaxVersion
  /\ sheet' = [version |-> sheet.version + 1, valid |-> FALSE, reviewed |-> 0]
  /\ UNCHANGED <<seen, blind, quizVars>>

\* By its identifier alone: whatever its version has become.
ValidateSheet(a) ==
  /\ seen[a] > 0
  /\ sheet' = [sheet EXCEPT !.valid = TRUE, !.reviewed = seen[a]]
  /\ blind' = (seen[a] # sheet.version)
  /\ UNCHANGED <<seen, quizVars>>

CreateQuestion ==
  /\ question = "none" /\ question' = "pending"
  /\ UNCHANGED <<attempts, made, raced, req, sheetVars>>

Exists == question \in {"pending", "published"}

\* Each handler reads the question before it writes; pc tells which, and what it saw.
Begin(r, pc, guard) ==
  /\ req[r] = "idle" /\ guard
  /\ req' = [req EXCEPT ![r] = pc]
  /\ UNCHANGED <<question, attempts, made, raced, sheetVars>>

ValidateRead(r) == Begin(r, "validate", Exists)

RejectRead(r) == Begin(r, "reject", question = "pending")
SubmitRead(r) == Begin(r, "submit", question = "published")

\* update throws when the row is gone.
ValidateWrite(r) ==
  /\ req[r] = "validate"
  /\ question' = IF Exists THEN "published" ELSE question
  /\ raced' = (raced \/ \E q \in Requests : req[q] = "reject")
  /\ req' = [req EXCEPT ![r] = "idle"]
  /\ UNCHANGED <<attempts, made, sheetVars>>

\* delete cascades to the attempts.
RejectWrite(r) ==
  /\ req[r] = "reject"
  /\ question' = "deleted" /\ attempts' = 0
  /\ req' = [req EXCEPT ![r] = "idle"]
  /\ UNCHANGED <<made, raced, sheetVars>>

SubmitWrite(r) ==
  /\ req[r] = "submit" /\ made < MaxAttempts
  /\ attempts' = attempts + (IF Exists THEN 1 ELSE 0)
  /\ made' = made + (IF Exists THEN 1 ELSE 0)
  /\ req' = [req EXCEPT ![r] = "idle"]
  /\ UNCHANGED <<question, raced, sheetVars>>

Next ==
  \/ UpdateSheet \/ CreateQuestion
  \/ \E a \in Reviewers : ListAll(a) \/ ValidateSheet(a)
  \/ \E r \in Requests : \/ ValidateRead(r) \/ RejectRead(r) \/ SubmitRead(r)
                         \/ ValidateWrite(r) \/ RejectWrite(r) \/ SubmitWrite(r)

Spec == Init /\ [][Next]_vars

-----------------------------------------------------------------------------
(* Properties *)

\* "Toute modification de contenu invalide la validation précédente": what the
\* pilgrims read is the version its reviewer has read, unless the sheet was edited
\* between this reading and the validation, which names no version.
PublishedWasReviewed == sheet.valid /\ ~blind => sheet.version = sheet.reviewed

\* "pour ne pas effacer l'historique des tentatives": no attempt is ever lost with
\* its question, unless the question was published behind the back of a refusal.
AttemptsAreKept == attempts < made => raced

\* What pilgrims read has been reviewed, and what they answered stays: no edit and no
\* refusal gets around the review, whatever the order of the requests.
ReviewComesFirst == PublishedWasReviewed /\ AttemptsAreKept
=============================================================================
