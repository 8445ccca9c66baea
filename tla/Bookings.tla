------------------------------ MODULE Bookings ------------------------------
(***************************************************************************)
(* One travel package and the bookings made on it: PackagesService (the    *)
(* seat counter and the package status), BookingsService (creation,        *)
(* cancellation, dossier steps, confirmation) and the checklist that a     *)
(* confirmation generates.                                                 *)
(*                                                                         *)
(* The server is one Node process: handlers interleave at every await on   *)
(* the database, and neither service opens a transaction.  A request is    *)
(* therefore a program counter that moves by one database access at a      *)
(* time and carries the rows it has read; a single row read or write is    *)
(* atomic.  Rows of different packages never meet, so one package stands   *)
(* for all of them.                                                        *)
(*                                                                         *)
(* A definition commented "Mutant" is no part of the specification: it is  *)
(* the definition after it with a plausible bug, kept to show that the     *)
(* properties below would notice.                                          *)
(***************************************************************************)
EXTENDS Naturals, FiniteSets

CONSTANTS
  Bookings,      \* booking identifiers
  Requests,      \* slots for the requests in flight at the same time
  Steps,         \* the keys of a dossier's steps
  InitCapacity,  \* the capacity the package is created with
  NewCapacities, \* capacities the agency may set later ({}: never edited)
  Handlers,      \* the routes that clients call, a subset of AllHandlers
  MayFail,       \* TRUE: a request may die between two database accesses
  NoBooking      \* the target of a request that concerns no booking yet

AllHandlers == {"create", "cancel", "step", "close"}

ASSUME BookingsAssumption ==
  /\ IsFiniteSet(Bookings) /\ IsFiniteSet(Requests)
  /\ Steps # {}
  /\ InitCapacity \in Nat \ {0}        \* @IsInt() @IsPositive() capacity
  /\ NewCapacities \subseteq Nat \ {0}
  /\ Handlers \subseteq AllHandlers
  /\ MayFail \in BOOLEAN
  /\ NoBooking \notin Bookings

VARIABLES
  pkg,            \* the package row: status, seatsTaken, capacity
  booking,        \* the booking rows: status and the set of DONE steps
  req,            \* the requests in flight
  completed,      \* history: bookings whose steps were once all DONE together
  released,       \* history: bookings whose seat cancel() has given back
  confirmNotices, \* "Dossier confirmé" notices sent for a booking
  checklists,     \* standard checklists generated for a booking
  edited          \* history: the agency has edited the capacity

vars == <<pkg, booking, req, completed, released, confirmNotices, checklists, edited>>
history == <<completed, released, confirmNotices, checklists, edited>>

-----------------------------------------------------------------------------
(* Rows and requests *)

PackageStatus == {"open", "full", "closed"}
Package == [status : PackageStatus, seatsTaken : Nat, capacity : Nat]

\* Nothing in the code ever writes 'completed', the fourth status of the enum.
BookingStatus == {"pending_payment", "confirmed", "cancelled"}
Active == {"pending_payment", "confirmed"}
BookingRow == [status : BookingStatus \union {"absent"}, done : SUBSET Steps]
Absent == [status |-> "absent", done |-> {}]

NewPackage == [status |-> "open", seatsTaken |-> 0, capacity |-> InitCapacity]

\* What a request does next: its next access to the database.
Pc == {"idle", "markFull", "reserveWrite", "createBooking",
       "releaseRead", "releaseWrite", "cancelWrite",
       "confirmRead", "confirmWrite", "notifyConfirmed", "checklist"}

\* target: the booking it works on; seen: the package row it has read.
Request == [pc : Pc, target : Bookings \union {NoBooking}, seen : Package]
Idle == [pc |-> "idle", target |-> NoBooking, seen |-> NewPackage]

\* Counters of messages and histories tell 0, 1 and "more than once" apart.
Counts == 0..2
More(n) == IF n = 2 THEN 2 ELSE n + 1

Exists(b) == booking[b].status # "absent"
ActiveBookings == {b \in Bookings : booking[b].status \in Active}

Goto(r, pc) == req' = [req EXCEPT ![r].pc = pc]
Finish(r) == req' = [req EXCEPT ![r] = Idle]
Start(r, pc, b) == req' = [req EXCEPT ![r] = [Idle EXCEPT !.pc = pc, !.target = b]]
StartWithRow(r, pc, b) ==
  req' = [req EXCEPT ![r] = [pc |-> pc, target |-> b, seen |-> pkg]]

\* The seat counter never goes below zero, a request only ever works on a row it
\* has found, whatever interleaves.
TypeOK ==
  /\ pkg \in Package
  /\ booking \in [Bookings -> BookingRow]
  /\ req \in [Requests -> Request]
  /\ completed \subseteq Bookings
  /\ released \subseteq Bookings
  /\ confirmNotices \in [Bookings -> Counts]
  /\ checklists \in [Bookings -> Counts]
  /\ edited \in BOOLEAN

Init ==
  /\ pkg = NewPackage
  /\ booking = [b \in Bookings |-> Absent]
  /\ req = [r \in Requests |-> Idle]
  /\ completed = {}
  /\ released = {}
  /\ confirmNotices = [b \in Bookings |-> 0]
  /\ checklists = [b \in Bookings |-> 0]
  /\ edited = FALSE

-----------------------------------------------------------------------------
(* BookingsService.create: the package is read, then PackagesService       *)
(* .reserveSeat reads it again and writes the count it computed from that  *)
(* second read; the booking row is inserted last.  The first reads of      *)
(* create() look up identifiers and the refund schedule copied into the    *)
(* row (RefundPolicy); they do not affect the seats.                       *)

\* Bound: a reservation starts only if an identifier is left for its row.
IdentifierLeft ==
  Cardinality({b \in Bookings : ~Exists(b)})
    > Cardinality({r \in Requests : req[r].pc \in {"reserveWrite", "createBooking"}})

SeatsAfterReserve(row) ==
  [row EXCEPT !.seatsTaken = row.seatsTaken + 1,
              !.status = IF row.seatsTaken + 1 >= row.capacity
                           THEN "full" ELSE row.status]

ReserveRead(r) ==
  /\ "create" \in Handlers /\ req[r].pc = "idle" /\ IdentifierLeft
  /\ pkg.status = "open"
  /\ IF pkg.seatsTaken >= pkg.capacity
       THEN Start(r, "markFull", NoBooking)
       ELSE StartWithRow(r, "reserveWrite", NoBooking)
  /\ UNCHANGED <<pkg, booking, history>>

MarkFull(r) ==
  /\ req[r].pc = "markFull"
  /\ pkg' = [pkg EXCEPT !.status = "full"]
  /\ Finish(r)
  /\ UNCHANGED <<booking, history>>

\* The update names seatsTaken and status only: a capacity edited since the
\* read is kept, the two other columns are overwritten from the row read.
WriteSeats(row) ==
  pkg' = [pkg EXCEPT !.seatsTaken = row.seatsTaken, !.status = row.status]

\* Mutant: the status is left to a later request.
ReserveWriteKeepsStatus(r) ==
  /\ req[r].pc = "reserveWrite"
  /\ WriteSeats([req[r].seen EXCEPT !.seatsTaken = @ + 1])
  /\ Goto(r, "createBooking")
  /\ UNCHANGED <<booking, history>>

\* Mutant: the counter is incremented in the database, behind the same test.
ReserveWriteIncrements(r) ==
  /\ req[r].pc = "reserveWrite"
  /\ WriteSeats([SeatsAfterReserve(req[r].seen) EXCEPT !.seatsTaken = pkg.seatsTaken + 1])
  /\ Goto(r, "createBooking")
  /\ UNCHANGED <<booking, history>>

ReserveWrite(r) ==
  /\ req[r].pc = "reserveWrite"
  /\ WriteSeats(SeatsAfterReserve(req[r].seen))
  /\ Goto(r, "createBooking")
  /\ UNCHANGED <<booking, history>>

CreateBooking(r, b) ==
  /\ req[r].pc = "createBooking"
  /\ ~Exists(b)
  /\ booking' = [booking EXCEPT ![b] = [status |-> "pending_payment", done |-> {}]]
  /\ Finish(r)
  /\ UNCHANGED <<pkg, history>>

-----------------------------------------------------------------------------
(* BookingsService.cancel: the booking is read, the seat is released by a  *)
(* read and a write of the package unless that first read says CANCELLED,  *)
(* and the status is written last.                                         *)

SeatsAfterRelease(row) ==
  LET left == IF row.seatsTaken = 0 THEN 0 ELSE row.seatsTaken - 1
  IN  [row EXCEPT !.seatsTaken = left,
                  !.status = IF row.status = "full" /\ left < row.capacity
                               THEN "open" ELSE row.status]

\* Mutant: the seat is released after the status is written.
CancelReadWritesFirst(r, b) ==
  /\ "cancel" \in Handlers /\ req[r].pc = "idle" /\ Exists(b)
  /\ booking' = [booking EXCEPT ![b].status = "cancelled"]
  /\ IF booking[b].status = "cancelled" THEN UNCHANGED req
                                        ELSE Start(r, "releaseRead", b)
  /\ UNCHANGED <<pkg, history>>

CancelRead(r, b) ==
  /\ "cancel" \in Handlers /\ req[r].pc = "idle" /\ Exists(b)
  /\ Start(r, IF booking[b].status = "cancelled" THEN "cancelWrite"
                                                 ELSE "releaseRead", b)
  /\ UNCHANGED <<pkg, booking, history>>

ReleaseRead(r) ==
  /\ req[r].pc = "releaseRead"
  /\ StartWithRow(r, "releaseWrite", req[r].target)
  /\ UNCHANGED <<pkg, booking, history>>

\* Mutant: a release always reopens the package.
ReleaseWriteReopens(r) ==
  /\ req[r].pc = "releaseWrite"
  /\ WriteSeats([SeatsAfterRelease(req[r].seen) EXCEPT !.status = "open"])
  /\ released' = released \union {req[r].target}
  /\ Goto(r, "cancelWrite")
  /\ UNCHANGED <<booking, completed, confirmNotices, checklists, edited>>

ReleaseWrite(r) ==
  /\ req[r].pc = "releaseWrite"
  /\ WriteSeats(SeatsAfterRelease(req[r].seen))
  /\ released' = released \union {req[r].target}
  /\ Goto(r, "cancelWrite")
  /\ UNCHANGED <<booking, completed, confirmNotices, checklists, edited>>

CancelWrite(r) ==
  /\ req[r].pc = "cancelWrite"
  /\ booking' = [booking EXCEPT ![req[r].target].status = "cancelled"]
  /\ Finish(r)
  /\ UNCHANGED <<pkg, history>>

-----------------------------------------------------------------------------
(* BookingsService.updateStep (an agency sets a step to any status) and    *)
(* markStepDone (payments and documents set it to DONE), both followed by  *)
(* maybeConfirm.  A step is DONE or not: 'pending' and 'in_progress' are   *)
(* never told apart.  The notice of a validated step that ends both        *)
(* handlers touches no state of this module.                               *)

\* Mutant: maybeConfirm is handed the row read before the write.
StepWriteStaleRow(r, b, k, isDone) ==
  /\ "step" \in Handlers /\ req[r].pc = "idle" /\ Exists(b)
  /\ LET done == IF isDone THEN booking[b].done \union {k}
                           ELSE booking[b].done \ {k}
     IN  /\ booking' = [booking EXCEPT ![b].done = done]
         /\ completed' = IF done = Steps THEN completed \union {b} ELSE completed
  /\ IF booking[b].done = Steps THEN Start(r, "confirmRead", b) ELSE UNCHANGED req
  /\ UNCHANGED <<pkg, released, confirmNotices, checklists, edited>>

StepWrite(r, b, k, isDone) ==
  /\ "step" \in Handlers /\ req[r].pc = "idle" /\ Exists(b)
  /\ LET done == IF isDone THEN booking[b].done \union {k}
                           ELSE booking[b].done \ {k}
     IN  /\ booking' = [booking EXCEPT ![b].done = done]
         /\ completed' = IF done = Steps THEN completed \union {b} ELSE completed
  /\ Start(r, "confirmRead", b)
  /\ UNCHANGED <<pkg, released, confirmNotices, checklists, edited>>

\* Mutant: some(...) instead of every(...).
ConfirmReadSome(r) ==
  /\ req[r].pc = "confirmRead"
  /\ LET row == booking[req[r].target]
     IN  IF row.done # {} /\ row.status # "confirmed"
           THEN Goto(r, "confirmWrite") ELSE Finish(r)
  /\ UNCHANGED <<pkg, booking, history>>

ConfirmRead(r) ==
  /\ req[r].pc = "confirmRead"
  /\ LET row == booking[req[r].target]
     IN  IF row.done = Steps /\ row.status # "confirmed"
           THEN Goto(r, "confirmWrite") ELSE Finish(r)
  /\ UNCHANGED <<pkg, booking, history>>

ConfirmWrite(r) ==
  /\ req[r].pc = "confirmWrite"
  /\ booking' = [booking EXCEPT ![req[r].target].status = "confirmed"]
  /\ Goto(r, "notifyConfirmed")
  /\ UNCHANGED <<pkg, history>>

NotifyConfirmed(r) ==
  /\ req[r].pc = "notifyConfirmed"
  /\ confirmNotices' = [confirmNotices EXCEPT ![req[r].target] = More(@)]
  /\ Goto(r, "checklist")
  /\ UNCHANGED <<pkg, booking, completed, released, checklists, edited>>

GenerateChecklist(r) ==
  /\ req[r].pc = "checklist"
  /\ checklists' = [checklists EXCEPT ![req[r].target] = More(@)]
  /\ Finish(r)
  /\ UNCHANGED <<pkg, booking, completed, released, confirmNotices, edited>>

-----------------------------------------------------------------------------
(* PackagesService.close and update: one blind write of one column each    *)
(* (the reads before it only check who owns the package), so the request   *)
(* begins and ends in the same step.                                       *)

Close(r) ==
  /\ "close" \in Handlers /\ req[r].pc = "idle"
  /\ pkg' = [pkg EXCEPT !.status = "closed"]
  /\ UNCHANGED <<booking, req, history>>

EditCapacity(r, c) ==
  /\ req[r].pc = "idle"
  /\ pkg' = [pkg EXCEPT !.capacity = c]
  /\ edited' = TRUE
  /\ UNCHANGED <<booking, req, completed, released, confirmNotices, checklists>>

\* A database error, an exception or the end of the process: what was written
\* stays, the rest of the handler never runs.
Drop(r) ==
  /\ MayFail /\ req[r].pc # "idle"
  /\ Finish(r)
  /\ UNCHANGED <<pkg, booking, history>>

\* The continuation of a handler that has been called.
Continue(r) ==
  \/ MarkFull(r) \/ ReserveWrite(r)
  \/ \E b \in Bookings : CreateBooking(r, b)
  \/ ReleaseRead(r) \/ ReleaseWrite(r) \/ CancelWrite(r)
  \/ ConfirmRead(r) \/ ConfirmWrite(r) \/ NotifyConfirmed(r) \/ GenerateChecklist(r)

Call(r) ==
  \/ ReserveRead(r)
  \/ \E b \in Bookings : CancelRead(r, b)
  \/ \E b \in Bookings, k \in Steps, isDone \in BOOLEAN : StepWrite(r, b, k, isDone)
  \/ Close(r)
  \/ \E c \in NewCapacities : EditCapacity(r, c)

Next == \E r \in Requests : Call(r) \/ Continue(r) \/ Drop(r)

Spec == Init /\ [][Next]_vars

\* A request that is not interrupted runs to its end: the event loop resumes
\* every handler whose await has settled.
FairSpec == Spec /\ \A r \in Requests : WF_vars(Continue(r))

-----------------------------------------------------------------------------
(* Properties *)

\* Whatever the interleaving of reservations, releases and closures, the two
\* columns that one update writes agree: an open package has a seat left, a
\* full one has none, and the counter never exceeds the capacity.  Holds as
\* long as the capacity is not edited.
StatusMatchesCount ==
  ~edited =>
    /\ pkg.seatsTaken <= pkg.capacity
    /\ pkg.status = "open" => pkg.seatsTaken < pkg.capacity
    /\ pkg.status = "full" => pkg.seatsTaken = pkg.capacity

\* However often the agency edits the capacity between a read and the write
\* computed from it, the counter never passes the largest capacity offered.
SeatsWithinOffer ==
  \E c \in {InitCapacity} \union NewCapacities : pkg.seatsTaken <= c

\* A booking is only ever CONFIRMED if at some moment all the steps of its
\* dossier were DONE together, even when steps are undone concurrently.
ConfirmedDossierWasComplete ==
  \A b \in Bookings : booking[b].status = "confirmed" => b \in completed

\* The pilgrim is told of the confirmation before the checklist appears, and
\* neither happens for a dossier that was never complete, wherever a handler
\* is interrupted.
ChecklistFollowsNotice ==
  \A b \in Bookings :
    /\ checklists[b] <= confirmNotices[b]
    /\ confirmNotices[b] > 0 => b \in completed

\* A booking that reads CANCELLED has given its seat back: cancel() may die
\* half-way, but never between a visible cancellation and the release.
CancelledSeatWasReleased ==
  \A b \in Bookings : booking[b].status = "cancelled" => b \in released

\* A dossier whose steps end up all DONE does not stay pending: the request
\* that wrote the last step reads all of them DONE in maybeConfirm.
CompleteDossierIsSettled ==
  \A b \in Bookings :
    <>[](booking[b].done = Steps /\ Exists(b))
      => <>[](booking[b].status # "pending_payment")

\* The promise of PackagesService and BookingsService together: a ledger that
\* takes a seat for each booking and gives it back once.
Ledger == INSTANCE SeatLedger WITH
  Capacity <- InitCapacity,
  holders <- ActiveBookings,
  closed <- pkg.status = "closed"

ImplementsLedger == Ledger!Spec

\* No more active bookings than the package has seats.
NoOverbooking == Cardinality(ActiveBookings) <= pkg.capacity
=============================================================================
