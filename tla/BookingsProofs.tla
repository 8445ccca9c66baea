--------------------------- MODULE BookingsProofs ---------------------------
(***************************************************************************)
(* Proofs about Bookings for any number of bookings, requests and steps.   *)
(***************************************************************************)
EXTENDS Bookings, FiniteSetTheorems, TLAPS

LEMMA IdleIsRequest == Idle \in Request
  BY BookingsAssumption DEF Idle, Request, Pc, Package, PackageStatus, NewPackage

\* The four ways a handler changes its own slot keep the slot a request.
LEMMA SlotTypes ==
  ASSUME req \in [Requests -> Request], pkg \in Package, NEW r \in Requests,
         NEW pc \in Pc, NEW b \in Bookings \union {NoBooking}
  PROVE  /\ Finish(r) => req' \in [Requests -> Request]
         /\ Goto(r, pc) => req' \in [Requests -> Request]
         /\ Start(r, pc, b) => req' \in [Requests -> Request]
         /\ StartWithRow(r, pc, b) => req' \in [Requests -> Request]
  <1>1. [Idle EXCEPT !.pc = pc, !.target = b] \in Request
    BY IdleIsRequest DEF Request, Idle
  <1>2. [pc |-> pc, target |-> b, seen |-> pkg] \in Request
    BY DEF Request
  <1>3. [req[r] EXCEPT !.pc = pc] \in Request
    BY DEF Request
  <1>4. Goto(r, pc) => req' = [req EXCEPT ![r] = [req[r] EXCEPT !.pc = pc]]
    BY DEF Goto
  <1>5. QED
    BY <1>1, <1>2, <1>3, <1>4, IdleIsRequest DEF Finish, Start, StartWithRow

\* What each of the four leaves in the slot; the other slots do not change.
Others(r) == \A q \in Requests \ {r} : req'[q] = req[q]

LEMMA SlotEffects ==
  ASSUME req \in [Requests -> Request], NEW r \in Requests,
         NEW pc \in Pc, NEW b \in Bookings \union {NoBooking}
  PROVE  /\ Finish(r) => Others(r) /\ req'[r].pc = "idle"
         /\ Goto(r, pc) => Others(r) /\ req'[r].pc = pc
                             /\ req'[r].target = req[r].target /\ req'[r].seen = req[r].seen
         /\ Start(r, pc, b) => Others(r) /\ req'[r].pc = pc /\ req'[r].target = b
         /\ StartWithRow(r, pc, b) => Others(r) /\ req'[r].pc = pc
                             /\ req'[r].target = b /\ req'[r].seen = pkg
  <1>1. Finish(r) => Others(r) /\ req'[r].pc = "idle"
    BY DEF Finish, Others, Idle
  <1>2. Goto(r, pc) => Others(r) /\ req'[r].pc = pc
                       /\ req'[r].target = req[r].target /\ req'[r].seen = req[r].seen
    BY DEF Goto, Others, Request
  <1>3. Start(r, pc, b) => Others(r) /\ req'[r].pc = pc /\ req'[r].target = b
    BY DEF Start, Others, Idle
  <1>4. StartWithRow(r, pc, b) => Others(r) /\ req'[r].pc = pc
                       /\ req'[r].target = b /\ req'[r].seen = pkg
    BY DEF StartWithRow, Others
  <1>5. QED
    BY <1>1, <1>2, <1>3, <1>4

\* What a request carries has the type it was given.
LEMMA SlotParts ==
  ASSUME TypeOK, NEW r \in Requests
  PROVE  /\ req[r].pc \in Pc
         /\ req[r].target \in Bookings \union {NoBooking}
         /\ req[r].seen \in Package
  BY DEF TypeOK, Request

\* The package row that a reservation or a release computes is a package row.
LEMMA SeatTypes ==
  ASSUME NEW row \in Package, pkg \in Package
  PROVE  /\ SeatsAfterReserve(row) \in Package
         /\ SeatsAfterRelease(row) \in Package
         /\ WriteSeats(row) => pkg' \in Package
  <1> /\ row.seatsTaken \in Nat /\ row.capacity \in Nat /\ row.status \in PackageStatus
      /\ row = [status |-> row.status, seatsTaken |-> row.seatsTaken,
                capacity |-> row.capacity]
    BY DEF Package
  <1>1. SeatsAfterReserve(row) \in Package
    <2> DEFINE st == IF row.seatsTaken + 1 >= row.capacity THEN "full" ELSE row.status
    <2>1. st \in PackageStatus /\ row.seatsTaken + 1 \in Nat
      BY DEF PackageStatus
    <2>2. SeatsAfterReserve(row)
            = [row EXCEPT !.seatsTaken = row.seatsTaken + 1, !.status = st]
      BY Zenon DEF SeatsAfterReserve
    <2> HIDE DEF st
    <2>3. QED
      BY <2>1, <2>2 DEF Package
  <1>2. SeatsAfterRelease(row) \in Package
    <2> DEFINE left == IF row.seatsTaken = 0 THEN 0 ELSE row.seatsTaken - 1
               st == IF row.status = "full" /\ left < row.capacity
                       THEN "open" ELSE row.status
    <2>1. st \in PackageStatus /\ left \in Nat
      BY DEF PackageStatus
    <2>2. SeatsAfterRelease(row) = [row EXCEPT !.seatsTaken = left, !.status = st]
      BY Zenon DEF SeatsAfterRelease
    <2> HIDE DEF left, st
    <2>3. QED
      BY <2>1, <2>2 DEF Package
  <1>3. WriteSeats(row) => pkg' \in Package
    BY DEF WriteSeats, Package
  <1>4. QED
    BY <1>1, <1>2, <1>3

LEMMA MoreIsCount == ASSUME NEW n \in Counts PROVE More(n) \in Counts
  BY DEF More, Counts

\* A request that has found a booking works on that booking.
OnBooking == {"releaseRead", "releaseWrite", "cancelWrite", "confirmRead",
              "confirmWrite", "notifyConfirmed", "checklist"}

TargetInv == \A r \in Requests : req[r].pc \in OnBooking => req[r].target \in Bookings

LEMMA TargetStep ==
  ASSUME TypeOK, TargetInv, [Next]_vars
  PROVE  TargetInv'
  <1>1. ASSUME NEW r \in Requests,
               \/ ReserveRead(r) \/ MarkFull(r) \/ ReserveWrite(r)
               \/ \E b \in Bookings : CreateBooking(r, b) \/ CancelRead(r, b)
               \/ \E b \in Bookings, k \in Steps, isDone \in BOOLEAN :
                    StepWrite(r, b, k, isDone)
        PROVE  TargetInv'
    BY <1>1, SlotEffects
    DEF ReserveRead, MarkFull, ReserveWrite, CreateBooking, CancelRead, StepWrite,
        TargetInv, OnBooking, Others, Pc, TypeOK
  <1>2. ASSUME NEW r \in Requests,
               \/ ReleaseRead(r) \/ ReleaseWrite(r) \/ CancelWrite(r)
        PROVE  TargetInv'
    BY <1>2, SlotEffects, SlotParts
    DEF ReleaseRead, ReleaseWrite, CancelWrite, TargetInv, OnBooking, Others, Pc, TypeOK
  <1>3. ASSUME NEW r \in Requests,
               \/ ConfirmRead(r) \/ ConfirmWrite(r) \/ NotifyConfirmed(r)
               \/ GenerateChecklist(r) \/ Drop(r)
        PROVE  TargetInv'
    BY <1>3, SlotEffects
    DEF ConfirmRead, ConfirmWrite, NotifyConfirmed, GenerateChecklist, Drop,
        TargetInv, OnBooking, Others, Pc, TypeOK
  <1>4. ASSUME NEW r \in Requests,
               Close(r) \/ \E c \in NewCapacities : EditCapacity(r, c)
        PROVE  TargetInv'
    BY <1>4 DEF Close, EditCapacity, TargetInv
  <1>5. CASE UNCHANGED vars
    BY <1>5 DEF vars, TargetInv
  <1>6. QED
    BY <1>1, <1>2, <1>3, <1>4, <1>5 DEF Next, Call, Continue

LEMMA TypeStep ==
  ASSUME TypeOK, TargetInv, [Next]_vars
  PROVE  TypeOK'
  <1> USE IdleIsRequest, BookingsAssumption DEF TypeOK
  <1>1. ASSUME NEW r \in Requests, ReserveRead(r) PROVE TypeOK'
    BY <1>1, SlotTypes DEF ReserveRead, history, Pc
  <1>2. ASSUME NEW r \in Requests, MarkFull(r) PROVE TypeOK'
    BY <1>2, SlotTypes DEF MarkFull, history, Package, PackageStatus, Pc
  <1>3. ASSUME NEW r \in Requests, ReserveWrite(r) PROVE TypeOK'
    BY <1>3, SlotTypes, SlotParts, SeatTypes DEF ReserveWrite, history, Pc
  <1>4. ASSUME NEW r \in Requests, NEW b \in Bookings, CreateBooking(r, b) PROVE TypeOK'
    BY <1>4, SlotTypes DEF CreateBooking, history, BookingRow, BookingStatus, Pc
  <1>5. ASSUME NEW r \in Requests, NEW b \in Bookings, CancelRead(r, b) PROVE TypeOK'
    BY <1>5, SlotTypes DEF CancelRead, history, Pc
  <1>6. ASSUME NEW r \in Requests, ReleaseRead(r) PROVE TypeOK'
    BY <1>6, SlotTypes, SlotParts DEF ReleaseRead, history, Pc
  <1>7. ASSUME NEW r \in Requests, ReleaseWrite(r) PROVE TypeOK'
    <2>1. /\ pkg' \in Package
          /\ req' \in [Requests -> Request]
      BY <1>7, SlotTypes, SlotParts, SeatTypes DEF ReleaseWrite, Pc
    <2>2. released' \subseteq Bookings
      BY <1>7 DEF ReleaseWrite, TargetInv, OnBooking
    <2>3. QED
      BY <1>7, <2>1, <2>2 DEF ReleaseWrite
  <1>8. ASSUME NEW r \in Requests, CancelWrite(r) PROVE TypeOK'
    BY <1>8, SlotTypes DEF CancelWrite, history, BookingRow, BookingStatus, Pc
  <1>9. ASSUME NEW r \in Requests, NEW b \in Bookings, NEW k \in Steps,
               NEW isDone \in BOOLEAN, StepWrite(r, b, k, isDone)
        PROVE TypeOK'
    BY <1>9, SlotTypes DEF StepWrite, Pc, BookingRow
  <1>10. ASSUME NEW r \in Requests, ConfirmRead(r) PROVE TypeOK'
    BY <1>10, SlotTypes DEF ConfirmRead, history, Pc
  <1>11. ASSUME NEW r \in Requests, ConfirmWrite(r) PROVE TypeOK'
    BY <1>11, SlotTypes DEF ConfirmWrite, history, Pc, BookingRow, BookingStatus
  <1>12. ASSUME NEW r \in Requests, NotifyConfirmed(r) PROVE TypeOK'
    BY <1>12, SlotTypes, MoreIsCount DEF NotifyConfirmed, Pc
  <1>13. ASSUME NEW r \in Requests, GenerateChecklist(r) PROVE TypeOK'
    BY <1>13, SlotTypes, MoreIsCount DEF GenerateChecklist, Pc
  <1>14. ASSUME NEW r \in Requests, Close(r) PROVE TypeOK'
    BY <1>14 DEF Close, history, Package, PackageStatus
  <1>15. ASSUME NEW r \in Requests, NEW c \in NewCapacities, EditCapacity(r, c) PROVE TypeOK'
    BY <1>15 DEF EditCapacity, history, Package
  <1>16. ASSUME NEW r \in Requests, Drop(r) PROVE TypeOK'
    BY <1>16, SlotTypes DEF Drop, history, Pc
  <1>17. CASE UNCHANGED vars
    BY <1>17 DEF vars, history
  <1>18. QED
    BY <1>1, <1>2, <1>3, <1>4, <1>5, <1>6, <1>7, <1>8, <1>9, <1>10, <1>11, <1>12,
       <1>13, <1>14, <1>15, <1>16, <1>17 DEF Next, Call, Continue

LEMMA TypedTargets == Spec => [](TypeOK /\ TargetInv)
  <1>1. Init => TypeOK /\ TargetInv
    <2>1. Init => TypeOK
      <3>1. NewPackage \in Package /\ Absent \in BookingRow /\ 0 \in Counts
        BY BookingsAssumption
        DEF Package, PackageStatus, NewPackage, BookingRow, Absent, Counts
      <3>2. QED
        BY <3>1, IdleIsRequest DEF Init, TypeOK
    <2>2. Init => TargetInv
      BY DEF Init, TargetInv, OnBooking, Idle
    <2>3. QED
      BY <2>1, <2>2
  <1>2. TypeOK /\ TargetInv /\ [Next]_vars => (TypeOK /\ TargetInv)'
    BY TypeStep, TargetStep
  <1>3. QED
    BY <1>1, <1>2, PTL DEF Spec

\* Every variable keeps its type: in particular the seat counter never goes
\* below zero, whatever releases interleave.
THEOREM TypeCorrect == Spec => []TypeOK
  BY TypedTargets, PTL

-----------------------------------------------------------------------------
(* The seat counter until the capacity is edited.  A row read by a         *)
(* request may be stale when it is used, but it was a row that agreed with *)
(* itself, and the write depends on nothing else.                          *)

RowAgrees(row) ==
  /\ row.capacity = InitCapacity
  /\ row.seatsTaken <= row.capacity
  /\ row.status = "open" => row.seatsTaken < row.capacity
  /\ row.status = "full" => row.seatsTaken = row.capacity

SlotAgrees(r) ==
  /\ req[r].pc # "markFull"
  /\ req[r].pc = "reserveWrite" => RowAgrees(req[r].seen) /\ req[r].seen.status = "open"
  /\ req[r].pc = "releaseWrite" => RowAgrees(req[r].seen)

SeatInv == ~edited => RowAgrees(pkg) /\ \A r \in Requests : SlotAgrees(r)

\* A seat taken or released from a row that agrees leaves one that agrees.
LEMMA ReserveAgrees ==
  ASSUME NEW row \in Package, pkg \in Package, RowAgrees(pkg), RowAgrees(row),
         row.status = "open", WriteSeats(SeatsAfterReserve(row))
  PROVE  RowAgrees(pkg')
  <1>1. /\ SeatsAfterReserve(row).seatsTaken = row.seatsTaken + 1
        /\ SeatsAfterReserve(row).status
             = IF row.seatsTaken + 1 >= row.capacity THEN "full" ELSE row.status
    BY DEF SeatsAfterReserve, Package
  <1>2. /\ pkg'.seatsTaken = SeatsAfterReserve(row).seatsTaken
        /\ pkg'.status = SeatsAfterReserve(row).status
        /\ pkg'.capacity = InitCapacity
    BY DEF WriteSeats, Package, RowAgrees
  <1>3. QED
    BY <1>1, <1>2, BookingsAssumption DEF RowAgrees, Package

LEMMA ReleaseAgrees ==
  ASSUME NEW row \in Package, pkg \in Package, RowAgrees(pkg), RowAgrees(row),
         WriteSeats(SeatsAfterRelease(row))
  PROVE  RowAgrees(pkg')
  <1> DEFINE left == IF row.seatsTaken = 0 THEN 0 ELSE row.seatsTaken - 1
  <1>1. /\ SeatsAfterRelease(row).seatsTaken = left
        /\ SeatsAfterRelease(row).status
             = IF row.status = "full" /\ left < row.capacity THEN "open" ELSE row.status
    BY DEF SeatsAfterRelease, Package
  <1>2. /\ pkg'.seatsTaken = SeatsAfterRelease(row).seatsTaken
        /\ pkg'.status = SeatsAfterRelease(row).status
        /\ pkg'.capacity = InitCapacity
    BY DEF WriteSeats, Package, RowAgrees
  <1>3. QED
    BY <1>1, <1>2, BookingsAssumption DEF RowAgrees, Package

LEMMA SeatInvHolds == Spec => []SeatInv
  <1> USE BookingsAssumption
  <1>1. Init => SeatInv
    BY DEF Init, SeatInv, SlotAgrees, RowAgrees, NewPackage, Idle
  <1>2. TypeOK /\ SeatInv /\ [Next]_vars => SeatInv'
    <2> SUFFICES ASSUME TypeOK, SeatInv, [Next]_vars, ~edited'
                 PROVE  RowAgrees(pkg') /\ \A q \in Requests : SlotAgrees(q)'
      BY DEF SeatInv
    <2> DEFINE Goal == RowAgrees(pkg') /\ \A q \in Requests : SlotAgrees(q)'
    <2>0. ~edited /\ RowAgrees(pkg) /\ \A q \in Requests : SlotAgrees(q)
      <3>1. edited => edited'
        BY DEF Next, Call, Continue, vars, history, ReserveRead, MarkFull, ReserveWrite,
               CreateBooking, CancelRead, ReleaseRead, ReleaseWrite, CancelWrite, StepWrite,
               ConfirmRead, ConfirmWrite, NotifyConfirmed, GenerateChecklist, Close,
               EditCapacity, Drop
      <3>2. QED
        BY <3>1 DEF SeatInv
    <2>1. ASSUME NEW r \in Requests, ReserveRead(r) PROVE Goal
      <3>1. pkg' = pkg /\ pkg.status = "open" /\ pkg.seatsTaken < pkg.capacity
        BY <2>0, <2>1 DEF ReserveRead, SlotAgrees, RowAgrees
      <3>2. StartWithRow(r, "reserveWrite", NoBooking)
        BY <2>0, <2>1, <3>1 DEF ReserveRead, TypeOK, Package
      <3>3. QED
        BY <2>0, <3>1, <3>2, SlotEffects DEF SlotAgrees, Others, Pc, TypeOK
    <2>2. ASSUME NEW r \in Requests, MarkFull(r) PROVE Goal
      BY <2>0, <2>2, SlotEffects DEF MarkFull, SlotAgrees, Others, Pc, TypeOK
    <2>3. ASSUME NEW r \in Requests, ReserveWrite(r) PROVE Goal
      <3>1. Others(r) /\ req'[r].pc = "createBooking"
        BY <2>0, <2>3, SlotEffects DEF ReserveWrite, Pc, TypeOK
      <3>2. RowAgrees(pkg')
        BY <2>0, <2>3, SlotParts, ReserveAgrees DEF ReserveWrite, SlotAgrees, TypeOK
      <3>3. QED
        BY <2>0, <3>1, <3>2 DEF SlotAgrees, Others
    <2>4. ASSUME NEW r \in Requests, NEW b \in Bookings, CreateBooking(r, b) PROVE Goal
      BY <2>0, <2>4, SlotEffects DEF CreateBooking, SlotAgrees, Others, Pc, TypeOK
    <2>5. ASSUME NEW r \in Requests, NEW b \in Bookings, CancelRead(r, b) PROVE Goal
      BY <2>0, <2>5, SlotEffects DEF CancelRead, SlotAgrees, Others, Pc, TypeOK
    <2>6. ASSUME NEW r \in Requests, ReleaseRead(r) PROVE Goal
      BY <2>0, <2>6, SlotEffects, SlotParts DEF ReleaseRead, SlotAgrees, Others, Pc, TypeOK
    <2>7. ASSUME NEW r \in Requests, ReleaseWrite(r) PROVE Goal
      <3>1. Others(r) /\ req'[r].pc = "cancelWrite"
        BY <2>0, <2>7, SlotEffects DEF ReleaseWrite, Pc, TypeOK
      <3>2. RowAgrees(pkg')
        BY <2>0, <2>7, SlotParts, ReleaseAgrees DEF ReleaseWrite, SlotAgrees, TypeOK
      <3>3. QED
        BY <2>0, <3>1, <3>2 DEF SlotAgrees, Others
    <2>8. ASSUME NEW r \in Requests, CancelWrite(r) PROVE Goal
      BY <2>0, <2>8, SlotEffects DEF CancelWrite, SlotAgrees, Others, Pc, TypeOK
    <2>9. ASSUME NEW r \in Requests, NEW b \in Bookings, NEW k \in Steps,
                 NEW isDone \in BOOLEAN, StepWrite(r, b, k, isDone) PROVE Goal
      BY <2>0, <2>9, SlotEffects DEF StepWrite, SlotAgrees, Others, Pc, TypeOK
    <2>10. ASSUME NEW r \in Requests, ConfirmRead(r) PROVE Goal
      <3>1. Goto(r, "confirmWrite") \/ Finish(r)
        BY <2>0, <2>10 DEF ConfirmRead
      <3>2. QED
        BY <2>0, <2>10, <3>1, SlotEffects DEF ConfirmRead, SlotAgrees, Others, Pc, TypeOK
    <2>11. ASSUME NEW r \in Requests, ConfirmWrite(r) PROVE Goal
      BY <2>0, <2>11, SlotEffects DEF ConfirmWrite, SlotAgrees, Others, Pc, TypeOK
    <2>12. ASSUME NEW r \in Requests, NotifyConfirmed(r) PROVE Goal
      BY <2>0, <2>12, SlotEffects DEF NotifyConfirmed, SlotAgrees, Others, Pc, TypeOK
    <2>13. ASSUME NEW r \in Requests, GenerateChecklist(r) PROVE Goal
      BY <2>0, <2>13, SlotEffects DEF GenerateChecklist, SlotAgrees, Others, Pc, TypeOK
    <2>14. ASSUME NEW r \in Requests, Close(r) PROVE Goal
      BY <2>0, <2>14 DEF Close, history, SlotAgrees, RowAgrees
    <2>15. ASSUME NEW r \in Requests, NEW c \in NewCapacities, EditCapacity(r, c) PROVE Goal
      BY <2>15 DEF EditCapacity
    <2>16. ASSUME NEW r \in Requests, Drop(r) PROVE Goal
      BY <2>0, <2>16, SlotEffects DEF Drop, SlotAgrees, Others, Pc, TypeOK
    <2>17. CASE UNCHANGED vars
      BY <2>0, <2>17 DEF vars, SlotAgrees, RowAgrees
    <2>18. QED
      BY <2>1, <2>2, <2>3, <2>4, <2>5, <2>6, <2>7, <2>8, <2>9, <2>10, <2>11, <2>12, <2>13,
         <2>14, <2>15, <2>16, <2>17 DEF Next, Call, Continue
  <1>3. QED
    BY <1>1, <1>2, TypeCorrect, PTL DEF Spec

\* For every number of bookings and of concurrent requests, and wherever they
\* are interrupted, an open package has a seat left, a full one has none and the
\* counter stays within the capacity, until PATCH /packages/:id edits it.
THEOREM StatusAndCountAgree == Spec => []StatusMatchesCount
  <1>1. SeatInv => StatusMatchesCount
    BY DEF SeatInv, RowAgrees, StatusMatchesCount
  <1>2. QED
    BY <1>1, SeatInvHolds, PTL

-----------------------------------------------------------------------------
(* What a request about to write or to send has established about the      *)
(* booking it works on.                                                    *)

DossierInv ==
  /\ TargetInv
  /\ \A r \in Requests :
       /\ req[r].pc \in {"confirmWrite", "notifyConfirmed", "checklist"}
            => req[r].target \in completed
       /\ req[r].pc = "cancelWrite" => req[r].target \in released
  /\ ConfirmedDossierWasComplete
  /\ CancelledSeatWasReleased
  /\ \A b \in Bookings : booking[b].done = Steps \/ confirmNotices[b] > 0 => b \in completed

LEMMA DossierInvHolds == Spec => []DossierInv
  <1> USE BookingsAssumption
  <1>1. Init => DossierInv
    BY DEF Init, DossierInv, TargetInv, OnBooking, ConfirmedDossierWasComplete,
           CancelledSeatWasReleased, Idle, Absent
  <1>2. TypeOK /\ DossierInv /\ [Next]_vars => DossierInv'
    <2> SUFFICES ASSUME TypeOK, DossierInv, [Next]_vars
                 PROVE  DossierInv'
      OBVIOUS
    <2>1. ASSUME NEW r \in Requests, ReserveRead(r) PROVE DossierInv'
      BY <2>1, SlotEffects DEF ReserveRead, history, DossierInv, TargetInv, OnBooking,
                  ConfirmedDossierWasComplete, CancelledSeatWasReleased, Others, Pc, TypeOK
    <2>2. ASSUME NEW r \in Requests, MarkFull(r) PROVE DossierInv'
      BY <2>2, SlotEffects DEF MarkFull, history, DossierInv, TargetInv, OnBooking,
                  ConfirmedDossierWasComplete, CancelledSeatWasReleased, Others, Pc, TypeOK
    <2>3. ASSUME NEW r \in Requests, ReserveWrite(r) PROVE DossierInv'
      BY <2>3, SlotEffects DEF ReserveWrite, history, DossierInv, TargetInv, OnBooking,
                  ConfirmedDossierWasComplete, CancelledSeatWasReleased, Others, Pc, TypeOK
    <2>4. ASSUME NEW r \in Requests, NEW b \in Bookings, CreateBooking(r, b) PROVE DossierInv'
      BY <2>4, SlotEffects DEF CreateBooking, history, DossierInv, TargetInv, OnBooking,
                  ConfirmedDossierWasComplete, CancelledSeatWasReleased, Others, Pc, TypeOK
    <2>5. ASSUME NEW r \in Requests, NEW b \in Bookings, CancelRead(r, b) PROVE DossierInv'
      BY <2>5, SlotEffects DEF CancelRead, history, DossierInv, TargetInv, OnBooking,
                  ConfirmedDossierWasComplete, CancelledSeatWasReleased, Others, Pc, TypeOK
    <2>6. ASSUME NEW r \in Requests, ReleaseRead(r) PROVE DossierInv'
      BY <2>6, SlotEffects DEF ReleaseRead, history, DossierInv, TargetInv, OnBooking,
                  ConfirmedDossierWasComplete, CancelledSeatWasReleased, Others, Pc, TypeOK
    <2>7. ASSUME NEW r \in Requests, ReleaseWrite(r) PROVE DossierInv'
      <3>1. /\ Others(r) /\ req'[r].pc = "cancelWrite" /\ req'[r].target = req[r].target
            /\ req[r].target \in Bookings
        BY <2>7, SlotEffects DEF ReleaseWrite, DossierInv, TargetInv, OnBooking, Pc, TypeOK
      <3>2. released' = released \union {req[r].target}
        BY <2>7 DEF ReleaseWrite
      <3>3. QED
        BY <2>7, <3>1, <3>2 DEF ReleaseWrite, Others, DossierInv, TargetInv, OnBooking,
                    ConfirmedDossierWasComplete, CancelledSeatWasReleased
    <2>8. ASSUME NEW r \in Requests, CancelWrite(r) PROVE DossierInv'
      BY <2>8, SlotEffects DEF CancelWrite, history, DossierInv, TargetInv, OnBooking,
                  ConfirmedDossierWasComplete, CancelledSeatWasReleased, Others, Pc, TypeOK
    <2>9. ASSUME NEW r \in Requests, NEW b \in Bookings, NEW k \in Steps,
                 NEW isDone \in BOOLEAN, StepWrite(r, b, k, isDone) PROVE DossierInv'
      BY <2>9, SlotEffects DEF StepWrite, history, DossierInv, TargetInv, OnBooking,
                  ConfirmedDossierWasComplete, CancelledSeatWasReleased, Others, Pc, TypeOK
    <2>10. ASSUME NEW r \in Requests, ConfirmRead(r) PROVE DossierInv'
      <3>1. \/ /\ Goto(r, "confirmWrite")
               /\ booking[req[r].target].done = Steps
            \/ Finish(r)
        BY <2>10 DEF ConfirmRead
      <3>2. Others(r) /\ UNCHANGED <<booking, history>>
        BY <2>10, <3>1, SlotEffects DEF ConfirmRead, Pc, TypeOK
      <3>3. CASE Finish(r)
        BY <3>2, <3>3, SlotEffects DEF history, Others, Pc, TypeOK, DossierInv, TargetInv, OnBooking,
                    ConfirmedDossierWasComplete, CancelledSeatWasReleased
      <3>4. CASE Goto(r, "confirmWrite") /\ booking[req[r].target].done = Steps
        <4>1. /\ req'[r].pc = "confirmWrite" /\ req'[r].target = req[r].target
              /\ req[r].target \in Bookings
          BY <2>10, <3>4, SlotEffects DEF ConfirmRead, DossierInv, TargetInv, OnBooking, Pc, TypeOK
        <4>2. QED
          BY <3>2, <3>4, <4>1 DEF history, Others, DossierInv, TargetInv, OnBooking,
                    ConfirmedDossierWasComplete, CancelledSeatWasReleased
      <3>5. QED
        BY <3>1, <3>3, <3>4
    <2>11. ASSUME NEW r \in Requests, ConfirmWrite(r) PROVE DossierInv'
      BY <2>11, SlotEffects DEF ConfirmWrite, history, DossierInv, TargetInv, OnBooking,
                  ConfirmedDossierWasComplete, CancelledSeatWasReleased, Others, Pc, TypeOK
    <2>12. ASSUME NEW r \in Requests, NotifyConfirmed(r) PROVE DossierInv'
      BY <2>12, SlotEffects DEF NotifyConfirmed, history, DossierInv, TargetInv, OnBooking,
                  ConfirmedDossierWasComplete, CancelledSeatWasReleased, Others, Pc, TypeOK
    <2>13. ASSUME NEW r \in Requests, GenerateChecklist(r) PROVE DossierInv'
      BY <2>13, SlotEffects DEF GenerateChecklist, history, DossierInv, TargetInv, OnBooking,
                  ConfirmedDossierWasComplete, CancelledSeatWasReleased, Others, Pc, TypeOK
    <2>14. ASSUME NEW r \in Requests, Close(r) PROVE DossierInv'
      BY <2>14, SlotEffects DEF Close, history, DossierInv, TargetInv, OnBooking,
                  ConfirmedDossierWasComplete, CancelledSeatWasReleased, Others, Pc, TypeOK
    <2>15. ASSUME NEW r \in Requests, NEW c \in NewCapacities, EditCapacity(r, c) PROVE DossierInv'
      BY <2>15, SlotEffects DEF EditCapacity, history, DossierInv, TargetInv, OnBooking,
                  ConfirmedDossierWasComplete, CancelledSeatWasReleased, Others, Pc, TypeOK
    <2>16. ASSUME NEW r \in Requests, Drop(r) PROVE DossierInv'
      BY <2>16, SlotEffects DEF Drop, history, DossierInv, TargetInv, OnBooking,
                  ConfirmedDossierWasComplete, CancelledSeatWasReleased, Others, Pc, TypeOK
    <2>17. CASE UNCHANGED vars
      BY <2>17 DEF vars, DossierInv, TargetInv, OnBooking, ConfirmedDossierWasComplete, CancelledSeatWasReleased, TypeOK, Request, BookingRow
    <2>18. QED
      BY <2>1, <2>2, <2>3, <2>4, <2>5, <2>6, <2>7, <2>8, <2>9, <2>10, <2>11, <2>12, <2>13, <2>14, <2>15, <2>16, <2>17 DEF Next, Call, Continue
  <1>3. QED
    BY <1>1, <1>2, TypeCorrect, PTL DEF Spec

\* For every number of concurrent requests, a CONFIRMED dossier was complete.
THEOREM ConfirmationsAreEarned == Spec => []ConfirmedDossierWasComplete
  BY DossierInvHolds, PTL DEF DossierInv

\* Wherever requests are interrupted, a CANCELLED booking has released its seat.
THEOREM CancellationsRelease == Spec => []CancelledSeatWasReleased
  BY DossierInvHolds, PTL DEF DossierInv

-----------------------------------------------------------------------------
(* The notice precedes the checklist.  The first notice of a booking leaves *)
(* at most one request about to generate its checklist, so the checklists   *)
(* never outnumber the notices.                                             *)

AtChecklist(r, b) == req[r].pc = "checklist" /\ req[r].target = b

NoticeInv ==
  \A b \in Bookings :
    /\ checklists[b] <= confirmNotices[b]
    /\ \A r \in Requests : AtChecklist(r, b) => confirmNotices[b] > 0
    /\ confirmNotices[b] = 1
         => \A r \in Requests : AtChecklist(r, b) =>
              checklists[b] = 0 /\ \A q \in Requests : AtChecklist(q, b) => q = r

\* Steps that send nothing and bring nobody to the checklist.
LEMMA NoticeUnmoved ==
  ASSUME NoticeInv, NEW r \in Requests, Others(r), req'[r].pc # "checklist",
         UNCHANGED <<confirmNotices, checklists>>
  PROVE  NoticeInv'
  BY DEF NoticeInv, AtChecklist, Others

LEMMA NoticeInvHolds == Spec => []NoticeInv
  <1>1. Init => NoticeInv
    BY DEF Init, NoticeInv, AtChecklist, Idle
  <1>2. TypeOK /\ DossierInv /\ NoticeInv /\ [Next]_vars => NoticeInv'
    <2> SUFFICES ASSUME TypeOK, DossierInv, NoticeInv, [Next]_vars
                 PROVE  NoticeInv'
      OBVIOUS
    <2>1. ASSUME NEW r \in Requests, NotifyConfirmed(r) PROVE NoticeInv'
      <3>0. PICK t \in Bookings : t = req[r].target
        BY <2>1 DEF NotifyConfirmed, DossierInv, TargetInv, OnBooking
      <3>1. /\ Others(r) /\ req'[r].pc = "checklist" /\ req'[r].target = t
            /\ req[r].pc = "notifyConfirmed"
        BY <2>1, <3>0, SlotEffects DEF NotifyConfirmed, Pc, TypeOK
      <3>2. /\ confirmNotices' = [confirmNotices EXCEPT ![t] = More(confirmNotices[t])]
            /\ checklists' = checklists
            /\ confirmNotices[t] \in Counts /\ checklists[t] \in Counts
        BY <2>1, <3>0 DEF NotifyConfirmed, TypeOK
      <3>3. ASSUME NEW b \in Bookings, b # t PROVE
              /\ confirmNotices'[b] = confirmNotices[b]
              /\ \A q \in Requests : AtChecklist(q, b)' => AtChecklist(q, b)
        BY <3>1, <3>2, <3>3 DEF TypeOK, AtChecklist, Others
      <3>4. /\ confirmNotices'[t] = More(confirmNotices[t])
            /\ \A q \in Requests : AtChecklist(q, t)' => AtChecklist(q, t) \/ q = r
        BY <3>1, <3>2 DEF TypeOK, AtChecklist, Others
      <3>5. /\ confirmNotices[t] = 0 => confirmNotices'[t] = 1
            /\ confirmNotices[t] > 0 => confirmNotices'[t] = 2
        BY <3>2, <3>4 DEF More, Counts
      <3>6. QED
        BY <3>1, <3>2, <3>3, <3>4, <3>5 DEF NoticeInv, Counts
    <2>2. ASSUME NEW r \in Requests, GenerateChecklist(r) PROVE NoticeInv'
      <3>0. PICK t \in Bookings : t = req[r].target
        BY <2>2 DEF GenerateChecklist, DossierInv, TargetInv, OnBooking
      <3>1. /\ Others(r) /\ req'[r].pc = "idle" /\ AtChecklist(r, t)
        BY <2>2, <3>0, SlotEffects DEF GenerateChecklist, AtChecklist, Pc, TypeOK
      <3>2. /\ checklists' = [checklists EXCEPT ![t] = More(checklists[t])]
            /\ confirmNotices' = confirmNotices
            /\ confirmNotices[t] \in Counts /\ checklists[t] \in Counts
        BY <2>2, <3>0 DEF GenerateChecklist, TypeOK
      <3>3. \A q \in Requests, b \in Bookings :
              AtChecklist(q, b)' => AtChecklist(q, b) /\ q # r
        BY <3>1 DEF AtChecklist, Others
      <3>4. /\ checklists'[t] = More(checklists[t])
            /\ \A b \in Bookings : b # t => checklists'[b] = checklists[b]
        BY <3>1, <3>2 DEF TypeOK
      <3>5. checklists'[t] <= confirmNotices[t]
        BY <3>1, <3>2, <3>4 DEF NoticeInv, More, Counts
      <3>6. confirmNotices[t] = 1 => \A q \in Requests : ~AtChecklist(q, t)'
        BY <3>1, <3>3 DEF NoticeInv
      <3>7. QED
        BY <3>1, <3>2, <3>3, <3>4, <3>5, <3>6 DEF NoticeInv
    <2>3. ASSUME NEW r \in Requests,
                 \/ ReserveRead(r) \/ MarkFull(r) \/ ReserveWrite(r)
                 \/ \E b \in Bookings : CreateBooking(r, b) \/ CancelRead(r, b)
                 \/ \E b \in Bookings, k \in Steps, isDone \in BOOLEAN :
                      StepWrite(r, b, k, isDone)
          PROVE  NoticeInv'
      <3>1. Others(r) /\ req'[r].pc # "checklist"
        BY <2>3, SlotEffects
        DEF ReserveRead, MarkFull, ReserveWrite, CreateBooking, CancelRead, StepWrite,
            Pc, TypeOK
      <3>2. QED
        BY <2>3, <3>1, NoticeUnmoved
        DEF ReserveRead, MarkFull, ReserveWrite, CreateBooking, CancelRead, StepWrite, history
    <2>4. ASSUME NEW r \in Requests,
                 \/ ReleaseRead(r) \/ ReleaseWrite(r) \/ CancelWrite(r)
                 \/ ConfirmRead(r) \/ ConfirmWrite(r) \/ Drop(r)
          PROVE  NoticeInv'
      <3>1. Others(r) /\ req'[r].pc # "checklist"
        BY <2>4, SlotEffects, SlotParts
        DEF ReleaseRead, ReleaseWrite, CancelWrite, ConfirmRead, ConfirmWrite, Drop,
            Pc, TypeOK
      <3>2. QED
        BY <2>4, <3>1, NoticeUnmoved
        DEF ReleaseRead, ReleaseWrite, CancelWrite, ConfirmRead, ConfirmWrite, Drop, history
    <2>5. ASSUME NEW r \in Requests,
                 Close(r) \/ \E c \in NewCapacities : EditCapacity(r, c)
          PROVE  NoticeInv'
      BY <2>5 DEF Close, EditCapacity, history, NoticeInv, AtChecklist
    <2>6. CASE UNCHANGED vars
      BY <2>6 DEF vars, history, NoticeInv, AtChecklist
    <2>7. QED
      BY <2>1, <2>2, <2>3, <2>4, <2>5, <2>6 DEF Next, Call, Continue
  <1>3. QED
    BY <1>1, <1>2, TypeCorrect, DossierInvHolds, PTL DEF Spec

\* Wherever requests are interrupted, the confirmation is announced before the
\* checklist appears, and only for a dossier that was complete.
THEOREM NoticesComeFirst == Spec => []ChecklistFollowsNotice
  <1>1. NoticeInv /\ DossierInv => ChecklistFollowsNotice
    BY DEF NoticeInv, DossierInv, ChecklistFollowsNotice
  <1>2. QED
    BY <1>1, NoticeInvHolds, DossierInvHolds, PTL

-----------------------------------------------------------------------------
(* The seats and what was offered *)

Offers == {InitCapacity} \union NewCapacities
WithinOffer(row) == \E c \in Offers : row.seatsTaken <= c

\* A reservation and a release write from the row they have read: so this row, too, had a
\* seat left, or did not pass what was offered.
OfferInv ==
  /\ pkg.capacity \in Offers /\ WithinOffer(pkg)
  /\ \A r \in Requests :
       /\ req[r].pc = "reserveWrite" =>
            req[r].seen.capacity \in Offers /\ req[r].seen.seatsTaken < req[r].seen.capacity
       /\ req[r].pc = "releaseWrite" => WithinOffer(req[r].seen)

LEMMA OfferedSeats ==
  ASSUME TypeOK, NEW row \in Package
  PROVE  /\ WithinOffer(row) => WithinOffer(SeatsAfterRelease(row))
         /\ row.capacity \in Offers /\ row.seatsTaken < row.capacity
              => WithinOffer(SeatsAfterReserve(row))
         /\ WriteSeats(row) /\ WithinOffer(row) => WithinOffer(pkg')
         /\ WriteSeats(row) => pkg'.capacity = pkg.capacity
  <1>1. /\ row.seatsTaken \in Nat /\ row.capacity \in Nat /\ Offers \subseteq Nat
        /\ pkg \in Package
    BY BookingsAssumption DEF Package, Offers, TypeOK
  <1>2. SeatsAfterRelease(row).seatsTaken <= row.seatsTaken
        /\ SeatsAfterRelease(row).seatsTaken \in Nat
    BY <1>1 DEF SeatsAfterRelease, Package
  <1>3. SeatsAfterReserve(row).seatsTaken = row.seatsTaken + 1
    BY <1>1 DEF SeatsAfterReserve, Package
  <1>4. WriteSeats(row) => pkg'.seatsTaken = row.seatsTaken /\ pkg'.capacity = pkg.capacity
    BY <1>1 DEF WriteSeats, Package
  <1>5. ASSUME WithinOffer(row) PROVE WithinOffer(SeatsAfterRelease(row))
    <2>1. PICK c \in Offers : row.seatsTaken <= c
      BY <1>5 DEF WithinOffer
    <2>2. SeatsAfterRelease(row).seatsTaken <= c
      BY <1>1, <1>2, <2>1
    <2> QED
      BY <2>2 DEF WithinOffer
  <1>6. ASSUME row.capacity \in Offers, row.seatsTaken < row.capacity
        PROVE  WithinOffer(SeatsAfterReserve(row))
    <2>1. SeatsAfterReserve(row).seatsTaken <= row.capacity
      BY <1>1, <1>3, <1>6
    <2> QED
      BY <1>6, <2>1 DEF WithinOffer
  <1> QED
    BY <1>4, <1>5, <1>6 DEF WithinOffer

\* Handlers that leave the package alone and read none of its rows.
LEMMA OfferKept ==
  ASSUME OfferInv, WithinOffer(pkg'), pkg'.capacity \in Offers,
         \A r \in Requests : req'[r] = req[r] \/ req'[r].pc \notin {"reserveWrite", "releaseWrite"}
  PROVE  OfferInv'
  BY DEF OfferInv, WithinOffer, Offers

LEMMA OfferStep ==
  ASSUME TypeOK, TargetInv, OfferInv, [Next]_vars
  PROVE  OfferInv'
  <1>0. pkg.capacity \in Offers /\ WithinOffer(pkg)
    BY DEF OfferInv
  <1>1. ASSUME NEW r \in Requests, ReserveRead(r) PROVE OfferInv'
    <2>1. pkg' = pkg
      BY <1>1 DEF ReserveRead
    <2>2. CASE pkg.seatsTaken >= pkg.capacity
      <3>1. Others(r) /\ req'[r].pc = "markFull"
        BY <1>1, <2>2, SlotEffects DEF ReserveRead, Pc, TypeOK
      <3> QED
        BY <1>0, <2>1, <3>1, OfferKept DEF Others
    <2>3. CASE ~(pkg.seatsTaken >= pkg.capacity)
      <3>1. Others(r) /\ req'[r].pc = "reserveWrite" /\ req'[r].seen = pkg
        BY <1>1, <2>3, SlotEffects DEF ReserveRead, Pc, TypeOK
      <3>2. pkg.seatsTaken < pkg.capacity
        BY <2>3 DEF TypeOK, Package
      <3> QED
        BY <1>0, <2>1, <3>1, <3>2 DEF OfferInv, Others, WithinOffer, Offers
    <2> QED
      BY <2>2, <2>3
  <1>2. ASSUME NEW r \in Requests, ReserveWrite(r) PROVE OfferInv'
    <2>1. req[r].seen \in Package /\ req[r].pc = "reserveWrite"
      BY <1>2, SlotParts DEF ReserveWrite
    <2>2. WithinOffer(SeatsAfterReserve(req[r].seen)) /\ SeatsAfterReserve(req[r].seen) \in Package
      BY <2>1, OfferedSeats, SeatTypes DEF OfferInv, TypeOK
    <2>3. WithinOffer(pkg') /\ pkg'.capacity \in Offers
      BY <1>0, <1>2, <2>2, OfferedSeats DEF ReserveWrite
    <2>4. Others(r) /\ req'[r].pc = "createBooking"
      BY <1>2, SlotEffects DEF ReserveWrite, Pc, TypeOK
    <2> QED
      BY <2>3, <2>4, OfferKept DEF Others
  <1>3. ASSUME NEW r \in Requests, ReleaseRead(r) PROVE OfferInv'
    <2>1. pkg' = pkg
      BY <1>3 DEF ReleaseRead
    <2>2. Others(r) /\ req'[r].pc = "releaseWrite" /\ req'[r].seen = pkg
      BY <1>3, SlotEffects, SlotParts DEF ReleaseRead, Pc, TypeOK
    <2> QED
      BY <1>0, <2>1, <2>2 DEF OfferInv, Others, WithinOffer, Offers
  <1>4. ASSUME NEW r \in Requests, ReleaseWrite(r) PROVE OfferInv'
    <2>1. req[r].seen \in Package /\ req[r].pc = "releaseWrite"
      BY <1>4, SlotParts DEF ReleaseWrite
    <2>2. WithinOffer(SeatsAfterRelease(req[r].seen)) /\ SeatsAfterRelease(req[r].seen) \in Package
      BY <2>1, OfferedSeats, SeatTypes DEF OfferInv, TypeOK
    <2>3. WithinOffer(pkg') /\ pkg'.capacity \in Offers
      BY <1>0, <1>4, <2>2, OfferedSeats DEF ReleaseWrite
    <2>4. Others(r) /\ req'[r].pc = "cancelWrite"
      BY <1>4, SlotEffects DEF ReleaseWrite, Pc, TypeOK
    <2> QED
      BY <2>3, <2>4, OfferKept DEF Others
  <1>5. ASSUME NEW r \in Requests, MarkFull(r) PROVE OfferInv'
    <2>1. pkg'.seatsTaken = pkg.seatsTaken /\ pkg'.capacity = pkg.capacity
      BY <1>5 DEF MarkFull, TypeOK, Package
    <2>2. Others(r) /\ req'[r].pc = "idle"
      BY <1>5, SlotEffects DEF MarkFull, TypeOK, Pc
    <2> QED
      BY <1>0, <2>1, <2>2, OfferKept DEF Others, WithinOffer
  <1>6. ASSUME NEW r \in Requests, Close(r) PROVE OfferInv'
    <2>1. pkg'.seatsTaken = pkg.seatsTaken /\ pkg'.capacity = pkg.capacity /\ req' = req
      BY <1>6 DEF Close, TypeOK, Package
    <2> QED
      BY <1>0, <2>1, OfferKept DEF WithinOffer
  <1>7. ASSUME NEW r \in Requests, NEW c \in NewCapacities, EditCapacity(r, c) PROVE OfferInv'
    <2>1. pkg'.seatsTaken = pkg.seatsTaken /\ pkg'.capacity = c /\ req' = req
      BY <1>7 DEF EditCapacity, TypeOK, Package
    <2> QED
      BY <1>0, <2>1, OfferKept DEF WithinOffer, Offers
  <1>8. ASSUME NEW r \in Requests,
               \/ \E b \in Bookings : CreateBooking(r, b) \/ CancelRead(r, b)
               \/ \E b \in Bookings, k \in Steps, isDone \in BOOLEAN :
                    StepWrite(r, b, k, isDone)
               \/ CancelWrite(r) \/ ConfirmRead(r) \/ ConfirmWrite(r) \/ NotifyConfirmed(r)
               \/ GenerateChecklist(r) \/ Drop(r)
        PROVE  OfferInv'
    <2>1. pkg' = pkg
      BY <1>8 DEF CreateBooking, CancelRead, StepWrite, CancelWrite, ConfirmRead, ConfirmWrite,
                  NotifyConfirmed, GenerateChecklist, Drop
    <2>2. Others(r) /\ req'[r].pc \notin {"reserveWrite", "releaseWrite"}
      BY <1>8, SlotEffects DEF CreateBooking, CancelRead, StepWrite, CancelWrite, ConfirmRead,
         ConfirmWrite, NotifyConfirmed, GenerateChecklist, Drop, Pc, TypeOK
    <2> QED
      BY <1>0, <2>1, <2>2, OfferKept DEF Others
  <1>9. CASE UNCHANGED vars
    BY <1>0, <1>9, OfferKept DEF vars
  <1> QED
    BY <1>1, <1>2, <1>3, <1>4, <1>5, <1>6, <1>7, <1>8, <1>9 DEF Next, Call, Continue

\* However reservations, releases and edits of the capacity interleave, the counter never
\* passes the largest capacity that the agency has offered.
THEOREM SeatsStayWithinOffer == Spec => []SeatsWithinOffer
  <1>1. Init => OfferInv
    BY BookingsAssumption DEF Init, OfferInv, Offers, WithinOffer, NewPackage, Idle
  <1>2. TypeOK /\ TargetInv /\ OfferInv /\ [Next]_vars => OfferInv'
    BY OfferStep
  <1>3. OfferInv => SeatsWithinOffer
    BY DEF OfferInv, WithinOffer, Offers, SeatsWithinOffer
  <1> QED
    BY <1>1, <1>2, <1>3, TypedTargets, PTL DEF Spec

-----------------------------------------------------------------------------
(* The seat ledger, when requests do not overlap *)

\* One request at a time runs to its end; the steps of the dossiers and the capacity are
\* left alone: a step undone and done again reopens a cancelled booking, and an edited
\* capacity may be below the seats taken.
Sequential ==
  /\ \E r : Requests = {r}
  /\ NewCapacities = {} /\ MayFail = FALSE /\ "step" \notin Handlers

\* The one request has read the row as it stands, and the counter differs from the number
\* of active bookings by the seat that the request has just taken or given back.
Serving(r) ==
  LET held == Cardinality(ActiveBookings)
      b == req[r].target
  IN  \/ req[r].pc = "idle" /\ pkg.seatsTaken = held
      \/ /\ req[r].pc = "reserveWrite" /\ pkg.seatsTaken = held
         /\ req[r].seen = pkg /\ pkg.status = "open" /\ pkg.seatsTaken < pkg.capacity
      \/ /\ req[r].pc = "createBooking" /\ pkg.seatsTaken = held + 1
         /\ pkg.status # "closed" /\ pkg.seatsTaken <= pkg.capacity
      \/ /\ req[r].pc = "releaseRead" /\ pkg.seatsTaken = held /\ b \in ActiveBookings
      \/ /\ req[r].pc = "releaseWrite" /\ pkg.seatsTaken = held /\ b \in ActiveBookings
         /\ req[r].seen = pkg
      \/ /\ req[r].pc = "cancelWrite" /\ b \in ActiveBookings /\ pkg.seatsTaken + 1 = held
      \/ /\ req[r].pc = "cancelWrite" /\ b \in Bookings \ ActiveBookings
         /\ pkg.seatsTaken = held

LedgerInv == pkg.capacity = InitCapacity /\ ~edited /\ \A r \in Requests : Serving(r)

\* A booking that becomes active, or stops being so.
LEMMA HeldSeats ==
  /\ IsFiniteSet(ActiveBookings) /\ Cardinality(ActiveBookings) \in Nat
  /\ \A b \in Bookings \ ActiveBookings :
       Cardinality(ActiveBookings \union {b}) = Cardinality(ActiveBookings) + 1
  /\ \A b \in ActiveBookings :
       /\ Cardinality(ActiveBookings \ {b}) + 1 = Cardinality(ActiveBookings)
       /\ Cardinality(ActiveBookings \ {b}) \in Nat
  <1>1. ActiveBookings \subseteq Bookings
    BY DEF ActiveBookings
  <1>2. IsFiniteSet(ActiveBookings)
    BY <1>1, FS_Subset, BookingsAssumption
  <1>3. \A b \in ActiveBookings : IsFiniteSet(ActiveBookings \ {b})
    BY <1>2, FS_RemoveElement
  <1> QED
    BY <1>2, <1>3, FS_AddElement, FS_RemoveElement, FS_CardinalityType

\* The abstract step that each step of the one request is.
LedgerStep ==
  \/ UNCHANGED <<ActiveBookings, pkg.status = "closed">>
  \/ pkg'.status = "closed" /\ ActiveBookings' = ActiveBookings
  \/ /\ (pkg'.status = "closed") = (pkg.status = "closed")
     /\ \E b \in Bookings :
          \/ /\ pkg.status # "closed" /\ b \notin ActiveBookings
             /\ Cardinality(ActiveBookings) < InitCapacity
             /\ ActiveBookings' = ActiveBookings \union {b}
          \/ b \in ActiveBookings /\ ActiveBookings' = ActiveBookings \ {b}

LEMMA LedgerMoves ==
  ASSUME Sequential, TypeOK, TargetInv, SeatInv, LedgerInv, [Next]_vars
  PROVE  LedgerInv' /\ LedgerStep
  <1> DEFINE held == Cardinality(ActiveBookings)
  <1>0. /\ pkg \in Package /\ pkg.seatsTaken \in Nat /\ pkg.capacity = InitCapacity
        /\ InitCapacity \in Nat /\ held \in Nat /\ ~edited
    BY HeldSeats, BookingsAssumption DEF TypeOK, Package, LedgerInv
  <1>1. PICK r : Requests = {r}
    BY DEF Sequential
  <1>2. r \in Requests /\ Serving(r)
    BY <1>1 DEF LedgerInv
  <1>k. ASSUME pkg'.capacity = pkg.capacity, edited' = edited, Serving(r)'
        PROVE  LedgerInv'
    BY <1>0, <1>1, <1>k DEF LedgerInv
  <1>3. CASE UNCHANGED vars
    <2>1. UNCHANGED <<pkg, booking, req, edited>>
      BY <1>3 DEF vars
    <2> QED
      BY <2>1 DEF LedgerInv, Serving, ActiveBookings, LedgerStep
  <1>4. ASSUME booking' = booking PROVE ActiveBookings' = ActiveBookings
    BY <1>4 DEF ActiveBookings
  <1>5. CASE ReserveRead(r)
    <2>1. /\ UNCHANGED <<pkg, booking, edited>> /\ pkg.status = "open" /\ req[r].pc = "idle"
      BY <1>5 DEF ReserveRead, history
    <2>2. pkg.seatsTaken < pkg.capacity
      BY <1>0, <2>1 DEF SeatInv, RowAgrees
    <2>3. req'[r].pc = "reserveWrite" /\ req'[r].seen = pkg
      BY <1>0, <1>2, <1>5, <2>2, SlotEffects DEF ReserveRead, Pc, TypeOK
    <2>4. pkg.seatsTaken = held
      BY <1>2, <2>1 DEF Serving
    <2> QED
      BY <1>4, <1>k, <2>1, <2>2, <2>3, <2>4 DEF Serving, LedgerStep
  <1>6. CASE MarkFull(r)
    BY <1>2, <1>6 DEF MarkFull, Serving
  <1>7. CASE ReserveWrite(r)
    <2>1. /\ req[r].pc = "reserveWrite" /\ UNCHANGED <<booking, edited>>
          /\ WriteSeats(SeatsAfterReserve(req[r].seen))
      BY <1>7 DEF ReserveWrite, history
    <2>2. /\ pkg.seatsTaken = held /\ req[r].seen = pkg /\ pkg.status = "open"
          /\ pkg.seatsTaken < pkg.capacity
      BY <1>2, <2>1 DEF Serving
    <2>3. /\ pkg'.seatsTaken = held + 1 /\ pkg'.capacity = pkg.capacity
          /\ pkg'.status \in {"open", "full"}
      BY <1>0, <2>1, <2>2 DEF WriteSeats, SeatsAfterReserve, Package
    <2>4. req'[r].pc = "createBooking"
      BY <1>2, <1>7, SlotEffects DEF ReserveWrite, Pc, TypeOK
    <2>5. pkg'.seatsTaken <= pkg'.capacity
      BY <1>0, <2>2, <2>3
    <2> QED
      BY <1>4, <1>k, <2>1, <2>2, <2>3, <2>4, <2>5 DEF Serving, LedgerStep
  <1>8. ASSUME NEW b \in Bookings, CreateBooking(r, b)
        PROVE  LedgerInv' /\ LedgerStep
    <2>1. /\ req[r].pc = "createBooking" /\ ~Exists(b) /\ UNCHANGED <<pkg, edited>>
          /\ booking' = [booking EXCEPT ![b] = [status |-> "pending_payment", done |-> {}]]
      BY <1>8 DEF CreateBooking, history
    <2>2. /\ pkg.seatsTaken = held + 1 /\ pkg.status # "closed"
          /\ pkg.seatsTaken <= pkg.capacity
      BY <1>2, <2>1 DEF Serving
    <2>3. b \notin ActiveBookings /\ ActiveBookings' = ActiveBookings \union {b}
      BY <2>1 DEF ActiveBookings, Active, Exists, TypeOK
    <2>4. req'[r].pc = "idle"
      BY <1>2, <1>8, SlotEffects DEF CreateBooking, Pc, TypeOK
    <2>5. Cardinality(ActiveBookings') = held + 1 /\ held < InitCapacity
      BY <1>0, <2>2, <2>3, HeldSeats
    <2> QED
      BY <1>k, <2>1, <2>2, <2>3, <2>4, <2>5 DEF Serving, LedgerStep
  <1>9. ASSUME NEW b \in Bookings, CancelRead(r, b)
        PROVE  LedgerInv' /\ LedgerStep
    <2>1. /\ req[r].pc = "idle" /\ Exists(b) /\ UNCHANGED <<pkg, booking, edited>>
          /\ Start(r, IF booking[b].status = "cancelled" THEN "cancelWrite" ELSE "releaseRead", b)
      BY <1>9 DEF CancelRead, history
    <2>2. booking[b].status = "cancelled" <=> b \notin ActiveBookings
      BY <2>1 DEF ActiveBookings, Active, Exists, TypeOK, BookingRow, BookingStatus
    <2>3. /\ req'[r].target = b
          /\ req'[r].pc = IF booking[b].status = "cancelled" THEN "cancelWrite" ELSE "releaseRead"
      BY <1>2, <2>1, SlotEffects DEF Pc, TypeOK
    <2>4. pkg.seatsTaken = held
      BY <1>2, <2>1 DEF Serving
    <2> QED
      BY <1>4, <1>k, <2>1, <2>2, <2>3, <2>4 DEF Serving, LedgerStep
  <1>10. CASE ReleaseRead(r)
    <2>1. /\ req[r].pc = "releaseRead" /\ UNCHANGED <<pkg, booking, edited>>
      BY <1>10 DEF ReleaseRead, history
    <2>2. /\ req'[r].pc = "releaseWrite" /\ req'[r].target = req[r].target /\ req'[r].seen = pkg
      BY <1>2, <1>10, SlotEffects, SlotParts DEF ReleaseRead, Pc, TypeOK
    <2>3. pkg.seatsTaken = held /\ req[r].target \in ActiveBookings
      BY <1>2, <2>1 DEF Serving
    <2> QED
      BY <1>4, <1>k, <2>1, <2>2, <2>3 DEF Serving, LedgerStep
  <1>11. CASE ReleaseWrite(r)
    <2>1. /\ req[r].pc = "releaseWrite" /\ UNCHANGED <<booking, edited>>
          /\ WriteSeats(SeatsAfterRelease(req[r].seen))
      BY <1>11 DEF ReleaseWrite
    <2>2. pkg.seatsTaken = held /\ req[r].target \in ActiveBookings /\ req[r].seen = pkg
      BY <1>2, <2>1 DEF Serving
    <2>3. held # 0
      <3>1. PICK b : b \in ActiveBookings
        BY <2>2
      <3>2. /\ Cardinality(ActiveBookings \ {b}) + 1 = held
            /\ Cardinality(ActiveBookings \ {b}) \in Nat
        BY <3>1, HeldSeats
      <3> QED
        BY <3>2
    <2>4. /\ pkg'.seatsTaken + 1 = held /\ pkg'.capacity = pkg.capacity
          /\ (pkg'.status = "closed") = (pkg.status = "closed")
      BY <1>0, <2>1, <2>2, <2>3 DEF WriteSeats, SeatsAfterRelease, Package
    <2>5. req'[r].pc = "cancelWrite" /\ req'[r].target = req[r].target
      BY <1>2, <1>11, SlotEffects DEF ReleaseWrite, Pc, TypeOK
    <2> QED
      BY <1>4, <1>k, <2>1, <2>2, <2>4, <2>5 DEF Serving, LedgerStep
  <1>12. CASE CancelWrite(r)
    <2> DEFINE b == req[r].target
    <2>1. /\ req[r].pc = "cancelWrite" /\ UNCHANGED <<pkg, edited>>
          /\ booking' = [booking EXCEPT ![b].status = "cancelled"]
      BY <1>12 DEF CancelWrite, history
    <2>2. \/ b \in ActiveBookings /\ pkg.seatsTaken + 1 = held
          \/ b \in Bookings \ ActiveBookings /\ pkg.seatsTaken = held
      BY <1>2, <2>1 DEF Serving
    <2>3. b \in Bookings
      BY <2>2 DEF ActiveBookings
    <2> HIDE DEF b
    <2>4. ActiveBookings' = ActiveBookings \ {b}
      BY <2>1, <2>3 DEF ActiveBookings, Active, TypeOK, BookingRow
    <2>5. req'[r].pc = "idle"
      BY <1>2, <1>12, SlotEffects DEF CancelWrite, Pc, TypeOK
    <2>6. CASE b \in ActiveBookings /\ pkg.seatsTaken + 1 = held
      <3>1. Cardinality(ActiveBookings') = pkg.seatsTaken
        BY <1>0, <2>4, <2>6, HeldSeats
      <3> QED
        BY <1>k, <2>1, <2>3, <2>4, <2>5, <2>6, <3>1 DEF Serving, LedgerStep
    <2>7. CASE b \in Bookings \ ActiveBookings /\ pkg.seatsTaken = held
      <3>1. ActiveBookings' = ActiveBookings
        BY <2>4, <2>7
      <3> QED
        BY <1>k, <2>1, <2>5, <2>7, <3>1 DEF Serving, LedgerStep
    <2> QED
      BY <2>2, <2>6, <2>7
  <1>13. CASE ConfirmRead(r) \/ ConfirmWrite(r) \/ NotifyConfirmed(r) \/ GenerateChecklist(r)
    BY <1>2, <1>13 DEF ConfirmRead, ConfirmWrite, NotifyConfirmed, GenerateChecklist, Serving
  <1>14. CASE Close(r)
    <2>1. /\ req[r].pc = "idle" /\ UNCHANGED <<booking, req, edited>>
          /\ pkg' = [pkg EXCEPT !.status = "closed"]
      BY <1>14 DEF Close, history
    <2>2. /\ pkg'.status = "closed" /\ pkg'.seatsTaken = pkg.seatsTaken
          /\ pkg'.capacity = pkg.capacity
      BY <1>0, <2>1 DEF Package
    <2> QED
      BY <1>2, <1>4, <1>k, <2>1, <2>2 DEF Serving, LedgerStep
  <1>15. ASSUME NEW b \in Bookings, NEW k \in Steps, NEW isDone \in BOOLEAN,
                StepWrite(r, b, k, isDone)
         PROVE  FALSE
    BY <1>15 DEF StepWrite, Sequential
  <1>16. ASSUME Drop(r) \/ \E c \in NewCapacities : EditCapacity(r, c)
         PROVE  FALSE
    BY <1>16 DEF Drop, Sequential
  <1> QED
    BY <1>1, <1>3, <1>5, <1>6, <1>7, <1>8, <1>9, <1>10, <1>11, <1>12, <1>13, <1>14, <1>15, <1>16
       DEF Next, Call, Continue

LEMMA StepOfLedger ==
  ASSUME LedgerStep
  PROVE  [Ledger!Next]_<<ActiveBookings, pkg.status = "closed">>
  <1>1. Ledger!Cardinality(ActiveBookings) = Cardinality(ActiveBookings)
    BY DEF Ledger!Cardinality, Cardinality
  <1>2. CASE pkg'.status = "closed" /\ ActiveBookings' = ActiveBookings
    BY <1>2 DEF Ledger!Next, Ledger!Close
  <1>3. ASSUME (pkg'.status = "closed") = (pkg.status = "closed"), NEW b \in Bookings,
               pkg.status # "closed", b \notin ActiveBookings,
               Cardinality(ActiveBookings) < InitCapacity,
               ActiveBookings' = ActiveBookings \union {b}
        PROVE  Ledger!Take(b)
    BY <1>1, <1>3 DEF Ledger!Take
  <1>4. ASSUME (pkg'.status = "closed") = (pkg.status = "closed"),
               NEW b \in ActiveBookings, ActiveBookings' = ActiveBookings \ {b}
        PROVE  Ledger!Release(b)
    BY <1>4 DEF Ledger!Release
  <1> QED
    BY <1>2, <1>3, <1>4 DEF LedgerStep, Ledger!Next

\* As long as requests do not overlap, the counter, the bookings and the closing of the
\* package implement a ledger: a seat is taken for each booking while one is left and the
\* package is open, and given back once.
THEOREM SequentialSeatsImplementLedger ==
  ASSUME Sequential
  PROVE  Spec => ImplementsLedger
  <1>1. Init => LedgerInv
    <2> SUFFICES ASSUME Init PROVE LedgerInv
      OBVIOUS
    <2>1. ActiveBookings = {}
      BY DEF Init, ActiveBookings, Active, Absent
    <2>2. Cardinality(ActiveBookings) = 0
      BY <2>1, FS_EmptySet
    <2> QED
      BY <2>2 DEF Init, LedgerInv, Serving, NewPackage, Idle
  <1>2. Init => Ledger!Init
    BY DEF Init, Ledger!Init, ActiveBookings, Active, Absent, NewPackage
  <1>3. TypeOK /\ TargetInv /\ SeatInv /\ LedgerInv /\ [Next]_vars =>
          LedgerInv' /\ [Ledger!Next]_<<ActiveBookings, pkg.status = "closed">>
    BY LedgerMoves, StepOfLedger
  <1> QED
    BY <1>1, <1>2, <1>3, TypedTargets, SeatInvHolds, PTL
       DEF Spec, ImplementsLedger, Ledger!Spec
=============================================================================
