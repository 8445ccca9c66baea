------------------------------ MODULE Reputation ------------------------------
(***************************************************************************)
(* The reviews of one agency and the trust score it gets from them and     *)
(* from the outcome of its bookings: ReviewsService.  A booking has one    *)
(* review, which a read checks and a unique index enforces.  Nothing in    *)
(* the code completes a booking: the status exists, and is counted.        *)
(*                                                                         *)
(* A definition commented "Mutant" is no part of the specification.        *)
(***************************************************************************)
EXTENDS Integers, FiniteSetsExt

CONSTANTS
  Requests,   \* slots for the requests in flight
  Bookings, Ratings,
  Threshold, MinReviews,  \* of the trusted badge
  None        \* no score

\* rating: 0 when the booking has no review; approved: by an administrator.
VARIABLES status, rating, approved, req
vars == <<status, rating, approved, req>>

Idle == [pc |-> "idle"]

Init ==
  /\ status = [b \in Bookings |-> "confirmed"] /\ rating = [b \in Bookings |-> 0]
  /\ approved = FALSE
  /\ req = [r \in Requests |-> Idle]

Cancel(b) ==
  /\ status[b] = "confirmed"
  /\ status' = [status EXCEPT ![b] = "cancelled"]
  /\ UNCHANGED <<rating, approved, req>>

\* approve, reject
Decide == approved' = ~approved /\ UNCHANGED <<status, rating, req>>

Reviewable == {"confirmed", "completed"}

CreateRead(r, b, n) ==
  /\ req[r] = Idle /\ status[b] \in Reviewable /\ rating[b] = 0
  /\ req' = [req EXCEPT ![r] = [pc |-> "create", booking |-> b, rating |-> n]]
  /\ UNCHANGED <<status, rating, approved>>

\* The unique index refuses a second review.
CreateWrite(r) ==
  /\ req[r].pc = "create"
  /\ rating' = [rating EXCEPT ![req[r].booking] = IF @ = 0 THEN req[r].rating ELSE @]
  /\ req' = [req EXCEPT ![r] = Idle]
  /\ UNCHANGED <<status, approved>>

Next ==
  \/ \E b \in Bookings : Cancel(b)
  \/ Decide
  \/ \E r \in Requests : CreateWrite(r) \/ \E b \in Bookings, n \in Ratings : CreateRead(r, b, n)

Spec == Init /\ [][Next]_vars

-----------------------------------------------------------------------------
(* The trust score, over 100, in exact arithmetic *)

Reviewed == {b \in Bookings : rating[b] # 0}
Count(s) == Cardinality({b \in Bookings : status[b] = s})
ReviewCount == Cardinality(Reviewed)
RatingSum == FoldSet(LAMBDA b, n : rating[b] + n, 0, Reviewed)
Concluded == Count("completed") + Count("cancelled")

Round(n, d) == (2 * n + d) \div (2 * d)

\* Mutant: a bad outcome counts as a good one.
CompletedAny == Concluded

Completed == Count("completed")

\* REVIEW_WEIGHT and COMPLETION_WEIGHT when both are known, else the one that is.
Score ==
  IF ReviewCount > 0 /\ Concluded > 0
    THEN Round(12 * RatingSum * Concluded + 40 * Completed * ReviewCount, ReviewCount * Concluded)
  ELSE IF ReviewCount > 0 THEN Round(20 * RatingSum, ReviewCount)
  ELSE IF Concluded > 0 THEN Round(100 * Completed, Concluded)
  ELSE None

Badge ==
  IF ~approved THEN None
  ELSE IF Score # None /\ Score >= Threshold /\ ReviewCount >= MinReviews THEN "trusted"
  ELSE "verified"

-----------------------------------------------------------------------------
(* Properties *)

\* What pilgrims decide on may only move the way the facts do: a best review never
\* lowers a score nor takes a badge away, a booking cancelled or one more of the worst
\* reviews never raises it, and no review is ever replaced.
ScoreIsFair ==
  [][LET best == \E b \in Bookings : rating[b] = 0 /\ rating'[b] = Max(Ratings)
         worst == \E b \in Bookings : rating[b] = 0 /\ rating'[b] = Min(Ratings)
     IN  Score # None =>
           /\ best => Score' >= Score /\ (Badge = "trusted" => Badge' = "trusted")
           /\ (worst /\ ReviewCount > 0) \/ Count("cancelled")' > Count("cancelled") =>
                Score' <= Score
           /\ \A b \in Reviewed : rating'[b] = rating[b]]_vars
=============================================================================
