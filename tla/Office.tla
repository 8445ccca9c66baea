------------------------------- MODULE Office -------------------------------
(***************************************************************************)
(* The services of the back office and of the API that share no row with   *)
(* one another, side by side in one state machine: part, chosen once, is   *)
(* the one whose requests arrive, and the others keep their initial state. *)
(* Bookings is extended; the others are instances of their own.            *)
(***************************************************************************)
EXTENDS Bookings

CONSTANTS
  Tickets, Clients, Ttl, MaxNow,                              \* of Realtime
  Disputes, DisputeRequests, ResponseDays, Retention,         \* of Disputes
  AgencyRequests, MaxPackages, MaxTokens,                     \* of Agencies
  ReviewRequests, ReviewBookings, Ratings, Threshold, MinReviews,  \* of Reputation
  Reviewers, QuizRequests, MaxVersion, MaxAttempts,           \* of Moderation
  Trips, LastTripDay, Seats, PilgrimsPerGuide, Guides,        \* of Capacity
  Prices, Rates, Costs, FixedCosts, Capacities,               \* of Profitability
  Payments, Amount, Price, LastBooksDay, Departures, Month, DueDays, Plans,  \* of Treasury
  DocRequests, Docs, Types,                                   \* of Documents
  None

VARIABLES
  part,
  now, exp, consommes, client, timers, excused,
  dispute, disputeReq,
  decision, packages, unapproved, overtaken, token, drawn, shown, crossed, agencyReq,
  status, rating, approved, reviewReq,
  sheet, seen, blind, question, attempts, made, raced, quizReq,
  trips,
  hypotheses, rate,
  today, pays, closed, exported, moved, departure, plan,
  docs, step, earned, dropped, docReq

Rea == INSTANCE Realtime

Dis == INSTANCE Disputes WITH req <- disputeReq, Requests <- DisputeRequests

Agc == INSTANCE Agencies WITH req <- agencyReq, Requests <- AgencyRequests

Rep == INSTANCE Reputation WITH req <- reviewReq, Requests <- ReviewRequests,
  Bookings <- ReviewBookings

Mod == INSTANCE Moderation WITH req <- quizReq, Requests <- QuizRequests

Cap == INSTANCE Capacity WITH LastDay <- LastTripDay

Pro == INSTANCE Profitability

Tre == INSTANCE Treasury WITH LastDay <- LastBooksDay

Doc == INSTANCE Documents WITH req <- docReq, Requests <- DocRequests

\* What the parts take for granted: delays, days, capacities and amounts are numbers,
\* there are finitely many trips, payments and reviews, a guide leads somebody, months and
\* periods last, ratings are positive, "nothing" is no number and no row, and the
\* checklist asks for some document.
ASSUME OfficeAssumption ==
  /\ Ttl \in Nat
  /\ ResponseDays \in Nat /\ Retention \in Nat /\ None \notin Dis!Row
  /\ Types # {}
  /\ LastBooksDay \in Nat
  /\ IsFiniteSet(Trips) /\ LastTripDay \in Nat /\ Seats \subseteq Nat
  /\ PilgrimsPerGuide \in Nat \ {0} /\ Guides \in Nat
  /\ IsFiniteSet(Payments) /\ Amount \in Nat /\ Price \in Nat
  /\ IsFiniteSet(Departures) /\ Departures \subseteq Nat
  /\ Month \in Nat \ {0} /\ DueDays \in Nat
  /\ Plans \subseteq [next : Nat, period : Nat \ {0}, amount : Nat]
  /\ None \notin Nat /\ Capacities \subseteq Nat
  /\ IsFiniteSet(ReviewBookings) /\ IsFiniteSet(Ratings) /\ Ratings # {}
  /\ Ratings \subseteq Nat \ {0} /\ Threshold \in Nat /\ MinReviews \in Nat
  /\ \A amounts \in {Prices, Rates, Costs, FixedCosts} : amounts \subseteq Nat

-----------------------------------------------------------------------------
Parts == {"bookings", "realtime", "disputes", "agencies", "reputation", "moderation", "capacity",
          "profitability", "treasury", "documents"}

OfficeInit ==
  /\ part \in Parts
  /\ Init /\ Rea!Init /\ Dis!Init /\ Agc!Init /\ Rep!Init /\ Mod!Init /\ Cap!Init
  /\ Pro!Init /\ Tre!Init /\ Doc!Init

OfficeNext ==
  /\ UNCHANGED part
  /\ IF part = "bookings" THEN Next ELSE UNCHANGED vars
  /\ IF part = "realtime" THEN Rea!Next
     ELSE UNCHANGED <<now, exp, consommes, client, timers, excused>>
  /\ IF part = "disputes" THEN Dis!Next ELSE UNCHANGED <<dispute, disputeReq>>
  /\ IF part = "agencies" THEN Agc!Next
     ELSE UNCHANGED <<decision, packages, unapproved, overtaken, token, drawn, shown,
                      crossed, agencyReq>>
  /\ IF part = "reputation" THEN Rep!Next ELSE UNCHANGED <<status, rating, approved, reviewReq>>
  /\ IF part = "moderation" THEN Mod!Next
     ELSE UNCHANGED <<sheet, seen, blind, question, attempts, made, raced, quizReq>>
  /\ IF part = "capacity" THEN Cap!Next ELSE UNCHANGED trips
  /\ IF part = "profitability" THEN Pro!Next ELSE UNCHANGED <<hypotheses, rate>>
  /\ IF part = "treasury" THEN Tre!Next
     ELSE UNCHANGED <<today, pays, closed, exported, moved, departure, plan>>
  /\ IF part = "documents" THEN Doc!Next ELSE UNCHANGED <<docs, step, earned, dropped, docReq>>

officeVars ==
  <<part, vars, now, exp, consommes, client, timers, excused, dispute, disputeReq, decision,
    packages, unapproved, overtaken, token, drawn, shown, crossed, agencyReq, status,
    rating, approved, reviewReq, sheet, seen, blind, question, attempts, made, raced,
    quizReq, trips, hypotheses, rate, today, pays, closed, exported, moved, departure,
    plan, docs, step, earned, dropped, docReq>>

OfficeSpec == OfficeInit /\ [][OfficeNext]_officeVars

\* The fairness of the parts that have some: the event loop and the timers of the
\* gateways; for the disputes, days pass and the purge runs every night.
OfficeFairness == Rea!Fairness /\ Dis!Fairness

-----------------------------------------------------------------------------
(* Properties: those of the parts *)

\* A ticket admits one socket, however many present it.
TicketServesOnce == part = "realtime" => Rea!TicketServesOnce

\* What must end does end: a socket after its fifteen minutes, the data of a dispute
\* that stays closed with the purge.
NothingLingers == Rea!SocketsEnd /\ Dis!ClosedIsPurged

\* Nobody reaches the administration before the agency had its say, and it decides
\* nothing it was not asked.
ArbitrationIsEarned == part = "disputes" => Dis!ArbitrationIsEarned

\* Whatever has read the escalation, or the closing, of a dispute leaves it standing.
VerdictsStand == Dis!VerdictsStand

\* The link an owner has shared opens the calendar or the family view until he
\* renews it.
SharedLinkOpens == part = "agencies" => Agc!SharedLinkOpens

\* A trust score moves the way the facts do.
ScoreIsFair == Rep!ScoreIsFair

\* Pilgrims only read what was reviewed, lose no attempt at a question that was, and
\* only buy from an agency that was approved.
ReviewComesFirst ==
  /\ part = "moderation" => Mod!ReviewComesFirst
  /\ part = "agencies" => Agc!SalesAreApproved

\* The capacity simulation finds the worst day, the profitability one the break-even
\* point.
SimulationsAreExact ==
  /\ part = "capacity" => Cap!PeakIsTheWorstDay
  /\ part = "profitability" => Pro!BreakEvenIsExact

\* The journals of an agency neither lose nor repeat an entry, and the projection of
\* its receipts adds up to what is owed.
BooksAddUp == part = "treasury" => Tre!BooksAddUp

\* The DOCUMENTS step of the checklist follows the documents.
StepFollowsDocuments == part = "documents" => Doc!StepFollowsDocuments
=============================================================================
