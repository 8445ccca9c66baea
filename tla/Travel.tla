------------------------------- MODULE Travel -------------------------------
(***************************************************************************)
(* The services of the pilgrims' journey that share no row with one        *)
(* another, side by side in one state machine, as in Office: part, chosen  *)
(* once, is the one whose requests arrive.  Invoices is extended; the      *)
(* others are instances of their own.                                      *)
(***************************************************************************)
EXTENDS Invoices, FiniteSets

CONSTANTS
  MaxAttempts, MaxCodes, MaxSessions, MaxPasswords, MaxLinks,  \* of Accounts
  Pilgrims, Owners, Guides, Admins, Groups, Pilgrim, Owner,    \* of Access
  PlannedGuides, Absences, LastDay,                            \* of GuidePlanning
  GroupBookings, Guide,                                        \* of Groups
  Agency, MaxMessages,                                         \* of Messaging
  Shifts, Horizon, MaxShift, Take, Trip,                       \* of OnCall
  MaxStamp,                                                    \* of Progress
  MaxDay, Period, Departures, DueDays, Offsets                 \* of Savings

VARIABLES
  part,
  user, agency, codes, sessions, link, accountReq,
  suspended, placed, joined, ledBy, dispute, cancelled, socket,
  guideOf, dates, absence, busy, assignReq,
  member, groupOf, positions, consent, inFlight, groupReq,
  guide, threads, messages, takenOver, messageReq,
  shift, shiftReq,
  kind, row, newest, since, overlap, itemReq,
  today, departure, plan, wanted, started, asked, settled, withdrawn, job, ran, recall,
  stale, failed

Acc == INSTANCE Accounts WITH req <- accountReq

Axs == INSTANCE Access WITH groupOf <- placed, member <- joined, guideOf <- ledBy

Pla == INSTANCE GuidePlanning WITH excused <- busy, req <- assignReq, Guides <- PlannedGuides

Grp == INSTANCE Groups WITH wanted <- consent, excused <- inFlight, req <- groupReq,
  Bookings <- GroupBookings

Mes == INSTANCE Messaging WITH req <- messageReq

Onc == INSTANCE OnCall WITH req <- shiftReq

Prg == INSTANCE Progress WITH stale <- overlap, req <- itemReq

Sav == INSTANCE Savings WITH cancelled <- withdrawn

\* What the parts take for granted: the rows of a table are finitely many, each with an
\* identifier of its own, the attempts at a code are limited, "nothing" is no row,
\* days and hours are numbers, the reminder offsets a finite list of them, and a user has
\* the one role of its account.
ASSUME TravelAssumption ==
  /\ IsFiniteSet(Requests) /\ IsFiniteSet(Groups) /\ IsFiniteSet(Absences) /\ IsFiniteSet(Shifts)
  /\ Groups \intersect Absences = {} /\ MaxAttempts \in Nat \ {0}
  /\ None \notin [role : Acc!OtpRoles \union Acc!ResetRoles, active : BOOLEAN, password : Nat]
  /\ None \notin [done : BOOLEAN, count : Nat, stamp : Nat]
  /\ Period \in Nat \ {0} /\ Departures \subseteq Nat /\ DueDays \in Nat
  /\ Offsets \subseteq Nat \ {0} /\ IsFiniteSet(Offsets) /\ Offsets # {}
  /\ LastDay \in Nat /\ Horizon \in Nat /\ Take \in Nat \ {0} /\ Trip \in [from : Nat, to : Nat]
  /\ None \notin [user : Axs!Users, room : Axs!Rooms, joined : BOOLEAN, moved : BOOLEAN]
  /\ Pilgrim \in Pilgrims /\ Owner \in Owners /\ None \notin Axs!Users \union Groups \union Mes!Users
  /\ Pilgrims \intersect (Owners \union Guides \union Admins) = {}
  /\ Owners \intersect (Guides \union Admins) = {} /\ Guides \intersect Admins = {}

-----------------------------------------------------------------------------
Parts == {"invoices", "accounts", "access", "planning", "groups", "messaging", "oncall",
          "progress", "savings"}

TravelInit ==
  /\ part \in Parts
  /\ Init /\ Acc!Init /\ Axs!Init /\ Pla!Init /\ Grp!Init /\ Mes!Init /\ Onc!Init
  /\ Prg!Init /\ Sav!Init

TravelNext ==
  /\ UNCHANGED part
  /\ IF part = "invoices" THEN Next ELSE UNCHANGED vars
  /\ IF part = "accounts" THEN Acc!Next
     ELSE UNCHANGED <<user, agency, codes, sessions, link, accountReq>>
  /\ IF part = "access" THEN Axs!Next
     ELSE UNCHANGED <<suspended, placed, joined, ledBy, dispute, cancelled, socket>>
  /\ IF part = "planning" THEN Pla!Next
     ELSE UNCHANGED <<guideOf, dates, absence, busy, assignReq>>
  /\ IF part = "groups" THEN Grp!Next
     ELSE UNCHANGED <<member, groupOf, positions, consent, inFlight, groupReq>>
  /\ IF part = "messaging" THEN Mes!Next
     ELSE UNCHANGED <<guide, threads, messages, takenOver, messageReq>>
  /\ IF part = "oncall" THEN Onc!Next ELSE UNCHANGED <<shift, shiftReq>>
  /\ IF part = "progress" THEN Prg!Next
     ELSE UNCHANGED <<kind, row, newest, since, overlap, itemReq>>
  /\ IF part = "savings" THEN Sav!Next
     ELSE UNCHANGED <<today, departure, plan, wanted, started, asked, settled, withdrawn,
                      job, ran, recall, stale, failed>>

travelVars ==
  <<part, vars, user, agency, codes, sessions, link, accountReq, suspended, placed, joined,
    ledBy, dispute, cancelled, socket, guideOf, dates, absence, busy, assignReq, member,
    groupOf, positions, consent, inFlight, groupReq, guide, threads, messages, takenOver,
    messageReq, shift, shiftReq, kind, row, newest, since, overlap, itemReq, today,
    departure, plan, wanted, started, asked, settled, withdrawn, job, ran, recall, stale,
    failed>>

TravelSpec == TravelInit /\ [][TravelNext]_travelVars

-----------------------------------------------------------------------------
(* Properties: those of the parts *)

\* A one-time code opens one session, and its guesses are counted.
CodesAreGuarded == part = "accounts" => Acc!CodesAreGuarded

\* A new password closes the sessions of the account.
SessionsEndWithPassword == part = "accounts" => Acc!SessionsEndWithPassword

\* An account keeps the role it was made with.
AccountKeepsRole == Acc!AccountKeepsRole

\* The checks, the lists and the contacts of a dossier agree on who is concerned.
AccessIsConsistent == part = "access" => Axs!AccessIsConsistent

\* A socket only listens to a room its user could read.
ListenersHadAccess == part = "access" => Axs!ListenersHadAccess

\* A guide does not lead two groups at once, and a conflict that appears is shown.
GuidesAreFree == part = "planning" => Pla!GuideLeadsOneGroup /\ Pla!ScheduleShowsConflicts

\* A booking is never put in a group before its pilgrim.
BookingIsInItsGroup == part = "groups" => Grp!BookingIsInItsGroup

\* No position is kept beyond the consent of its owner.
PositionsAreConsented == part = "groups" => Grp!PositionsAreConsented

\* What a user finds, may open and has read of the two threads agree.
ThreadsReachTheirReaders == part = "messaging" => Mes!ThreadsReachTheirReaders

\* The rota is valid and says who can be called.
RotaIsSound == part = "oncall" => Onc!RotaIsSound

\* In whatever order items arrive, the newest one wins.
NewestItemWins == part = "progress" => Prg!NewestItemWins

\* One installment is asked for a period.
InstallmentsFollowPlan == part = "savings" => Sav!InstallmentsFollowPlan

\* An unpaid balance is recalled on each of the days it should be.
RemindersArrive == part = "savings" => Sav!RemindersArrive
=============================================================================
