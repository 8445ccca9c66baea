# Formal models of the Oumra/Hajj backend

TLA+ models of the parts of this backend whose correctness depends on the order in which
things happen, on a limit being reached, or on several pieces of code agreeing with one
another: seats and dossiers, payments and refunds, invoices, rooms, disputes, accounts and
sessions, access, groups and guides, messages, documents, synchronisation, savings, and the
calculations an agency relies on. TLC checks them on small instances, TLAPS proves the
invariants that matter most for every value of the constants. `PROJECT.json` lists the runs,
the mutants, the correspondence with the source line by line, the hazards and the theorems.

## 1. The system and how it runs

A NestJS application over PostgreSQL (Prisma). Pilgrims book packages of agencies, pay in
installments through a provider, send documents, travel in groups led by guides; agencies
manage offers, rooms, invoices; an administration validates agencies and arbitrates disputes.

Facts about the execution that every model rests on:

- **One Node process** (`docs/adr`, ADR 0024). Handlers are asynchronous functions that
  interleave at every `await`; between two awaits a handler runs alone. A handler in flight is
  a *program counter* and the rows it has read. Everything in memory is lost in a crash.
- **Single statements are atomic, sequences of them are not.** Almost no handler opens a
  transaction: it reads a row, decides, and writes by identifier alone. The exceptions are
  `RoomsService.assign` and `BillingService.emettre` (a transaction holding a row lock taken by
  `SELECT ... FOR UPDATE`), `RefundPolicyService.replaceForOwner` and
  `PasswordResetService` (a list of statements in one transaction). Isolation is PostgreSQL's
  default, READ COMMITTED, since nothing sets another.
- **A failure** (exception, lost connection, end of the process) leaves what was written and
  drops the rest of the handler; an open transaction is rolled back and its locks released.
- **Callbacks** from the payment provider come when they come: repeated, late, out of order.
- **Crons** (checklist and balance reminders, savings, purge of disputes) run as handlers do;
  one that is down at its hour misses its day.

### Inventory

| Component | State | Operations | Interacts with | What is hard | Correct when |
|---|---|---|---|---|---|
| packages | package row: status, seatsTaken, capacity, price, dates | create, update, close, reserveSeat, releaseSeat | called by bookings | read then write of the counter, stale status, capacity edited | counter and status agree; a seat per active booking |
| bookings | booking row, steps of the dossier | create, cancel, updateStep, markStepDone, maybeConfirm, family link, assignGroup | packages, checklist, notifications, groups; called by payments and documents | several awaits per handler, failures between them | confirmed only if complete; cancelled only if released |
| checklist | items of a dossier | generate, tick, reminders | called by bookings | not idempotent | generated after the notice |
| payments | payment rows | initiate, handleWebhook, requestRefund, reconcile | provider, bookings, refund policy | callbacks out of order, provider called before or between writes | nothing paid or refunded without a settled charge |
| refund policy | tiers of an agency, snapshot on a booking | replaceForOwner, contextFor, eligibilite | bookings, payments | overlapping transactions, boundaries of days | consistent schedule; terms frozen whole; rate only falls |
| savings plan, balance reminders | plan of a booking | setup, two daily crons | payments | missed days, failure between payment and new date | one installment per period; every reminder reaches who owes |
| accounting export, treasury | none of their own | export of a period, projection | payments | a receipt whose date moves | every entry once; the projection is what is owed |
| rooms | block, assignments | createBlock, updateBlock, deleteBlock, assign, unassign | bookings, packages | lock covers a part of what is decided | no room over its beds |
| billing | invoices | getInvoice, emettre, getContract | audit, packages | numbering under a lock, swallowed conflict | numbers without gap, final invoices |
| disputes | dispute, messages | create, addMessage, resolve, escalate, decide, purge | notifications | blind writes of a computed status | escalation earned, verdicts stand |
| auth, password reset, users | accounts, codes, refresh tokens, links | requestOtp, verifyOtp, login, refresh, logout, requestReset, resetPassword | agencies | check then delete; sessions issued meanwhile | one code, one session; sessions end with the password |
| realtime | consumed tickets, open sockets (in memory) | issue, consume, register, disconnectUser | auth, messaging, community | lost in a restart, timers | a ticket serves once; sockets end |
| messaging, community | conversations, messages, read marks | send, list, join a room | groups, bookings, notifications | participants change | messages reach the participants of the moment |
| groups, guide planning | groups, members, locations, absences | assignGuide, addMember, location, SOS; absences | packages, notifications | availability checked, then written | one guide, one group at a time; no position without consent |
| on-call | shifts | create, update, delete, coverage | bookings | sweep over overlapping intervals | gaps are exactly what no shift covers |
| rites, micro-courses | progress per pilgrim, sheets | syncBatch, resetCounter, edition and validation of sheets | – | late batches; validation of an edited sheet | the newest item stays; what is read was reviewed |
| documents, storage | documents and files | upload, validate, reject, signed links | bookings | step derived from several rows | DOCUMENTS done when all types were validated |
| agencies | agency, guides, packages, links | register, approve, reject, addGuide, calendar link | everything | registration in two writes, decisions that cross | no sale before approval |
| capacity, profitability | none | simulations | packages | overlapping trips, rounding | the worst day, the exact break-even |
| quiz, reviews | questions, attempts, reviews | propose, validate, reject, answer; review, score | bookings | deletion after validation, thresholds | reviewed first; a score moves as the facts do |
| guards | none | roles and suspension | every controller | each service repeats the check in its own way | they agree on who is concerned |
| notifications, audit, admin, budget, calendar feed, directory, emergency numbers, health | rows written once, or none | reads, single writes | – | – | – |

`PROJECT.json` gives every component with its status; section 6 says what is left out.

## 2. Modules

| Module | Role | Run | Proofs |
|---|---|---|---|
| `SeatLedger` | abstract: who holds a seat of a package | OfficeRaces | `BookingsProofs` |
| `Bookings` | PackagesService + BookingsService + the generated checklist, on one package | SeatRaces, DossierRaces, OfficeRaces | `BookingsProofs` |
| `PaymentLifecycle` | abstract: what a payment goes through | OneRefundAtATime | `PaymentsProofs` |
| `Payments` | PaymentsService and its provider, on one booking | PaymentRaces, OneRefundAtATime | `PaymentsProofs` |
| `RefundPolicy` | RefundPolicyService, `eligibilite`, the snapshot of one booking | RefundTerms | `RefundPolicyProofs` |
| `Rooms` | RoomsService, on one block | RoomRaces | `RoomsProofs` |
| `Invoices` | BillingService, several agencies | TravelRaces | `InvoicesProofs` |
| `Disputes` | DisputesService and DisputePurgeService, on one booking | OfficeRaces, EscalationUndone | `OfficeProofs` |
| `Accounts` | AuthService, PasswordResetService, what creates accounts: one email address | TravelRaces | `TravelProofs` |
| `Access` | the roles of the controllers against the checks of the services, on one dossier | TravelRaces | `TravelProofs` |
| `GuidePlanning` | assignGuide, absences, moved dates, the conflicts shown | TravelRaces | `TravelProofs` |
| `Groups` | members, the group of a booking, shared positions, the family's view | TravelRaces | `TravelProofs` |
| `Messaging` | the two threads of one booking and the inbox | TravelRaces | `TravelProofs` |
| `OnCall` | shifts, gaps of the rota, whom a pilgrim may call | TravelRaces | `TravelProofs` |
| `Progress` | RiteProgressService and MicroCoursesService, one item | TravelRaces | `TravelProofs` |
| `Savings` | the savings plan, its cron, the balance reminders | TravelRaces | `TravelProofs` |
| `Realtime` | tickets, sockets, timers, a restart | OfficeRaces | `OfficeProofs` |
| `Agencies` | decisions of the administration, sales, shared links | OfficeRaces | `OfficeProofs` |
| `Reputation` | reviews, trust score and badge | OfficeRaces | `OfficeProofs` |
| `Moderation` | rite sheets and quiz questions | OfficeRaces | `OfficeProofs` |
| `Documents` | the file of a booking and the DOCUMENTS step | OfficeRaces | `OfficeProofs` |
| `Treasury` | the exported journals and the projection of receipts | OfficeRaces | `OfficeProofs` |
| `Capacity`, `Profitability` | the two simulations of an agency | OfficeRaces | `OfficeProofs` |
| `Storage` | file names and signed links of the local disk | FreshLinksServe | |
| `Office`, `Travel` | compositions, see below | OfficeRaces, TravelRaces | `OfficeProofs`, `TravelProofs` |
| `FoldTheorems` | least and greatest elements, sums over finite sets | | itself |
| `MC...` | definitions of constants, symmetries and initial states for TLC | | |

Conventions. An action is one database access (or one call to the provider) with everything
the handler does up to its next `await`: `...Read` starts a handler and keeps in `req` what it
has read, `...Write` is the statement computed from it. `req[r].pc` names the *next* access.
`Continue(r)` is the disjunction of the steps of a handler already called, `Drop`, `Abort` and
`Stop` its failure. History variables (marked *history*, or named in the comment of the
VARIABLES) record what the code does not store. A definition commented `Mutant` is no part of a
specification: it is the next definition with a plausible bug, and shows that a property would
notice. A module describes one package, booking, block, address, agency or offer when such
rows do not meet; the module's header says which.

### Compositions

`Office` extends Bookings and `Travel` extends Invoices; the other modules are instances in
them, with variables of their own. They share no row, so nothing is lost by not interleaving
them: `part`, chosen once, says which of them moves, and the others keep one of their initial
states. An invariant `part = "x" => X!Inv` is then the invariant of module X, over all of its
behaviours with the constants of the INSTANCE; an action property or a liveness property needs
no condition on `part`, since a part that stands still satisfies it. `MCOffice` and `MCTravel`
give the constants small values and fix the initial state of the parts that are not chosen, so
that TLC does not explore one part again for each initial state of the others; the proofs are
about `OfficeSpec` and `TravelSpec`, which have no such restriction. What the services do share
is modelled inside one module: a booking and its package in `Bookings`, a booking and its
provider in `Payments`, the booking, the group, the guide and the dispute in `Access`, the
booking and its group in `Groups`, the plan, the job and the balance in `Savings`.

### Bookings

`pkg` is the package row, `booking` the rows with the set of steps that are DONE, `req` the
requests. `create` is `ReserveRead` (the refusals of `reserveSeat`), then `MarkFull`, or
`ReserveWrite` and `CreateBooking`; `cancel` is `CancelRead`, `ReleaseRead`, `ReleaseWrite`,
`CancelWrite`; a step update is `StepWrite`, `ConfirmRead`, `ConfirmWrite`, `NotifyConfirmed`,
`GenerateChecklist`. `Close` and `EditCapacity` are single blind writes. The generation of a
checklist reads data no handler of the model changes and inserts with one statement, so it is
one action.

### Payments

`payment` holds the rows, `provider`, `callbacks` and `refunds` are the provider: external, it
settles a charge once, reports truthfully and may deliver any callback it ever sent any number
of times, in any order. `initiate` is `CountPayments`, `ProviderInitiate`, `CreatePayment`;
`handleWebhook` is `Webhook` then `Reconcile` and `MarkStep`; `requestRefund` is `RefundRead`,
`RefundRate`, `RefundCall`, `RefundWrite`. The webhook's two statements are one action: rows
are never deleted and its write does not depend on what it read. `BookingMoves` stands for
what Bookings does to the status. With `Orderly` the provider sends one callback per charge.
The price of the package is constant here; Invoices changes it.

### RefundPolicy

`tiers` are the committed rows, `edit` the transactions under way. READ COMMITTED is modelled
by what it does here: a DELETE sees the rows committed when it starts (`seen`), waits for rows
another transaction holds, skips rows it finds gone; an INSERT waits for, and fails on, a
threshold that is already there. `ReadSchedule` and `CreateBooking` are the two ends of
`BookingsService.create` that matter here. Dates are a countdown in whole days, as
`joursAvantDepart` makes them.

### Rooms, Invoices, Disputes

`assign` is `AssignRead` (outside the transaction: the block and its number of rooms),
`LockBlock`, `ChooseRoom`, `PlaceBooking`. `updateBlock` and `deleteBlock` read, then write,
and their write waits for the row lock. `unassign` is one statement on another table, which
the lock does not cover; `CancelBooking` leaves the placement in place, as the code does.

`getInvoice` is `GetInvoice` (dossier, price and year are read), `LockAgency`, `NextNumber`,
`InsertInvoice` (insert and commit, or a swallowed P2002), `RecordIssue`. `UpdatePrice` and
`NewYear` happen at any moment.

In Disputes each handler is a read that decides and a write by identifier. Ages saturate at the
last value compared (`ResponseDays`, `Retention`). A purged row's slot is taken again only when
no request means it, since identifiers are not used twice. `create` looks for an active dispute
and inserts in two steps.

### Accounts and Realtime

One email address. `requestOtp` is `DeleteCodes`, `CreateCode`; `verifyOtp` is `VerifyRead`,
then `CountMiss`, or `SpendCode`, `FindUser`, `SignUp` (or the account found) and `IssueTokens`;
`login`, `refresh`, `logout`, the two ends of a password reset, registration of an agency and
addition of a guide are the other paths to the same rows. `password` counts the passwords the
account has had, and a session remembers the one it was opened under. `findValidRefreshToken`
compares with bcrypt, which looks at 72 bytes; the tokens of one account begin with more than
that in common, so `FindSession` may pick *any* open session of the account.

`Realtime` has a clock, because what it is about is a comparison of ends: a ticket is verified
(`Verify`), consumed (`Consume`, with the purge of entries that have lapsed) and the socket
registered with its timer (`Register`). `Restart` empties the memory of the process.

### Access

Each service checks ownership in its own terms, each controller asks for roles, and each list
is a query of its own. `...Readers` translate the checks, `...Routes` give for every route of a
controller, or group of routes alike, the roles and the check; `May(u, routes)` is what is left
to a user, after suspension. The dossier moves (group, guide, dispute, cancellation), and so
does a socket between its check and its room. A route whose service asks nothing more has
`Users` as its check.

### Groups, GuidePlanning, OnCall, Messaging

`Groups` follows membership, the group of a booking and positions by separate statements; a
position upsert under way when its owner stops sharing is marked `excused`. `GuidePlanning` has
the two checks of `assignGuide` as separate reads (`FindGroup`, `FindAbsence`) before
`AssignWrite`, and packages that move without asking anyone. `OnCall` folds
`trousDeCouverture` over the sorted shifts. `Messaging` works the participants out again at
every request.

### Progress, Savings, Moderation, Documents, Agencies, Reputation

`Progress` is one row and the items that reach it; `newest` and `since` are history. `Savings`
counts days; a departure is in thirds of a day, since it has an hour and the jobs run at 8 and
10; the savings job may miss days and die between the payment and the date. In `Moderation` a
reviewer validates an identifier, not a version. `Documents` splits validation in write,
reading of the file, and mark. `Reputation` has no completion, since nothing in the code
completes a booking. `Agencies` treats the calendar link and the family link alike, as the code
of both is the same.

### Treasury, Capacity, Profitability

Calculations. `Capacity` cuts the calendar at the bounds of the trips, as the code does, and is
compared with the definition day by day; `Profitability` finds the break-even by division
and is compared with the margins themselves; `Treasury` walks over the installments to come and
the exported days.

## 3. What the runs check

Runs marked ✗ are disagreements between the code and what a comment, a document or a test of
the repository says; each is a finding in `PROJECT.json` with the quotation.

| Run | Question | Answer |
|---|---|---|
| SeatRaces | Reservations, cancellations, closures and editions of the capacity overlap and die half-way | status and counter agree until the capacity is edited; the counter stays within what was ever offered; a visible cancellation gave its seat back |
| DossierRaces | Steps set and unset by three overlapping requests, with creations and cancellations | a confirmation was earned; a dossier that stays complete leaves `pending_payment` |
| OverbookedByRace ✗ | No more active bookings than seats? | two reservations of one read both pass |
| PaymentRaces | Callbacks in any order, refunds, failures | receipts and refunds are backed by a charge, the step was covered |
| OneRefundAtATime | One initiation and one refund at a time, orderly callbacks that may overlap | implements `PaymentLifecycle`; installments that cover the price mark the step |
| RefundReplay ✗ | Refunded once? | a success delivered again after the refund makes it refundable again |
| RefundTerms | Two editors, every list of at most two tiers, a departure that moves | whole terms and a rate that only falls until replacements overlap |
| RoomRaces | Placements, removals, resizings, deletions, rollbacks | no room over its beds; every request is answered; occupied rooms stay until a placement meets a change of the block |
| EscalationUndone ✗ | Does a dispute stay escalated? | a message read before the escalation and written after it undoes it |
| FreshLinksServe ✗ | Does a link serve its file within its life? | the pattern of names refuses the names that `store` itself makes |
| OfficeRaces | The ten parts of Office | see below |
| TravelRaces | The nine parts of Travel | see below |

OfficeRaces, part by part:

- **bookings**, one request at a time: the services implement `SeatLedger` (`ImplementsLedger`);
- **realtime**: one socket per ticket, but for a restart or a ticket that lapses during its
  verification (`TicketServesOnce`); every socket ends (`NothingLingers`);
- **disputes**: the agency had its say first, the administration decides what was asked
  (`ArbitrationIsEarned`); a handler that has read an escalation or a closing leaves it standing
  (`VerdictsStand`); what stays closed is purged (`NothingLingers`);
- **agencies**: no sale before an approval (`ReviewComesFirst`), a shared link opens until it is
  renewed (`SharedLinkOpens`);
- **reputation**: scores and badges only move the way the facts do (`ScoreIsFair`);
- **moderation**: what is read was reviewed, attempts are kept (`ReviewComesFirst`);
- **capacity**, **profitability**: exact against the definitions (`SimulationsAreExact`);
- **treasury**: journals without loss or repetition, a projection that adds up (`BooksAddUp`);
- **documents**: the step follows the file, both ways (`StepFollowsDocuments`).

TravelRaces, part by part:

- **invoices**: no gap and no duplicate over two years and two agencies (`NumberedWithoutGap`);
- **accounts**: one session per code, bounded guesses (`CodesAreGuarded`); a session open after a
  change of password was on its way before it (`SessionsEndWithPassword`); no change of role
  (`AccountKeepsRole`);
- **access**: checks, lists and contacts agree on who is concerned, duties are separate
  (`AccessIsConsistent`); nobody listens to a room he could not read (`ListenersHadAccess`);
- **planning**: a guide leads one group at a time, conflicts that appear are shown
  (`GuidesAreFree`);
- **groups**: members before bookings (`BookingIsInItsGroup`), no position without consent
  (`PositionsAreConsented`);
- **messaging**: inbox, access and read marks agree (`ThreadsReachTheirReaders`);
- **oncall**: valid shifts, exact gaps, somebody to call (`RotaIsSound`);
- **progress**: the newest item wins in whatever order (`NewestItemWins`);
- **savings**: one installment a period (`InstallmentsFollowPlan`), reminders on each of their
  days (`RemindersArrive`).

### What the code does not promise

Several properties hold up to a certain race. They are stated with that race as their
condition, on a history variable that says whether it has happened, so that one run explores
both sides: `edited` (the capacity, in Bookings), `overlapped` (two replacements of a
schedule), `raced` (a placement in flight with a resizing or a deletion; a refusal in flight
with a validation), `excused` (a ticket the memory lost; an assignment that something
overtook; a position under way), `overtaken` and `crossed` (Agencies), `blind` (Moderation),
`stale` (Progress, Savings), `failed` (Savings), `dropped` (Documents), `moved` (a socket's
group; a receipt's date); in Disputes the condition is `UpToDate`. What lies beyond those
conditions was met while modelling and is not run on its own:

- two cancellations that both read an active booking release its seat twice
  (`bookings.service.ts:264`), and a cancelled booking whose last step is then validated is
  confirmed again without a seat (`:389`); `ImplementsLedger` is therefore a property of one
  request at a time, without step updates;
- two updaters that both read a complete, unconfirmed dossier both announce it (`:389`), and a
  failure after the status loses the notice (`:399`);
- two refund requests that both read SUCCEEDED order two refunds (`payments.service.ts:246`),
  two initiations that count the same rows use one installment number (`:122`);
- two replacements of an agency's schedule that start from the same rows leave the union of
  both (`refund-policy.service.ts:62`): its thresholds are distinct, its rates need not fall;
- a departure brought forward lowers the rate of a booking already made
  (`packages.service.ts:109`): `RateOnlyFalls` says that only the date can do it;
- a block resized or deleted while a placement is under way leaves a pilgrim outside the block,
  or without a room (`rooms.service.ts:199`, `:250`);
- an invoice carries the price read with the dossier, which may have changed before the
  insertion (`billing.service.ts:182`); a failure after the insertion loses the audit entry
  (`:85`);
- a message reopens a dispute closed since it was read, and two requests that both find no
  active dispute open two (`disputes.service.ts:118`, `:197`);
- a logout or a refresh may revoke another session of the same account than the one presented
  (72 bytes of bcrypt, `auth.service.ts:171`); a login under way when the password changes opens
  a session that survives it;
- the last administrator may suspend itself, and nobody is left to lift it
  (`users.service.ts:160`);
- two assignments at once, or a package moved afterwards, give a guide two groups on one day
  (`groups.service.ts:173`); a member whose booking moves to another group stays a member of
  the former one;
- the pilgrim of a booking moved to a group without a guide finds a thread in the inbox that
  nobody may open; a new guide finds the messages of the one before;
- an SOS of a pilgrim without guide and without contact reaches nobody;
- a savings run that dies after the payment asks again the next day, and is not stopped by a
  cancelled or settled booking (`savings-scheduler.service.ts:66`);
- nothing completes a booking, so the rate of completion in the trust score is none or zero
  (`reviews.service.ts:119`);
- a success repeated by the provider on a later day moves the receipt in the journals
  (`payments.service.ts:220`).

### Bounds and why they are enough

The races of this code are between a read and a write of two handlers; two requests show every
one of them, a third shows what a second race does to the first (SeatRaces, DossierRaces, and
the parts agencies and moderation). Two bookings for one seat, then two; one bed and three
pilgrims in one or two rooms; a price of two installments with two or three of them; two
thresholds and two rates: the smallest instances in which a limit is reached, exceeded and left
again. Two bookings of one package and a third of another agency make invoice numbers meet and
not meet. In the compositions: two tickets for two clients and a clock that passes every end
(`MaxNow` is twice `Ttl`); one attempt allowed, so that a second exceeds it, two codes,
sessions and passwords, so that one is old; two users of each role but the administration, two
groups, so that there are others than those concerned; two groups and an absence on two days;
two shifts of any length on five instants, which touch, overlap, contain one another and
overflow the trip; stamps up to 2 with equal ones; seven days with a period of two, a departure
at each third of a day around the reminders; two trips on three days; three documents of two
types.

Counters of notices and refunds tell 0, 1 and "more" apart (`More`). Identifiers are limited in
number, and a reservation or initiation starts only if one is left (`IdentifierLeft`,
`ReferenceLeft`): the bound stops the requests at their start, never half-way. `MaxYear` and
`MaxAudits` bound the calendar and the audit log, `Farthest` the days before the departure,
`MaxDay` and `LastDay` the calendars, `MaxCodes`, `MaxSessions`, `MaxPasswords`, `MaxLinks`,
`MaxMessages`, `MaxPackages`, `MaxTokens`, `MaxVersion`, `MaxAttempts` (of Moderation) and
`MaxStamp` what is created; in `Access` one account at a time is suspended. The proofs have none
of these bounds, except that one module describes one package, booking, block or address.

OverbookedByRace and FreshLinksServe may stop (`CHECK_DEADLOCK FALSE`): the one has only
`create`, and its identifiers run out; the clock of the other does.

### Fairness

`WF` on `Continue(r)` in Bookings and Payments: the event loop resumes every handler whose
await has settled, and only the runs with `MayFail = FALSE` (DossierRaces, OneRefundAtATime)
assume that no handler dies. `SF` on `Continue(r)` in Rooms: PostgreSQL queues those who wait
for a row lock, so a request that is enabled again and again gets it. `WF` on `Tick` and
`PurgeClosedDisputes` in Disputes: days pass and the cron fires every night. `WF` on
`ClientStep(c)` and `TimerFires(c)` in Realtime: the event loop runs what is ready, and Node
fires its timers. No client is ever assumed to call anything.

## 4. What is proved

Every invariant and every action property that a run checks is also a theorem: the run shows it
on a small instance and finds the mutants, the theorem holds for every value of the constants
that satisfies the assumptions (`BookingsAssumption`, `OfficeAssumption`, ..., which TLC
evaluates on every run). Only the liveness properties are left to TLC alone. The assumptions
ask that tables be finite, that days, amounts and capacities be numbers, that divisors (months,
periods, pilgrims per guide, ratings) not be zero, and that `None` be no row; none bounds the
number of requests, rows, users or steps.

Each theorem rests on an inductive invariant, because the property alone says nothing of
requests half-way. A proof module states it as a conjunction of named parts, shows that `Init`
gives it and that each action keeps it, and ends with the theorem. In `OfficeProofs` and
`TravelProofs` the lemma `StepsOfParts` says that a step of the composition is, for each part,
one of its own steps or none, so that each part is proved about by itself.

### Bookings, payments, refunds, rooms, invoices

- **Bookings.** `TypeCorrect`. `StatusAndCountAgree`: until the capacity is edited, the property is
  extended to the rows requests carry; a request at `reserveWrite` has seen a row that itself
  satisfied it, so writing back both columns together keeps it true, whichever of the two is
  stale. `SeatsStayWithinOffer` (`OfferInv`): the row a reservation carries had a free seat under
  *some* capacity that was offered, whatever the capacity is when it writes.
  `ConfirmationsAreEarned`: a request at `confirmWrite` works on a booking in `completed`.
  `CancellationsRelease`: a request at `cancelWrite` has its release behind it, or a
  predecessor's. `NoticesComeFirst`: counting the requests between notice and checklist.
- **Bookings implements `SeatLedger`** (`SequentialSeatsImplementLedger`), under the hypothesis
  `Sequential`: one request slot, no failure, no edition of the capacity, no step update. Each of
  the four leaves out something the code does not guard against: two readers of one row, a
  failure between the counter and the booking, a capacity below the seats taken, a step that
  reopens a cancelled booking. `LedgerInv` gives, for each
  program counter, the difference between the counter and the active bookings; each step of
  Bookings is a step of the ledger or leaves it alone. There is no bound on bookings or seats.
- **Payments.** `TypeCorrect`; `ReceiptsAreBacked` and `RefundsAreBacked`: a callback "succeeded" or
  "refunded" exists only for a paid charge, and a request beyond `RefundRead` targets a payment
  with a receipt. `StepsAreCovered`: `covered` is monotone and true of whoever is at `markStep`.
- **Payments implements `PaymentLifecycle`** (`PaymentsImplementLifecycle`), under the hypothesis
  `OneRefundAtATime`: one slot that refunds, orderly callbacks, no failure; any number of
  initiations and callbacks interleave with it. `LifeInv` says that an outcome still to be
  delivered finds its payment pending, and that a refund ordered and not shown has a request
  about to write it.
- **RefundPolicy.** `RefundIsBounded` about `Math.round` in cents. `SchedulesStayConsistent`,
  `TermsAreWhole` and `WaitingNeverPays`: until two replacements overlap (`AloneInv`) the only
  one in flight has seen the committed rows and replaces them by a verified list, so what a
  booking freezes is a verified list too; the lemmas on `Eligibilite` say that the highest
  threshold reached is monotone in the days left. `ThresholdsStayDistinct` holds even across
  overlaps: an insertion waits for, and fails on, the unique key.
- **Rooms.** `TypeCorrect`; `TransactionsHoldTheLock`; `RoomsAreNotOvercrowded`: a request at
  `place` holds the lock and has counted a free bed; others can only lower that count while it
  does. `PlacesAlwaysKept` (`PlaceInv`): until a placement meets a resizing or a deletion
  (`raced`), the two kinds of request are never in flight together, so what each has read still
  holds when it writes.
- **Invoices.** `TypeCorrect`; `NumbersHaveNoGap`: a request at `insert` holds its agency's lock
  and carries the last number plus one; rollbacks never use one up. `IssuesAreReal`: the
  conflict that is swallowed is always the booking's key, never the number's.
  `InvoicesNeverChange`, an action property: an insertion only adds.

### The parts of Office

- **Realtime**, `OneSocketPerTicket`: once a ticket is consumed, its entry outlives every
  verification that may still succeed, or the ticket is `excused` (`ServedInv`).
- **Disputes**, `ArbitrationIsAlwaysEarned`: a row is lawful by itself (`Lawful`), what a request
  has read still justifies what it will write (`Knows`), and this lasts because rows never get
  younger, never lose an author and stay escalated (`Follows`). `VerdictsAlwaysStand`, an action
  property, follows from the same invariant.
- **Agencies**, `SharedLinkAlwaysOpens` and the sales of `ReviewAlwaysComesFirst`: a creation that
  has seen the approval still finds it unless `overtaken` (`SalesInv`); a link is only being made
  where there is none unless two requests `crossed` (`LinkInv`).
- **Moderation**, the rest of `ReviewAlwaysComesFirst`: until a question is published behind a
  refusal in flight (`raced`), one that is refused was never published and has no attempt
  (`QuizInv`); an edited sheet is withdrawn until a reviewer validates it (`SheetInv`).
- **Documents**, `StepAlwaysFollowsDocuments`: a complete file is marked, or a request on its way
  will mark it (`DocumentInv`); whoever validates last reads a complete file.
- **Treasury**, `BooksAlwaysAddUp`. Journals (`BooksInv`): nothing is dated ahead of today, and what
  was exported is over, so an entry made later belongs to a period still to export, unless
  `moved`. Projection (`ForecastExact`): what the loop over the installments expects adds up to
  the balance, because the part of it before the departure is an initial run of installments and
  the departure takes the rest; summed month by month it loses nothing (`TotalByClass`).
- **Capacity**, in `SimulationsAreAlwaysExact`: between two consecutive bounds of trips the same
  trips are under way (`PeriodIsADay`, `DayIsInPeriod`), so the greatest need over the periods is
  the greatest over the days.
- **Profitability**, in `SimulationsAreAlwaysExact`: a quotient rounded up is the least integer
  that covers (`CeilIsLeast`), and the margin grows with the pilgrims.
- **Reputation**, `ScoreIsAlwaysFair`, an action property: the sum of the ratings lies between the
  least and the greatest rating times their number (`TotalBounds`), so one more of the best moves
  the mean up and one more of the worst down (`MeanMoves`), and rounding keeps the order
  (`RoundGrows`). As nothing completes a booking, a first cancellation takes the weight of the
  ratings from 20 to 12, and later ones change nothing (`Weight`).

### The parts of Travel

- **Accounts**, `CodesAreAlwaysGuarded`: a spent code is in one pair of hands (`OnceInv`); the
  attempts counted, with the wrong guesses on their way, stay below the limit plus the requests
  (`GuessInv`). `SessionsAlwaysEnd` (`SlotsInv`, `SessionsInv`): an open session, and a request
  about to open one, has the password in force or is `late`. `RolesAlwaysStay`.
- **Access**, `AccessAlwaysAgrees`: the checks, translated one by one, are shown to name the same
  people for any sets of users, from the type of the state and the membership of the group of a
  booking. `ListenersAlwaysHadAccess`: only a change of group or guide takes a reader away, and it
  leaves its mark on the socket.
- **Groups**, `PlacesFollowMembers`: a request about to write the group of a booking has the
  membership behind it, and nothing takes a membership away (`MemberInv`).
  `PositionsStayConsented`: a position of somebody who no longer shares was sent by a request
  marked when he stopped (`SharingInv`).
- **GuidePlanning**, `GuidesAlwaysFree`: a request that nothing overtook knows the dates of its
  group and that its guide is free (`PlanningInv`); the sorted scan of the schedule reports
  exactly the pairs that share a day (`ConflictsAreExact`).
- **Messaging**, `ThreadsAlwaysReach`: as long as the guide stays, messages and requests are
  between the two participants of the moment (`BetweenParticipants`).
- **OnCall**, `RotaAlwaysSound`: `ShiftsInv` keeps dates valid; `Known` is the invariant of the
  loop of `trousDeCouverture`: after k shifts the gaps found are in order, apart, before the
  cursor, and are exactly the hours before it that no shift read so far covers. Somebody is
  listed at any hour outside the gaps.
- **Progress**, `NewestItemAlwaysWins`: until an item is handled while another changes the row, the
  row is one of the newest items, or the reset after them (`ProgressInv`).
- **Savings**, `InstallmentsAlwaysFollow`: the next date is one period after the last installment,
  or this installment's own as long as a run is about to move it (`NextDate`).
  `RemindersAlwaysArrive`: arithmetic on days and thirds of a day.

### Data

`FoldTheorems` holds what the calculations need: least and greatest elements, smallest sets, and
the sums over finite sets that `FoldSet` computes. The library's induction theorems take an
operator as parameter, which the provers cannot instantiate. Induction is therefore by the least
counterexample: the set of the numbers, or of the finite sets, for which a claim fails would
have a smallest element (`LeastNatural`, `SmallestSet`), and one step leads from there to a
smaller one. In this way sums do not depend on the order of their elements (`TotalAdds`,
`TotalChanges`), the recursive functions of the loops exist and satisfy their equation
(`ToursFollow`, `LeftFollows`), and every finite set has a sorted list (`SortedList`). The last is
why `ParDebut` (OnCall, GuidePlanning) may be a choice among the sorted lists: the order of
entries that start together is left open, and the theorems hold for each.

### Only model-checked

Liveness under fairness, out of the prover's reach as `ENABLED` is: `CompleteDossierIsSettled`
(DossierRaces), `CoveredBookingIsMarked` (OneRefundAtATime), `RequestsEnd` (RoomRaces) and
`NothingLingers` (OfficeRaces). The type invariants of the modules without a theorem
`TypeCorrect` are proved as parts of their inductive invariants and not run. The runs ✗ are
counterexamples, not theorems. `Storage` has a run of that kind alone.

A property that is proved and that its run only repeated is no longer run: `ChecklistFollowsNotice`,
`ScheduleIsConsistent`, `ThresholdsAreDistinct`, `LockIsHeld`, `IssueIsReal`,
`InvoicesAreFinal`, and the `TypeOK` of the modules proved about.

## 5. Assumptions and simplifications

- `findUnique` with `include` is one atomic read: Prisma may issue several SELECTs; the
  included rows (stages, agency, occupants) are not what the decisions in these models race on,
  except in Rooms, where `updateBlock` and `deleteBlock` get the more favourable reading.
- Authorisation is the subject of `Access`; in the other modules it is decided before a handler
  starts, except where it is the race itself (Messaging, Groups).
- Notices, mails and SMS are the step at which the call returns; the dispatch of
  `NotificationsService.send` is not awaited by anyone (`notifications.service.ts:60`).
- Amounts are naturals (cents), rates percentages. Floating point is not modelled; rounding is,
  where a property is about it.
- The provider is truthful. Nothing is said about provider implementations; the mock in the
  repository keeps no state.
- Random tokens are never drawn twice, and identifiers are never used again.

## 6. Not modelled

- **Reads and reports**: the statistics of the administration, the list and export of the audit
  log (who may read it is in `Access`), the feed of a calendar (its link is in `Agencies`), the
  directory, the trip summary and the family page (their readers are), the satisfaction report,
  the statistics of the quiz. They compute from committed rows what the modelled services wrote.
- **Single writes of data**: profiles, special needs, itineraries, emergency numbers, the
  catalogue of micro-courses, certificates of an agency, items of a checklist ticked by hand.
  One statement, no condition on another row; their routes are in `Access`.
- **Budget**: a sum over a fixed table, without state.
- **Notifications**: a row written once and a dispatch that nobody waits for or retries.
- **Layout and transport**: CSV and iCalendar text, HTTP filters, throttling, validation of DTOs,
  configuration, mail, SMS and push providers, the health probe, the seed script.
- **The payment rate against the status of the booking at the call** (`payments.service.ts:255`):
  Payments has one rate, RefundPolicy no refund under way, and the code names no instant at which
  the rate is due; there is no promise to check.

A run answers for one instance and one set of constants; the twelve runs of this project share
the modules between them so that a new property joins the run of its part. The next steps, in
order: the lemmas that liveness would rest on (what a request still has to do is bounded, and
each of its steps lowers it) as theorems beside `RequestsEnd` and `NothingLingers`; an abstract
specification of the numbering of invoices and of the seats under overlapping requests, which
says how far the counter may drift; and the refinement of `PaymentLifecycle` with refunds that
die half-way.
