------------------------------- MODULE Invoices -------------------------------
(***************************************************************************)
(* The invoices of the bookings, numbered per agency and per year:         *)
(* BillingService.getInvoice and emettre.  The dossier, the year and the   *)
(* package's price are read before the transaction; the transaction holds  *)
(* the agency's row lock while it numbers and inserts.                     *)
(*                                                                         *)
(* A definition commented "Mutant" is no part of the specification.        *)
(***************************************************************************)
EXTENDS Naturals

CONSTANTS
  Bookings, Packages, Agencies,
  PackageOf,  \* the package of each booking
  AgencyOf,   \* the agency of each package
  Prices,     \* the prices a package may take
  Requests,   \* slots for the requests in flight
  MaxYear,    \* bound on the calendar
  MaxAudits,  \* bound on the audit entries of a booking
  None        \* no invoice, no booking, nobody

ASSUME InvoicesAssumption ==
  /\ PackageOf \in [Bookings -> Packages] /\ AgencyOf \in [Packages -> Agencies]
  /\ Prices \subseteq Nat
  /\ None \notin Requests \union Bookings
  /\ None \notin [year : Nat, sequence : Nat, amount : Nat]
  /\ MaxYear \in Nat /\ MaxAudits \in Nat

VARIABLES
  invoice,    \* the invoice of each booking, or None
  lock,       \* who holds the row lock of each agency
  price,      \* the price of each package
  year,       \* the current year
  audits,     \* the "invoice.issue" entries of the audit log, per booking
  req         \* the requests in flight

vars == <<invoice, lock, price, year, audits, req>>

Pc == {"idle", "lock", "number", "insert", "audit"}
Number == [year : Nat, sequence : Nat, amount : Nat]
Request == [pc : Pc, target : Bookings \union {None}, number : Number]
Idle == [pc |-> "idle", target |-> None,
         number |-> [year |-> 0, sequence |-> 0, amount |-> 0]]

\* An invoice carries a whole number, with the price read for it.
TypeOK ==
  /\ invoice \in [Bookings -> Number \union {None}]
  /\ lock \in [Agencies -> Requests \union {None}]
  /\ price \in [Packages -> Prices]
  /\ year \in Nat
  /\ audits \in [Bookings -> Nat]
  /\ req \in [Requests -> Request]

Init ==
  /\ invoice = [b \in Bookings |-> None]
  /\ lock = [a \in Agencies |-> None]
  /\ price \in [Packages -> Prices]
  /\ year = 0
  /\ audits = [b \in Bookings |-> 0]
  /\ req = [r \in Requests |-> Idle]

SellerOf(b) == AgencyOf[PackageOf[b]]
Goto(r, pc) == req' = [req EXCEPT ![r] = [@ EXCEPT !.pc = pc]]
Finish(r) == req' = [req EXCEPT ![r] = Idle]

\* The agency's invoices of a year.
Issued(a, y) == {b \in Bookings : /\ SellerOf(b) = a
                                  /\ invoice[b] # None /\ invoice[b].year = y}
Sequences(a, y) == {invoice[b].sequence : b \in Issued(a, y)}

\* aggregate _max, 0 when there is none
Last(a, y) ==
  IF Sequences(a, y) = {} THEN 0
  ELSE CHOOSE n \in Sequences(a, y) : \A m \in Sequences(a, y) : m <= n

-----------------------------------------------------------------------------

\* A dossier without an invoice; one that has it is only read.
GetInvoice(r, b) ==
  /\ req[r].pc = "idle" /\ invoice[b] = None
  /\ req' = [req EXCEPT ![r] =
       [pc |-> "lock", target |-> b,
        number |-> [year |-> year, sequence |-> 0, amount |-> price[PackageOf[b]]]]]
  /\ UNCHANGED <<invoice, lock, price, year, audits>>

LockAgency(r) ==
  /\ req[r].pc = "lock" /\ lock[SellerOf(req[r].target)] = None
  /\ lock' = [lock EXCEPT ![SellerOf(req[r].target)] = r]
  /\ Goto(r, "number")
  /\ UNCHANGED <<invoice, price, year, audits>>

\* Mutant: the last number of any year, or none of this year.
NextNumberAnyYear(r) ==
  LET a == SellerOf(req[r].target)
      all == {Last(a, y) : y \in 0..MaxYear}
  IN  /\ req[r].pc = "number"
      /\ \E n \in all :
           /\ \A m \in all : m <= n
           /\ req' = [req EXCEPT ![r] = [@ EXCEPT !.pc = "insert", !.number.sequence = n + 1]]
      /\ UNCHANGED <<invoice, lock, price, year, audits>>

NextNumber(r) ==
  /\ req[r].pc = "number"
  /\ LET n == [req[r].number EXCEPT
                 !.sequence = Last(SellerOf(req[r].target), req[r].number.year) + 1]
     IN  req' = [req EXCEPT ![r] = [@ EXCEPT !.pc = "insert", !.number = n]]
  /\ UNCHANGED <<invoice, lock, price, year, audits>>

\* The unique keys: one invoice per booking, one per number.
Conflict(b, n) ==
  \/ invoice[b] # None
  \/ n.sequence \in Sequences(SellerOf(b), n.year)

\* Inserts and commits; a P2002 rolls back and is swallowed.
InsertInvoice(r) ==
  LET b == req[r].target
      n == req[r].number
  IN  /\ req[r].pc = "insert"
      /\ invoice' = IF Conflict(b, n) THEN invoice ELSE [invoice EXCEPT ![b] = n]
      /\ lock' = [lock EXCEPT ![SellerOf(b)] = None]
      /\ Goto(r, "audit")
      /\ UNCHANGED <<price, year, audits>>

\* Recorded whichever request inserted the invoice; the dossier is read again.
RecordIssue(r) ==
  /\ req[r].pc = "audit" /\ audits[req[r].target] < MaxAudits
  /\ audits' = [audits EXCEPT ![req[r].target] = @ + 1]
  /\ Finish(r)
  /\ UNCHANGED <<invoice, lock, price, year>>

\* The process stops, or the transaction fails: it is rolled back, its lock
\* released.
Stop(r) ==
  /\ req[r].pc # "idle"
  /\ lock' = [a \in Agencies |-> IF lock[a] = r THEN None ELSE lock[a]]
  /\ Finish(r)
  /\ UNCHANGED <<invoice, price, year, audits>>

\* PackagesService.update, whose UPDATE does not wait for the agency's row
UpdatePrice(p, x) ==
  /\ price' = [price EXCEPT ![p] = x]
  /\ UNCHANGED <<invoice, lock, year, audits, req>>

NewYear ==
  /\ year < MaxYear /\ year' = year + 1
  /\ UNCHANGED <<invoice, lock, price, audits, req>>

Next ==
  \/ \E r \in Requests :
       \/ \E b \in Bookings : GetInvoice(r, b)
       \/ LockAgency(r) \/ NextNumber(r) \/ InsertInvoice(r) \/ RecordIssue(r)
       \/ Stop(r)
  \/ \E p \in Packages, x \in Prices : UpdatePrice(p, x)
  \/ NewYear

Spec == Init /\ [][Next]_vars

-----------------------------------------------------------------------------
(* Properties *)

\* "pas de doublon, pas de trou": the numbers of an agency's year are 1, 2, ... up
\* to the number of its invoices, each given once, also when transactions are
\* rolled back, the year turns and the same booking is asked for twice.
NumberedWithoutGap ==
  \A b \in Bookings : invoice[b] # None =>
    /\ \A n \in 1..invoice[b].sequence : n \in Sequences(SellerOf(b), invoice[b].year)
    /\ invoice[b].sequence # 0
    /\ \A c \in Issued(SellerOf(b), invoice[b].year) \ {b} :
         invoice[c].sequence # invoice[b].sequence

\* The one error emettre swallows means that the invoice is there: an issue in the
\* audit log, or about to be, has its invoice.
IssueIsReal ==
  /\ \A b \in Bookings : audits[b] # 0 => invoice[b] # None
  /\ \A r \in Requests : req[r].pc = "audit" => invoice[req[r].target] # None

\* An invoice is never changed, whatever becomes of the price and the requests.
InvoicesAreFinal ==
  [][\A b \in Bookings : invoice[b] # None => invoice'[b] = invoice[b]]_vars
=============================================================================
