---------------------------- MODULE InvoicesProofs ----------------------------
(***************************************************************************)
(* The invoices are numbered without gap or duplicate, and the error       *)
(* emettre swallows means that the invoice is there, for any bookings,     *)
(* packages, agencies and requests.  The strengthening: whoever is between *)
(* the numbering and the insertion holds its agency's lock (LockInv), so   *)
(* that the number it holds is still the next one (NextInv).               *)
(***************************************************************************)
EXTENDS Invoices, TLAPS

LEMMA IdleIsRequest == Idle \in Request
BY DEF Idle, Request, Pc, Number

\* How a handler moves its slot.
LEMMA SlotMoves ==
  ASSUME req \in [Requests -> Request], NEW r \in Requests
  PROVE  /\ Finish(r) => /\ req' \in [Requests -> Request]
                         /\ req'[r].pc = "idle"
                         /\ \A s \in Requests \ {r} : req'[s] = req[s]
         /\ \A pc \in Pc : Goto(r, pc) =>
              /\ req' \in [Requests -> Request]
              /\ req'[r].pc = pc /\ req'[r].target = req[r].target
              /\ req'[r].number = req[r].number
              /\ \A s \in Requests \ {r} : req'[s] = req[s]
<1>1. ASSUME Finish(r)
      PROVE  /\ req' \in [Requests -> Request]
             /\ req'[r].pc = "idle"
             /\ \A s \in Requests \ {r} : req'[s] = req[s]
  <2>1. req' = [req EXCEPT ![r] = Idle] /\ Idle.pc = "idle"
    BY <1>1 DEF Finish, Idle
  <2> QED  BY <2>1, IdleIsRequest
<1>2. ASSUME NEW pc \in Pc, Goto(r, pc)
      PROVE  /\ req' \in [Requests -> Request]
             /\ req'[r].pc = pc /\ req'[r].target = req[r].target
             /\ req'[r].number = req[r].number
             /\ \A s \in Requests \ {r} : req'[s] = req[s]
  <2>1. [req[r] EXCEPT !.pc = pc] \in Request
    BY DEF Request
  <2>2. req' = [req EXCEPT ![r] = [req[r] EXCEPT !.pc = pc]]
    BY <1>2 DEF Goto
  <2> QED  BY <2>1, <2>2 DEF Request
<1> QED  BY <1>1, <1>2

\* A handler in flight is about a booking.
TargetInv == \A r \in Requests : req[r].pc # "idle" => req[r].target \in Bookings

GapInv == \A a \in Agencies, y \in Nat : \E n \in Nat : Sequences(a, y) = 1..n

\* No two invoices of an agency's year have one number.
UniqueInv ==
  \A b, c \in Bookings :
    /\ b # c /\ SellerOf(b) = SellerOf(c)
    /\ invoice[b] # None /\ invoice[c] # None
    /\ invoice[b].year = invoice[c].year
    => invoice[b].sequence # invoice[c].sequence

LockInv ==
  \A r \in Requests : req[r].pc \in {"number", "insert"} =>
    lock[SellerOf(req[r].target)] = r

NextInv ==
  \A r \in Requests : req[r].pc = "insert" =>
    /\ req[r].number.sequence \in Nat \ {0}
    /\ Sequences(SellerOf(req[r].target), req[r].number.year)
         = 1..(req[r].number.sequence - 1)

NumberInv == TypeOK /\ TargetInv /\ GapInv /\ UniqueInv /\ LockInv /\ NextInv

LEMMA SellerIsAgency == \A b \in Bookings : SellerOf(b) \in Agencies
BY InvoicesAssumption DEF SellerOf

\* The last of 1, ..., n is n.
LEMMA LastOfInterval ==
  ASSUME NEW a, NEW y, NEW n \in Nat, Sequences(a, y) = 1..n
  PROVE  Last(a, y) = n
<1>1. CASE n = 0
  BY <1>1 DEF Last
<1>2. CASE n # 0
  <2>1. n \in 1..n /\ \A m \in 1..n : m <= n
    BY <1>2
  <2>2. \A k \in 1..n : (\A m \in 1..n : m <= k) => k = n
    BY <2>1
  <2>3. (CHOOSE k \in 1..n : \A m \in 1..n : m <= k) = n
    BY <2>1, <2>2
  <2> QED  BY <2>1, <2>3 DEF Last
<1> QED  BY <1>1, <1>2

LEMMA InitNumber == Init => NumberInv
<1> SUFFICES ASSUME Init PROVE NumberInv
  OBVIOUS
<1>1. TypeOK
  BY IdleIsRequest DEF Init, TypeOK
<1>2. GapInv
  <2>1. \A a \in Agencies, y \in Nat : Sequences(a, y) = 1..0
    BY DEF Init, Sequences, Issued
  <2> QED  BY <2>1 DEF GapInv
<1>3. TargetInv /\ UniqueInv /\ LockInv /\ NextInv
  BY DEF Init, TargetInv, UniqueInv, LockInv, NextInv, Idle
<1> QED  BY <1>1, <1>2, <1>3 DEF NumberInv

\* What NextNumber writes in its slot.
LEMMA NumberedSlot ==
  ASSUME NumberInv, NEW r \in Requests, NextNumber(r)
  PROVE  /\ req' \in [Requests -> Request]
         /\ req'[r].pc = "insert" /\ req'[r].target = req[r].target
         /\ req[r].target \in Bookings
         /\ req'[r].number.year = req[r].number.year
         /\ req'[r].number.sequence \in Nat \ {0}
         /\ Sequences(SellerOf(req[r].target), req[r].number.year)
              = 1..(req'[r].number.sequence - 1)
         /\ \A s \in Requests \ {r} : req'[s] = req[s]
<1> USE DEF NumberInv
<1>1. /\ req \in [Requests -> Request] /\ req[r].pc = "number"
      /\ req[r].target \in Bookings /\ req[r].number \in Number
      /\ req[r].number.year \in Nat
  BY DEF NextNumber, TargetInv, TypeOK, Request, Number
<1>2. PICK k \in Nat : /\ Sequences(SellerOf(req[r].target), req[r].number.year) = 1..k
                       /\ Last(SellerOf(req[r].target), req[r].number.year) = k
  <2>1. PICK a \in Agencies, y \in Nat :
          a = SellerOf(req[r].target) /\ y = req[r].number.year
    BY <1>1, SellerIsAgency
  <2>2. PICK k \in Nat : Sequences(a, y) = 1..k
    BY DEF GapInv
  <2>3. Last(a, y) = k
    BY <2>2, LastOfInterval
  <2> QED  BY <2>1, <2>2, <2>3
<1>3. PICK n \in Number : /\ n = [req[r].number EXCEPT !.sequence = k + 1]
                          /\ n.sequence = k + 1 /\ n.year = req[r].number.year
  <2>1. [req[r].number EXCEPT !.sequence = k + 1] \in Number
    BY <1>1, <1>2 DEF Number
  <2> QED  BY <1>1, <1>2, <2>1 DEF Number
<1>4. req' = [req EXCEPT ![r] = [req[r] EXCEPT !.pc = "insert", !.number = n]]
  BY <1>2, <1>3 DEF NextNumber
<1>5. [req[r] EXCEPT !.pc = "insert", !.number = n] \in Request
  BY <1>1, <1>3 DEF Request, Pc
<1>6. /\ req'[r].pc = "insert" /\ req'[r].target = req[r].target
      /\ req'[r].number = n
  BY <1>1, <1>4 DEF Request
<1>7. 1..k = 1..(n.sequence - 1) /\ n.sequence \in Nat \ {0}
  BY <1>2, <1>3
<1> QED  BY <1>1, <1>2, <1>3, <1>4, <1>5, <1>6, <1>7

\* Types and targets, action by action.
LEMMA StepType ==
  ASSUME NumberInv, [Next]_vars
  PROVE  TypeOK' /\ TargetInv'
<1> USE InvoicesAssumption, SellerIsAgency DEF TypeOK, TargetInv, NumberInv
<1>1. ASSUME NEW r \in Requests, NEW b \in Bookings, GetInvoice(r, b)
      PROVE  TypeOK' /\ TargetInv'
  <2> DEFINE slot == [pc |-> "lock", target |-> b,
        number |-> [year |-> year, sequence |-> 0, amount |-> price[PackageOf[b]]]]
  <2>1. slot \in Request /\ slot.target = b
    BY DEF Request, Pc, Number
  <2>2. req' = [req EXCEPT ![r] = slot]
    BY <1>1 DEF GetInvoice
  <2> HIDE DEF slot
  <2>3. req' \in [Requests -> Request] /\ TargetInv'
    BY <2>1, <2>2
  <2> QED  BY <1>1, <2>3 DEF GetInvoice
<1>2. ASSUME NEW r \in Requests, LockAgency(r)
      PROVE  TypeOK' /\ TargetInv'
  <2>1. req' \in [Requests -> Request] /\ TargetInv'
    BY <1>2, SlotMoves DEF LockAgency, Pc
  <2> QED  BY <1>2, <2>1 DEF LockAgency
<1>3. ASSUME NEW r \in Requests, NextNumber(r)
      PROVE  TypeOK' /\ TargetInv'
  <2>1. req' \in [Requests -> Request] /\ TargetInv'
    BY <1>3, NumberedSlot
  <2> QED  BY <1>3, <2>1 DEF NextNumber
<1>4. ASSUME NEW r \in Requests, InsertInvoice(r)
      PROVE  TypeOK' /\ TargetInv'
  <2>1. req' \in [Requests -> Request] /\ TargetInv'
    BY <1>4, SlotMoves DEF InsertInvoice, Pc
  <2>2. req[r].target \in Bookings /\ req[r].number \in Number
    BY <1>4 DEF InsertInvoice, Request
  <2> QED  BY <1>4, <2>1, <2>2 DEF InsertInvoice
<1>5. ASSUME NEW r \in Requests, RecordIssue(r) \/ Stop(r)
      PROVE  TypeOK' /\ TargetInv'
  <2>1. req' \in [Requests -> Request] /\ TargetInv'
    BY <1>5, SlotMoves DEF RecordIssue, Stop
  <2>2. lock' \in [Agencies -> Requests \union {None}]
    BY <1>5 DEF RecordIssue, Stop
  <2>3. audits' \in [Bookings -> Nat]
    BY <1>5 DEF RecordIssue, Stop
  <2> QED  BY <1>5, <2>1, <2>2, <2>3 DEF RecordIssue, Stop
<1>6. ASSUME NEW p \in Packages, NEW x \in Prices, UpdatePrice(p, x)
      PROVE  TypeOK' /\ TargetInv'
  BY <1>6 DEF UpdatePrice
<1>7. CASE NewYear \/ UNCHANGED vars
  BY <1>7 DEF NewYear, vars
<1> QED  BY <1>1, <1>2, <1>3, <1>4, <1>5, <1>6, <1>7 DEF Next

\* A step that leaves the invoices, the locks' holders and the numbers held as
\* they are.
LEMMA QuietStep ==
  ASSUME NumberInv, invoice' = invoice,
         \A r \in Requests :
           \/ req'[r] = req[r] /\ \A a \in Agencies : lock[a] = r => lock'[a] = r
           \/ req'[r].pc \in {"idle", "lock", "audit"}
  PROVE  GapInv' /\ UniqueInv' /\ LockInv' /\ NextInv'
<1> USE DEF NumberInv
<1>1. \A a \in Agencies, y \in Nat : Sequences(a, y)' = Sequences(a, y)
  BY DEF Sequences, Issued, SellerOf
<1>2. GapInv' /\ UniqueInv'
  BY <1>1 DEF GapInv, UniqueInv, SellerOf
<1>3. LockInv'
  BY SellerIsAgency DEF LockInv, TargetInv, SellerOf
<1>4. NextInv'
  BY DEF NextInv, Sequences, Issued, SellerOf
<1> QED  BY <1>2, <1>3, <1>4

\* The lock was free: no number of this agency is held.
LEMMA StepLockAgency ==
  ASSUME NumberInv, NEW r \in Requests, LockAgency(r)
  PROVE  GapInv' /\ UniqueInv' /\ LockInv' /\ NextInv'
<1> USE DEF NumberInv
<1>1. PICK b \in Bookings, a \in Agencies : b = req[r].target /\ a = SellerOf(b)
  BY SellerIsAgency DEF LockAgency, TargetInv
<1>2. /\ invoice' = invoice /\ lock[a] = None /\ lock' = [lock EXCEPT ![a] = r]
      /\ req'[r].pc = "number" /\ req'[r].target = b
      /\ \A s \in Requests \ {r} : req'[s] = req[s]
  BY <1>1, SlotMoves DEF LockAgency, TypeOK, Pc
<1>3. GapInv' /\ UniqueInv'
  <2>1. \A x \in Agencies, y \in Nat : Sequences(x, y)' = Sequences(x, y)
    BY <1>2 DEF Sequences, Issued, SellerOf
  <2>2. GapInv'
    BY <2>1 DEF GapInv
  <2>3. UniqueInv'
    BY <1>2 DEF UniqueInv, SellerOf
  <2> QED  BY <2>2, <2>3
<1>4. LockInv'
  BY <1>1, <1>2, InvoicesAssumption DEF LockInv, TypeOK, SellerOf
<1>5. NextInv'
  BY <1>2 DEF NextInv, Sequences, Issued, SellerOf
<1> QED  BY <1>3, <1>4, <1>5

LEMMA StepNumbering ==
  ASSUME NumberInv, NEW r \in Requests, NextNumber(r)
  PROVE  GapInv' /\ UniqueInv' /\ LockInv' /\ NextInv'
<1> USE DEF NumberInv
<1>1. UNCHANGED <<invoice, lock>> /\ req[r].pc = "number"
  BY DEF NextNumber
<1>2. GapInv' /\ UniqueInv'
  <2>1. \A a \in Agencies, y \in Nat : Sequences(a, y)' = Sequences(a, y)
    BY <1>1 DEF Sequences, Issued, SellerOf
  <2>2. GapInv'
    BY <2>1 DEF GapInv
  <2>3. UniqueInv'
    BY <1>1 DEF UniqueInv, SellerOf
  <2> QED  BY <2>2, <2>3
<1>3. LockInv'
  BY <1>1, NumberedSlot DEF LockInv, SellerOf
<1>4. NextInv'
  <2>1. ASSUME NEW s \in Requests, req'[s].pc = "insert"
        PROVE  /\ req'[s].number.sequence \in Nat \ {0}
               /\ Sequences(SellerOf(req'[s].target), req'[s].number.year)
                    = 1..(req'[s].number.sequence - 1)
    <3>1. CASE s = r
      BY <3>1, NumberedSlot
    <3>2. CASE s # r
      BY <2>1, <3>2, NumberedSlot DEF NextInv
    <3> QED  BY <3>1, <3>2
  <2> QED  BY <1>1, <2>1 DEF NextInv, Sequences, Issued, SellerOf
<1> QED  BY <1>2, <1>3, <1>4

\* The insertion: the number held is the next one, and nobody else of the agency
\* is between numbering and inserting.
LEMMA StepInsert ==
  ASSUME NumberInv, NEW r \in Requests, InsertInvoice(r)
  PROVE  GapInv' /\ UniqueInv' /\ LockInv' /\ NextInv'
<1> USE DEF NumberInv
<1>1. PICK b \in Bookings, n \in Number :
        b = req[r].target /\ n = req[r].number
  BY DEF InsertInvoice, TargetInv, TypeOK, Request
<1>2. PICK a \in Agencies : a = SellerOf(b)
  BY SellerIsAgency
<1>3. /\ req[r].pc = "insert" /\ lock[a] = r
      /\ lock' = [lock EXCEPT ![a] = None]
      /\ req'[r].pc = "audit" /\ \A s \in Requests \ {r} : req'[s] = req[s]
  BY <1>1, <1>2, SlotMoves DEF InsertInvoice, LockInv, TypeOK, Pc
<1>4. /\ n.sequence \in Nat \ {0} /\ n.year \in Nat
      /\ Sequences(a, n.year) = 1..(n.sequence - 1)
  BY <1>1, <1>2, <1>3 DEF NextInv, Number
\* Whoever else holds a number holds it of another agency.
<1>5. \A s \in Requests : req'[s].pc \in {"number", "insert"} =>
        /\ s # r /\ req'[s] = req[s] /\ req[s].target \in Bookings
        /\ lock[SellerOf(req[s].target)] = s /\ SellerOf(req[s].target) # a
  BY <1>3 DEF LockInv, TargetInv
<1>6. LockInv'
  BY <1>3, <1>5, SellerIsAgency DEF LockInv, SellerOf, TypeOK
<1>7. CASE Conflict(b, n)
  <2>1. invoice' = invoice
    BY <1>1, <1>7 DEF InsertInvoice
  <2>2. GapInv' /\ UniqueInv'
    BY <2>1 DEF GapInv, UniqueInv, Sequences, Issued, SellerOf
  <2>3. NextInv'
    BY <1>5, <2>1 DEF NextInv, Sequences, Issued, SellerOf
  <2> QED  BY <1>6, <2>2, <2>3
<1>8. CASE ~Conflict(b, n)
  <2>1. invoice' = [invoice EXCEPT ![b] = n] /\ invoice[b] = None /\ n # None
    BY <1>1, <1>8, InvoicesAssumption DEF InsertInvoice, Conflict, Number
  <2>2. \A c \in Bookings : invoice'[c] = IF c = b THEN n ELSE invoice[c]
    BY <2>1 DEF TypeOK
  <2>3. ASSUME NEW x \in Agencies, NEW y \in Nat, x # a \/ y # n.year
        PROVE  Sequences(x, y)' = Sequences(x, y)
    <3>1. Issued(x, y)' = Issued(x, y) /\ b \notin Issued(x, y)
      BY <1>2, <2>1, <2>2, <2>3 DEF Issued, SellerOf
    <3> QED  BY <2>2, <3>1 DEF Sequences, Issued
  <2>4. Sequences(a, n.year)' = 1..n.sequence
    <3>1. Issued(a, n.year)' = Issued(a, n.year) \union {b}
      BY <1>2, <2>1, <2>2 DEF Issued, SellerOf
    <3>2. Sequences(a, n.year)' = Sequences(a, n.year) \union {n.sequence}
      BY <2>1, <2>2, <3>1 DEF Sequences, Issued
    <3>3. 1..(n.sequence - 1) \union {n.sequence} = 1..n.sequence
      BY <1>4
    <3> QED  BY <1>4, <3>2, <3>3
  <2>5. GapInv'
    <3>1. ASSUME NEW x \in Agencies, NEW y \in Nat
          PROVE  \E k \in Nat : Sequences(x, y)' = 1..k
      <4>1. CASE x = a /\ y = n.year
        BY <1>4, <2>4, <4>1
      <4>2. CASE x # a \/ y # n.year
        BY <2>3, <4>2 DEF GapInv
      <4> QED  BY <4>1, <4>2
    <3> QED  BY <3>1 DEF GapInv
  <2>6. UniqueInv'
    <3>1. ASSUME NEW c \in Bookings \ {b}, SellerOf(c) = a,
                 invoice[c] # None, invoice[c].year = n.year
          PROVE  invoice[c].sequence # n.sequence
      <4>1. invoice[c].sequence \in Sequences(a, n.year)
        BY <3>1 DEF Sequences, Issued
      <4>2. n.sequence \notin 1..(n.sequence - 1)
        BY <1>4
      <4> QED  BY <1>4, <4>1, <4>2
    <3>2. ASSUME NEW c \in Bookings, NEW d \in Bookings, c # d,
                 SellerOf(c) = SellerOf(d), invoice'[c] # None, invoice'[d] # None,
                 invoice'[c].year = invoice'[d].year
          PROVE  invoice'[c].sequence # invoice'[d].sequence
      <4>1. CASE c = b
        BY <1>2, <2>2, <3>1, <3>2, <4>1
      <4>2. CASE d = b
        BY <1>2, <2>2, <3>1, <3>2, <4>2
      <4>3. CASE c # b /\ d # b
        BY <2>2, <3>2, <4>3 DEF UniqueInv
      <4> QED  BY <4>1, <4>2, <4>3
    <3> QED  BY <3>2 DEF UniqueInv, SellerOf
  <2>7. NextInv'
    <3>1. ASSUME NEW s \in Requests, req'[s].pc = "insert"
          PROVE  /\ req'[s].number.sequence \in Nat \ {0}
                 /\ {invoice'[c].sequence : c \in {d \in Bookings :
                        /\ SellerOf(d) = SellerOf(req'[s].target)
                        /\ invoice'[d] # None
                        /\ invoice'[d].year = req'[s].number.year}}
                      = 1..(req'[s].number.sequence - 1)
      <4>1. /\ req'[s] = req[s] /\ SellerOf(req[s].target) \in Agencies \ {a}
            /\ req[s].number.year \in Nat
        BY <1>5, <3>1, SellerIsAgency DEF TypeOK, Request, Number
      <4>2. PICK x \in Agencies \ {a}, y \in Nat :
              x = SellerOf(req[s].target) /\ y = req[s].number.year
        BY <4>1
      <4>3. Sequences(x, y)' = Sequences(x, y)
        BY <2>3
      <4>4. /\ req[s].number.sequence \in Nat \ {0}
            /\ Sequences(x, y) = 1..(req[s].number.sequence - 1)
        BY <3>1, <4>1, <4>2 DEF NextInv
      <4>5. Sequences(x, y)' = 1..(req[s].number.sequence - 1)
        BY <4>3, <4>4
      <4>6. {invoice'[c].sequence : c \in {d \in Bookings :
                SellerOf(d) = x /\ invoice'[d] # None /\ invoice'[d].year = y}}
              = 1..(req[s].number.sequence - 1)
        BY <4>5 DEF Sequences, Issued, SellerOf
      <4> QED  BY <4>1, <4>2, <4>4, <4>6
    <3> QED  BY <3>1 DEF NextInv, Sequences, Issued, SellerOf
  <2> QED  BY <1>6, <2>5, <2>6, <2>7
<1> QED  BY <1>7, <1>8

LEMMA StepNumber ==
  ASSUME NumberInv, [Next]_vars
  PROVE  NumberInv'
<1> USE InvoicesAssumption DEF NumberInv
<1>1. TypeOK' /\ TargetInv'
  BY StepType
<1>2. ASSUME NEW r \in Requests, NEW b \in Bookings, GetInvoice(r, b)
      PROVE  GapInv' /\ UniqueInv' /\ LockInv' /\ NextInv'
  <2>1. \A s \in Requests : req'[s] = req[s] \/ req'[s].pc = "lock"
    BY <1>2 DEF GetInvoice, TypeOK
  <2> QED  BY <1>2, <2>1, QuietStep DEF GetInvoice
<1>3. ASSUME NEW r \in Requests, LockAgency(r)
      PROVE  GapInv' /\ UniqueInv' /\ LockInv' /\ NextInv'
  BY <1>3, StepLockAgency
<1>4. ASSUME NEW r \in Requests, NextNumber(r)
      PROVE  GapInv' /\ UniqueInv' /\ LockInv' /\ NextInv'
  BY <1>4, StepNumbering
<1>5. ASSUME NEW r \in Requests, InsertInvoice(r)
      PROVE  GapInv' /\ UniqueInv' /\ LockInv' /\ NextInv'
  BY <1>5, StepInsert
<1>6. ASSUME NEW r \in Requests, RecordIssue(r) \/ Stop(r)
      PROVE  GapInv' /\ UniqueInv' /\ LockInv' /\ NextInv'
  <2>1. /\ req'[r].pc = "idle" /\ \A s \in Requests \ {r} : req'[s] = req[s]
        /\ invoice' = invoice
    BY <1>6, SlotMoves DEF RecordIssue, Stop, TypeOK
  <2>2. \A s \in Requests \ {r} : \A a \in Agencies : lock[a] = s => lock'[a] = s
    BY <1>6 DEF RecordIssue, Stop
  <2>3. \A s \in Requests :
          \/ req'[s] = req[s] /\ \A a \in Agencies : lock[a] = s => lock'[a] = s
          \/ req'[s].pc \in {"idle", "lock", "audit"}
    BY <2>1, <2>2
  <2> QED  BY <2>1, <2>3, QuietStep
<1>7. ASSUME NEW p \in Packages, NEW x \in Prices, UpdatePrice(p, x)
      PROVE  GapInv' /\ UniqueInv' /\ LockInv' /\ NextInv'
  <2>1. req' = req /\ lock' = lock /\ invoice' = invoice
    BY <1>7 DEF UpdatePrice
  <2> QED  BY <2>1, QuietStep
<1>8. CASE NewYear \/ UNCHANGED vars
  <2>1. req' = req /\ lock' = lock /\ invoice' = invoice
    BY <1>8 DEF NewYear, vars
  <2>2. GapInv' /\ UniqueInv' /\ LockInv' /\ NextInv'
    BY <2>1, QuietStep
  <2> QED  BY <1>1, <2>2
<1> QED  BY <1>1, <1>2, <1>3, <1>4, <1>5, <1>6, <1>7, <1>8 DEF Next

LEMMA NumbersHold == Spec => []NumberInv
<1>1. NumberInv /\ [Next]_vars => NumberInv'
  BY StepNumber
<1> QED  BY InitNumber, <1>1, PTL DEF Spec

\* TypeOK holds of every execution, for any number of agencies and of years.
THEOREM TypeCorrect == Spec => []TypeOK
<1>1. NumberInv => TypeOK
  BY DEF NumberInv
<1> QED  BY NumbersHold, <1>1, PTL

\* NumberedWithoutGap holds of every execution: the lock makes "last number plus
\* one" safe against rollbacks, restarts and simultaneous requests.
THEOREM NumbersHaveNoGap == Spec => []NumberedWithoutGap
<1>1. ASSUME NumberInv, NEW b \in Bookings, invoice[b] # None
      PROVE  /\ \A n \in 1..invoice[b].sequence :
                  n \in Sequences(SellerOf(b), invoice[b].year)
             /\ invoice[b].sequence # 0
             /\ \A c \in Issued(SellerOf(b), invoice[b].year) \ {b} :
                  invoice[c].sequence # invoice[b].sequence
  <2>1. PICK a \in Agencies, y \in Nat, q \in Nat :
          a = SellerOf(b) /\ y = invoice[b].year /\ q = invoice[b].sequence
    BY <1>1, SellerIsAgency DEF NumberInv, TypeOK, Number
  <2>2. PICK k \in Nat : Sequences(a, y) = 1..k
    BY <1>1 DEF NumberInv, GapInv
  <2>3. q \in Sequences(a, y)
    BY <1>1, <2>1 DEF Sequences, Issued
  <2>4. q # 0 /\ \A n \in 1..q : n \in Sequences(a, y)
    BY <2>2, <2>3
  <2>5. \A c \in Issued(a, y) \ {b} : invoice[c].sequence # q
    BY <1>1, <2>1 DEF NumberInv, UniqueInv, Issued
  <2> QED  BY <2>1, <2>4, <2>5
<1>2. NumberInv => NumberedWithoutGap
  BY <1>1 DEF NumberedWithoutGap
<1> QED  BY NumbersHold, <1>2, PTL

\* IssueIsReal holds of every execution: the unique key that refuses an insertion
\* is always the booking's, never the number's, so swallowing the error is safe.
THEOREM IssuesAreReal == Spec => []IssueIsReal
<1>1. Init => IssueIsReal
  BY DEF Init, IssueIsReal, Idle
<1>2. ASSUME NumberInv, IssueIsReal, [Next]_vars
      PROVE  IssueIsReal'
  <2> USE <1>2 DEF IssueIsReal, NumberInv
  <2>1. ASSUME NEW r \in Requests, InsertInvoice(r)
        PROVE  IssueIsReal'
    <3>1. PICK b \in Bookings, n \in Number : b = req[r].target /\ n = req[r].number
      BY <2>1 DEF InsertInvoice, TargetInv, TypeOK, Request
    <3>2. n.sequence \notin Sequences(SellerOf(b), n.year)
      <4>1. /\ n.sequence \in Nat \ {0}
            /\ Sequences(SellerOf(b), n.year) = 1..(n.sequence - 1)
        BY <2>1, <3>1 DEF InsertInvoice, NextInv
      <4> QED  BY <4>1
    <3>3. n # None
      BY InvoicesAssumption DEF Number
    <3>4. invoice'[b] # None /\ \A c \in Bookings : invoice[c] # None => invoice'[c] # None
      BY <2>1, <3>1, <3>2, <3>3 DEF InsertInvoice, Conflict, TypeOK
    <3>5. /\ req'[r].pc = "audit" /\ req'[r].target = b
          /\ \A s \in Requests \ {r} : req'[s] = req[s]
      BY <2>1, <3>1, SlotMoves DEF InsertInvoice, TypeOK, Pc
    <3>6. audits' = audits
      BY <2>1 DEF InsertInvoice
    <3> QED  BY <3>4, <3>5, <3>6 DEF TargetInv
  <2>2. ASSUME NEW r \in Requests, RecordIssue(r)
        PROVE  IssueIsReal'
    <3>1. /\ req'[r].pc = "idle" /\ \A s \in Requests \ {r} : req'[s] = req[s]
          /\ invoice' = invoice
      BY <2>2, SlotMoves DEF RecordIssue, TypeOK
    <3>2. /\ invoice[req[r].target] # None
          /\ audits' = [audits EXCEPT ![req[r].target] = @ + 1]
      BY <2>2 DEF RecordIssue
    <3>3. \A b \in Bookings : audits'[b] # 0 => invoice[b] # None
      BY <3>2 DEF TypeOK
    <3> QED  BY <3>1, <3>3
  <2>3. ASSUME invoice' = invoice, audits' = audits,
               \A s \in Requests : req'[s] = req[s] \/ req'[s].pc # "audit"
        PROVE  IssueIsReal'
    BY <2>3
  <2>4. ASSUME NEW r \in Requests,
               (\E b \in Bookings : GetInvoice(r, b)) \/ LockAgency(r) \/ Stop(r)
        PROVE  IssueIsReal'
    <3>1. \A s \in Requests : req'[s] = req[s] \/ req'[s].pc # "audit"
      BY <2>4, SlotMoves DEF GetInvoice, LockAgency, Stop, TypeOK, Pc
    <3> QED  BY <2>3, <2>4, <3>1 DEF GetInvoice, LockAgency, Stop
  <2>5. ASSUME NEW r \in Requests, NextNumber(r)
        PROVE  IssueIsReal'
    <3>1. \A s \in Requests : req'[s] = req[s] \/ req'[s].pc # "audit"
      BY <2>5, NumberedSlot
    <3> QED  BY <2>3, <2>5, <3>1 DEF NextNumber
  <2>6. CASE \/ \E p \in Packages, x \in Prices : UpdatePrice(p, x)
             \/ NewYear \/ UNCHANGED vars
    BY <2>3, <2>6 DEF UpdatePrice, NewYear, vars
  <2> QED  BY <2>1, <2>2, <2>4, <2>5, <2>6 DEF Next
<1>3. NumberInv /\ IssueIsReal /\ [Next]_vars => IssueIsReal'
  BY <1>2
<1> QED  BY NumbersHold, <1>1, <1>3, PTL DEF Spec

\* InvoicesAreFinal holds of every execution: the insertion of a second invoice of a
\* booking is refused, and nothing else writes one.
THEOREM InvoicesNeverChange == Spec => InvoicesAreFinal
<1>1. ASSUME TypeOK, [Next]_vars, NEW b \in Bookings, invoice[b] # None
      PROVE  invoice'[b] = invoice[b]
  <2>1. ASSUME NEW r \in Requests, InsertInvoice(r)
        PROVE  invoice'[b] = invoice[b]
    BY <1>1, <2>1 DEF InsertInvoice, Conflict, TypeOK
  <2>2. CASE UNCHANGED invoice
    BY <2>2
  <2> QED
    BY <1>1, <2>1, <2>2
    DEF Next, GetInvoice, LockAgency, NextNumber, RecordIssue, Stop, UpdatePrice, NewYear, vars
<1>2. TypeOK /\ [Next]_vars =>
        [\A b \in Bookings : invoice[b] # None => invoice'[b] = invoice[b]]_vars
  BY <1>1
<1> QED  BY <1>2, TypeCorrect, PTL DEF Spec, InvoicesAreFinal
=============================================================================
