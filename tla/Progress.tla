------------------------------- MODULE Progress -------------------------------
(***************************************************************************)
(* The progress of one pilgrim on one rite or one micro-course, which the  *)
(* mobile application records offline and sends later, in batches that may *)
(* be late, repeated or reordered: RiteProgressService and                 *)
(* MicroCoursesService.  The items of a batch are handled one after the    *)
(* other, each by a read and a conditional upsert, so a batch is modelled  *)
(* as its items.                                                           *)
(*                                                                         *)
(* A definition commented "Mutant" is no part of the specification.        *)
(***************************************************************************)
EXTENDS Naturals

CONSTANTS
  Requests,   \* slots for the items in flight
  MaxStamp,   \* bound on the clocks of the phone and of the server
  None        \* no row, or a field the item does not carry

\* kind: a rite, whose counters can be reset, or a course; row: what is stored;
\* newest: the items of the highest
\* stamp handled since the last reset, at time since; stale: the row has changed
\* between the read and the upsert of an item.
VARIABLES kind, row, newest, since, stale, req
vars == <<kind, row, newest, since, stale, req>>

Stamps == 1..MaxStamp
Idle == [pc |-> "idle"]

\* done: completed or isCompleted; count: tawafCount and saiCount, on a rite only.
Item == [done : {None, TRUE}, count : {None, 1}, stamp : Stamps]

Init ==
  /\ kind \in {"rite", "course"}
  /\ row = None /\ newest = {} /\ since = 0 /\ stale = FALSE
  /\ req = [r \in Requests |-> Idle]

SyncRead(r, i) ==
  /\ req[r].pc = "idle"
  /\ kind = "course" => i.count = None
  /\ req' = [req EXCEPT ![r] = [pc |-> "sync", item |-> i, existing |-> row]]
  /\ UNCHANGED <<kind, row, newest, since, stale>>

\* Mutant: the last item to arrive is kept.
LosesLastArrived(old, i) == FALSE

Loses(old, i) == old # None /\ old.stamp >= i.stamp

\* The defaults of the columns, under the fields the item carries.
Kept(old, i, f) == IF i[f] # None THEN i[f] ELSE old[f]
New == [done |-> FALSE, count |-> 0, stamp |-> 0]
Upserted(i) ==
  LET old == IF row = None THEN New ELSE row
  IN  [done |-> Kept(old, i, "done"), count |-> Kept(old, i, "count"), stamp |-> i.stamp]

\* History: what the properties compare the row with.
Newest(i) ==
  IF \E j \in newest : j.stamp > i.stamp THEN newest
  ELSE {i} \union {j \in newest : j.stamp = i.stamp}

SyncWrite(r) ==
  /\ req[r].pc = "sync"
  /\ row' = IF Loses(req[r].existing, req[r].item) THEN row ELSE Upserted(req[r].item)
  /\ newest' = Newest(req[r].item)
  /\ stale' = (stale \/ req[r].existing # row)
  /\ req' = [req EXCEPT ![r] = Idle]
  /\ UNCHANGED <<kind, since>>

\* resetCounter, stamped with the clock of the server.
ResetCounter(t) ==
  /\ kind = "rite" /\ t >= since
  /\ row' = IF row = None THEN [New EXCEPT !.stamp = t] ELSE [row EXCEPT !.count = 0, !.stamp = t]
  /\ newest' = {} /\ since' = t
  /\ UNCHANGED <<kind, stale, req>>

Next ==
  \/ \E r \in Requests : (\E i \in Item : SyncRead(r, i)) \/ SyncWrite(r)
  \/ \E t \in Stamps : ResetCounter(t)

Spec == Init /\ [][Next]_vars

-----------------------------------------------------------------------------
(* Properties *)

Holds(i) == \A f \in {"done", "count"} : i[f] # None => row[f] = i[f]

\* ADR 0007, resolution by the client's clock: in whatever order items arrive, once
\* or several times, the row is that of the newest one received or of the reset
\* after it, and holds every field this one carries.  Only an item handled while
\* another changes the row may break it.
NewestItemWins ==
  ~stale /\ row # None =>
    IF \E i \in newest : i.stamp > since
      THEN \E i \in newest : row.stamp = i.stamp /\ Holds(i)
      ELSE row.stamp = since
=============================================================================
