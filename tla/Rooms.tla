-------------------------------- MODULE Rooms --------------------------------
(***************************************************************************)
(* One block of hotel rooms and the bookings placed in it: RoomsService.   *)
(* A placement runs in a transaction that holds the block's row lock       *)
(* (SELECT ... FOR UPDATE); what it decided before the transaction, and    *)
(* every other handler, is not under that lock.  An UPDATE or a DELETE of  *)
(* the block's row still waits for it.                                     *)
(*                                                                         *)
(* A definition commented "Mutant" is no part of the specification.        *)
(***************************************************************************)
EXTENDS Naturals, FiniteSets

CONSTANTS
  Bookings,   \* the bookings of the block's package
  Requests,   \* slots for the requests in flight
  Beds,       \* beds per room, from the room type, which never changes
  RoomCounts, \* the numbers of rooms the agency gives the block
  NoOne       \* nobody holds the lock; a request about no booking

ASSUME RoomsAssumption ==
  /\ IsFiniteSet(Bookings) /\ NoOne \notin Bookings \union Requests
  /\ Beds \in Nat \ {0}
  /\ RoomCounts \subseteq Nat \ {0}   \* @Min(1) roomCount

VARIABLES
  block,      \* the block's row: deleted or not, number of rooms
  room,       \* the room each booking is placed in, 0 for none
  cancelled,  \* the bookings that are CANCELLED
  req,        \* the requests in flight
  lock,       \* who holds the block's row lock
  evicted,    \* history: bookings that lost their room to a deletion
  raced       \* history: a placement met a resizing or a deletion in flight

vars == <<block, room, cancelled, req, lock, evicted, raced>>
history == <<evicted, raced>>

Pc == {"idle", "lock", "choose", "place", "resize", "delete"}

\* wanted: the room asked for (0: any) or chosen, or the new number of rooms;
\* count: the number of rooms the handler has read.
Request == [pc : Pc, target : Bookings \union {NoOne}, wanted : Nat, count : Nat]
Idle == [pc |-> "idle", target |-> NoOne, wanted |-> 0, count |-> 0]

\* A placement always has a room number, a request the numbers it has read.
TypeOK ==
  /\ block \in [exists : BOOLEAN, count : Nat]
  /\ room \in [Bookings -> Nat]
  /\ cancelled \subseteq Bookings
  /\ req \in [Requests -> Request]
  /\ lock \in Requests \union {NoOne}
  /\ evicted \subseteq Bookings
  /\ raced \in BOOLEAN

Init ==
  /\ block \in [exists : {TRUE}, count : RoomCounts]
  /\ room = [b \in Bookings |-> 0]
  /\ cancelled = {}
  /\ req = [r \in Requests |-> Idle]
  /\ lock = NoOne
  /\ evicted = {}
  /\ raced = FALSE

Placed == {b \in Bookings : room[b] # 0}
\* The handlers in flight that place somebody, and those that change the block.
Placing == {r \in Requests : req[r].pc \in {"lock", "choose", "place"}}
Altering == {r \in Requests : req[r].pc \in {"resize", "delete"}}
RememberRace == raced' = (raced \/ (Placing' # {} /\ Altering' # {}))

Goto(r, pc) == req' = [req EXCEPT ![r].pc = pc]
Finish(r) == req' = [req EXCEPT ![r] = Idle]

-----------------------------------------------------------------------------
(* assign *)

\* Block and booking are read; a cancelled booking is refused.
AssignRead(r, b, n) ==
  /\ req[r].pc = "idle" /\ block.exists /\ b \notin cancelled
  /\ req' = [req EXCEPT ![r] = [pc |-> "lock", target |-> b, wanted |-> n,
                                count |-> block.count]]
  /\ RememberRace
  /\ UNCHANGED <<block, room, cancelled, lock, evicted>>

\* A block deleted meanwhile locks nothing; the insert then fails on its key.
LockBlock(r) ==
  /\ req[r].pc = "lock" /\ lock = NoOne
  /\ IF block.exists THEN lock' = r /\ Goto(r, "choose")
                     ELSE UNCHANGED lock /\ Finish(r)
  /\ UNCHANGED <<block, room, cancelled, history>>

Occupation(n, b) == Cardinality({c \in Bookings \ {b} : room[c] = n})

\* Mutant: only the search for a free room counts the beds.
ChoicesUnchecked(r) ==
  LET b == req[r].target
      free == {n \in 1..req[r].count : Occupation(n, b) < Beds}
  IN  IF req[r].wanted = 0 THEN {n \in free : \A m \in free : n <= m}
                           ELSE {req[r].wanted} \intersect 1..req[r].count

\* The rooms the request may choose: the one it asks for, or the first with a bed.
Choices(r) ==
  LET b == req[r].target
      free == {n \in 1..req[r].count : Occupation(n, b) < Beds}
  IN  IF req[r].wanted = 0 THEN {n \in free : \A m \in free : n <= m}
                           ELSE {req[r].wanted} \intersect free

\* Mutant: a refusal leaves the transaction open.
ChooseRoomKeepsLock(r) ==
  /\ req[r].pc = "choose"
  /\ \/ \E n \in Choices(r) :
          req' = [req EXCEPT ![r].pc = "place", ![r].wanted = n]
     \/ Choices(r) = {} /\ Finish(r)
  /\ UNCHANGED <<block, room, cancelled, lock, history>>

\* Under the lock: the occupants are read and a room is chosen, or the request
\* refused and the transaction rolled back.
ChooseRoom(r) ==
  /\ req[r].pc = "choose"
  /\ \/ \E n \in Choices(r) :
          /\ req' = [req EXCEPT ![r].pc = "place", ![r].wanted = n]
          /\ UNCHANGED lock
     \/ Choices(r) = {} /\ Finish(r) /\ lock' = NoOne
  /\ UNCHANGED <<block, room, cancelled, history>>

\* The upsert and the commit.
PlaceBooking(r) ==
  /\ req[r].pc = "place"
  /\ room' = [room EXCEPT ![req[r].target] = req[r].wanted]
  /\ lock' = NoOne
  /\ Finish(r)
  /\ UNCHANGED <<block, cancelled, history>>

\* An interactive transaction that lasts too long, or whose process stops, is
\* rolled back.
Abort(r) ==
  /\ req[r].pc \in {"choose", "place"}
  /\ lock' = NoOne
  /\ Finish(r)
  /\ UNCHANGED <<block, room, cancelled, history>>

-----------------------------------------------------------------------------
(* updateBlock, deleteBlock, unassign *)

\* Mutant: one room less is accepted.
ResizeReadOffByOne(r, n) ==
  /\ req[r].pc = "idle" /\ block.exists
  /\ \A b \in Placed : room[b] <= n + 1
  /\ req' = [req EXCEPT ![r] = [Idle EXCEPT !.pc = "resize", !.wanted = n]]
  /\ RememberRace
  /\ UNCHANGED <<block, room, cancelled, lock, evicted>>

ResizeRead(r, n) ==
  /\ req[r].pc = "idle" /\ block.exists
  /\ \A b \in Placed : room[b] <= n
  /\ req' = [req EXCEPT ![r] = [Idle EXCEPT !.pc = "resize", !.wanted = n]]
  /\ RememberRace
  /\ UNCHANGED <<block, room, cancelled, lock, evicted>>

ResizeWrite(r) ==
  /\ req[r].pc = "resize" /\ lock = NoOne
  /\ block' = IF block.exists THEN [block EXCEPT !.count = req[r].wanted] ELSE block
  /\ Finish(r)
  /\ UNCHANGED <<room, cancelled, lock, history>>

DeleteRead(r) ==
  /\ req[r].pc = "idle" /\ block.exists
  /\ Placed = {}
  /\ req' = [req EXCEPT ![r] = [Idle EXCEPT !.pc = "delete"]]
  /\ RememberRace
  /\ UNCHANGED <<block, room, cancelled, lock, evicted>>

\* The placements go with the block (onDelete: Cascade).
DeleteWrite(r) ==
  /\ req[r].pc = "delete" /\ lock = NoOne
  /\ block' = [block EXCEPT !.exists = FALSE]
  /\ room' = [b \in Bookings |-> 0]
  /\ evicted' = evicted \union Placed
  /\ Finish(r)
  /\ UNCHANGED <<cancelled, lock, raced>>

\* One DELETE of the placement's row: the block is not locked.
Unassign(b) ==
  /\ block.exists /\ room[b] # 0
  /\ room' = [room EXCEPT ![b] = 0]
  /\ UNCHANGED <<block, cancelled, req, lock, history>>

\* BookingsService.cancel: the placement stays.
CancelBooking(b) ==
  /\ cancelled' = cancelled \union {b}
  /\ UNCHANGED <<block, room, req, lock, history>>

Continue(r) ==
  \/ LockBlock(r) \/ ChooseRoom(r) \/ PlaceBooking(r)
  \/ ResizeWrite(r) \/ DeleteWrite(r)

Next ==
  \/ \E r \in Requests :
       \/ \E b \in Bookings, n \in {0} \union RoomCounts : AssignRead(r, b, n)
       \/ \E n \in RoomCounts : ResizeRead(r, n)
       \/ DeleteRead(r)
       \/ Continue(r)
       \/ Abort(r)
  \/ \E b \in Bookings : Unassign(b) \/ CancelBooking(b)

Spec == Init /\ [][Next]_vars

\* The database queues those who wait for a row lock.
FairSpec == Spec /\ \A r \in Requests : SF_vars(Continue(r))

-----------------------------------------------------------------------------
(* Properties *)

\* However placements, removals and resizings interleave, no room has more
\* occupants than beds.
NoRoomOvercrowded ==
  \A n \in {room[b] : b \in Placed} :
    Cardinality({b \in Bookings : room[b] = n}) <= Beds

\* The lock never outlives its holder's transaction, and a transaction that
\* places somebody holds it: nobody else is then between reading and placing.
LockIsHeld ==
  \A r \in Requests : req[r].pc \in {"choose", "place"} <=> lock = r

\* Every request is answered: nobody waits for the lock for ever.
RequestsEnd == \A r \in Requests : req[r].pc # "idle" ~> req[r].pc = "idle"

\* As long as no placement has met a resizing or a deletion, an occupied room is
\* in its block, whatever else overlaps.
PlacesAreInBlock ==
  ~raced => \A b \in Placed : block.exists /\ room[b] <= block.count

\* As long as no placement has met a resizing or a deletion, nobody loses a room
\* because the block is deleted.
NobodyIsEvicted == ~raced => evicted = {}

\* A pilgrim who has a room keeps it, until he or the agency gives it up.
PlacesAreKept == PlacesAreInBlock /\ NobodyIsEvicted
=============================================================================
