----------------------------- MODULE RoomsProofs -----------------------------
(***************************************************************************)
(* No room gets more occupants than beds, whatever the bookings, the       *)
(* requests and the rooms.  The strengthening says what a placement that   *)
(* has chosen its room may rely on (ChoiceInv), which is true because      *)
(* nobody else places while it holds the lock (LockIsHeld).                *)
(***************************************************************************)
EXTENDS Rooms, FiniteSetTheorems, TLAPS

LEMMA IdleIsRequest == Idle \in Request
BY DEF Idle, Request, Pc

LEMMA InitType == Init => TypeOK
<1> SUFFICES ASSUME Init PROVE TypeOK
  OBVIOUS
<1>1. block \in [exists : BOOLEAN, count : Nat]
  <2>1. PICK n \in RoomCounts : block = [exists |-> TRUE, count |-> n]
    BY DEF Init
  <2> QED  BY <2>1, RoomsAssumption
<1>2. req \in [Requests -> Request] /\ room \in [Bookings -> Nat]
  BY IdleIsRequest DEF Init
<1> QED  BY <1>1, <1>2 DEF Init, TypeOK

\* What the bookkeeping of the requests keeps.
LEMMA SlotTypes ==
  ASSUME TypeOK, NEW r \in Requests
  PROVE  /\ Finish(r) => req' \in [Requests -> Request]
         /\ \A pc \in Pc : Goto(r, pc) => req' \in [Requests -> Request]
<1>1. Finish(r) => req' \in [Requests -> Request]
  BY IdleIsRequest DEF TypeOK, Finish
<1>2. ASSUME NEW pc \in Pc, Goto(r, pc)
      PROVE  req' \in [Requests -> Request]
  <2>1. [req[r] EXCEPT !.pc = pc] \in Request
    BY DEF TypeOK, Request
  <2>2. req' = [req EXCEPT ![r] = [req[r] EXCEPT !.pc = pc]]
    BY <1>2 DEF Goto
  <2> QED  BY <2>1, <2>2 DEF TypeOK
<1> QED  BY <1>1, <1>2

\* The slot of a placement that has chosen room n.
LEMMA ChosenSlot ==
  ASSUME TypeOK, NEW r \in Requests, NEW n \in Nat,
         req' = [req EXCEPT ![r].pc = "place", ![r].wanted = n]
  PROVE  /\ req' \in [Requests -> Request]
         /\ req'[r].pc = "place" /\ req'[r].wanted = n
         /\ req'[r].target = req[r].target
         /\ \A s \in Requests \ {r} : req'[s] = req[s]
<1>1. req' = [req EXCEPT ![r] = [req[r] EXCEPT !.pc = "place", !.wanted = n]]
  OBVIOUS
<1>2. [req[r] EXCEPT !.pc = "place", !.wanted = n] \in Request
  BY DEF TypeOK, Request, Pc
<1> QED  BY <1>1, <1>2 DEF TypeOK, Request

LEMMA StepType ==
  ASSUME TypeOK, [Next]_vars
  PROVE  TypeOK'
<1> USE RoomsAssumption DEF TypeOK, history, RememberRace
<1>1. ASSUME NEW r \in Requests, NEW b \in Bookings, NEW n \in {0} \union RoomCounts,
             AssignRead(r, b, n)
      PROVE  TypeOK'
  <2>1. [pc |-> "lock", target |-> b, wanted |-> n, count |-> block.count] \in Request
    BY DEF Request, Pc
  <2> QED  BY <1>1, <2>1 DEF AssignRead
<1>2. ASSUME NEW r \in Requests, NEW n \in RoomCounts, ResizeRead(r, n)
      PROVE  TypeOK'
  <2>1. [Idle EXCEPT !.pc = "resize", !.wanted = n] \in Request
    BY DEF Request, Pc, Idle
  <2> QED  BY <1>2, <2>1 DEF ResizeRead
<1>3. ASSUME NEW r \in Requests, DeleteRead(r)
      PROVE  TypeOK'
  <2>1. [Idle EXCEPT !.pc = "delete"] \in Request
    BY DEF Request, Pc, Idle
  <2> QED  BY <1>3, <2>1 DEF DeleteRead
<1>4. ASSUME NEW r \in Requests, LockBlock(r)
      PROVE  TypeOK'
  <2>1. req' \in [Requests -> Request]
    BY <1>4, SlotTypes DEF LockBlock, Pc
  <2> QED  BY <1>4, <2>1 DEF LockBlock
<1>5. ASSUME NEW r \in Requests, ChooseRoom(r)
      PROVE  TypeOK'
  <2>1. \A n \in Choices(r) : n \in Nat
    BY DEF Choices, Request
  <2>2. req' \in [Requests -> Request]
    <3>1. CASE Finish(r)
      BY <3>1, SlotTypes
    <3>2. CASE \E n \in Choices(r) :
                 req' = [req EXCEPT ![r].pc = "place", ![r].wanted = n]
      BY <3>2, <2>1, ChosenSlot
    <3> QED  BY <1>5, <3>1, <3>2 DEF ChooseRoom
  <2> QED  BY <1>5, <2>2 DEF ChooseRoom
<1>6. ASSUME NEW r \in Requests, PlaceBooking(r)
      PROVE  TypeOK'
  <2>1. req' \in [Requests -> Request]
    BY <1>6, SlotTypes DEF PlaceBooking
  <2>2. room' \in [Bookings -> Nat]
    BY <1>6 DEF PlaceBooking, Request
  <2> QED  BY <1>6, <2>1, <2>2 DEF PlaceBooking
<1>7. ASSUME NEW r \in Requests, ResizeWrite(r)
      PROVE  TypeOK'
  <2>1. req' \in [Requests -> Request]
    BY <1>7, SlotTypes DEF ResizeWrite
  <2>2. block' \in [exists : BOOLEAN, count : Nat]
    BY <1>7 DEF ResizeWrite, Request
  <2> QED  BY <1>7, <2>1, <2>2 DEF ResizeWrite
<1>8. ASSUME NEW r \in Requests, DeleteWrite(r)
      PROVE  TypeOK'
  <2>1. req' \in [Requests -> Request]
    BY <1>8, SlotTypes DEF DeleteWrite
  <2> QED  BY <1>8, <2>1 DEF DeleteWrite, Placed
<1>9. ASSUME NEW r \in Requests, Abort(r)
      PROVE  TypeOK'
  <2>1. req' \in [Requests -> Request]
    BY <1>9, SlotTypes DEF Abort
  <2> QED  BY <1>9, <2>1 DEF Abort
<1>10. ASSUME NEW b \in Bookings, Unassign(b) \/ CancelBooking(b)
       PROVE  TypeOK'
  BY <1>10 DEF Unassign, CancelBooking
<1>11. CASE UNCHANGED vars
  BY <1>11 DEF vars
<1> QED
  BY <1>1, <1>2, <1>3, <1>4, <1>5, <1>6, <1>7, <1>8, <1>9, <1>10, <1>11
     DEF Next, Continue

\* TypeOK holds of every execution, whatever the constants: a placement
\* always writes a room number, a request never outgrows its record.
THEOREM TypeCorrect == Spec => []TypeOK
BY InitType, StepType, PTL DEF Spec

-----------------------------------------------------------------------------
(* The lock *)

LEMMA StepLock ==
  ASSUME TypeOK, LockIsHeld, [Next]_vars
  PROVE  LockIsHeld'
<1> USE RoomsAssumption DEF TypeOK, LockIsHeld
<1>1. ASSUME NEW r \in Requests, NEW b \in Bookings, NEW n \in {0} \union RoomCounts,
             AssignRead(r, b, n)
      PROVE  LockIsHeld'
  BY <1>1 DEF AssignRead
<1>2. ASSUME NEW r \in Requests, NEW n \in RoomCounts, ResizeRead(r, n)
      PROVE  LockIsHeld'
  BY <1>2 DEF ResizeRead, Idle
<1>3. ASSUME NEW r \in Requests, DeleteRead(r)
      PROVE  LockIsHeld'
  BY <1>3 DEF DeleteRead, Idle
<1>4. ASSUME NEW r \in Requests, LockBlock(r)
      PROVE  LockIsHeld'
  <2>1. CASE block.exists
    <3>1. lock' = r /\ req' = [req EXCEPT ![r].pc = "choose"]
      BY <1>4, <2>1 DEF LockBlock, Goto
    <3>2. req'[r].pc = "choose"
      BY <3>1 DEF Request
    <3>3. \A s \in Requests \ {r} : req'[s] = req[s] /\ lock # s
      BY <1>4, <3>1 DEF LockBlock
    <3> QED  BY <3>1, <3>2, <3>3
  <2>2. CASE ~block.exists
    BY <1>4, <2>2 DEF LockBlock, Finish, Idle
  <2> QED  BY <2>1, <2>2
<1>5. ASSUME NEW r \in Requests, ChooseRoom(r)
      PROVE  LockIsHeld'
  <2>1. CASE Finish(r) /\ lock' = NoOne
    BY <1>5, <2>1 DEF ChooseRoom, Finish, Idle
  <2>2. CASE /\ \E n \in Choices(r) :
                  req' = [req EXCEPT ![r].pc = "place", ![r].wanted = n]
             /\ UNCHANGED lock
    <3>1. PICK n \in Choices(r) :
            req' = [req EXCEPT ![r].pc = "place", ![r].wanted = n]
      BY <2>2
    <3>2. n \in Nat
      BY DEF Choices, Request
    <3>3. req'[r].pc = "place" /\ \A s \in Requests \ {r} : req'[s] = req[s]
      BY <3>1, <3>2, ChosenSlot
    <3> QED  BY <1>5, <2>2, <3>3 DEF ChooseRoom
  <2> QED  BY <1>5, <2>1, <2>2 DEF ChooseRoom
<1>6. ASSUME NEW r \in Requests, PlaceBooking(r) \/ Abort(r)
      PROVE  LockIsHeld'
  BY <1>6 DEF PlaceBooking, Abort, Finish, Idle
<1>7. ASSUME NEW r \in Requests, ResizeWrite(r) \/ DeleteWrite(r)
      PROVE  LockIsHeld'
  BY <1>7 DEF ResizeWrite, DeleteWrite, Finish, Idle
<1>8. ASSUME NEW b \in Bookings, Unassign(b) \/ CancelBooking(b)
      PROVE  LockIsHeld'
  BY <1>8 DEF Unassign, CancelBooking
<1>9. CASE UNCHANGED vars
  BY <1>9 DEF vars
<1> QED
  BY <1>1, <1>2, <1>3, <1>4, <1>5, <1>6, <1>7, <1>8, <1>9 DEF Next, Continue

LEMMA InitLock == Init => LockIsHeld
BY RoomsAssumption DEF Init, LockIsHeld, Idle

\* LockIsHeld holds of every execution: the row lock assign takes is released by
\* every end of its transaction, and nobody places a booking without it.
THEOREM TransactionsHoldTheLock == Spec => []LockIsHeld
<1>1. Init => TypeOK /\ LockIsHeld
  BY InitType, InitLock
<1>2. TypeOK /\ LockIsHeld /\ [Next]_vars => (TypeOK /\ LockIsHeld)'
  BY StepType, StepLock
<1> QED  BY <1>1, <1>2, PTL DEF Spec

-----------------------------------------------------------------------------
(* The occupants *)

Occupants(n) == {c \in Bookings : room[c] = n}

\* NoRoomOvercrowded, room number by room number.
CrowdInv == \A n \in Nat \ {0} : Cardinality(Occupants(n)) <= Beds

\* The booking a placement is about, and the bed its room still has.
ChoiceInv ==
  \A r \in Requests :
    /\ req[r].pc \in {"lock", "choose", "place"} => req[r].target \in Bookings
    /\ req[r].pc = "place" =>
         req[r].wanted # 0 /\ Occupation(req[r].wanted, req[r].target) < Beds

RoomInv == TypeOK /\ LockIsHeld /\ ChoiceInv /\ CrowdInv

LEMMA CrowdIsGoal == CrowdInv /\ TypeOK => NoRoomOvercrowded
BY DEF CrowdInv, NoRoomOvercrowded, Placed, Occupants, TypeOK

LEMMA InitRoom == Init => RoomInv
<1> SUFFICES ASSUME Init PROVE RoomInv
  OBVIOUS
<1>1. ChoiceInv
  BY DEF Init, ChoiceInv, Idle
<1>2. CrowdInv
  <2>1. \A n \in Nat \ {0} : Occupants(n) = {}
    BY DEF Init, Occupants
  <2> QED  BY <2>1, FS_EmptySet, RoomsAssumption DEF CrowdInv
<1> QED  BY <1>1, <1>2, InitType, InitLock DEF RoomInv

\* Fewer placements, no more occupants.
LEMMA FewerPlaced ==
  ASSUME TypeOK, TypeOK', \A c \in Bookings : room'[c] \in {0, room[c]}
  PROVE  \A n \in Nat \ {0} :
           /\ Cardinality(Occupants(n)') <= Cardinality(Occupants(n))
           /\ \A b \in Bookings : Occupation(n, b)' <= Occupation(n, b)
<1> SUFFICES ASSUME NEW n \in Nat \ {0}
             PROVE  /\ Cardinality(Occupants(n)') <= Cardinality(Occupants(n))
                    /\ \A b \in Bookings : Occupation(n, b)' <= Occupation(n, b)
  OBVIOUS
<1>1. Cardinality(Occupants(n)') <= Cardinality(Occupants(n))
  <2>1. Occupants(n) \in SUBSET Bookings /\ Occupants(n)' \in SUBSET Occupants(n)
    BY DEF Occupants
  <2> QED  BY <2>1, FS_Subset, RoomsAssumption
<1>2. ASSUME NEW b \in Bookings
      PROVE  Occupation(n, b)' <= Occupation(n, b)
  <2> DEFINE Old == {c \in Bookings \ {b} : room[c] = n}
             New == {c \in Bookings \ {b} : room'[c] = n}
  <2>1. Old \in SUBSET Bookings /\ New \in SUBSET Old
    OBVIOUS
  <2>2. Cardinality(New) <= Cardinality(Old)
    BY <2>1, FS_Subset, RoomsAssumption
  <2> QED  BY <2>2 DEF Occupation
<1> QED  BY <1>1, <1>2

\* A handler that only frees beds, and starts no placement of its own, keeps
\* both parts.
LEMMA FreeingKeeps ==
  ASSUME RoomInv, TypeOK', \A c \in Bookings : room'[c] \in {0, room[c]},
         \A r \in Requests : req'[r] = req[r] \/ req'[r].pc \in {"idle", "resize", "delete"}
  PROVE  ChoiceInv' /\ CrowdInv'
<1> USE DEF RoomInv
<1>1. \A n \in Nat \ {0} :
        /\ Cardinality(Occupants(n)') <= Cardinality(Occupants(n))
        /\ \A b \in Bookings : Occupation(n, b)' <= Occupation(n, b)
  BY FewerPlaced
<1>2. \A n \in Nat : /\ Cardinality(Occupants(n)) \in Nat
                     /\ Cardinality(Occupants(n)') \in Nat
  <2> TAKE n \in Nat
  <2>1. Occupants(n) \in SUBSET Bookings /\ Occupants(n)' \in SUBSET Bookings
    BY DEF Occupants
  <2>2. IsFiniteSet(Occupants(n)) /\ IsFiniteSet(Occupants(n)')
    BY <2>1, FS_Subset, RoomsAssumption
  <2> QED  BY <2>2, FS_CardinalityType
<1>3. CrowdInv'
  BY <1>1, <1>2, RoomsAssumption DEF CrowdInv
<1>4. ASSUME NEW r \in Requests
      PROVE  /\ req'[r].pc \in {"lock", "choose", "place"} => req'[r].target \in Bookings
             /\ req'[r].pc = "place" =>
                  /\ req'[r].wanted # 0
                  /\ Cardinality({c \in Bookings \ {req'[r].target} :
                                    room'[c] = req'[r].wanted}) < Beds
  <2>1. CASE req'[r].pc \in {"idle", "resize", "delete"}
    BY <2>1
  <2>2. CASE req'[r] = req[r] /\ req[r].pc # "place"
    BY <2>2 DEF ChoiceInv
  <2>3. CASE req'[r] = req[r] /\ req[r].pc = "place"
    <3>0. PICK n \in Nat \ {0}, b \in Bookings :
            n = req[r].wanted /\ b = req[r].target
      BY <2>3 DEF ChoiceInv, TypeOK, Request
    <3>1. Occupation(n, b) < Beds
      BY <2>3, <3>0 DEF ChoiceInv
    <3>2. Occupation(n, b)' <= Occupation(n, b)
      BY <1>1, <3>1
    <3>3. Cardinality({c \in Bookings \ {b} : room'[c] = n})
            <= Cardinality({c \in Bookings \ {b} : room[c] = n})
      BY <3>2 DEF Occupation
    <3>4. /\ Cardinality({c \in Bookings \ {b} : room[c] = n}) \in Nat
          /\ Cardinality({c \in Bookings \ {b} : room'[c] = n}) \in Nat
      <4>1. /\ {c \in Bookings \ {b} : room[c] = n} \in SUBSET Bookings
            /\ {c \in Bookings \ {b} : room'[c] = n} \in SUBSET Bookings
        OBVIOUS
      <4>2. /\ IsFiniteSet({c \in Bookings \ {b} : room[c] = n})
            /\ IsFiniteSet({c \in Bookings \ {b} : room'[c] = n})
        BY <4>1, FS_Subset, RoomsAssumption
      <4> QED  BY <4>2, FS_CardinalityType
    <3>5. Cardinality({c \in Bookings \ {b} : room[c] = n}) < Beds
      BY <3>1 DEF Occupation
    <3>6. Cardinality({c \in Bookings \ {b} : room'[c] = n}) < Beds
      BY <3>3, <3>4, <3>5, RoomsAssumption
    <3> QED  BY <2>3, <3>0, <3>6
  <2> QED  BY <2>1, <2>2, <2>3
<1>5. ChoiceInv'
  BY <1>4 DEF ChoiceInv, Occupation
<1> QED  BY <1>3, <1>5

\* Placing fills the bed that was counted.
LEMMA PlacingKeeps ==
  ASSUME RoomInv, TypeOK', NEW r \in Requests, PlaceBooking(r)
  PROVE  ChoiceInv' /\ CrowdInv'
<1> USE DEF RoomInv
<1> DEFINE b == req[r].target
           k == req[r].wanted
           Others == {c \in Bookings \ {b} : room[c] = k}
<1>1. /\ req[r].pc = "place" /\ req' = [req EXCEPT ![r] = Idle]
      /\ room' = [room EXCEPT ![b] = k]
  BY DEF PlaceBooking, Finish
<1>2. b \in Bookings /\ k \in Nat \ {0} /\ Cardinality(Others) < Beds
  BY <1>1 DEF ChoiceInv, Occupation, TypeOK, Request
<1>3. ChoiceInv'
  <2>1. \A s \in Requests : req'[s].pc # "place"
    BY <1>1 DEF TypeOK, LockIsHeld, Idle
  <2>2. \A s \in Requests :
          req'[s].pc \in {"lock", "choose"} => req'[s].target \in Bookings
    BY <1>1 DEF TypeOK, ChoiceInv, Idle
  <2> QED  BY <2>1, <2>2 DEF ChoiceInv
<1>4. ASSUME NEW n \in Nat \ {0}
      PROVE  Cardinality(Occupants(n)') <= Beds
  <2>1. CASE n = k
    <3>1. Others \in SUBSET Bookings
      OBVIOUS
    <3>2. IsFiniteSet(Others)
      BY <3>1, FS_Subset, RoomsAssumption
    <3>3. Cardinality(Others) \in Nat
      BY <3>2, FS_CardinalityType
    <3>4. Occupants(n)' = Others \union {b}
      BY <1>1, <1>2, <2>1 DEF Occupants, TypeOK
    <3>5. Cardinality(Others \union {b}) = Cardinality(Others) + 1
      BY <3>2, FS_AddElement
    <3> HIDE DEF Others
    <3> QED  BY <1>2, <3>3, <3>4, <3>5, RoomsAssumption
  <2>2. CASE n # k
    <3>1. Occupants(n) \in SUBSET Bookings /\ Occupants(n)' \in SUBSET Occupants(n)
      BY <1>1, <1>2, <2>2 DEF Occupants, TypeOK
    <3>2. IsFiniteSet(Occupants(n)) /\ IsFiniteSet(Occupants(n)')
      BY <3>1, FS_Subset, RoomsAssumption
    <3>3. Cardinality(Occupants(n)') <= Cardinality(Occupants(n))
      BY <3>1, <3>2, FS_Subset
    <3>4. Cardinality(Occupants(n)) \in Nat /\ Cardinality(Occupants(n)') \in Nat
      BY <3>2, FS_CardinalityType
    <3>5. Cardinality(Occupants(n)) <= Beds
      BY DEF CrowdInv
    <3> QED  BY <3>3, <3>4, <3>5, RoomsAssumption
  <2> QED  BY <2>1, <2>2
<1> QED  BY <1>3, <1>4 DEF CrowdInv

\* Choosing counts the beds.
LEMMA ChoosingKeeps ==
  ASSUME RoomInv, TypeOK', NEW r \in Requests, ChooseRoom(r)
  PROVE  ChoiceInv' /\ CrowdInv'
<1> USE DEF RoomInv
<1>1. CASE Finish(r)
  <2>1. \A s \in Requests : req'[s] = req[s] \/ req'[s].pc = "idle"
    BY <1>1 DEF Finish, Idle, TypeOK
  <2>2. \A c \in Bookings : room'[c] = room[c]
    BY DEF ChooseRoom
  <2> QED  BY <2>1, <2>2, FreeingKeeps
<1>2. ASSUME NEW n \in Choices(r),
             req' = [req EXCEPT ![r].pc = "place", ![r].wanted = n]
      PROVE  ChoiceInv' /\ CrowdInv'
  <2>1. n \in Nat \ {0} /\ Occupation(n, req[r].target) < Beds
    BY DEF Choices, TypeOK, Request
  <2>2. UNCHANGED room /\ req[r].pc = "choose"
    BY DEF ChooseRoom
  <2>3. CrowdInv'
    BY <2>2 DEF CrowdInv, Occupants
  <2>4. ASSUME NEW s \in Requests
        PROVE  /\ req'[s].pc \in {"lock", "choose", "place"} => req'[s].target \in Bookings
               /\ req'[s].pc = "place" =>
                    req'[s].wanted # 0 /\ Occupation(req'[s].wanted, req'[s].target) < Beds
    <3>1. CASE s = r
      BY <1>2, <2>1, <2>2, <3>1 DEF TypeOK, Request, ChoiceInv
    <3>2. CASE s # r
      BY <1>2, <3>2 DEF TypeOK, ChoiceInv
    <3> QED  BY <3>1, <3>2
  <2> QED  BY <2>2, <2>3, <2>4 DEF ChoiceInv, Occupation
<1> QED  BY <1>1, <1>2 DEF ChooseRoom

LEMMA StepRoom ==
  ASSUME RoomInv, [Next]_vars
  PROVE  RoomInv'
<1> USE DEF RoomInv
<1>1. TypeOK'
  BY StepType
<1>2. LockIsHeld'
  BY StepLock
<1>3. ASSUME NEW r \in Requests, NEW b \in Bookings, NEW n \in {0} \union RoomCounts,
             AssignRead(r, b, n)
      PROVE  ChoiceInv' /\ CrowdInv'
  BY <1>3 DEF AssignRead, TypeOK, ChoiceInv, CrowdInv, Occupants, Occupation
<1>4. ASSUME NEW r \in Requests, LockBlock(r)
      PROVE  ChoiceInv' /\ CrowdInv'
  <2>1. \A s \in Requests : \/ req'[s] = req[s]
                            \/ req'[s].pc = "idle"
                            \/ /\ req'[s].pc = "choose" /\ req[s].pc = "lock"
                               /\ req'[s].target = req[s].target
    BY <1>4 DEF LockBlock, Goto, Finish, Idle, TypeOK, Request
  <2> QED  BY <1>4, <2>1 DEF LockBlock, ChoiceInv, CrowdInv, Occupants, Occupation
<1>5. ASSUME NEW r \in Requests, ChooseRoom(r)
      PROVE  ChoiceInv' /\ CrowdInv'
  BY <1>1, <1>5, ChoosingKeeps
<1>6. ASSUME NEW r \in Requests, PlaceBooking(r)
      PROVE  ChoiceInv' /\ CrowdInv'
  BY <1>1, <1>6, PlacingKeeps
<1>7. ASSUME NEW r \in Requests,
             \/ \E n \in RoomCounts : ResizeRead(r, n)
             \/ DeleteRead(r)
             \/ ResizeWrite(r) \/ DeleteWrite(r) \/ Abort(r)
      PROVE  ChoiceInv' /\ CrowdInv'
  <2>1. \A s \in Requests : req'[s] = req[s] \/ req'[s].pc \in {"idle", "resize", "delete"}
    <3>1. ASSUME NEW slot, slot.pc \in {"idle", "resize", "delete"},
                 req' = [req EXCEPT ![r] = slot]
          PROVE  \A s \in Requests : req'[s] \in {req[s], slot}
      BY <3>1 DEF TypeOK
    <3>2. CASE \E n \in RoomCounts : ResizeRead(r, n)
      BY <3>1, <3>2 DEF ResizeRead, Idle
    <3>3. CASE DeleteRead(r)
      BY <3>1, <3>3 DEF DeleteRead, Idle
    <3>4. CASE Finish(r)
      BY <3>1, <3>4 DEF Finish, Idle
    <3> QED  BY <1>7, <3>2, <3>3, <3>4 DEF ResizeWrite, DeleteWrite, Abort
  <2>2. \A c \in Bookings : room'[c] \in {0, room[c]}
    BY <1>7 DEF ResizeRead, DeleteRead, ResizeWrite, DeleteWrite, Abort
  <2> QED  BY <1>1, <2>1, <2>2, FreeingKeeps
<1>8. ASSUME NEW b \in Bookings, Unassign(b) \/ CancelBooking(b)
      PROVE  ChoiceInv' /\ CrowdInv'
  <2>1. \A c \in Bookings : room'[c] \in {0, room[c]}
    BY <1>8 DEF Unassign, CancelBooking, TypeOK
  <2>2. \A s \in Requests : req'[s] = req[s]
    BY <1>8 DEF Unassign, CancelBooking
  <2> QED  BY <1>1, <2>1, <2>2, FreeingKeeps
<1>9. CASE UNCHANGED vars
  <2>1. room' = room /\ req' = req
    BY <1>9 DEF vars
  <2>2. /\ \A c \in Bookings : room'[c] \in {0, room[c]}
        /\ \A s \in Requests : req'[s] = req[s]
    BY <2>1
  <2> QED  BY <1>1, <1>2, <2>2, FreeingKeeps
<1> QED
  BY <1>1, <1>2, <1>3, <1>4, <1>5, <1>6, <1>7, <1>8, <1>9 DEF Next, Continue

\* NoRoomOvercrowded holds of every execution of RoomsService: for any number of
\* beds, rooms, bookings and simultaneous requests, and although resizing,
\* deleting and removing do not take assign's lock.
THEOREM RoomsAreNotOvercrowded == Spec => []NoRoomOvercrowded
<1>1. RoomInv => NoRoomOvercrowded
  BY CrowdIsGoal DEF RoomInv
<1>2. RoomInv /\ [Next]_vars => RoomInv'
  BY StepRoom
<1> QED  BY InitRoom, <1>1, <1>2, PTL DEF Spec

-----------------------------------------------------------------------------
(* The places *)

\* What each request relies on, as long as no placement has met a resizing or a
\* deletion: a placement, that the block is as it has read it; a resizing, that
\* nobody is above the new number of rooms; a deletion, that nobody is placed.
Relies(r) ==
  /\ r \in Placing => block.exists /\ req[r].count = block.count /\ req[r].target \in Bookings
  /\ req[r].pc = "place" => req[r].wanted \in 1..req[r].count
  /\ req[r].pc = "resize" => \A b \in Placed : room[b] <= req[r].wanted
  /\ req[r].pc = "delete" => Placed = {}

PlaceInv ==
  ~raced =>
    /\ Placing = {} \/ Altering = {}
    /\ \A r \in Requests : Relies(r)
    /\ \A b \in Placed : block.exists /\ room[b] <= block.count
    /\ evicted = {}

\* The three handlers that begin by a read.
LEMMA BeginsApart ==
  ASSUME TypeOK, RememberRace
  PROVE  /\ raced => raced'
         /\ ~raced' => Placing' = {} \/ Altering' = {}
<1>1. raced' = (raced \/ (Placing' # {} /\ Altering' # {})) /\ raced \in BOOLEAN
  BY DEF RememberRace, TypeOK
<1> QED  BY <1>1, Zenon

\* A handler that leaves the block alone, moves one request on or ends it, and takes
\* nobody above a room number that he had.
LEMMA RoomsFreed ==
  ASSUME TypeOK, PlaceInv, NEW r, UNCHANGED <<block, history>>,
         \A c \in Bookings : room'[c] \in {0, room[c]},
         \A s \in Requests \ {r} : req'[s] = req[s],
         r \in Requests => \/ req'[r] = req[r] \/ req'[r].pc = "idle"
                           \/ /\ req[r].pc = "lock" /\ req'[r].pc = "choose"
                              /\ req'[r].count = req[r].count /\ req'[r].target = req[r].target
                           \/ /\ req[r].pc = "choose" /\ req'[r].pc = "place"
                              /\ req'[r].count = req[r].count /\ req'[r].target = req[r].target
                              /\ req'[r].wanted \in 1..req[r].count
  PROVE  PlaceInv'
<1> SUFFICES ASSUME ~raced
             PROVE  /\ Placing' = {} \/ Altering' = {}
                    /\ \A s \in Requests : Relies(s)'
                    /\ \A b \in Placed' : block.exists /\ room'[b] <= block.count
                    /\ evicted = {}
  BY DEF PlaceInv, history
<1>1. /\ Placing' \subseteq Placing /\ Altering' \subseteq Altering
  BY DEF Placing, Altering
<1>2. /\ Placed' \subseteq Placed /\ \A b \in Placed' : room'[b] = room[b]
  BY DEF Placed
<1>3. ASSUME NEW s \in Requests
      PROVE  Relies(s)'
  <2>1. Relies(s) /\ block' = block
    BY DEF PlaceInv
  <2>2. s \in Placing' => block.exists /\ req'[s].count = block.count /\ req'[s].target \in Bookings
    BY <1>1, <2>1 DEF Relies, Placing
  <2>3. req'[s].pc = "place" => req'[s].wanted \in 1..req'[s].count
    BY <2>1 DEF Relies
  <2>4. req'[s].pc \in {"resize", "delete"} => req'[s] = req[s]
    OBVIOUS
  <2>5. /\ req'[s].pc = "resize" => \A b \in Placed' : room'[b] <= req'[s].wanted
        /\ req'[s].pc = "delete" => Placed' = {}
    BY <1>2, <2>1, <2>4 DEF Relies
  <2> QED  BY <2>1, <2>2, <2>3, <2>5 DEF Relies
<1> QED  BY <1>1, <1>2, <1>3 DEF PlaceInv

\* A handler that begins: the other requests rely on what they relied on.
LEMMA RoomsRead ==
  ASSUME TypeOK, PlaceInv, NEW r \in Requests, NEW slot \in Request, RememberRace,
         UNCHANGED <<block, room, evicted>>, req' = [req EXCEPT ![r] = slot],
         ~raced =>
           /\ slot.pc \in {"lock", "choose", "place"} =>
                block.exists /\ slot.count = block.count /\ slot.target \in Bookings
           /\ slot.pc # "place"
           /\ slot.pc = "resize" => \A b \in Placed : room[b] <= slot.wanted
           /\ slot.pc = "delete" => Placed = {}
  PROVE  PlaceInv'
<1> SUFFICES ASSUME ~raced'
             PROVE  /\ Placing' = {} \/ Altering' = {}
                    /\ \A s \in Requests : Relies(s)'
                    /\ \A b \in Placed' : block.exists /\ room'[b] <= block.count
                    /\ evicted = {}
  BY DEF PlaceInv
<1>1. ~raced /\ (Placing' = {} \/ Altering' = {})
  BY BeginsApart
<1>2. Placed' = Placed
  BY DEF Placed
<1>3. ASSUME NEW s \in Requests
      PROVE  Relies(s)'
  <2>1. CASE s = r
    <3>1. req'[s] = slot
      BY <2>1 DEF TypeOK
    <3> QED  BY <1>1, <1>2, <3>1 DEF Relies, Placing
  <2>2. CASE s # r
    <3>1. req'[s] = req[s] /\ Relies(s)
      BY <1>1, <2>2 DEF PlaceInv, TypeOK
    <3> QED  BY <1>2, <3>1 DEF Relies, Placing
  <2> QED  BY <2>1, <2>2
<1> QED  BY <1>1, <1>2, <1>3 DEF PlaceInv

LEMMA StepPlace ==
  ASSUME TypeOK, ChoiceInv, PlaceInv, [Next]_vars
  PROVE  PlaceInv'
<1> USE RoomsAssumption
<1>1. ASSUME NEW r \in Requests, NEW b \in Bookings, NEW n \in {0} \union RoomCounts,
             AssignRead(r, b, n)
      PROVE  PlaceInv'
  <2> DEFINE slot == [pc |-> "lock", target |-> b, wanted |-> n, count |-> block.count]
  <2>1. slot \in Request
    BY DEF Request, Pc, TypeOK
  <2>2. slot.pc = "lock" /\ slot.count = block.count /\ slot.target = b
    OBVIOUS
  <2>3. /\ block.exists /\ RememberRace /\ UNCHANGED <<block, room, evicted>>
        /\ req' = [req EXCEPT ![r] = slot]
    BY <1>1 DEF AssignRead
  <2> HIDE DEF slot
  <2> QED  BY <2>1, <2>2, <2>3, RoomsRead
<1>2. ASSUME NEW r \in Requests, NEW n \in RoomCounts, ResizeRead(r, n)
      PROVE  PlaceInv'
  <2> DEFINE slot == [Idle EXCEPT !.pc = "resize", !.wanted = n]
  <2>1. slot \in Request /\ slot.pc = "resize" /\ slot.wanted = n
    BY DEF Request, Pc, Idle
  <2>2. /\ \A b \in Placed : room[b] <= n
        /\ RememberRace /\ UNCHANGED <<block, room, evicted>>
        /\ req' = [req EXCEPT ![r] = slot]
    BY <1>2 DEF ResizeRead
  <2> HIDE DEF slot
  <2> QED  BY <2>1, <2>2, RoomsRead
<1>3. ASSUME NEW r \in Requests, DeleteRead(r)
      PROVE  PlaceInv'
  <2> DEFINE slot == [Idle EXCEPT !.pc = "delete"]
  <2>1. slot \in Request /\ slot.pc = "delete"
    BY DEF Request, Pc, Idle
  <2>2. /\ Placed = {} /\ RememberRace /\ UNCHANGED <<block, room, evicted>>
        /\ req' = [req EXCEPT ![r] = slot]
    BY <1>3 DEF DeleteRead
  <2> HIDE DEF slot
  <2> QED  BY <2>1, <2>2, RoomsRead
<1>4. ASSUME NEW r \in Requests, LockBlock(r)
      PROVE  PlaceInv'
  <2>1. /\ UNCHANGED <<block, room, history>> /\ req[r].pc = "lock"
        /\ \A s \in Requests \ {r} : req'[s] = req[s]
        /\ \/ req'[r].pc = "idle"
           \/ /\ req'[r].pc = "choose" /\ req'[r].count = req[r].count
              /\ req'[r].target = req[r].target
    BY <1>4 DEF LockBlock, Goto, Finish, Idle, TypeOK, Request
  <2>2. \A c \in Bookings : room'[c] \in {0, room[c]}
    BY <2>1
  <2> QED  BY <2>1, <2>2, RoomsFreed
<1>5. ASSUME NEW r \in Requests, ChooseRoom(r)
      PROVE  PlaceInv'
  <2>1. UNCHANGED <<block, room, history>> /\ req[r].pc = "choose"
    BY <1>5 DEF ChooseRoom
  <2>2. \A c \in Bookings : room'[c] \in {0, room[c]}
    BY <2>1
  <2>3. CASE Finish(r)
    <3>1. req'[r].pc = "idle" /\ \A s \in Requests \ {r} : req'[s] = req[s]
      BY <2>3 DEF Finish, Idle, TypeOK
    <3> QED  BY <2>1, <2>2, <3>1, RoomsFreed
  <2>4. ASSUME NEW n \in Choices(r),
               req' = [req EXCEPT ![r].pc = "place", ![r].wanted = n]
        PROVE  PlaceInv'
    <3>1. n \in 1..req[r].count /\ n \in Nat
      BY DEF Choices, TypeOK, Request
    <3>2. /\ req'[r].pc = "place" /\ req'[r].wanted = n /\ req'[r].target = req[r].target
          /\ \A s \in Requests \ {r} : req'[s] = req[s]
      BY <2>4, <3>1, ChosenSlot
    <3>3. req'[r].count = req[r].count
      BY <2>4 DEF TypeOK, Request
    <3> QED  BY <2>1, <2>2, <3>1, <3>2, <3>3, RoomsFreed
  <2> QED  BY <1>5, <2>3, <2>4 DEF ChooseRoom
<1>6. ASSUME NEW r \in Requests, PlaceBooking(r)
      PROVE  PlaceInv'
  <2> DEFINE b == req[r].target
             k == req[r].wanted
  <2> SUFFICES ASSUME ~raced
               PROVE  /\ Placing' = {} \/ Altering' = {}
                      /\ \A s \in Requests : Relies(s)'
                      /\ \A c \in Placed' : block.exists /\ room'[c] <= block.count
                      /\ evicted = {}
    BY <1>6 DEF PlaceInv, PlaceBooking, history
  <2>1. /\ req[r].pc = "place" /\ req' = [req EXCEPT ![r] = Idle]
        /\ room' = [room EXCEPT ![b] = k] /\ UNCHANGED block
    BY <1>6 DEF PlaceBooking, Finish
  <2>2. r \in Placing /\ Relies(r)
    BY <2>1 DEF Placing, PlaceInv
  <2>3. /\ Altering = {} /\ block.exists /\ b \in Bookings
        /\ k \in 1..block.count
    BY <2>1, <2>2 DEF PlaceInv, Relies
  <2> HIDE DEF b, k
  <2>4. \A s \in Requests : req'[s] = req[s] \/ req'[s].pc = "idle"
    BY <2>1 DEF Idle, TypeOK
  <2>5. Altering' = {}
    BY <2>3, <2>4 DEF Altering
  <2>6. ASSUME NEW s \in Requests
        PROVE  Relies(s)'
    <3>1. req'[s].pc \notin {"resize", "delete"}
      BY <2>5 DEF Altering
    <3>2. CASE req'[s].pc = "idle"
      BY <3>2 DEF Relies, Placing
    <3>3. CASE req'[s] = req[s]
      BY <2>1, <3>1, <3>3 DEF Relies, Placing, PlaceInv
    <3> QED  BY <2>4, <3>2, <3>3
  <2>7. \A c \in Placed' : block.exists /\ room'[c] <= block.count
    BY <2>1, <2>3 DEF Placed, PlaceInv, TypeOK
  <2> QED  BY <2>5, <2>6, <2>7 DEF PlaceInv
<1>7. ASSUME NEW r \in Requests, Abort(r)
      PROVE  PlaceInv'
  <2>1. /\ UNCHANGED <<block, room, history>>
        /\ req'[r].pc = "idle" /\ \A s \in Requests \ {r} : req'[s] = req[s]
    BY <1>7 DEF Abort, Finish, Idle, TypeOK
  <2>2. \A c \in Bookings : room'[c] \in {0, room[c]}
    BY <2>1
  <2> QED  BY <2>1, <2>2, RoomsFreed
<1>8. ASSUME NEW r \in Requests, ResizeWrite(r)
      PROVE  PlaceInv'
  <2> DEFINE k == req[r].wanted
  <2> SUFFICES ASSUME ~raced
               PROVE  /\ Placing' = {} \/ Altering' = {}
                      /\ \A s \in Requests : Relies(s)'
                      /\ \A c \in Placed : block'.exists /\ room[c] <= block'.count
                      /\ evicted = {}
    BY <1>8 DEF PlaceInv, ResizeWrite, history, Placed
  <2>1. /\ req[r].pc = "resize" /\ req' = [req EXCEPT ![r] = Idle] /\ room' = room
        /\ block' = IF block.exists THEN [block EXCEPT !.count = k] ELSE block
    BY <1>8 DEF ResizeWrite, Finish
  <2>2. r \in Altering /\ Relies(r) /\ Placing = {}
    BY <2>1 DEF Altering, PlaceInv
  <2>3. \A s \in Requests : req'[s] = req[s] \/ req'[s].pc = "idle"
    BY <2>1 DEF Idle, TypeOK
  <2>4. Placing' = {} /\ Placed' = Placed
    BY <2>1, <2>2, <2>3 DEF Placing, Placed
  <2>5. ASSUME NEW s \in Requests
        PROVE  Relies(s)'
    <3>1. CASE req'[s].pc = "idle"
      BY <2>4, <3>1 DEF Relies, Placing
    <3>2. CASE req'[s] = req[s]
      BY <2>1, <2>2, <2>4, <3>2 DEF Relies, Placing, PlaceInv
    <3> QED  BY <2>3, <3>1, <3>2
  <2>6. ASSUME NEW c \in Placed
        PROVE  block'.exists /\ room[c] <= block'.count
    <3>1. block.exists /\ room[c] <= k
      BY <2>1, <2>2 DEF PlaceInv, Relies
    <3>2. block'.exists = block.exists /\ block'.count = k
      BY <2>1, <3>1 DEF TypeOK
    <3> QED  BY <3>1, <3>2
  <2> QED  BY <2>4, <2>5, <2>6 DEF PlaceInv
<1>9. ASSUME NEW r \in Requests, DeleteWrite(r)
      PROVE  PlaceInv'
  <2> SUFFICES ASSUME ~raced
               PROVE  /\ Placing' = {} \/ Altering' = {}
                      /\ \A s \in Requests : Relies(s)'
                      /\ Placed' = {}
                      /\ evicted' = {}
    BY <1>9 DEF PlaceInv, DeleteWrite
  <2>1. /\ req[r].pc = "delete" /\ req' = [req EXCEPT ![r] = Idle]
        /\ room' = [c \in Bookings |-> 0] /\ evicted' = evicted \union Placed
    BY <1>9 DEF DeleteWrite, Finish
  <2>2. r \in Altering /\ Relies(r) /\ Placing = {}
    BY <2>1 DEF Altering, PlaceInv
  <2>3. \A s \in Requests : req'[s] = req[s] \/ req'[s].pc = "idle"
    BY <2>1 DEF Idle, TypeOK
  <2>4. Placing' = {} /\ Placed' = {}
    BY <2>1, <2>2, <2>3 DEF Placing, Placed
  <2>5. ASSUME NEW s \in Requests
        PROVE  Relies(s)'
    BY <2>3, <2>4 DEF Relies, Placing
  <2>6. evicted' = {}
    BY <2>1, <2>2 DEF PlaceInv, Relies
  <2> QED  BY <2>4, <2>5, <2>6
<1>10. ASSUME NEW b \in Bookings, Unassign(b) \/ CancelBooking(b)
      PROVE  PlaceInv'
  <2>1. UNCHANGED <<block, req, history>>
    BY <1>10 DEF Unassign, CancelBooking
  <2>2. \A c \in Bookings : room'[c] \in {0, room[c]}
    BY <1>10 DEF Unassign, CancelBooking, TypeOK
  <2> QED  BY <2>1, <2>2, RoomsFreed
<1>11. CASE UNCHANGED vars
  <2>1. UNCHANGED <<block, room, req, history>>
    BY <1>11 DEF vars, history
  <2>2. \A c \in Bookings : room'[c] \in {0, room[c]}
    BY <2>1
  <2> QED  BY <2>1, <2>2, RoomsFreed
<1> QED
  BY <1>1, <1>2, <1>3, <1>4, <1>5, <1>6, <1>7, <1>8, <1>9, <1>10, <1>11 DEF Next, Continue

\* As long as no placement meets a resizing or a deletion in flight, a pilgrim keeps
\* his room in a block that exists, whatever else overlaps.
THEOREM PlacesAlwaysKept == Spec => []PlacesAreKept
<1>1. Init => PlaceInv
  BY DEF Init, PlaceInv, Placing, Altering, Placed, Relies, Idle
<1>2. RoomInv /\ PlaceInv /\ [Next]_vars => PlaceInv'
  BY StepPlace DEF RoomInv
<1>3. PlaceInv => PlacesAreKept
  BY DEF PlaceInv, PlacesAreKept, PlacesAreInBlock, NobodyIsEvicted
<1>4. RoomInv /\ [Next]_vars => RoomInv'
  BY StepRoom
<1> QED  BY InitRoom, <1>1, <1>2, <1>3, <1>4, PTL DEF Spec
=============================================================================
