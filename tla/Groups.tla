-------------------------------- MODULE Groups --------------------------------
(***************************************************************************)
(* Who travels in which group, and who shares a position there:            *)
(* GroupsService, GroupRosterService, BookingsService.assignGroup and the  *)
(* family's view.  A handler reads the group, then writes; nothing ties    *)
(* the membership, the group of the booking and the position together.     *)
(*                                                                         *)
(* A definition commented "Mutant" is no part of the specification.        *)
(***************************************************************************)

CONSTANTS
  Requests,   \* slots for the requests in flight
  Groups,     \* groups of the agency
  Bookings,   \* bookings of one pilgrim with the agency
  Guide,      \* the guide of every group
  Pilgrim,
  None

\* member: groups the pilgrim is a member of; groupOf: groupId of each booking;
\* positions: pairs <<group, user>>; wanted: the sharing that each user has asked
\* for; excused: a sharing was on its way when it was asked to stop.
VARIABLES member, groupOf, positions, wanted, excused, req
vars == <<member, groupOf, positions, wanted, excused, req>>

Users == {Pilgrim, Guide}
Idle == [pc |-> "idle", booking |-> None, group |-> None, user |-> None]

Init ==
  /\ member = {} /\ positions = {} /\ wanted = {} /\ excused = {}
  /\ groupOf = [b \in Bookings |-> None]
  /\ req = [r \in Requests |-> Idle]

Begin(r, pc, b, g, u) ==
  /\ req[r].pc = "idle"
  /\ req' = [req EXCEPT ![r] = [pc |-> pc, booking |-> b, group |-> g, user |-> u]]
At(r, pc) == req[r].pc = pc
GoTo(r, pc) == req' = [req EXCEPT ![r].pc = pc]
End(r) == req' = [req EXCEPT ![r] = Idle]

-----------------------------------------------------------------------------
(* Membership *)

\* Mutant: the booking is written before its pilgrim is a member.
AssignGroupFirst(r, b, g) ==
  /\ Begin(r, "member", None, g, None)
  /\ groupOf' = IF b = None THEN groupOf ELSE [groupOf EXCEPT ![b] = g]
  /\ UNCHANGED <<member, positions, wanted, excused>>

AssignGroup(r, b, g) ==
  /\ Begin(r, "member", b, g, None)
  /\ UNCHANGED <<member, groupOf, positions, wanted, excused>>

AddMember(r, g) == AssignGroup(r, None, g)

\* What follows the membership: the group of the booking, for assignGroup.
AfterMember(r) == IF req[r].booking = None THEN End(r) ELSE GoTo(r, "booking")

FindMember(r) ==
  /\ At(r, "member")
  /\ IF req[r].group \in member THEN AfterMember(r) ELSE GoTo(r, "create")
  /\ UNCHANGED <<member, groupOf, positions, wanted, excused>>

\* The unique key refuses a member that another request has added since.
CreateMember(r) ==
  /\ At(r, "create")
  /\ IF req[r].group \in member THEN End(r) ELSE AfterMember(r)
  /\ member' = member \union {req[r].group}
  /\ UNCHANGED <<groupOf, positions, wanted, excused>>

WriteGroup(r) ==
  /\ At(r, "booking") /\ End(r)
  /\ groupOf' = [groupOf EXCEPT ![req[r].booking] = req[r].group]
  /\ UNCHANGED <<member, positions, wanted, excused>>

-----------------------------------------------------------------------------
(* Positions *)

InGroup(u, g) == u = Guide \/ g \in member

\* updateLocation reads the group; the position follows.
UpdateLocation(r, u, g) ==
  /\ InGroup(u, g) /\ Begin(r, "locate", None, g, u)
  /\ wanted' = wanted \union {<<g, u>>} /\ excused' = excused \ {<<g, u>>}
  /\ UNCHANGED <<member, groupOf, positions>>

\* "Je suis perdu": its own reading of the group, then that of updateLocation.
TriggerLostAlert(r, g) ==
  /\ InGroup(Pilgrim, g) /\ Begin(r, "lost", None, g, Pilgrim)
  /\ wanted' = wanted \union {<<g, Pilgrim>>} /\ excused' = excused \ {<<g, Pilgrim>>}
  /\ UNCHANGED <<member, groupOf, positions>>

LocateLost(r) ==
  /\ At(r, "lost") /\ GoTo(r, "locate")
  /\ UNCHANGED <<member, groupOf, positions, wanted, excused>>

UpsertLocation(r) ==
  /\ At(r, "locate") /\ End(r)
  /\ positions' = positions \union {<<req[r].group, req[r].user>>}
  /\ UNCHANGED <<member, groupOf, wanted, excused>>

Sharing(u, g) == \E r \in Requests :
  req[r].pc \in {"lost", "locate"} /\ req[r].group = g /\ req[r].user = u

Stop(u, g) ==
  /\ wanted' = wanted \ {<<g, u>>}
  /\ excused' = IF Sharing(u, g) THEN excused \union {<<g, u>>} ELSE excused

\* Mutant: the position is only erased for a member.
ClearLocationOfMember(u, g) ==
  /\ positions' = IF g \in member /\ u = Pilgrim THEN positions \ {<<g, u>>} ELSE positions
  /\ Stop(u, g)
  /\ UNCHANGED <<member, groupOf, req>>

\* One statement, whoever asks.
ClearLocation(u, g) ==
  /\ positions' = positions \ {<<g, u>>} /\ Stop(u, g)
  /\ UNCHANGED <<member, groupOf, req>>

\* The process dies, or a statement fails, between two awaits.
Drop(r) ==
  /\ ~At(r, "idle") /\ End(r)
  /\ UNCHANGED <<member, groupOf, positions, wanted, excused>>

-----------------------------------------------------------------------------
(* Views *)

\* The roster of a group shows each member with one booking, picked from these.
RosterBookings(g) == IF g \in member THEN {b \in Bookings : groupOf[b] = g} ELSE {}

\* getFamilyView: the position that the pilgrim shares in the group of the booking.
FamilyLocation(b) ==
  IF groupOf[b] = None THEN {} ELSE {p \in positions : p = <<groupOf[b], Pilgrim>>}

Next ==
  \/ \E r \in Requests :
       \/ \E g \in Groups :
            \/ \E b \in Bookings : AssignGroup(r, b, g)
            \/ AddMember(r, g) \/ TriggerLostAlert(r, g)
            \/ \E u \in Users : UpdateLocation(r, u, g)
       \/ FindMember(r) \/ CreateMember(r) \/ WriteGroup(r)
       \/ LocateLost(r) \/ UpsertLocation(r) \/ Drop(r)
  \/ \E u \in Users, g \in Groups : ClearLocation(u, g)

Spec == Init /\ [][Next]_vars

-----------------------------------------------------------------------------
(* Properties *)

\* A booking is never put in a group before its pilgrim: the roster of the group finds
\* every booking placed there under one of its members, whatever fails on the way.
BookingIsInItsGroup ==
  \A b \in Bookings : groupOf[b] # None => b \in RosterBookings(groupOf[b])

\* "jamais conservée au-delà du consentement": once its owner has asked to stop, a
\* position is stored nowhere, nor shown to the family, unless a sharing was still on
\* its way.
PositionsAreConsented ==
  /\ positions \subseteq wanted \union excused
  /\ \A b \in Bookings : FamilyLocation(b) \subseteq wanted \union excused
=============================================================================
