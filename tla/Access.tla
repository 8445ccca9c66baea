------------------------------- MODULE Access -------------------------------
(***************************************************************************)
(* Who may do what with the dossier of one booking: the roles that the     *)
(* controllers ask for and the check that each service makes again, in its *)
(* own terms, while the booking changes group, the group guide, and the    *)
(* dispute goes its way; and the rooms a socket has joined meanwhile.      *)
(*                                                                         *)
(* A definition commented "Mutant" is no part of the specification.        *)
(***************************************************************************)
CONSTANTS
  Pilgrims, Owners, Guides, Admins,  \* users of each role
  Groups,                            \* of the agency of the booking
  Pilgrim, Owner,                    \* the pilgrim and the agency of the booking
  None

\* suspended: accounts; member: groups the pilgrim belongs to; dispute: its status,
\* or "none"; socket: None, or its user, its room, whether it has joined, and whether
\* the group or the guide has changed since it asked to.
VARIABLES suspended, groupOf, member, guideOf, dispute, cancelled, socket
vars == <<suspended, groupOf, member, guideOf, dispute, cancelled, socket>>

Users == Pilgrims \union Owners \union Guides \union Admins
Role(u) == CASE u \in Pilgrims -> "pilgrim" [] u \in Owners -> "agency"
             [] u \in Guides -> "guide" [] u \in Admins -> "admin"
Everyone == {"pilgrim", "agency", "guide", "admin"}

Init ==
  /\ suspended = {} /\ groupOf = None /\ member = {}
  /\ guideOf = [x \in Groups |-> None]
  /\ dispute = "none" /\ cancelled = FALSE /\ socket = None

-----------------------------------------------------------------------------
(* The checks of the services: the users whom each of them lets through *)

Holder == {Pilgrim}
AgencyOfBooking == {Owner}
BookingReaders == Admins \union {Pilgrim} \union {u \in Owners : u = Owner}
PaymentReaders == Admins \union {Pilgrim} \union {u \in Owners : u = Owner}
BillingReaders == Admins \union {u \in Pilgrims : u = Pilgrim} \union {u \in Owners : u = Owner}

\* Whoever is no agency is taken for a pilgrim.
DocumentReaders == {u \in Users : IF u \in Owners THEN u = Owner ELSE u = Pilgrim}

VisiblesAdmin == {"escalated", "closed"}
DisputeReaders ==
  IF dispute = "none" THEN {}
  ELSE {Pilgrim, Owner} \union (IF dispute \in VisiblesAdmin THEN Admins ELSE {})

Members(x) == {u \in {Pilgrim} : x \in member}
GuidesOf(x) == {guideOf[x]} \ {None}

\* Members, also those whose booking has moved since: none is ever taken out.
GroupReaders(x) == Admins \union Members(x) \union GuidesOf(x) \union AgencyOfBooking
RosterReaders(x) == {u \in Guides : u \in GuidesOf(x)} \union {u \in Owners : u = Owner}

\* The participants of a thread are worked out from the booking and its group.
ThreadReaders(ch) ==
  IF ch = "agency" THEN {Pilgrim, Owner}
  ELSE IF groupOf = None \/ guideOf[groupOf] = None THEN {}
  ELSE {Pilgrim, guideOf[groupOf]}

-----------------------------------------------------------------------------
(* The routes of the controllers: the roles they ask for, the check behind *)

Route(roles, users) == [roles |-> roles, users |-> users]

BookingRoutes ==
  [read |-> Route(Everyone, BookingReaders), step |-> Route({"agency"}, AgencyOfBooking),
   place |-> Route({"agency"}, AgencyOfBooking), cancel |-> Route({"pilgrim"}, Holder),
   share |-> Route({"pilgrim"}, Holder)]
SummaryRoutes == [read |-> Route(Everyone, BookingReaders)]
BillingRoutes == [read |-> Route({"pilgrim", "agency", "admin"}, BillingReaders)]
PaymentRoutes ==
  [pay |-> Route({"pilgrim"}, Holder), read |-> Route(Everyone, PaymentReaders),
   refund |-> Route({"pilgrim", "agency", "admin"}, PaymentReaders),
   plan |-> Route({"pilgrim"}, Holder), books |-> Route({"agency"}, AgencyOfBooking)]
DocumentRoutes ==
  [upload |-> Route({"pilgrim"}, Holder),
   read |-> Route({"pilgrim", "agency"}, DocumentReaders),
   decide |-> Route({"agency"}, AgencyOfBooking)]
ChecklistRoutes == [read |-> Route({"pilgrim"}, Holder), tick |-> Route({"pilgrim"}, Holder)]
OnCallRoutes == [contact |-> Route({"pilgrim"}, IF cancelled THEN {} ELSE Holder),
                 manage |-> Route({"agency"}, AgencyOfBooking)]
RoomRoutes == [mine |-> Route({"pilgrim"}, IF cancelled THEN {} ELSE Holder),
               assign |-> Route({"agency"}, AgencyOfBooking)]
DisputeRoutes ==
  [open |-> Route({"pilgrim"}, Holder),
   read |-> Route({"pilgrim", "agency", "admin"}, DisputeReaders),
   escalate |-> Route({"pilgrim"}, Holder),
   decide |-> Route({"admin"}, IF dispute = "escalated" THEN Admins ELSE {})]
ThreadRoutes(ch) ==
  [open |-> Route({"pilgrim", "agency", "guide"}, ThreadReaders(ch))]
CommunityRoutes(x) == [talk |-> Route(Everyone, GroupReaders(x))]
GroupRoutes(x) ==
  [read |-> Route(Everyone, GroupReaders(x)),
   roster |-> Route({"agency", "guide"}, RosterReaders(x)),
   lead |-> Route({"agency"}, AgencyOfBooking),
   locate |-> Route({"pilgrim", "guide"}, Members(x) \union GuidesOf(x)),
   alert |-> Route({"pilgrim"}, Members(x))]

\* What an agency sells and how, and what the administration answers for; whoever is
\* not named by a check may use the route with the role alone.
PackageRoutes == [offer |-> Route({"agency"}, AgencyOfBooking)]
TermsRoutes == [replace |-> Route({"agency"}, AgencyOfBooking)]
AgencyRoutes ==
  [staff |-> Route({"agency"}, AgencyOfBooking), prove |-> Route({"agency"}, AgencyOfBooking),
   inspect |-> Route({"agency", "admin"}, AgencyOfBooking \union Admins),
   approve |-> Route({"admin"}, Users)]
PlanningRoutes ==
  [mine |-> Route({"guide"}, Users), excuse |-> Route({"agency"}, AgencyOfBooking)]
ReviewRoutes ==
  [write |-> Route({"pilgrim"}, IF cancelled THEN {} ELSE Holder),
   report |-> Route({"agency"}, AgencyOfBooking)]
SheetRoutes ==
  [edit |-> Route({"admin"}, Users), validate |-> Route({"admin"}, Users),
   progress |-> Route({"pilgrim"}, Users)]
QuizRoutes ==
  [propose |-> Route({"admin", "guide"}, Users), validate |-> Route({"admin"}, Users),
   read |-> Route({"pilgrim", "guide", "admin"}, Users), answer |-> Route({"pilgrim"}, Users)]
CourseRoutes == [edit |-> Route({"admin"}, Users), progress |-> Route({"pilgrim"}, Users)]
EmergencyRoutes ==
  [edit |-> Route({"admin"}, Users), contacts |-> Route({"pilgrim", "guide"}, Users)]
UserRoutes ==
  [profile |-> Route(Everyone, Users), needs |-> Route({"pilgrim"}, Users),
   suspend |-> Route({"admin"}, Users)]
AuditRoutes == [read |-> Route({"admin"}, Users)]

\* JwtStrategy refuses a suspended account, RolesGuard the other roles.
May(u, routes) ==
  {op \in DOMAIN routes : u \notin suspended /\ Role(u) \in routes[op].roles
                          /\ u \in routes[op].users}

-----------------------------------------------------------------------------
(* What changes meanwhile *)

Change == socket' = IF socket = None THEN None ELSE [socket EXCEPT !.moved = TRUE]

AssignGroup(x) ==
  /\ groupOf # x /\ groupOf' = x /\ member' = member \union {x} /\ Change
  /\ UNCHANGED <<suspended, guideOf, dispute, cancelled>>

AssignGuide(x, u) ==
  /\ guideOf[x] # u /\ guideOf' = [guideOf EXCEPT ![x] = u] /\ Change
  /\ UNCHANGED <<suspended, groupOf, member, dispute, cancelled>>

\* One account at a time is suspended, to bound the model.  Nothing keeps the last
\* administrator from suspending itself, and nobody is left to undo it.
SetActive(u) ==
  /\ \E by \in Users : "suspend" \in May(by, UserRoutes)
  /\ suspended \subseteq {u}
  /\ suspended' = {u} \ suspended
  /\ UNCHANGED <<groupOf, member, guideOf, dispute, cancelled, socket>>

Cancel ==
  /\ ~cancelled /\ cancelled' = TRUE
  /\ UNCHANGED <<suspended, groupOf, member, guideOf, dispute, socket>>

DisputeMoves(from, to) ==
  /\ dispute = from /\ dispute' = to
  /\ UNCHANGED <<suspended, groupOf, member, guideOf, cancelled, socket>>

Rooms == {"agency", "guide"} \union Groups
RoomReaders(room) == IF room \in Groups THEN GroupReaders(room) ELSE ThreadReaders(room)

\* Mutant: the room is joined as asked.
JoinReadAny(u, room) ==
  /\ socket = None
  /\ socket' = [user |-> u, room |-> room, joined |-> FALSE, moved |-> FALSE]
  /\ UNCHANGED <<suspended, groupOf, member, guideOf, dispute, cancelled>>

\* handleJoin of the two gateways; the account was active when the socket opened.
JoinRead(u, room) ==
  /\ socket = None /\ u \in RoomReaders(room)
  /\ socket' = [user |-> u, room |-> room, joined |-> FALSE, moved |-> FALSE]
  /\ UNCHANGED <<suspended, groupOf, member, guideOf, dispute, cancelled>>

Join ==
  /\ socket # None /\ ~socket.joined /\ socket' = [socket EXCEPT !.joined = TRUE]
  /\ UNCHANGED <<suspended, groupOf, member, guideOf, dispute, cancelled>>

Disconnect ==
  /\ socket # None /\ socket' = None
  /\ UNCHANGED <<suspended, groupOf, member, guideOf, dispute, cancelled>>

Next ==
  \/ \E x \in Groups : AssignGroup(x) \/ \E u \in Guides : AssignGuide(x, u)
  \/ \E u \in Users : SetActive(u) \/ \E room \in Rooms : JoinRead(u, room)
  \/ Cancel \/ Join \/ Disconnect
  \/ \E from \in {"none", "resolved", "closed"} : DisputeMoves(from, "open")
  \/ DisputeMoves("open", "resolved") \/ DisputeMoves("open", "escalated")
  \/ DisputeMoves("escalated", "resolved") \/ DisputeMoves("escalated", "closed")

Spec == Init /\ [][Next]_vars

-----------------------------------------------------------------------------
(* Lists and contacts *)

ListedBooking(u) == u \in Holder \union {v \in Owners : v = Owner}
ListedPayment(u) == ListedBooking(u)
ListedDispute(u) == dispute # "none" /\
  (CASE Role(u) = "pilgrim" -> u = Pilgrim [] Role(u) = "agency" -> u = Owner
     [] Role(u) = "admin" -> dispute \in VisiblesAdmin [] OTHER -> FALSE)
ListedGroup(u, x) ==
  \/ Role(u) = "pilgrim" /\ u \in Members(x)
  \/ Role(u) = "guide" /\ u \in GuidesOf(x)
  \/ Role(u) = "agency" /\ u = Owner

\* Mutant: the guides of every group the pilgrim has been in.
ContactsOfMembership ==
  IF cancelled THEN {} ELSE {Owner} \union UNION {GuidesOf(x) : x \in member}

\* findMyContacts, for the pilgrim.
Contacts ==
  IF cancelled THEN {}
  ELSE {Owner} \union (IF groupOf = None THEN {} ELSE GuidesOf(groupOf))

-----------------------------------------------------------------------------
(* Properties *)

\* Every part of a dossier has its own check, and they agree on who is concerned: its
\* pilgrim, its agency, the administration, and the guide of a group the pilgrim has
\* been placed in, for this group and its thread only.
DossierStaysAmongParties ==
  LET readers == {u \in Users : "read" \in May(u, BookingRoutes)}
  IN  /\ \A u \in Users \ readers :
           \A routes \in {BookingRoutes, SummaryRoutes, BillingRoutes, PaymentRoutes,
                          DocumentRoutes, ChecklistRoutes, OnCallRoutes, RoomRoutes,
                          DisputeRoutes} : May(u, routes) = {}
      /\ \A ch \in {"agency", "guide"}, u \in Users \ {Pilgrim, Owner} :
           May(u, ThreadRoutes(ch)) # {} => \E x \in member : u = guideOf[x]
      /\ \A x \in Groups, u \in Users \ readers :
           May(u, GroupRoutes(x)) \union May(u, CommunityRoutes(x)) # {} => u = guideOf[x]

\* What a user finds in a list is what the user may then open, though the list is a
\* query of its own.
ListsMatchAccess ==
  \A u \in Users \ suspended :
    /\ u \notin Admins =>
         /\ ListedBooking(u) <=> "read" \in May(u, BookingRoutes)
         /\ ListedPayment(u) <=> "read" \in May(u, PaymentRoutes)
         /\ \A x \in Groups : ListedGroup(u, x) <=> "read" \in May(u, GroupRoutes(x))
    /\ ListedDispute(u) <=> "read" \in May(u, DisputeRoutes)

\* A socket only listens to a room that its user may read, unless the group or its
\* guide has changed since it asked to join: nobody is taken out of a room.
ListenersHadAccess ==
  socket # None => socket.user \in RoomReaders(socket.room) \/ socket.moved

\* In an emergency the pilgrim of a running booking finds the very people who are in
\* charge of the trip: those who can read its threads.
ContactsAreInCharge ==
  ~cancelled =>
    Contacts = (ThreadReaders("agency") \union ThreadReaders("guide")) \ {Pilgrim}

\* Outside the administration nobody decides on what he may submit himself, nor
\* reviews what he sells; and only an active administrator suspends or reads the audit.
DutiesAreSeparate ==
  /\ \A u \in Users \ Admins :
       /\ ~({"upload", "decide"} \subseteq May(u, DocumentRoutes))
       /\ ~({"prove", "approve"} \subseteq May(u, AgencyRoutes))
       /\ ~({"propose", "validate"} \subseteq May(u, QuizRoutes))
       /\ "decide" \notin May(u, DisputeRoutes)
       /\ "write" \in May(u, ReviewRoutes) =>
            "offer" \notin May(u, PackageRoutes) /\ "replace" \notin May(u, TermsRoutes)
            /\ "mine" \notin May(u, PlanningRoutes)
  /\ \A u \in (Users \ Admins) \union suspended :
       \A routes \in {SheetRoutes, CourseRoutes, EmergencyRoutes, UserRoutes, AuditRoutes} :
         May(u, routes) \intersect {"edit", "validate", "suspend", "read"} = {}

\* The checks, the lists and the contacts, each written on its own, agree.
AccessIsConsistent ==
  DossierStaysAmongParties /\ ListsMatchAccess /\ ContactsAreInCharge /\ DutiesAreSeparate
=============================================================================
