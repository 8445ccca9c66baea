------------------------------- MODULE Agencies -------------------------------
(***************************************************************************)
(* One agency after its registration (AgenciesService): the decisions of   *)
(* the administrators, the packages it may then put on sale                *)
(* (PackagesService.create), and the link an owner shares, which is the    *)
(* calendar of the agency or the family view of a booking: both are opaque *)
(* tokens made and replaced by the same code.                              *)
(*                                                                         *)
(* A definition commented "Mutant" is no part of the specification.        *)
(***************************************************************************)
EXTENDS Naturals

CONSTANTS
  Requests,     \* slots for the requests in flight
  MaxPackages,  \* bound
  MaxTokens     \* bound on the tokens drawn

\* decision: the columns of the verdict; packages: on sale; unapproved: those created
\* while the agency was not approved; overtaken: a decision came between the check and
\* the creation.  token: in the database; drawn: tokens drawn so far; shown: the
\* last link an owner was given; crossed: two requests made links at once.
VARIABLES decision, packages, unapproved, overtaken, token, drawn, shown, crossed, req
vars == <<decision, packages, unapproved, overtaken, token, drawn, shown, crossed, req>>
saleVars == <<decision, packages, unapproved, overtaken>>
linkVars == <<token, drawn, shown, crossed>>

Idle == [pc |-> "idle"]
Pending == [status |-> "pending", reason |-> FALSE]
Approved == [status |-> "approved", reason |-> FALSE]
Rejected == [status |-> "rejected", reason |-> TRUE]

Init ==
  /\ decision = Pending /\ packages = 0 /\ unapproved = 0 /\ overtaken = FALSE
  /\ token = 0 /\ drawn = 0 /\ shown = 0 /\ crossed = FALSE
  /\ req = [r \in Requests |-> Idle]

InFlight(pcs) == \E r \in Requests : req[r].pc \in pcs

\* approve and reject, from any status.
Decide(d) ==
  /\ d # decision /\ decision' = d
  /\ overtaken' = (overtaken \/ InFlight({"package"}))
  /\ UNCHANGED <<packages, unapproved, linkVars, req>>

AssertApproved == decision.status = "approved"

CreatePackageRead(r) ==
  /\ req[r] = Idle /\ AssertApproved
  /\ req' = [req EXCEPT ![r] = [pc |-> "package"]]
  /\ UNCHANGED <<saleVars, linkVars>>

CreatePackageWrite(r) ==
  /\ req[r].pc = "package" /\ packages < MaxPackages
  /\ packages' = packages + 1
  /\ unapproved' = unapproved + (IF decision # Approved THEN 1 ELSE 0)
  /\ req' = [req EXCEPT ![r] = Idle]
  /\ UNCHANGED <<decision, overtaken, linkVars>>

\* Mutant: a link is made whenever one is asked for.
GetLinkAlways(r) ==
  /\ req[r] = Idle
  /\ req' = [req EXCEPT ![r] = [pc |-> "link"]]
  /\ UNCHANGED <<token, drawn, shown, crossed, saleVars>>

\* getOrCreateCalendarSubscription, getOrCreateFamilyViewLink
GetLink(r) ==
  /\ req[r] = Idle
  /\ IF token # 0 THEN shown' = token /\ req' = req
     ELSE req' = [req EXCEPT ![r] = [pc |-> "link"]] /\ UNCHANGED shown
  /\ UNCHANGED <<token, drawn, crossed, saleVars>>

\* regenerate, which the first call for a link goes through as well; renewed: by
\* an owner who gives up the link he has.
Regenerate(r, renewed) ==
  /\ drawn < MaxTokens
  /\ IF renewed THEN req[r] = Idle ELSE req[r].pc = "link"
  /\ drawn' = drawn + 1 /\ token' = drawn + 1
  /\ shown' = IF renewed \/ shown = 0 THEN drawn + 1 ELSE shown
  /\ crossed' = (crossed \/ \E q \in Requests \ {r} : req[q].pc = "link")
  /\ req' = [req EXCEPT ![r] = Idle]
  /\ UNCHANGED saleVars

Next ==
  \/ \E d \in {Approved, Rejected} : Decide(d)
  \/ \E r \in Requests : \/ CreatePackageRead(r) \/ CreatePackageWrite(r)
                         \/ GetLink(r) \/ Regenerate(r, TRUE) \/ Regenerate(r, FALSE)

Spec == Init /\ [][Next]_vars

-----------------------------------------------------------------------------
(* Properties *)

\* No package is put on sale by an agency that is not approved, unless the decision
\* came between the check and the creation.
SalesAreApproved == unapproved > 0 => overtaken

\* The link an owner was first given, and has shared, opens the calendar or the family
\* view until he renews it: asking for it again returns it.  Two first requests at
\* once draw two links, the first of which is lost.
SharedLinkOpens == shown # 0 /\ ~crossed => shown = token
=============================================================================
