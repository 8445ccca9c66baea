------------------------------- MODULE Accounts -------------------------------
(***************************************************************************)
(* The account behind one email address: AuthService, PasswordResetService *)
(* and what creates accounts, UsersService and AgenciesService.  The email *)
(* is unique, so accounts of different addresses never meet.               *)
(*                                                                         *)
(* A handler stops at every await: req[r].pc names the statement it does   *)
(* next.  Codes, sessions (refresh tokens) and reset links are numbered in *)
(* the order of their creation.                                            *)
(*                                                                         *)
(* A definition commented "Mutant" is no part of the specification.        *)
(***************************************************************************)
EXTENDS Naturals, Sequences, FiniteSets, FiniteSetsExt

CONSTANTS
  Requests,     \* slots for the requests in flight
  MaxAttempts,  \* MAX_OTP_ATTEMPTS
  MaxCodes, MaxSessions, MaxPasswords, MaxLinks,  \* bounds
  None          \* no account

VARIABLES user, agency, codes, sessions, link, req
vars == <<user, agency, codes, sessions, link, req>>

OtpRoles == {"pilgrim", "guide"}
ResetRoles == {"agency", "admin"}

\* password counts the passwords the account has had: 0, it has none.
Account(role, password) == [role |-> role, active |-> TRUE, password |-> password]
NewCode == [kept |-> TRUE, expired |-> FALSE, attempts |-> 0]
Gone == [NewCode EXCEPT !.kept = FALSE]
\* What a handler holds: the code or session it is about, the password in force
\* when it read the account, and whether a reset was committed since.
Idle == [pc |-> "idle", code |-> 0, session |-> 0, password |-> 0, late |-> FALSE]

\* Administrators are seeded, with a password.
Init ==
  /\ user \in {None, Account("admin", 1)}
  /\ agency = FALSE
  /\ codes = <<>> /\ sessions = <<>>
  /\ link = [open |-> 0, issued |-> 0]
  /\ req = [r \in Requests |-> Idle]

Exists == user # None
Start(r, pc) == req[r].pc = "idle" /\ req' = [req EXCEPT ![r].pc = pc]
At(r, pc) == req[r].pc = pc
GoTo(r, pc) == req' = [req EXCEPT ![r].pc = pc]
End(r) == req' = [req EXCEPT ![r] = Idle]
\* The handler has read the account, and signs tokens for it next.
Accept(r) == req' = [req EXCEPT ![r].pc = "issue", ![r].password = user.password]

-----------------------------------------------------------------------------
(* One-time codes *)

OtpAllowed == Exists => user.role \in OtpRoles

RequestOtp(r) ==
  /\ OtpAllowed /\ Start(r, "replace")
  /\ UNCHANGED <<user, agency, codes, sessions, link>>

DeleteCodes(r) ==
  /\ At(r, "replace") /\ GoTo(r, "create")
  /\ codes' = [c \in DOMAIN codes |-> Gone]
  /\ UNCHANGED <<user, agency, sessions, link>>

CreateCode(r) ==
  /\ At(r, "create") /\ Len(codes) < MaxCodes /\ End(r)
  /\ codes' = Append(codes, NewCode)
  /\ UNCHANGED <<user, agency, sessions, link>>

\* The code that verifyOtp compares with: the latest row, 0 without any.
Latest == Max({0} \union {c \in DOMAIN codes : codes[c].kept})

VerifyRead(r, right) ==
  /\ Latest # 0 /\ ~codes[Latest].expired
  /\ codes[Latest].attempts < MaxAttempts
  /\ At(r, "idle")
  /\ req' = [req EXCEPT ![r].pc = IF right THEN "spend" ELSE "miss", ![r].code = Latest]
  /\ UNCHANGED <<user, agency, codes, sessions, link>>

\* Incremented by the database; the update of a row that is gone fails.
CountMiss(r) ==
  /\ At(r, "miss") /\ End(r)
  /\ codes' = IF codes[req[r].code].kept
              THEN [codes EXCEPT ![req[r].code].attempts = @ + 1] ELSE codes
  /\ UNCHANGED <<user, agency, sessions, link>>

\* Mutant: deleteMany, which a row that is gone does not stop.
SpendCodeMany(r) ==
  /\ At(r, "spend") /\ GoTo(r, "find")
  /\ codes' = [codes EXCEPT ![req[r].code] = Gone]
  /\ UNCHANGED <<user, agency, sessions, link>>

\* The delete by id fails when another request has spent or replaced the code.
SpendCode(r) ==
  /\ At(r, "spend")
  /\ IF codes[req[r].code].kept THEN GoTo(r, "find") ELSE End(r)
  /\ codes' = [codes EXCEPT ![req[r].code] = Gone]
  /\ UNCHANGED <<user, agency, sessions, link>>

FindUser(r) ==
  /\ At(r, "find")
  /\ \/ ~Exists /\ GoTo(r, "signup")
     \/ Exists /\ user.role \in OtpRoles /\ user.active /\ Accept(r)
     \/ Exists /\ ~(user.role \in OtpRoles /\ user.active) /\ End(r)
  /\ UNCHANGED <<user, agency, codes, sessions, link>>

\* Mutant: an upsert by the contact.
SignUpUpserts(r) ==
  /\ At(r, "signup") /\ GoTo(r, "issue")
  /\ user' = Account("pilgrim", 0)
  /\ UNCHANGED <<agency, codes, sessions, link>>

\* The unique key refuses an address taken since.
SignUp(r) ==
  /\ At(r, "signup")
  /\ \/ ~Exists /\ user' = Account("pilgrim", 0) /\ GoTo(r, "issue")
     \/ Exists /\ UNCHANGED user /\ End(r)
  /\ UNCHANGED <<agency, codes, sessions, link>>

-----------------------------------------------------------------------------
(* Sessions *)

IssueTokens(r) ==
  /\ At(r, "issue") /\ Len(sessions) < MaxSessions /\ End(r)
  /\ sessions' = Append(sessions, [live |-> TRUE, code |-> req[r].code,
                                   password |-> req[r].password, late |-> req[r].late])
  /\ UNCHANGED <<user, agency, codes, link>>

\* With the password in force.
Login(r) ==
  /\ Exists /\ user.password # 0 /\ user.active
  /\ At(r, "idle") /\ Accept(r)
  /\ UNCHANGED <<user, agency, codes, sessions, link>>

\* The session found valid: neither revoked nor expired.  bcrypt compares the first 72
\* bytes, which the tokens of one account share: any open session may be the one found.
FindSession(r, s, pc) ==
  /\ At(r, "idle") /\ sessions[s].live
  /\ req' = [req EXCEPT ![r].pc = pc, ![r].session = s]
  /\ UNCHANGED <<user, agency, codes, sessions, link>>

Refresh(r, s) == FindSession(r, s, "renew")

RefreshUser(r) ==
  /\ At(r, "renew")
  /\ \/ user.active /\ req' = [req EXCEPT ![r].pc = "rotate", ![r].password = user.password]
     \/ ~user.active /\ End(r)
  /\ UNCHANGED <<user, agency, codes, sessions, link>>

Revoke(s) == sessions' = [sessions EXCEPT ![s].live = FALSE]

RefreshRotate(r) ==
  /\ At(r, "rotate") /\ GoTo(r, "issue") /\ Revoke(req[r].session)
  /\ UNCHANGED <<user, agency, codes, link>>

\* The access token only passes for an active account.
Logout(r, s) == user.active /\ FindSession(r, s, "logout")

LogoutRevoke(r) ==
  /\ At(r, "logout") /\ End(r) /\ Revoke(req[r].session)
  /\ UNCHANGED <<user, agency, codes, link>>

-----------------------------------------------------------------------------
(* Forgotten passwords *)

RequestReset(r) ==
  /\ Exists /\ user.password # 0 /\ user.active /\ user.role \in ResetRoles
  /\ Start(r, "link")
  /\ UNCHANGED <<user, agency, codes, sessions, link>>

\* One transaction: the earlier links of the account go, the new one comes.
ReplaceLink(r) ==
  /\ At(r, "link") /\ link.issued < MaxLinks /\ End(r)
  /\ link' = [open |-> link.issued + 1, issued |-> link.issued + 1]
  /\ UNCHANGED <<user, agency, codes, sessions>>

ResetRead(r) ==
  /\ link.open # 0 /\ user.active /\ Start(r, "reset")
  /\ UNCHANGED <<user, agency, codes, sessions, link>>

NewPassword(r) ==
  /\ At(r, "reset") /\ user.password < MaxPasswords
  /\ user' = [user EXCEPT !.password = @ + 1]
  /\ link' = [link EXCEPT !.open = 0]
  /\ req' = [q \in Requests |-> IF q = r \/ At(q, "idle") THEN Idle
                                ELSE [req[q] EXCEPT !.late = TRUE]]

\* Mutant: the new password leaves the open sessions alone.
ResetPasswordOnly(r) == NewPassword(r) /\ UNCHANGED <<agency, codes, sessions>>

\* One transaction: the password, the links of the account, its open sessions.
ResetPassword(r) ==
  /\ NewPassword(r)
  /\ sessions' = [s \in DOMAIN sessions |-> [sessions[s] EXCEPT !.live = FALSE]]
  /\ UNCHANGED <<agency, codes>>

-----------------------------------------------------------------------------
(* Accounts that agencies and administrators make and suspend *)

\* The address is free when the handler looks.
FindFree(r, pc) ==
  /\ ~Exists /\ Start(r, pc)
  /\ UNCHANGED <<user, agency, codes, sessions, link>>

Register(r) == FindFree(r, "register")

RegisterOwner(r) ==
  /\ At(r, "register")
  /\ \/ ~Exists /\ user' = Account("agency", 1) /\ GoTo(r, "agency")
     \/ Exists /\ UNCHANGED user /\ End(r)
  /\ UNCHANGED <<agency, codes, sessions, link>>

RegisterAgency(r) ==
  /\ At(r, "agency") /\ End(r)
  /\ agency' = TRUE
  /\ UNCHANGED <<user, codes, sessions, link>>

AddGuide(r) == FindFree(r, "guide")

CreateGuide(r) ==
  /\ At(r, "guide") /\ End(r)
  /\ user' = IF Exists THEN user ELSE Account("guide", 0)
  /\ UNCHANGED <<agency, codes, sessions, link>>

SetActive(active) ==
  /\ Exists /\ user.active # active
  /\ user' = [user EXCEPT !.active = active]
  /\ UNCHANGED <<agency, codes, sessions, link, req>>

-----------------------------------------------------------------------------
(* Time and failures *)

CodeExpires(c) ==
  /\ codes[c].kept /\ ~codes[c].expired
  /\ codes' = [codes EXCEPT ![c].expired = TRUE]
  /\ UNCHANGED <<user, agency, sessions, link, req>>

\* There is one link at most: one that lapsed is as good as deleted.
LinkExpires ==
  /\ link.open # 0 /\ link' = [link EXCEPT !.open = 0]
  /\ UNCHANGED <<user, agency, codes, sessions, req>>

\* The process dies, or a statement fails, between two awaits.
Drop(r) ==
  /\ ~At(r, "idle") /\ End(r)
  /\ UNCHANGED <<user, agency, codes, sessions, link>>

Next ==
  \/ \E r \in Requests :
       \/ RequestOtp(r) \/ DeleteCodes(r) \/ CreateCode(r)
       \/ \E right \in BOOLEAN : VerifyRead(r, right)
       \/ CountMiss(r) \/ SpendCode(r) \/ FindUser(r) \/ SignUp(r) \/ IssueTokens(r)
       \/ Login(r) \/ RefreshUser(r) \/ RefreshRotate(r) \/ LogoutRevoke(r)
       \/ \E s \in DOMAIN sessions : Refresh(r, s) \/ Logout(r, s)
       \/ RequestReset(r) \/ ReplaceLink(r) \/ ResetRead(r) \/ ResetPassword(r)
       \/ Register(r) \/ RegisterOwner(r) \/ RegisterAgency(r)
       \/ AddGuide(r) \/ CreateGuide(r) \/ Drop(r)
  \/ \E active \in BOOLEAN : SetActive(active)
  \/ \E c \in DOMAIN codes : CodeExpires(c)
  \/ LinkExpires

Spec == Init /\ [][Next]_vars

-----------------------------------------------------------------------------
(* Properties *)

\* However many requests present the same one-time code at once, it opens one
\* session: the delete by id lets only one of them through.
CodeServesOnce ==
  \A s, t \in DOMAIN sessions : sessions[s].code = sessions[t].code => s = t \/ sessions[s].code = 0

\* Wrong guesses that overlap exceed the limit of attempts by no more than the
\* requests that had read the row below it.
GuessesAreBounded ==
  \A c \in DOMAIN codes : codes[c].attempts < MaxAttempts + Cardinality(Requests)

\* However its code is attacked or raced for, the account opens once for it.
CodesAreGuarded == CodeServesOnce /\ GuessesAreBounded

\* A new password closes the account: a session that is still open was opened under
\* the password in force, or by a request already on its way when it was changed.
SessionsEndWithPassword ==
  \A s \in DOMAIN sessions :
    sessions[s].live /\ ~sessions[s].late => sessions[s].password = user.password

\* "Jamais de changement de rôle": sign-up, registration and the addition of a guide
\* compete for the address, and the account that wins it keeps its role.
AccountKeepsRole ==
  [][Exists => user' # None /\ user'.role = user.role]_vars
=============================================================================
