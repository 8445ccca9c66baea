----------------------------- MODULE OfficeProofs -----------------------------
(***************************************************************************)
(* Proofs about the parts of Office, for any number of requests, rows and  *)
(* users.  Each part has its inductive invariant, kept by the steps of the *)
(* part, and every step of Office is one of the part or leaves it alone.   *)
(***************************************************************************)
EXTENDS Office, FoldTheorems

-----------------------------------------------------------------------------
(* The composition *)

\* A step of Office is, for each of the parts proved about below, one of its own
\* steps or none.
LEMMA StepsOfParts ==
  ASSUME [OfficeNext]_officeVars
  PROVE  /\ [Rea!Next]_(Rea!vars) /\ [Dis!Next]_(Dis!vars) /\ [Agc!Next]_(Agc!vars)
         /\ [Mod!Next]_(Mod!vars) /\ [Rep!Next]_(Rep!vars) /\ [Tre!Next]_(Tre!vars)
         /\ [Doc!Next]_(Doc!vars) /\ [Cap!Next]_(Cap!vars) /\ [Pro!Next]_(Pro!vars)
  BY DEF OfficeNext, officeVars, Rea!vars, Dis!vars, Agc!vars, Mod!vars, Tre!vars, Doc!vars,
         Rep!vars, Cap!vars, Pro!vars

-----------------------------------------------------------------------------
(* Realtime *)

SocketPc == {"new", "verify", "consume", "register", "open", "gone"}
Socket == [pc : SocketPc, ticket : Tickets \union {None}, served : BOOLEAN]

\* The clock has started, and the memory holds the end of a ticket or nothing.
RealtimeTypeInv ==
  /\ now \in Nat \ {0}
  /\ exp \in [Tickets -> Nat]
  /\ consommes \in [Tickets -> Nat]
  /\ client \in [Clients -> Socket]
  /\ \A t \in Tickets : consommes[t] \in {0, exp[t]}

\* What a socket presents has been issued.
IssuedInv ==
  /\ \A c \in Clients : client[c].ticket # None => exp[client[c].ticket] # 0
  /\ \A c \in Clients : client[c].pc = "consume" \/ client[c].served =>
       client[c].ticket \in Tickets /\ client[c].ticket # None
  /\ \A c \in Clients : client[c].pc \in {"new", "verify", "consume"} => ~client[c].served

\* A ticket that may no longer be presented: lapsed, remembered or excused.
Spent(t) == t \in excused \/ consommes[t] # 0 \/ exp[t] < now

ServedInv == \A c \in Clients : client[c].served => Spent(client[c].ticket)

TicketInv == RealtimeTypeInv /\ IssuedInv /\ ServedInv /\ Rea!TicketServesOnce

LEMMA InitTicket == Rea!Init => TicketInv
  <1> SUFFICES ASSUME Rea!Init PROVE TicketInv
    OBVIOUS
  <1>1. \A c \in Clients : client[c] \in Socket /\ client[c] = Rea!NewClient
    BY DEF Rea!Init, Rea!NewClient, Socket, SocketPc
  <1>2. RealtimeTypeInv
    BY <1>1 DEF Rea!Init, RealtimeTypeInv
  <1>3. IssuedInv
    BY <1>1 DEF Rea!NewClient, IssuedInv
  <1>4. ServedInv /\ Rea!TicketServesOnce
    BY <1>1 DEF Rea!NewClient, ServedInv, Rea!TicketServesOnce
  <1> QED
    BY <1>2, <1>3, <1>4 DEF TicketInv

\* A step that moves a socket past its admission, and changes nothing else, keeps
\* the invariant.
LEMMA PcStep ==
  ASSUME TicketInv, NEW c \in Clients, NEW p \in {"register", "open", "gone"},
         client' = [client EXCEPT ![c].pc = p],
         UNCHANGED <<now, exp, consommes, excused>>
  PROVE  TicketInv'
  <1>1. \A d \in Clients :
          /\ client'[d] \in Socket
          /\ client'[d].ticket = client[d].ticket /\ client'[d].served = client[d].served
          /\ client'[d].pc \in {p, client[d].pc}
    BY DEF TicketInv, RealtimeTypeInv, Socket, SocketPc
  <1>2. RealtimeTypeInv'
    BY <1>1 DEF TicketInv, RealtimeTypeInv
  <1>3. IssuedInv'
    BY <1>1 DEF TicketInv, IssuedInv
  <1>4. ServedInv' /\ Rea!TicketServesOnce'
    BY <1>1 DEF TicketInv, ServedInv, Spent, Rea!TicketServesOnce, Rea!Presented
  <1> QED
    BY <1>2, <1>3, <1>4 DEF TicketInv

LEMMA TickStep == TicketInv /\ Rea!Tick => TicketInv'
  <1> SUFFICES ASSUME TicketInv, Rea!Tick PROVE TicketInv'
    OBVIOUS
  <1>1. now' = now + 1 /\ UNCHANGED <<exp, consommes, client, excused>>
    BY DEF Rea!Tick
  <1>2. RealtimeTypeInv'
    BY <1>1 DEF TicketInv, RealtimeTypeInv
  <1>3. IssuedInv' /\ Rea!TicketServesOnce'
    BY <1>1 DEF TicketInv, IssuedInv, Rea!TicketServesOnce, Rea!Presented
  <1>4. ServedInv'
    <2> SUFFICES ASSUME NEW c \in Clients, client[c].served
                 PROVE  Spent(client[c].ticket)'
      BY <1>1 DEF ServedInv
    <2>1. client[c].ticket \in Tickets /\ Spent(client[c].ticket)
      BY DEF TicketInv, IssuedInv, ServedInv
    <2> QED
      BY <1>1, <2>1 DEF TicketInv, RealtimeTypeInv, Spent
  <1> QED
    BY <1>2, <1>3, <1>4 DEF TicketInv

LEMMA IssueStep ==
  ASSUME Ttl \in Nat, TicketInv, NEW t \in Tickets, Rea!Issue(t)
  PROVE  TicketInv'
  <1>1. exp' \in [Tickets -> Nat] /\ exp'[t] # 0 /\ exp[t] = 0
        /\ \A u \in Tickets \ {t} : exp'[u] = exp[u]
    BY DEF Rea!Issue, TicketInv, RealtimeTypeInv
  <1>2. RealtimeTypeInv'
    BY <1>1 DEF Rea!Issue, TicketInv, RealtimeTypeInv
  <1>3. IssuedInv'
    BY <1>1 DEF Rea!Issue, TicketInv, RealtimeTypeInv, IssuedInv, Socket
  <1>4. ASSUME NEW c \in Clients, client'[c].served
        PROVE  Spent(client[c].ticket)'
    <2>1. client[c].ticket \in Tickets \ {t} /\ Spent(client[c].ticket)
      BY <1>1, <1>4 DEF Rea!Issue, TicketInv, IssuedInv, ServedInv
    <2> QED
      BY <1>1, <2>1 DEF Rea!Issue, Spent
  <1>5. Rea!TicketServesOnce'
    BY DEF Rea!Issue, TicketInv, Rea!TicketServesOnce, Rea!Presented
  <1>6. ServedInv'
    BY <1>4 DEF ServedInv, Rea!Issue
  <1> QED
    BY <1>2, <1>3, <1>5, <1>6 DEF TicketInv

LEMMA ConnectStep ==
  ASSUME TicketInv, NEW c \in Clients, NEW t \in Tickets \union {None},
         Rea!Connect(c, t)
  PROVE  TicketInv'
  <1>1. /\ \A d \in Clients \ {c} : client'[d] = client[d]
        /\ client'[c] \in Socket /\ client'[c].ticket = t
        /\ client'[c].served = FALSE /\ client'[c].pc = "verify"
    BY DEF Rea!Connect, TicketInv, RealtimeTypeInv, IssuedInv, Socket, SocketPc
  <1>2. RealtimeTypeInv'
    BY <1>1 DEF Rea!Connect, TicketInv, RealtimeTypeInv
  <1>3. IssuedInv'
    BY <1>1 DEF Rea!Connect, TicketInv, IssuedInv
  <1>4. ASSUME NEW d \in Clients, client'[d].served
        PROVE  client'[d] = client[d]
    BY <1>1, <1>4
  <1>5. UNCHANGED <<now, exp, consommes, excused>>
    BY DEF Rea!Connect
  <1>6. ServedInv'
    <2> SUFFICES ASSUME NEW d \in Clients, client'[d].served
                 PROVE  Spent(client[d].ticket)'
      BY <1>4 DEF ServedInv
    <2>1. client[d].served /\ client'[d].ticket = client[d].ticket
      BY <1>4
    <2>2. Spent(client[d].ticket)
      BY <2>1 DEF TicketInv, ServedInv
    <2> QED
      BY <1>5, <2>1, <2>2 DEF Spent
  <1>7. Rea!TicketServesOnce'
    BY <1>4, <1>5 DEF TicketInv, Rea!TicketServesOnce, Rea!Presented
  <1> QED
    BY <1>2, <1>3, <1>6, <1>7 DEF TicketInv

LEMMA VerifyStep ==
  ASSUME TicketInv, NEW c \in Clients, Rea!Verify(c)
  PROVE  TicketInv'
  <1>1. CASE client' = [client EXCEPT ![c].pc = "register"]
    BY <1>1, PcStep DEF Rea!Verify
  <1>2. CASE Rea!Gone(c)
    BY <1>2, PcStep DEF Rea!Verify, Rea!Gone
  <1>3. CASE /\ client[c].ticket # None
             /\ client' = [client EXCEPT ![c].pc = "consume"]
    <2>1. /\ \A d \in Clients \ {c} : client'[d] = client[d]
          /\ client'[c] \in Socket /\ client'[c].ticket = client[c].ticket
          /\ client'[c].served = FALSE /\ client'[c].pc = "consume"
          /\ client[c].ticket \in Tickets
      BY <1>3 DEF Rea!Verify, TicketInv, RealtimeTypeInv, IssuedInv, Socket, SocketPc
    <2>2. RealtimeTypeInv' /\ IssuedInv'
      BY <1>3, <2>1 DEF Rea!Verify, TicketInv, RealtimeTypeInv, IssuedInv
    <2>3. ServedInv' /\ Rea!TicketServesOnce'
      BY <2>1 DEF Rea!Verify, TicketInv, ServedInv, Spent, Rea!TicketServesOnce, Rea!Presented
    <2> QED
      BY <2>2, <2>3 DEF TicketInv
  <1> QED
    BY <1>1, <1>2, <1>3 DEF Rea!Verify, Rea!Presented

\* The memory keeps only what it must: what it forgets has lapsed.
LEMMA ForgottenHasLapsed ==
  ASSUME TicketInv
  PROVE  /\ Rea!OublierExpires \in [Tickets -> Nat]
         /\ \A t \in Tickets : /\ Rea!OublierExpires[t] \in {0, exp[t]}
                               /\ consommes[t] # 0 => Rea!OublierExpires[t] # 0 \/ exp[t] < now
  BY DEF TicketInv, RealtimeTypeInv, Rea!OublierExpires

LEMMA ConsumeStep ==
  ASSUME TicketInv, NEW c \in Clients, Rea!Consume(c)
  PROVE  TicketInv'
  <1> DEFINE t == client[c].ticket
             kept == Rea!OublierExpires
  <1>1. t \in Tickets /\ exp[t] # 0 /\ ~client[c].served
    BY DEF Rea!Consume, TicketInv, IssuedInv
  <1>2. /\ UNCHANGED <<now, exp>> /\ excused \subseteq excused'
        /\ exp[t] < now => t \in excused'
    BY DEF Rea!Consume, Rea!Presented
  <1>3. CASE kept[t] # 0
    <2>1. consommes' = kept /\ client' = [client EXCEPT ![c].pc = "gone"]
      BY <1>3 DEF Rea!Consume, Rea!Presented, Rea!Gone
    <2>2. \A d \in Clients :
            /\ client'[d] \in Socket
            /\ client'[d].ticket = client[d].ticket /\ client'[d].served = client[d].served
            /\ client'[d].pc \in {"gone", client[d].pc}
      BY <2>1 DEF TicketInv, RealtimeTypeInv, Socket, SocketPc
    <2>3. RealtimeTypeInv'
      BY <1>2, <2>1, <2>2, ForgottenHasLapsed DEF TicketInv, RealtimeTypeInv
    <2>4. IssuedInv'
      BY <1>2, <2>2 DEF TicketInv, IssuedInv
    <2>5. ServedInv'
      BY <1>2, <2>1, <2>2, ForgottenHasLapsed DEF TicketInv, RealtimeTypeInv, IssuedInv, ServedInv, Spent,
         Socket
    <2>6. Rea!TicketServesOnce'
      BY <1>2, <2>2 DEF TicketInv, Rea!TicketServesOnce, Rea!Presented
    <2> QED
      BY <2>3, <2>4, <2>5, <2>6 DEF TicketInv
  <1>4. CASE kept[t] = 0
    <2>1. /\ consommes' = [kept EXCEPT ![t] = exp[t]]
          /\ client' = [client EXCEPT ![c].pc = "register", ![c].served = TRUE]
      BY <1>4 DEF Rea!Consume, Rea!Presented, Rea!Remember
    <2>2. /\ \A d \in Clients \ {c} : client'[d] = client[d]
          /\ client'[c] \in Socket /\ client'[c].ticket = t
          /\ client'[c].served = TRUE /\ client'[c].pc = "register"
      BY <2>1 DEF TicketInv, RealtimeTypeInv, Socket, SocketPc
    <2>3. RealtimeTypeInv'
      <3>1. consommes' \in [Tickets -> Nat]
            /\ \A u \in Tickets : consommes'[u] \in {0, exp[u]}
        BY <1>1, <2>1, ForgottenHasLapsed DEF TicketInv, RealtimeTypeInv
      <3>2. client' \in [Clients -> Socket]
        BY <2>1, <2>2 DEF TicketInv, RealtimeTypeInv
      <3> QED
        BY <1>2, <3>1, <3>2 DEF TicketInv, RealtimeTypeInv
    <2>4. IssuedInv'
      <3>1. \A d \in Clients : /\ client'[d].ticket = client[d].ticket
                               /\ client'[d].ticket # None => exp[client[d].ticket] # 0
        BY <2>2 DEF TicketInv, IssuedInv
      <3>2. t \in Tickets /\ t # None
        BY DEF Rea!Consume, TicketInv, IssuedInv
      <3>3. ASSUME NEW d \in Clients, client'[d].pc = "consume" \/ client'[d].served
            PROVE  client'[d].ticket \in Tickets /\ client'[d].ticket # None
        <4>1. CASE d = c
          BY <2>2, <3>2, <4>1
        <4>2. CASE d # c
          BY <2>2, <3>3, <4>2 DEF TicketInv, IssuedInv
        <4> QED
          BY <4>1, <4>2
      <3>4. ASSUME NEW d \in Clients, client'[d].pc \in {"new", "verify", "consume"}
            PROVE  ~client'[d].served
        <4>1. d # c
          BY <2>2, <3>4
        <4> QED
          BY <2>2, <3>4, <4>1 DEF TicketInv, IssuedInv
      <3> QED
        BY <1>2, <3>1, <3>3, <3>4 DEF IssuedInv
    <2>5. ServedInv'
      <3>1. ASSUME NEW d \in Clients \ {c}, client[d].served
            PROVE  Spent(client[d].ticket)'
        <4>1. client[d].ticket \in Tickets /\ Spent(client[d].ticket)
          BY <3>1 DEF TicketInv, IssuedInv, ServedInv
        <4> QED
          <5> DEFINE u == client[d].ticket
          <5>1. consommes[u] # 0 => consommes'[u] # 0 \/ exp[u] < now
            BY <1>1, <2>1, <4>1, ForgottenHasLapsed
          <5>2. client'[d].ticket = u /\ excused \subseteq excused'
            BY <1>2, <2>2
          <5>3. u \in excused \/ consommes[u] # 0 \/ exp[u] < now
            BY <4>1 DEF Spent
          <5>4. u \in excused' \/ consommes'[u] # 0 \/ exp'[u] < now'
            BY <1>2, <5>1, <5>2, <5>3
          <5> QED
            BY <5>2, <5>4 DEF Spent
      <3>2. consommes'[t] # 0
        BY <1>1, <2>1, ForgottenHasLapsed
      <3> QED
        BY <2>2, <3>1, <3>2 DEF ServedInv, Spent
    <2>6. ASSUME NEW d \in Clients \ {c}, client[d].served, client[d].ticket = t
          PROVE  t \in excused'
      <3>1. Spent(t)
        BY <2>6 DEF TicketInv, ServedInv
      <3> QED
        BY <1>2, <1>4, <1>1, <3>1, ForgottenHasLapsed DEF Spent
    <2>7. Rea!TicketServesOnce'
      BY <1>2, <2>2, <2>6 DEF TicketInv, Rea!TicketServesOnce, Rea!Presented
    <2> QED
      BY <2>3, <2>4, <2>5, <2>7 DEF TicketInv
  <1> QED
    BY <1>3, <1>4

LEMMA DisconnectStep == TicketInv /\ Rea!DisconnectUser => TicketInv'
  <1> SUFFICES ASSUME TicketInv, Rea!DisconnectUser
               PROVE  TicketInv'
    OBVIOUS
  <1>1. \A d \in Clients :
          /\ client'[d] \in Socket
          /\ client'[d].ticket = client[d].ticket /\ client'[d].served = client[d].served
          /\ client'[d].pc \in {"gone", client[d].pc}
    BY DEF Rea!DisconnectUser, TicketInv, RealtimeTypeInv, Socket, SocketPc
  <1>2. RealtimeTypeInv'
    BY <1>1 DEF Rea!DisconnectUser, TicketInv, RealtimeTypeInv
  <1>3. IssuedInv'
    BY <1>1 DEF Rea!DisconnectUser, TicketInv, IssuedInv
  <1>4. ServedInv' /\ Rea!TicketServesOnce'
    BY <1>1 DEF Rea!DisconnectUser, TicketInv, ServedInv, Spent, Rea!TicketServesOnce, Rea!Presented
  <1> QED
    BY <1>2, <1>3, <1>4 DEF TicketInv

LEMMA RestartStep == TicketInv /\ Rea!Restart => TicketInv'
  <1> SUFFICES ASSUME TicketInv, Rea!Restart
               PROVE  TicketInv'
    OBVIOUS
  <1>1. \A d \in Clients :
          /\ client'[d] \in Socket
          /\ client'[d].ticket = client[d].ticket /\ client'[d].served = client[d].served
          /\ client'[d].pc \in {"gone", client[d].pc}
    BY DEF Rea!Restart, TicketInv, RealtimeTypeInv, Socket, SocketPc
  <1>2. RealtimeTypeInv'
    BY <1>1 DEF Rea!Restart, TicketInv, RealtimeTypeInv
  <1>3. IssuedInv'
    BY <1>1 DEF Rea!Restart, TicketInv, IssuedInv
  <1>4. ASSUME NEW c \in Clients, client[c].served
        PROVE  Spent(client[c].ticket)'
    <2>1. client[c].ticket \in Tickets /\ Spent(client[c].ticket)
      BY <1>4 DEF TicketInv, IssuedInv, ServedInv
    <2> QED
      BY <1>1, <2>1 DEF Rea!Restart, Spent
  <1>5. ServedInv'
    BY <1>1, <1>4 DEF ServedInv
  <1>6. Rea!TicketServesOnce'
    BY <1>1 DEF Rea!Restart, TicketInv, Rea!TicketServesOnce, Rea!Presented
  <1> QED
    BY <1>2, <1>3, <1>5, <1>6 DEF TicketInv

LEMMA NextTicket == Ttl \in Nat /\ TicketInv /\ [Rea!Next]_(Rea!vars) => TicketInv'
  <1> SUFFICES ASSUME Ttl \in Nat, TicketInv, [Rea!Next]_(Rea!vars)
               PROVE  TicketInv'
    OBVIOUS
  <1>1. CASE Rea!Tick \/ Rea!DisconnectUser \/ Rea!Restart
    BY <1>1, TickStep, DisconnectStep, RestartStep
  <1>2. ASSUME NEW t \in Tickets, Rea!Issue(t)
        PROVE  TicketInv'
    BY <1>2, IssueStep
  <1>3. ASSUME NEW c \in Clients, NEW t \in Tickets \union {None}, Rea!Connect(c, t)
        PROVE  TicketInv'
    BY <1>3, ConnectStep
  <1>4. ASSUME NEW c \in Clients, Rea!Verify(c)
        PROVE  TicketInv'
    BY <1>4, VerifyStep
  <1>5. ASSUME NEW c \in Clients, Rea!Consume(c)
        PROVE  TicketInv'
    BY <1>5, ConsumeStep
  <1>6. ASSUME NEW c \in Clients, Rea!Register(c)
        PROVE  TicketInv'
    BY <1>6, PcStep DEF Rea!Register
  <1>7. ASSUME NEW c \in Clients, Rea!TimerFires(c) \/ Rea!ClientLeaves(c)
        PROVE  TicketInv'
    BY <1>7, PcStep DEF Rea!TimerFires, Rea!ClientLeaves, Rea!Gone
  <1>8. CASE UNCHANGED Rea!vars
    BY <1>8 DEF Rea!vars, TicketInv, RealtimeTypeInv, IssuedInv, ServedInv, Spent, Rea!TicketServesOnce,
       Rea!Presented
  <1> QED
    BY <1>1, <1>2, <1>3, <1>4, <1>5, <1>6, <1>7, <1>8 DEF Rea!Next

\* However many tickets and sockets there are, and however the steps of two
\* handshakes interleave, a ticket admits one socket, unless the process restarted
\* or the ticket lapsed in the middle of its verification.
THEOREM OneSocketPerTicket == OfficeSpec => []TicketServesOnce
  <1>1. TicketInv => TicketServesOnce
    BY DEF TicketInv, TicketServesOnce
  <1>2. OfficeInit => TicketInv
    BY InitTicket DEF OfficeInit
  <1>3. TicketInv /\ [OfficeNext]_officeVars => TicketInv'
    BY NextTicket, StepsOfParts, OfficeAssumption
  <1> QED
    BY <1>1, <1>2, <1>3, PTL DEF OfficeSpec

-----------------------------------------------------------------------------
(* Moderation *)

ModerationTypeInv ==
  /\ attempts \in Nat /\ made \in Nat /\ raced \in BOOLEAN
  /\ question \in {"none", "pending", "published", "deleted"}
  /\ quizReq \in [QuizRequests -> {"idle", "validate", "reject", "submit"}]

Reviewing(pc) == \E r \in QuizRequests : quizReq[r] = pc

\* Nothing is answered before the publication, and a refusal that was decided while
\* the question was pending finds it without an answer.
QuizInv ==
  /\ ModerationTypeInv
  /\ question \in {"none", "pending"} => made = 0 /\ ~Reviewing("submit")
  /\ question = "none" => ~Reviewing("reject") /\ ~Reviewing("validate")
  /\ ~raced => attempts = made
  /\ ~raced /\ (question = "deleted" \/ Reviewing("reject")) => made = 0
  /\ ~raced /\ Reviewing("reject") => question # "published"

SheetInv ==
  /\ sheet \in [version : Nat, valid : BOOLEAN, reviewed : Nat]
  /\ seen \in [Reviewers -> Nat]
  /\ Mod!PublishedWasReviewed

ModerationInv == QuizInv /\ SheetInv

LEMMA InitModeration == Mod!Init => ModerationInv
  <1> SUFFICES ASSUME Mod!Init PROVE ModerationInv
    OBVIOUS
  <1>1. ModerationTypeInv
    BY DEF Mod!Init, ModerationTypeInv
  <1>2. QuizInv
    BY <1>1 DEF Mod!Init, QuizInv, Reviewing
  <1>3. SheetInv
    BY DEF Mod!Init, SheetInv, Mod!PublishedWasReviewed
  <1> QED
    BY <1>2, <1>3 DEF ModerationInv

\* The two services share no state: a step of one keeps the invariant of the other.
LEMMA SheetSteps ==
  ASSUME ModerationInv,
         Mod!UpdateSheet \/ (\E a \in Reviewers : Mod!ListAll(a) \/ Mod!ValidateSheet(a))
  PROVE  ModerationInv'
  <1>1. UNCHANGED Mod!quizVars
    BY DEF Mod!UpdateSheet, Mod!ListAll, Mod!ValidateSheet
  <1>2. QuizInv'
    BY <1>1 DEF Mod!quizVars, ModerationInv, QuizInv, ModerationTypeInv, Reviewing
  <1>3. CASE Mod!UpdateSheet
    BY <1>2, <1>3 DEF Mod!UpdateSheet, ModerationInv, SheetInv, Mod!PublishedWasReviewed
  <1>4. ASSUME NEW a \in Reviewers, Mod!ListAll(a)
        PROVE  SheetInv'
    BY <1>4 DEF Mod!ListAll, ModerationInv, SheetInv, Mod!PublishedWasReviewed
  <1>5. ASSUME NEW a \in Reviewers, Mod!ValidateSheet(a)
        PROVE  SheetInv'
    <2>1. /\ blind' = (seen[a] # sheet.version) /\ seen' = seen
          /\ sheet' \in [version : Nat, valid : BOOLEAN, reviewed : Nat]
          /\ sheet'.version = sheet.version /\ sheet'.reviewed = seen[a]
      BY <1>5 DEF Mod!ValidateSheet, ModerationInv, SheetInv
    <2> QED
      BY <2>1 DEF ModerationInv, SheetInv, Mod!PublishedWasReviewed
  <1> QED
    BY <1>2, <1>3, <1>4, <1>5 DEF ModerationInv

\* A step of r only changes the access that r makes next.
LEMMA SlotOfStep ==
  ASSUME ModerationTypeInv, NEW r \in QuizRequests, NEW to, quizReq' = [quizReq EXCEPT ![r] = to]
  PROVE  \A pc : Reviewing(pc)' => Reviewing(pc) \/ pc = to
  <1> SUFFICES ASSUME NEW pc, NEW q \in QuizRequests, quizReq'[q] = pc
               PROVE  Reviewing(pc) \/ pc = to
    BY DEF Reviewing
  <1>1. CASE q = r
    BY <1>1 DEF ModerationTypeInv
  <1>2. CASE q # r
    BY <1>2 DEF ModerationTypeInv, Reviewing
  <1> QED
    BY <1>1, <1>2

LEMMA QuizSteps ==
  ASSUME ModerationInv, NEW r \in QuizRequests,
         \/ Mod!CreateQuestion
         \/ Mod!ValidateRead(r) \/ Mod!RejectRead(r) \/ Mod!SubmitRead(r)
         \/ Mod!ValidateWrite(r) \/ Mod!RejectWrite(r) \/ Mod!SubmitWrite(r)
  PROVE  ModerationInv'
  <1>1. UNCHANGED Mod!sheetVars
    BY DEF Mod!CreateQuestion, Mod!ValidateRead, Mod!RejectRead, Mod!SubmitRead, Mod!Begin, Mod!ValidateWrite,
           Mod!RejectWrite, Mod!SubmitWrite
  <1>2. SheetInv'
    BY <1>1 DEF Mod!sheetVars, ModerationInv, SheetInv, Mod!PublishedWasReviewed
  <1>3. CASE Mod!CreateQuestion
    <2>1. ModerationTypeInv'
      BY <1>3 DEF Mod!CreateQuestion, ModerationInv, QuizInv, ModerationTypeInv
    <2>2. \A pc : Reviewing(pc)' => Reviewing(pc)
      BY <1>3 DEF Mod!CreateQuestion, Reviewing
    <2> QED
      BY <1>2, <1>3, <2>1, <2>2 DEF Mod!CreateQuestion, ModerationInv, QuizInv
  <1>4. CASE Mod!ValidateRead(r)
    <2>1. ModerationTypeInv'
      BY <1>4 DEF Mod!ValidateRead, Mod!Begin, ModerationInv, QuizInv, ModerationTypeInv
    <2>2. \A pc : Reviewing(pc)' => Reviewing(pc) \/ pc = "validate"
      BY <1>4, SlotOfStep DEF Mod!ValidateRead, Mod!Begin, ModerationInv, QuizInv
    <2> QED
      BY <1>2, <1>4, <2>1, <2>2 DEF Mod!ValidateRead, Mod!Begin, Mod!Exists, ModerationInv, QuizInv
  <1>5. CASE Mod!RejectRead(r)
    <2>1. ModerationTypeInv'
      BY <1>5 DEF Mod!RejectRead, Mod!Begin, ModerationInv, QuizInv, ModerationTypeInv
    <2>2. \A pc : Reviewing(pc)' => Reviewing(pc) \/ pc = "reject"
      BY <1>5, SlotOfStep DEF Mod!RejectRead, Mod!Begin, ModerationInv, QuizInv
    <2> QED
      BY <1>2, <1>5, <2>1, <2>2 DEF Mod!RejectRead, Mod!Begin, ModerationInv, QuizInv
  <1>6. CASE Mod!SubmitRead(r)
    <2>1. ModerationTypeInv'
      BY <1>6 DEF Mod!SubmitRead, Mod!Begin, ModerationInv, QuizInv, ModerationTypeInv
    <2>2. \A pc : Reviewing(pc)' => Reviewing(pc) \/ pc = "submit"
      BY <1>6, SlotOfStep DEF Mod!SubmitRead, Mod!Begin, ModerationInv, QuizInv
    <2> QED
      BY <1>2, <1>6, <2>1, <2>2 DEF Mod!SubmitRead, Mod!Begin, ModerationInv, QuizInv
  <1>7. CASE Mod!ValidateWrite(r)
    <2>1. ModerationTypeInv' /\ (raced' <=> raced \/ Reviewing("reject"))
      BY <1>7 DEF Mod!ValidateWrite, Mod!Exists, ModerationInv, QuizInv, ModerationTypeInv, Reviewing
    <2>2. \A pc : Reviewing(pc)' => Reviewing(pc) \/ pc = "idle"
      BY <1>7, SlotOfStep DEF Mod!ValidateWrite, ModerationInv, QuizInv
    <2>3. Reviewing("validate")
      BY <1>7 DEF Mod!ValidateWrite, Reviewing
    <2> QED
      BY <1>2, <1>7, <2>1, <2>2, <2>3 DEF Mod!ValidateWrite, Mod!Exists, ModerationInv, QuizInv
  <1>8. CASE Mod!RejectWrite(r)
    <2>1. ModerationTypeInv'
      BY <1>8 DEF Mod!RejectWrite, ModerationInv, QuizInv, ModerationTypeInv
    <2>2. \A pc : Reviewing(pc)' => Reviewing(pc) \/ pc = "idle"
      BY <1>8, SlotOfStep DEF Mod!RejectWrite, ModerationInv, QuizInv
    <2>3. Reviewing("reject")
      BY <1>8 DEF Mod!RejectWrite, Reviewing
    <2> QED
      BY <1>2, <1>8, <2>1, <2>2, <2>3 DEF Mod!RejectWrite, ModerationInv, QuizInv
  <1>9. CASE Mod!SubmitWrite(r)
    <2>1. ModerationTypeInv' /\ (~raced => attempts' = made')
      BY <1>9 DEF Mod!SubmitWrite, Mod!Exists, ModerationInv, QuizInv, ModerationTypeInv
    <2>2. \A pc : Reviewing(pc)' => Reviewing(pc) \/ pc = "idle"
      BY <1>9, SlotOfStep DEF Mod!SubmitWrite, ModerationInv, QuizInv
    <2>3. Reviewing("submit")
      BY <1>9 DEF Mod!SubmitWrite, Reviewing
    <2> QED
      BY <1>2, <1>9, <2>1, <2>2, <2>3 DEF Mod!SubmitWrite, Mod!Exists, ModerationInv, QuizInv, ModerationTypeInv
  <1> QED
    BY <1>3, <1>4, <1>5, <1>6, <1>7, <1>8, <1>9

LEMMA NextModeration == ModerationInv /\ [Mod!Next]_(Mod!vars) => ModerationInv'
  <1> SUFFICES ASSUME ModerationInv, [Mod!Next]_(Mod!vars)
               PROVE  ModerationInv'
    OBVIOUS
  <1>1. CASE UNCHANGED Mod!vars
    BY <1>1 DEF Mod!vars, ModerationInv, QuizInv, SheetInv, ModerationTypeInv, Reviewing,
       Mod!PublishedWasReviewed
  <1>2. CASE Mod!CreateQuestion
    <2>1. CASE QuizRequests = {}
      BY <1>2, <2>1 DEF Mod!CreateQuestion, ModerationInv, QuizInv, SheetInv, ModerationTypeInv,
         Reviewing, Mod!PublishedWasReviewed, Mod!sheetVars
    <2>2. CASE QuizRequests # {}
      BY <1>2, <2>2, QuizSteps
    <2> QED
      BY <2>1, <2>2
  <1>3. CASE Mod!UpdateSheet \/ (\E a \in Reviewers : Mod!ListAll(a) \/ Mod!ValidateSheet(a))
    BY <1>3, SheetSteps
  <1>4. ASSUME NEW r \in QuizRequests,
               \/ Mod!ValidateRead(r) \/ Mod!RejectRead(r) \/ Mod!SubmitRead(r)
               \/ Mod!ValidateWrite(r) \/ Mod!RejectWrite(r) \/ Mod!SubmitWrite(r)
        PROVE  ModerationInv'
    BY <1>4, QuizSteps
  <1> QED
    BY <1>1, <1>2, <1>3, <1>4 DEF Mod!Next

LEMMA ModerationHolds == OfficeSpec => []ModerationInv
  <1>1. OfficeInit => ModerationInv
    BY InitModeration DEF OfficeInit
  <1>2. ModerationInv /\ [OfficeNext]_officeVars => ModerationInv'
    BY NextModeration, StepsOfParts
  <1> QED
    BY <1>1, <1>2, PTL DEF OfficeSpec

-----------------------------------------------------------------------------
(* Disputes *)

DisputeTypeInv ==
  /\ dispute \in [Disputes -> Dis!Row \union {None}]
  /\ disputeReq \in [DisputeRequests -> Dis!Request]
  /\ \A r \in DisputeRequests : disputeReq[r].seen \in Dis!Actifs

\* What a row promises by itself: its status was earned, and so was what the
\* administration did with it.
Lawful(line) ==
  /\ line.status = "agency_responded" => "agency" \in line.authors
  /\ line.status = "escalated" => line.escalatedAt.set
  /\ line.escalatedAt.set => "agency" \in line.authors \/ line.escalatedAt.days >= ResponseDays
  /\ line.decision \/ "admin" \in line.authors => line.escalatedAt.set

\* What the request q has read still justifies what it is about to write, whatever
\* the row has become.
Knows(q, line) ==
  /\ q.seen = "escalated" => line.escalatedAt.set
  /\ q.pc = "escalate" => "agency" \in line.authors \/ line.age >= ResponseDays
  /\ q.pc = "decide" \/ q.author = "admin" => q.seen = "escalated"

DisputeInv ==
  /\ DisputeTypeInv
  /\ \A d \in Dis!Existing : Lawful(dispute[d])
  /\ \A r \in DisputeRequests : disputeReq[r].target \in Dis!Existing =>
       Knows(disputeReq[r], dispute[disputeReq[r].target])

\* A row never gets younger, loses no author and stays escalated.
Follows(line, old) ==
  /\ line.age >= old.age
  /\ old.authors \subseteq line.authors
  /\ old.escalatedAt.set => line.escalatedAt.set

\* While rows only follow from what they were, requests keep what they know; a new
\* row is known to nobody.
LEMMA KnowledgeLasts ==
  ASSUME DisputeInv, DisputeTypeInv',
         \A d \in Dis!Existing' :
           \/ d \in Dis!Existing /\ Follows(dispute'[d], dispute[d])
           \/ \A r \in DisputeRequests : disputeReq[r].target # d,
         \A d \in Dis!Existing' : Lawful(dispute'[d]),
         \A r \in DisputeRequests : disputeReq'[r] \in {disputeReq[r], Dis!Idle}
  PROVE  DisputeInv'
  <1> SUFFICES ASSUME NEW r \in DisputeRequests, disputeReq'[r].target \in Dis!Existing'
               PROVE  Knows(disputeReq'[r], dispute'[disputeReq'[r].target])
    BY DEF DisputeInv, Lawful, Knows
  <1>1. CASE disputeReq'[r] = Dis!Idle
    BY <1>1 DEF Dis!Idle, Knows
  <1>2. CASE disputeReq'[r] = disputeReq[r]
    <2> DEFINE d == disputeReq[r].target
    <2>1. d \in Dis!Existing /\ Follows(dispute'[d], dispute[d])
      BY <1>2
    <2>2. Knows(disputeReq[r], dispute[d])
      BY <2>1 DEF DisputeInv
    <2>3. dispute[d].age \in Nat /\ dispute'[d].age \in Nat
      BY <1>2, <2>1 DEF DisputeInv, DisputeTypeInv, Dis!Existing, Dis!Row
    <2> QED
      BY <1>2, <2>1, <2>2, <2>3, OfficeAssumption DEF Knows, Follows
  <1> QED
    BY <1>1, <1>2

\* A write by its id of a row that is lawful and follows from the one there.
LEMMA UpdateKeeps ==
  ASSUME DisputeInv, NEW r \in DisputeRequests, NEW pc, NEW line, Dis!Update(r, pc, line),
         disputeReq[r].target \in Dis!Existing =>
           /\ line \in Dis!Row /\ Lawful(line)
           /\ Follows(line, dispute[disputeReq[r].target])
  PROVE  DisputeInv'
  <1> DEFINE t == disputeReq[r].target
  <1>1. \A q \in DisputeRequests : disputeReq'[q] \in {disputeReq[q], Dis!Idle}
    BY DEF Dis!Update, DisputeInv, DisputeTypeInv
  <1>2. \A d \in Disputes : dispute'[d] = dispute[d] \/
          (d = t /\ t \in Dis!Existing /\ dispute'[d] = line)
    BY DEF Dis!Update, DisputeInv, DisputeTypeInv
  <1>3. DisputeTypeInv'
    <2>1. Dis!Idle \in Dis!Request /\ Dis!Idle.seen \in Dis!Actifs
      BY DEF Dis!Idle, Dis!Request, Dis!Pc, Dis!Actifs, Dis!Roles
    <2> QED
      BY <1>1, <2>1 DEF Dis!Update, DisputeInv, DisputeTypeInv
  <1>4. \A d \in Dis!Existing : Follows(dispute[d], dispute[d])
    BY DEF Follows, DisputeInv, DisputeTypeInv, Dis!Existing, Dis!Row
  <1>5. \A d \in Dis!Existing' : d \in Dis!Existing /\ Follows(dispute'[d], dispute[d])
    BY <1>2, <1>4 DEF Dis!Existing
  <1>6. \A d \in Dis!Existing' : Lawful(dispute'[d])
    <2> SUFFICES ASSUME NEW d \in Dis!Existing' PROVE Lawful(dispute'[d])
      OBVIOUS
    <2>1. Lawful(dispute[d])
      BY <1>5 DEF DisputeInv
    <2>2. d \in Disputes
      BY DEF Dis!Existing
    <2>3. CASE dispute'[d] = dispute[d]
      BY <2>1, <2>3 DEF Lawful
    <2>4. CASE t \in Dis!Existing /\ dispute'[d] = line
      BY <2>4 DEF Lawful
    <2> QED
      BY <1>2, <2>2, <2>3, <2>4
  <1> QED
    BY <1>1, <1>3, <1>5, <1>6, KnowledgeLasts

\* Reading a dispute to work on it later.
LEMMA StartKeeps ==
  ASSUME DisputeInv, NEW r \in DisputeRequests, NEW pc \in Dis!Pc, NEW d \in Dis!Active,
         NEW role \in Dis!Roles, Dis!StartAs(r, pc, d, role),
         pc = "escalate" => "agency" \in dispute[d].authors \/ dispute[d].age >= ResponseDays,
         pc = "decide" \/ role = "admin" => dispute[d].status = "escalated"
  PROVE  DisputeInv'
  <1> DEFINE q == [pc |-> pc, target |-> d, author |-> role, seen |-> dispute[d].status]
  <1>1. d \in Disputes /\ d \in Dis!Existing /\ dispute[d].status \in Dis!Actifs
    BY DEF Dis!Active, Dis!Existing
  <1>2. q \in Dis!Request
    BY <1>1 DEF Dis!Request
  <1>3. /\ dispute' = dispute /\ disputeReq'[r] = q
        /\ \A p \in DisputeRequests \ {r} : disputeReq'[p] = disputeReq[p]
        /\ disputeReq' \in [DisputeRequests -> Dis!Request]
    BY <1>2 DEF Dis!StartAs, DisputeInv, DisputeTypeInv
  <1>4. DisputeTypeInv'
    BY <1>1, <1>3 DEF DisputeInv, DisputeTypeInv
  <1>5. Dis!Existing' = Dis!Existing
    BY <1>3 DEF Dis!Existing
  <1>6. Knows(q, dispute[d])
    BY <1>1 DEF Knows, DisputeInv, Lawful
  <1> QED
    BY <1>3, <1>4, <1>5, <1>6 DEF DisputeInv

LEMMA HandlersKeepDisputes ==
  ASSUME DisputeInv, NEW r \in DisputeRequests,
         \/ Dis!CreateRead(r) \/ Dis!CreateWrite(r) \/ Dis!MessageWrite(r)
         \/ Dis!ResolveWrite(r) \/ Dis!EscalateWrite(r) \/ Dis!DecideWrite(r)
  PROVE  DisputeInv'
  <1> DEFINE old == dispute[disputeReq[r].target]
  <1>0. disputeReq[r].target \in Dis!Existing =>
          /\ old \in Dis!Row /\ Lawful(old) /\ Knows(disputeReq[r], old)
          /\ disputeReq[r].author \in Dis!Roles /\ disputeReq[r].seen \in Dis!Actifs
    BY DEF DisputeInv, DisputeTypeInv, Dis!Existing, Dis!Request
  <1>1. CASE Dis!CreateRead(r)
    <2>1. [Dis!Idle EXCEPT !.pc = "create"] \in Dis!Request
      BY DEF Dis!Idle, Dis!Request, Dis!Pc, Dis!Actifs, Dis!Roles
    <2>2. /\ dispute' = dispute /\ disputeReq' \in [DisputeRequests -> Dis!Request]
          /\ disputeReq'[r] = [Dis!Idle EXCEPT !.pc = "create"]
          /\ \A q \in DisputeRequests \ {r} : disputeReq'[q] = disputeReq[q]
      BY <1>1, <2>1 DEF Dis!CreateRead, DisputeInv, DisputeTypeInv
    <2> QED
      BY <2>2 DEF DisputeInv, DisputeTypeInv, Knows, Dis!Existing, Dis!Idle, Dis!Actifs
  <1>2. CASE Dis!CreateWrite(r)
    <2>1. PICK d \in Disputes \ Dis!Existing :
            /\ \A q \in DisputeRequests : disputeReq[q].target # d
            /\ dispute' = [dispute EXCEPT ![d] = Dis!Opened]
      BY <1>2 DEF Dis!CreateWrite
    <2>2. Dis!Opened \in Dis!Row /\ Lawful(Dis!Opened)
      BY DEF Dis!Opened, Dis!Unset, Dis!Row, Dis!Dates, Dis!Actifs, Dis!Roles, Lawful
    <2>3. Dis!Idle \in Dis!Request /\ Dis!Idle.seen \in Dis!Actifs
      BY DEF Dis!Idle, Dis!Request, Dis!Pc, Dis!Actifs, Dis!Roles
    <2>4. \A q \in DisputeRequests : disputeReq'[q] \in {disputeReq[q], Dis!Idle}
      BY <1>2 DEF Dis!CreateWrite, DisputeInv, DisputeTypeInv
    <2>5. DisputeTypeInv'
      BY <1>2, <2>1, <2>2, <2>3, <2>4 DEF Dis!CreateWrite, DisputeInv, DisputeTypeInv
    <2>6. \A x \in Disputes \ {d} : dispute'[x] = dispute[x]
      BY <2>1 DEF DisputeInv, DisputeTypeInv
    <2>7. \A x \in Dis!Existing : Follows(dispute[x], dispute[x])
      BY DEF Follows, DisputeInv, DisputeTypeInv, Dis!Existing, Dis!Row
    <2>8. \A x \in Dis!Existing' : x = d \/ (x \in Dis!Existing /\ dispute'[x] = dispute[x])
      BY <2>6 DEF Dis!Existing
    <2>9. \A x \in Dis!Existing' : Lawful(dispute'[x])
      BY <2>1, <2>2, <2>8 DEF DisputeInv, DisputeTypeInv
    <2> QED
      BY <2>1, <2>4, <2>5, <2>7, <2>8, <2>9, KnowledgeLasts
  <1>3. CASE Dis!MessageWrite(r)
    <2> DEFINE next == Dis!Suivant(disputeReq[r].seen, disputeReq[r].author)
               line == [old EXCEPT !.status = next, !.authors = @ \union {disputeReq[r].author}]
    <2>1. Dis!Update(r, "message", line)
      BY <1>3 DEF Dis!MessageWrite
    <2>2. ASSUME disputeReq[r].target \in Dis!Existing
          PROVE  line \in Dis!Row /\ Lawful(line) /\ Follows(line, old)
      <3>1. next \in Dis!Actifs
        BY DEF Dis!Suivant, Dis!Actifs
      <3>2. /\ next = "escalated" => disputeReq[r].seen = "escalated"
            /\ next = "agency_responded" => disputeReq[r].author = "agency"
        BY <1>0, <2>2 DEF Dis!Suivant, Dis!Roles
      <3>3. /\ line \in Dis!Row /\ line.status = next /\ line.age = old.age
            /\ line.authors = old.authors \union {disputeReq[r].author}
            /\ line.escalatedAt = old.escalatedAt /\ line.decision = old.decision
        BY <1>0, <2>2, <3>1 DEF Dis!Row
      <3> QED
        BY <1>0, <2>2, <3>2, <3>3 DEF Lawful, Knows, Follows, Dis!Row
    <2> HIDE DEF line
    <2> QED
      BY <2>1, <2>2, UpdateKeeps
  <1>4. CASE Dis!ResolveWrite(r)
    <2> DEFINE line == [old EXCEPT !.status = "resolved",
                                   !.closedAt = [set |-> TRUE, days |-> 0]]
    <2>1. Dis!Update(r, "resolve", line)
      BY <1>4 DEF Dis!ResolveWrite
    <2>2. ASSUME disputeReq[r].target \in Dis!Existing
          PROVE  line \in Dis!Row /\ Lawful(line) /\ Follows(line, old)
      <3>1. /\ line \in Dis!Row /\ line.status = "resolved" /\ line.age = old.age
            /\ line.authors = old.authors /\ line.escalatedAt = old.escalatedAt
            /\ line.decision = old.decision
        BY <1>0, <2>2 DEF Dis!Row, Dis!Dates, Dis!Clos
      <3> QED
        BY <1>0, <2>2, <3>1 DEF Lawful, Follows, Dis!Row
    <2> HIDE DEF line
    <2> QED
      BY <2>1, <2>2, UpdateKeeps
  <1>5. CASE Dis!EscalateWrite(r)
    <2> DEFINE line == [old EXCEPT !.status = "escalated",
                                   !.escalatedAt = [set |-> TRUE, days |-> old.age]]
    <2>1. Dis!Update(r, "escalate", line) /\ disputeReq[r].pc = "escalate"
      BY <1>5 DEF Dis!EscalateWrite, Dis!Update
    <2>2. ASSUME disputeReq[r].target \in Dis!Existing
          PROVE  line \in Dis!Row /\ Lawful(line) /\ Follows(line, old)
      <3>1. /\ line \in Dis!Row /\ line.status = "escalated" /\ line.age = old.age
            /\ line.authors = old.authors /\ line.decision = old.decision
            /\ line.escalatedAt.set /\ line.escalatedAt.days = old.age
        BY <1>0, <2>2 DEF Dis!Row, Dis!Dates, Dis!Actifs
      <3> QED
        BY <1>0, <2>1, <2>2, <3>1 DEF Lawful, Knows, Follows, Dis!Row
    <2> HIDE DEF line
    <2> QED
      BY <2>1, <2>2, UpdateKeeps
  <1>6. CASE Dis!DecideWrite(r)
    <2> DEFINE line == [old EXCEPT !.status = "closed", !.decision = TRUE,
                                   !.closedAt = [set |-> TRUE, days |-> 0]]
    <2>1. Dis!Update(r, "decide", line) /\ disputeReq[r].pc = "decide"
      BY <1>6 DEF Dis!DecideWrite, Dis!Update
    <2>2. ASSUME disputeReq[r].target \in Dis!Existing
          PROVE  line \in Dis!Row /\ Lawful(line) /\ Follows(line, old)
      <3>1. /\ line \in Dis!Row /\ line.status = "closed" /\ line.age = old.age
            /\ line.authors = old.authors /\ line.escalatedAt = old.escalatedAt
        BY <1>0, <2>2 DEF Dis!Row, Dis!Dates, Dis!Clos
      <3> QED
        BY <1>0, <2>1, <2>2, <3>1 DEF Lawful, Knows, Follows, Dis!Row
    <2> HIDE DEF line
    <2> QED
      BY <2>1, <2>2, UpdateKeeps
  <1> QED
    BY <1>1, <1>2, <1>3, <1>4, <1>5, <1>6

\* A day that passes, and the purge.
LEMMA NightsKeepDisputes ==
  ASSUME DisputeInv, Dis!Tick \/ Dis!PurgeClosedDisputes
  PROVE  DisputeInv'
  <1>1. /\ disputeReq' = disputeReq
        /\ \A d \in Disputes : \/ dispute'[d] = None
                               \/ dispute'[d] = dispute[d]
                               \/ d \in Dis!Existing /\ dispute'[d] = Dis!OneDay(dispute[d])
        /\ DOMAIN dispute' = Disputes /\ dispute' = [d \in Disputes |-> dispute'[d]]
    BY DEF Dis!Tick, Dis!PurgeClosedDisputes
  <1>2. \A d \in Dis!Existing :
          /\ dispute[d] \in Dis!Row
          /\ Dis!OneDay(dispute[d]) \in Dis!Row
          /\ Lawful(Dis!OneDay(dispute[d])) /\ Lawful(dispute[d])
          /\ Follows(Dis!OneDay(dispute[d]), dispute[d]) /\ Follows(dispute[d], dispute[d])
    <2> SUFFICES ASSUME NEW d \in Dis!Existing, NEW line, line = dispute[d]
                 PROVE  /\ Dis!OneDay(line) \in Dis!Row /\ line \in Dis!Row
                        /\ Lawful(Dis!OneDay(line)) /\ Lawful(line)
                        /\ Follows(Dis!OneDay(line), line) /\ Follows(line, line)
      BY DEF DisputeInv
    <2>1. line \in Dis!Row /\ Lawful(line)
      BY DEF DisputeInv, DisputeTypeInv, Dis!Existing
    <2>2. Dis!Older(line.age, ResponseDays) \in Nat /\ Dis!Older(line.age, ResponseDays) >= line.age
      BY <2>1, OfficeAssumption DEF Dis!Row, Dis!Older
    <2>3. Dis!Older(line.closedAt.days, Retention) \in Nat
      BY <2>1, OfficeAssumption DEF Dis!Row, Dis!Dates, Dis!Older
    <2>4. /\ Dis!OneDay(line) \in Dis!Row
          /\ Dis!OneDay(line).age = Dis!Older(line.age, ResponseDays)
          /\ Dis!OneDay(line).status = line.status /\ Dis!OneDay(line).authors = line.authors
          /\ Dis!OneDay(line).escalatedAt = line.escalatedAt
          /\ Dis!OneDay(line).decision = line.decision
      BY <2>1, <2>2, <2>3 DEF Dis!OneDay, Dis!Row, Dis!Dates
    <2> QED
      BY <2>1, <2>2, <2>4 DEF Lawful, Follows, Dis!Row
  <1>3. \A d \in Dis!Existing' :
          /\ d \in Dis!Existing /\ Lawful(dispute'[d]) /\ Follows(dispute'[d], dispute[d])
    BY <1>1, <1>2 DEF Dis!Existing
  <1>4. DisputeTypeInv'
    <2>1. \A d \in Disputes : dispute'[d] \in Dis!Row \union {None}
      BY <1>1, <1>2 DEF DisputeInv, DisputeTypeInv
    <2> QED
      BY <1>1, <2>1 DEF DisputeInv, DisputeTypeInv
  <1> QED
    BY <1>1, <1>3, <1>4, KnowledgeLasts

LEMMA NextDispute == DisputeInv /\ [Dis!Next]_(Dis!vars) => DisputeInv'
  <1> SUFFICES ASSUME DisputeInv, [Dis!Next]_(Dis!vars) PROVE DisputeInv'
    OBVIOUS
  <1>1. ASSUME NEW r \in DisputeRequests, NEW d \in Disputes, NEW role \in Dis!Roles,
               Dis!MessageRead(r, d, role)
        PROVE  DisputeInv'
    <2>1. Dis!StartAs(r, "message", d, role) /\ d \in Dis!Active /\ "message" \in Dis!Pc
      BY <1>1 DEF Dis!MessageRead, Dis!Pc
    <2>2. role = "admin" => dispute[d].status = "escalated"
      BY <1>1 DEF Dis!MessageRead, Dis!VisiblesAdmin, Dis!Active, Dis!Actifs
    <2> QED
      BY <2>1, <2>2, StartKeeps
  <1>2. ASSUME NEW r \in DisputeRequests, NEW d \in Disputes,
               Dis!ResolveRead(r, d) \/ Dis!EscalateRead(r, d) \/ Dis!DecideRead(r, d)
        PROVE  DisputeInv'
    <2>1. "pilgrim" \in Dis!Roles /\ Dis!Idle.author = "pilgrim"
          /\ {"resolve", "escalate", "decide"} \subseteq Dis!Pc
      BY DEF Dis!Roles, Dis!Idle, Dis!Pc
    <2>2. CASE Dis!ResolveRead(r, d)
      <3>1. d \in Dis!Active /\ Dis!StartAs(r, "resolve", d, "pilgrim")
        BY <2>1, <2>2 DEF Dis!ResolveRead, Dis!Start
      <3> QED
        BY <2>1, <3>1, StartKeeps
    <2>3. CASE Dis!EscalateRead(r, d)
      <3>1. d \in Dis!Active /\ Dis!StartAs(r, "escalate", d, "pilgrim")
        BY <2>1, <2>3 DEF Dis!EscalateRead, Dis!Start
      <3>2. "agency" \in dispute[d].authors \/ dispute[d].age >= ResponseDays
        BY <2>3, <3>1 DEF Dis!EscalateRead, Dis!Active, DisputeInv, Lawful
      <3> QED
        BY <2>1, <3>1, <3>2, StartKeeps
    <2>4. CASE Dis!DecideRead(r, d)
      <3>1. /\ d \in Dis!Active /\ Dis!StartAs(r, "decide", d, "pilgrim")
            /\ dispute[d].status = "escalated"
        BY <2>1, <2>4 DEF Dis!DecideRead, Dis!Start
      <3> QED
        BY <2>1, <3>1, StartKeeps
    <2> QED
      BY <1>2, <2>2, <2>3, <2>4
  <1>3. CASE UNCHANGED Dis!vars
    BY <1>3 DEF Dis!vars, DisputeInv, DisputeTypeInv, Dis!Existing
  <1> QED
    BY <1>1, <1>2, <1>3, HandlersKeepDisputes, NightsKeepDisputes DEF Dis!Next

LEMMA DisputesHold == OfficeSpec => []DisputeInv
  <1>1. OfficeInit => DisputeInv
    <2> SUFFICES ASSUME Dis!Init PROVE DisputeInv
      BY DEF OfficeInit
    <2>1. Dis!Idle \in Dis!Request /\ Dis!Idle.seen \in Dis!Actifs
      BY DEF Dis!Idle, Dis!Request, Dis!Pc, Dis!Actifs, Dis!Roles
    <2>2. Dis!Existing = {}
      BY DEF Dis!Init, Dis!Existing
    <2> QED
      BY <2>1, <2>2 DEF Dis!Init, DisputeInv, DisputeTypeInv
  <1>2. DisputeInv /\ [OfficeNext]_officeVars => DisputeInv'
    BY NextDispute, StepsOfParts
  <1> QED
    BY <1>1, <1>2, PTL DEF OfficeSpec

\* However many messages, escalations and decisions overlap on one dispute, nobody
\* reaches the administration before the agency had its say, and it decides nothing it
\* was not asked.
THEOREM ArbitrationIsAlwaysEarned == OfficeSpec => []ArbitrationIsEarned
  <1>1. DisputeInv => ArbitrationIsEarned
    BY DEF DisputeInv, Lawful, ArbitrationIsEarned, Dis!ArbitrationIsEarned,
           Dis!EscalationIsEarned, Dis!ArbitrationWasAsked
  <1> QED
    BY <1>1, DisputesHold, PTL

\* What a step leaves of an escalated, or of a closed, dispute that every handler at
\* work on it has read so.
LEMMA VerdictStep ==
  ASSUME DisputeInv, [Dis!Next]_(Dis!vars), NEW d \in Dis!Existing, Dis!UpToDate(d)
  PROVE  /\ dispute[d].status = "escalated" =>
              dispute'[d] # None /\ dispute'[d].status \in {"escalated"} \union Dis!Clos
         /\ dispute[d].status \in Dis!Clos /\ dispute'[d] # None =>
              dispute'[d].status \in Dis!Clos
  <1> DEFINE row == dispute[d]
  <1>0. /\ d \in Disputes /\ row \in Dis!Row /\ None \notin Dis!Row
        /\ \A r \in DisputeRequests : disputeReq[r].seen \in Dis!Actifs
        /\ \A r \in DisputeRequests : disputeReq[r].target = d => disputeReq[r].seen = row.status
    BY OfficeAssumption DEF DisputeInv, DisputeTypeInv, Dis!Existing, Dis!UpToDate
  <1>1. CASE dispute'[d] = row
    BY <1>0, <1>1
  <1>2. CASE Dis!Tick
    <2>1. dispute'[d] = Dis!OneDay(row)
      BY <1>0, <1>2 DEF Dis!Tick
    <2>2. Dis!OneDay(row) \in Dis!Row /\ Dis!OneDay(row).status = row.status
      <3>1. Dis!Older(row.age, ResponseDays) \in Nat
        BY <1>0, OfficeAssumption DEF Dis!Row, Dis!Older
      <3>2. Dis!Older(row.closedAt.days, Retention) \in Nat
        BY <1>0, OfficeAssumption DEF Dis!Row, Dis!Dates, Dis!Older
      <3> QED
        BY <1>0, <3>1, <3>2 DEF Dis!OneDay, Dis!Row, Dis!Dates
    <2> QED
      BY <1>0, <2>1, <2>2
  <1>3. CASE Dis!PurgeClosedDisputes
    BY <1>0, <1>3 DEF Dis!PurgeClosedDisputes, Dis!Purgeable, Dis!Clos
  <1>4. ASSUME NEW r \in DisputeRequests, NEW pc, NEW line, Dis!Update(r, pc, line),
               disputeReq[r].target = d =>
                 line \in Dis!Row /\ line.status \in {disputeReq[r].seen, "escalated"} \union Dis!Clos
        PROVE  /\ row.status = "escalated" =>
                    dispute'[d] # None /\ dispute'[d].status \in {"escalated"} \union Dis!Clos
               /\ row.status \in Dis!Clos => dispute'[d] = row
    <2>1. CASE disputeReq[r].target # d
      BY <1>0, <1>4, <2>1 DEF Dis!Update, DisputeInv, DisputeTypeInv
    <2>2. CASE disputeReq[r].target = d
      <3>1. dispute'[d] = line
        BY <1>0, <1>4, <2>2 DEF Dis!Update, DisputeInv, DisputeTypeInv
      <3>2. row.status = disputeReq[r].seen /\ row.status \notin Dis!Clos
        BY <1>0, <2>2 DEF Dis!Actifs, Dis!Clos
      <3> QED
        BY <1>0, <1>4, <2>2, <3>1, <3>2
    <2> QED
      BY <2>1, <2>2
  <1>5. ASSUME NEW r \in DisputeRequests,
               \/ Dis!MessageWrite(r) \/ Dis!ResolveWrite(r) \/ Dis!EscalateWrite(r)
               \/ Dis!DecideWrite(r)
        PROVE  /\ row.status = "escalated" =>
                    dispute'[d] # None /\ dispute'[d].status \in {"escalated"} \union Dis!Clos
               /\ row.status \in Dis!Clos => dispute'[d] = row
    <2>1. CASE Dis!MessageWrite(r)
      <3> DEFINE next == Dis!Suivant(disputeReq[r].seen, disputeReq[r].author)
                 line == [dispute[disputeReq[r].target] EXCEPT
                            !.status = next, !.authors = @ \union {disputeReq[r].author}]
      <3>1. Dis!Update(r, "message", line)
        BY <2>1 DEF Dis!MessageWrite
      <3>2. ASSUME disputeReq[r].target = d, row.status = "escalated"
            PROVE  line \in Dis!Row /\ line.status = "escalated"
        <4>1. next = "escalated" /\ disputeReq[r].author \in Dis!Roles
          BY <1>0, <3>2 DEF Dis!Suivant, DisputeInv, DisputeTypeInv, Dis!Request
        <4> QED
          BY <1>0, <3>2, <4>1 DEF Dis!Row, Dis!Actifs
      <3>3. CASE row.status = "escalated"
        <4> HIDE DEF line
        <4> QED
          BY <1>0, <1>4, <3>1, <3>2, <3>3 DEF Dis!Clos
      <3>4. CASE row.status \in Dis!Clos
        <4>1. disputeReq[r].target # d
          BY <1>0, <3>4 DEF Dis!Actifs, Dis!Clos
        <4> HIDE DEF line
        <4> QED
          BY <1>4, <3>1, <4>1
      <3> QED
        BY <3>3, <3>4
    <2>2. CASE Dis!ResolveWrite(r)
      <3> DEFINE line == [dispute[disputeReq[r].target] EXCEPT
                            !.status = "resolved", !.closedAt = [set |-> TRUE, days |-> 0]]
      <3>1. Dis!Update(r, "resolve", line)
        BY <2>2 DEF Dis!ResolveWrite
      <3>2. disputeReq[r].target = d => line \in Dis!Row /\ line.status \in Dis!Clos
        BY <1>0 DEF Dis!Row, Dis!Dates, Dis!Clos
      <3> HIDE DEF line
      <3> QED
        BY <1>4, <3>1, <3>2
    <2>3. CASE Dis!EscalateWrite(r)
      <3> DEFINE old == dispute[disputeReq[r].target]
                 line == [old EXCEPT !.status = "escalated",
                                     !.escalatedAt = [set |-> TRUE, days |-> old.age]]
      <3>1. Dis!Update(r, "escalate", line)
        BY <2>3 DEF Dis!EscalateWrite
      <3>2. disputeReq[r].target = d => line \in Dis!Row /\ line.status = "escalated"
        BY <1>0 DEF Dis!Row, Dis!Dates, Dis!Actifs
      <3> HIDE DEF line
      <3> QED
        BY <1>4, <3>1, <3>2
    <2>4. CASE Dis!DecideWrite(r)
      <3> DEFINE line == [dispute[disputeReq[r].target] EXCEPT
                            !.status = "closed", !.decision = TRUE,
                            !.closedAt = [set |-> TRUE, days |-> 0]]
      <3>1. Dis!Update(r, "decide", line)
        BY <2>4 DEF Dis!DecideWrite
      <3>2. disputeReq[r].target = d => line \in Dis!Row /\ line.status \in Dis!Clos
        BY <1>0 DEF Dis!Row, Dis!Dates, Dis!Clos
      <3> HIDE DEF line
      <3> QED
        BY <1>4, <3>1, <3>2
    <2> QED
      BY <1>5, <2>1, <2>2, <2>3, <2>4
  <1>6. ASSUME NEW r \in DisputeRequests, Dis!CreateWrite(r)
        PROVE  dispute'[d] = row
    BY <1>0, <1>6 DEF Dis!CreateWrite, DisputeInv, DisputeTypeInv
  <1>7. ASSUME NEW r \in DisputeRequests, NEW x \in Disputes, NEW role \in Dis!Roles,
               \/ Dis!CreateRead(r) \/ Dis!MessageRead(r, x, role) \/ Dis!ResolveRead(r, x)
               \/ Dis!EscalateRead(r, x) \/ Dis!DecideRead(r, x)
        PROVE  dispute'[d] = row
    BY <1>7 DEF Dis!CreateRead, Dis!MessageRead, Dis!ResolveRead, Dis!EscalateRead,
                Dis!DecideRead, Dis!Start, Dis!StartAs
  <1>8. CASE UNCHANGED Dis!vars
    BY <1>1, <1>8 DEF Dis!vars
  <1>9. "admin" \in Dis!Roles
    BY DEF Dis!Roles
  <1> QED
    BY <1>0, <1>1, <1>2, <1>3, <1>5, <1>6, <1>7, <1>8, <1>9 DEF Dis!Next

\* Whatever has read the escalation, or the closing, of a dispute leaves it standing,
\* for any number of handlers at work on it.
THEOREM VerdictsAlwaysStand == OfficeSpec => VerdictsStand
  <1> DEFINE Escalated == \A d \in Dis!Existing :
               dispute[d].status = "escalated" /\ Dis!UpToDate(d) =>
                 /\ dispute'[d] # None
                 /\ dispute'[d].status \in {"escalated"} \union Dis!Clos
             Closed == \A d \in Dis!Existing :
               dispute[d].status \in Dis!Clos /\ Dis!UpToDate(d) /\ dispute'[d] # None
                 => dispute'[d].status \in Dis!Clos
  <1>1. DisputeInv /\ [OfficeNext]_officeVars => Escalated /\ Closed
    BY VerdictStep, StepsOfParts
  <1>2. DisputeInv /\ [OfficeNext]_officeVars => [Escalated]_(Dis!vars) /\ [Closed]_(Dis!vars)
    BY <1>1
  <1> HIDE DEF Escalated, Closed
  <1>3. OfficeSpec => [][Escalated]_(Dis!vars) /\ [][Closed]_(Dis!vars)
    BY <1>2, DisputesHold, PTL DEF OfficeSpec
  <1> QED
    BY <1>3 DEF VerdictsStand, Dis!VerdictsStand, Dis!EscalationStands, Dis!ClosingIsFinal,
                Escalated, Closed

-----------------------------------------------------------------------------
(* Agencies *)

AgencyTypeInv ==
  /\ decision \in {Agc!Pending, Agc!Approved, Agc!Rejected}
  /\ unapproved \in Nat /\ overtaken \in BOOLEAN
  /\ token \in Nat /\ drawn \in Nat /\ shown \in Nat /\ crossed \in BOOLEAN
  /\ agencyReq \in [AgencyRequests -> [pc : {"idle", "package", "link"}]]

\* A creation that has seen the approval still finds it, unless it was overtaken.
SalesInv ==
  ~overtaken => unapproved = 0 /\ (Agc!InFlight({"package"}) => decision = Agc!Approved)

\* As long as no two requests cross, a link is only being made where there is none.
LinkInv ==
  /\ token = 0 => shown = 0
  /\ ~crossed => /\ Agc!InFlight({"link"}) => token = 0
                 /\ shown # 0 => shown = token

AgencyInv == AgencyTypeInv /\ SalesInv /\ LinkInv

\* The slots of the requests after a step of r that ends at pc.
LEMMA AgencySlot ==
  ASSUME AgencyTypeInv, NEW r \in AgencyRequests, NEW pc \in {"idle", "package", "link"},
         agencyReq' = [agencyReq EXCEPT ![r] = [pc |-> pc]]
  PROVE  /\ agencyReq' \in [AgencyRequests -> [pc : {"idle", "package", "link"}]]
         /\ \A at : Agc!InFlight({at})' =>
              pc = at \/ \E q \in AgencyRequests \ {r} : agencyReq[q].pc = at
  BY DEF AgencyTypeInv, Agc!InFlight

LEMMA SaleSteps ==
  ASSUME AgencyInv, NEW r \in AgencyRequests,
         \/ \E d \in {Agc!Approved, Agc!Rejected} : Agc!Decide(d)
         \/ Agc!CreatePackageRead(r) \/ Agc!CreatePackageWrite(r)
  PROVE  AgencyInv'
  <1>1. ASSUME NEW d \in {Agc!Approved, Agc!Rejected}, Agc!Decide(d)
        PROVE  AgencyInv'
    <2>1. /\ decision' = d /\ UNCHANGED <<unapproved, token, drawn, shown, crossed, agencyReq>>
          /\ overtaken' = (overtaken \/ Agc!InFlight({"package"}))
      BY <1>1 DEF Agc!Decide, Agc!linkVars
    <2>2. AgencyTypeInv'
      BY <2>1 DEF AgencyInv, AgencyTypeInv
    <2>3. SalesInv'
      BY <2>1 DEF AgencyInv, SalesInv, Agc!InFlight
    <2>4. LinkInv'
      BY <2>1 DEF AgencyInv, LinkInv, Agc!InFlight
    <2> QED
      BY <2>2, <2>3, <2>4 DEF AgencyInv
  <1>2. CASE Agc!CreatePackageRead(r)
    <2>1. /\ agencyReq' = [agencyReq EXCEPT ![r] = [pc |-> "package"]]
          /\ decision = Agc!Approved
          /\ UNCHANGED <<decision, unapproved, overtaken, token, drawn, shown, crossed>>
      BY <1>2 DEF Agc!CreatePackageRead, Agc!AssertApproved, Agc!saleVars, Agc!linkVars,
                  AgencyInv, AgencyTypeInv, Agc!Pending, Agc!Approved, Agc!Rejected
    <2>2. AgencyTypeInv'
      BY <2>1, AgencySlot DEF AgencyInv, AgencyTypeInv
    <2>3. Agc!InFlight({"link"})' => Agc!InFlight({"link"})
      BY <2>1, AgencySlot DEF AgencyInv, Agc!InFlight
    <2> QED
      BY <2>1, <2>2, <2>3 DEF AgencyInv, SalesInv, LinkInv
  <1>3. CASE Agc!CreatePackageWrite(r)
    <2>1. /\ agencyReq' = [agencyReq EXCEPT ![r] = [pc |-> "idle"]]
          /\ Agc!InFlight({"package"})
          /\ unapproved' = unapproved + (IF decision # Agc!Approved THEN 1 ELSE 0)
          /\ UNCHANGED <<decision, overtaken, token, drawn, shown, crossed>>
      BY <1>3 DEF Agc!CreatePackageWrite, Agc!Idle, Agc!linkVars, Agc!InFlight
    <2>2. AgencyTypeInv'
      BY <2>1, AgencySlot DEF AgencyInv, AgencyTypeInv
    <2>3. /\ Agc!InFlight({"link"})' => Agc!InFlight({"link"})
          /\ Agc!InFlight({"package"})' => Agc!InFlight({"package"})
      BY <2>1, AgencySlot DEF AgencyInv, Agc!InFlight
    <2> QED
      BY <2>1, <2>2, <2>3 DEF AgencyInv, AgencyTypeInv, SalesInv, LinkInv
  <1> QED
    BY <1>1, <1>2, <1>3

LEMMA LinkSteps ==
  ASSUME AgencyInv, NEW r \in AgencyRequests, NEW renewed \in BOOLEAN,
         Agc!GetLink(r) \/ Agc!Regenerate(r, renewed)
  PROVE  AgencyInv'
  <1>1. UNCHANGED <<decision, unapproved, overtaken>>
    BY DEF Agc!GetLink, Agc!Regenerate, Agc!saleVars
  <1>2. CASE Agc!GetLink(r) /\ token # 0
    <2>1. shown' = token /\ UNCHANGED <<agencyReq, token, drawn, crossed>>
      BY <1>2 DEF Agc!GetLink
    <2> QED
      BY <1>1, <1>2, <2>1 DEF AgencyInv, AgencyTypeInv, SalesInv, LinkInv, Agc!InFlight
  <1>3. CASE Agc!GetLink(r) /\ token = 0
    <2>1. /\ agencyReq' = [agencyReq EXCEPT ![r] = [pc |-> "link"]]
          /\ UNCHANGED <<token, drawn, shown, crossed>>
      BY <1>3 DEF Agc!GetLink
    <2>2. AgencyTypeInv'
      BY <1>1, <2>1, AgencySlot DEF AgencyInv, AgencyTypeInv
    <2>3. Agc!InFlight({"package"})' => Agc!InFlight({"package"})
      BY <2>1, AgencySlot DEF AgencyInv, Agc!InFlight
    <2> QED
      BY <1>1, <1>3, <2>1, <2>2, <2>3 DEF AgencyInv, AgencyTypeInv, SalesInv, LinkInv
  <1>4. CASE Agc!Regenerate(r, renewed)
    <2>1. /\ agencyReq' = [agencyReq EXCEPT ![r] = [pc |-> "idle"]]
          /\ drawn' = drawn + 1 /\ token' = drawn + 1
          /\ shown' = IF renewed \/ shown = 0 THEN drawn + 1 ELSE shown
          /\ crossed' = (crossed \/ \E q \in AgencyRequests \ {r} : agencyReq[q].pc = "link")
          /\ renewed \/ agencyReq[r].pc = "link"
      BY <1>4 DEF Agc!Regenerate, Agc!Idle
    <2>2. AgencyTypeInv'
      BY <1>1, <2>1, AgencySlot DEF AgencyInv, AgencyTypeInv
    <2>3. /\ Agc!InFlight({"package"})' => Agc!InFlight({"package"})
          /\ Agc!InFlight({"link"})' => \E q \in AgencyRequests \ {r} : agencyReq[q].pc = "link"
      BY <2>1, AgencySlot DEF AgencyInv, Agc!InFlight
    <2>4. SalesInv'
      BY <1>1, <2>3 DEF AgencyInv, SalesInv
    <2>5. ~crossed /\ ~renewed => shown = 0
      BY <2>1 DEF AgencyInv, LinkInv, Agc!InFlight
    <2>6. /\ token' # 0
          /\ ~crossed' => ~crossed /\ ~\E q \in AgencyRequests \ {r} : agencyReq[q].pc = "link"
          /\ ~crossed' => ~Agc!InFlight({"link"})'
      <3>1. token' # 0
        BY <2>1 DEF AgencyInv, AgencyTypeInv
      <3>2. ~crossed' => ~crossed /\ ~\E q \in AgencyRequests \ {r} : agencyReq[q].pc = "link"
        BY <2>1
      <3> QED
        BY <2>3, <3>1, <3>2
    <2>7. ~crossed' => shown' = token'
      BY <2>1, <2>5, <2>6
    <2>8. LinkInv'
      BY <2>6, <2>7 DEF LinkInv
    <2> QED
      BY <2>2, <2>4, <2>8 DEF AgencyInv
  <1> QED
    BY <1>2, <1>3, <1>4

LEMMA AgenciesHold == OfficeSpec => []AgencyInv
  <1>1. OfficeInit => AgencyInv
    <2> SUFFICES ASSUME Agc!Init PROVE AgencyInv
      BY DEF OfficeInit
    <2>1. AgencyTypeInv /\ \A r \in AgencyRequests : agencyReq[r].pc = "idle"
      BY DEF Agc!Init, Agc!Idle, AgencyTypeInv
    <2> QED
      BY <2>1 DEF Agc!Init, AgencyInv, SalesInv, LinkInv, Agc!InFlight
  <1>2. AgencyInv /\ [Agc!Next]_(Agc!vars) => AgencyInv'
    <2> SUFFICES ASSUME AgencyInv, [Agc!Next]_(Agc!vars) PROVE AgencyInv'
      OBVIOUS
    <2>1. CASE UNCHANGED Agc!vars
      <3>1. UNCHANGED <<decision, unapproved, overtaken, token, drawn, shown, crossed, agencyReq>>
        BY <2>1 DEF Agc!vars
      <3>2. \A pcs : Agc!InFlight(pcs)' <=> Agc!InFlight(pcs)
        BY <3>1 DEF Agc!InFlight
      <3> QED
        BY <3>1, <3>2 DEF AgencyInv, AgencyTypeInv, SalesInv, LinkInv
    <2>2. ASSUME NEW d \in {Agc!Approved, Agc!Rejected}, Agc!Decide(d)
          PROVE  AgencyInv'
      <3>1. /\ decision' = d /\ UNCHANGED <<unapproved, token, drawn, shown, crossed, agencyReq>>
            /\ overtaken' = (overtaken \/ Agc!InFlight({"package"}))
        BY <2>2 DEF Agc!Decide, Agc!linkVars
      <3> QED
        BY <3>1 DEF AgencyInv, AgencyTypeInv, SalesInv, LinkInv, Agc!InFlight
    <2> QED
      BY <2>1, <2>2, SaleSteps, LinkSteps DEF Agc!Next
  <1>3. AgencyInv /\ [OfficeNext]_officeVars => AgencyInv'
    BY <1>2, StepsOfParts
  <1> QED
    BY <1>1, <1>3, PTL DEF OfficeSpec

\* However many requests for it overlap with renewals, the link an owner has shared
\* opens what it should until he renews it, but for the crossing the property names.
THEOREM SharedLinkAlwaysOpens == OfficeSpec => []SharedLinkOpens
  <1>1. AgencyInv => SharedLinkOpens
    BY DEF AgencyInv, LinkInv, SharedLinkOpens, Agc!SharedLinkOpens
  <1> QED
    BY <1>1, AgenciesHold, PTL

\* However many requests overlap, what pilgrims read has been reviewed, no answer is
\* lost with its question, and what they buy is sold by an agency that was approved,
\* but in the overlaps the properties name.
THEOREM ReviewAlwaysComesFirst == OfficeSpec => []ReviewComesFirst
  <1>1. ModerationInv /\ AgencyInv => ReviewComesFirst
    BY DEF ModerationInv, QuizInv, SheetInv, ModerationTypeInv, AgencyInv, SalesInv,
           ReviewComesFirst, Mod!ReviewComesFirst, Mod!AttemptsAreKept, Agc!SalesAreApproved
  <1> QED
    BY <1>1, ModerationHolds, AgenciesHold, PTL

-----------------------------------------------------------------------------
(* Documents *)

DocumentRow == [type : Types, status : {"pending", "validated", "rejected"}]

DocumentTypeInv ==
  /\ docs \in [Docs -> DocumentRow \union {None}]
  /\ step \in BOOLEAN /\ earned \in BOOLEAN /\ dropped \in BOOLEAN
  /\ docReq \in [DocRequests -> [pc : {"idle", "read", "mark"}, doc : Docs \union {None}]]

\* What has been found complete was, and a complete file is marked or about to be.
DocumentInv ==
  /\ DocumentTypeInv
  /\ Doc!AllValidated => earned
  /\ step \/ (\E r \in DocRequests : docReq[r].pc = "mark") => earned
  /\ Doc!AllValidated /\ ~dropped =>
       step \/ \E r \in DocRequests : docReq[r].pc \in {"read", "mark"}

\* A step after which each document is as it was, or is not validated, validates no
\* type.
LEMMA NothingMoreValidated ==
  ASSUME NEW d \in Docs, DocumentTypeInv,
         \A e \in Docs \ {d} : docs'[e] = docs[e],
         docs'[d].status # "validated"
  PROVE  Doc!AllValidated' => Doc!AllValidated
  <1>1. Doc!TypesValidated(docs') \subseteq Doc!TypesValidated(docs)
    BY DEF Doc!TypesValidated
  <1> QED
    BY <1>1 DEF Doc!AllValidated

LEMMA AgencyKeepsDocuments ==
  ASSUME DocumentInv, NEW d \in Docs,
         \/ \E t \in Types : Doc!Upload(d, t)
         \/ Doc!Reject(d) \/ \E r \in DocRequests : Doc!Validate(r, d)
  PROVE  DocumentInv'
  <1>1. ASSUME NEW t \in Types, Doc!Upload(d, t)
        PROVE  DocumentInv'
    <2>1. /\ docs' = [docs EXCEPT ![d] = [type |-> t, status |-> "pending"]]
          /\ UNCHANGED <<step, earned, dropped, docReq>>
      BY <1>1 DEF Doc!Upload
    <2>2. DocumentTypeInv'
      BY <2>1 DEF DocumentInv, DocumentTypeInv, DocumentRow
    <2>3. Doc!AllValidated' => Doc!AllValidated
      BY <2>1, NothingMoreValidated DEF DocumentInv, DocumentTypeInv
    <2> QED
      BY <2>1, <2>2, <2>3 DEF DocumentInv
  <1>2. ASSUME NEW verdict \in {"validated", "rejected"}, d \in Doc!Uploaded, Doc!Store(d, verdict)
        PROVE  /\ docs' \in [Docs -> DocumentRow \union {None}]
               /\ docs'[d].status = verdict /\ \A e \in Docs \ {d} : docs'[e] = docs[e]
               /\ earned' \in BOOLEAN /\ (earned => earned') /\ (Doc!AllValidated' => earned')
    <2>1. docs[d] \in DocumentRow
      BY <1>2 DEF Doc!Uploaded, DocumentInv, DocumentTypeInv
    <2>2. [docs[d] EXCEPT !.status = verdict] \in DocumentRow
      BY <2>1 DEF DocumentRow
    <2>3. docs' = [docs EXCEPT ![d] = [docs[d] EXCEPT !.status = verdict]]
      BY <1>2 DEF Doc!Store
    <2>4. /\ docs' \in [Docs -> DocumentRow \union {None}]
          /\ docs'[d].status = verdict /\ \A e \in Docs \ {d} : docs'[e] = docs[e]
      BY <2>1, <2>2, <2>3 DEF DocumentInv, DocumentTypeInv, DocumentRow
    <2>5. earned' = (earned \/ Doc!AllValidated')
      BY <1>2 DEF Doc!Store, Doc!AllValidated
    <2> QED
      BY <2>4, <2>5 DEF DocumentInv, DocumentTypeInv
  <1>3. CASE Doc!Reject(d)
    <2>1. d \in Doc!Uploaded /\ Doc!Store(d, "rejected") /\ UNCHANGED <<step, dropped, docReq>>
      BY <1>3 DEF Doc!Reject
    <2>2. /\ docs' \in [Docs -> DocumentRow \union {None}]
          /\ docs'[d].status = "rejected" /\ \A e \in Docs \ {d} : docs'[e] = docs[e]
          /\ earned' \in BOOLEAN /\ (earned => earned') /\ (Doc!AllValidated' => earned')
      BY <1>2, <2>1
    <2>3. Doc!AllValidated' => Doc!AllValidated
      BY <2>2, NothingMoreValidated DEF DocumentInv
    <2>4. DocumentTypeInv'
      BY <2>1, <2>2 DEF DocumentInv, DocumentTypeInv
    <2> QED
      BY <2>1, <2>2, <2>3, <2>4 DEF DocumentInv
  <1>4. ASSUME NEW r \in DocRequests, Doc!Validate(r, d)
        PROVE  DocumentInv'
    <2>1. /\ d \in Doc!Uploaded /\ Doc!Store(d, "validated") /\ UNCHANGED <<step, dropped>>
          /\ docReq' = [docReq EXCEPT ![r] = [pc |-> "read", doc |-> d]]
      BY <1>4 DEF Doc!Validate
    <2>2. /\ docs' \in [Docs -> DocumentRow \union {None}]
          /\ earned' \in BOOLEAN /\ (earned => earned') /\ (Doc!AllValidated' => earned')
      BY <1>2, <2>1
    <2>3. /\ docReq' \in [DocRequests -> [pc : {"idle", "read", "mark"}, doc : Docs \union {None}]]
          /\ docReq'[r].pc = "read" /\ \A q \in DocRequests \ {r} : docReq'[q] = docReq[q]
      BY <2>1 DEF DocumentInv, DocumentTypeInv
    <2>4. DocumentTypeInv'
      BY <2>1, <2>2, <2>3 DEF DocumentInv, DocumentTypeInv
    <2> QED
      BY <2>1, <2>2, <2>3, <2>4 DEF DocumentInv
  <1> QED
    BY <1>1, <1>3, <1>4

LEMMA CompletionKeepsDocuments ==
  ASSUME DocumentInv, NEW r \in DocRequests,
         Doc!CompleteRead(r) \/ Doc!CompleteMark(r) \/ Doc!Drop(r)
  PROVE  DocumentInv'
  <1>0. /\ UNCHANGED <<docs, earned>> /\ (Doc!AllValidated' <=> Doc!AllValidated)
    BY DEF Doc!CompleteRead, Doc!CompleteMark, Doc!Drop, Doc!AllValidated, Doc!TypesValidated
  <1>1. CASE Doc!CompleteRead(r) /\ Doc!AllValidated
    <2>1. docReq' = [docReq EXCEPT ![r] = [docReq[r] EXCEPT !.pc = "mark"]]
          /\ UNCHANGED <<step, dropped>>
      BY <1>1 DEF Doc!CompleteRead
    <2>2. /\ docReq' \in [DocRequests -> [pc : {"idle", "read", "mark"}, doc : Docs \union {None}]]
          /\ docReq'[r].pc = "mark"
      BY <2>1 DEF DocumentInv, DocumentTypeInv
    <2> QED
      BY <1>0, <1>1, <2>1, <2>2 DEF DocumentInv, DocumentTypeInv
  <1>2. CASE \/ Doc!CompleteRead(r) /\ ~Doc!AllValidated
             \/ Doc!CompleteMark(r) \/ Doc!Drop(r)
    <2>1. /\ docReq' = [docReq EXCEPT ![r] = Doc!Idle]
          /\ \/ ~Doc!AllValidated /\ UNCHANGED <<step, dropped>>
             \/ docReq[r].pc = "mark" /\ step' = TRUE /\ UNCHANGED dropped
             \/ dropped' = TRUE /\ UNCHANGED step
      BY <1>2 DEF Doc!CompleteRead, Doc!CompleteMark, Doc!Drop
    <2>2. /\ docReq' \in [DocRequests -> [pc : {"idle", "read", "mark"}, doc : Docs \union {None}]]
          /\ docReq'[r].pc = "idle" /\ \A q \in DocRequests \ {r} : docReq'[q] = docReq[q]
      BY <2>1 DEF DocumentInv, DocumentTypeInv, Doc!Idle
    <2>3. DocumentTypeInv'
      BY <1>0, <2>1, <2>2 DEF DocumentInv, DocumentTypeInv
    <2>4. step' \/ (\E q \in DocRequests : docReq'[q].pc = "mark") => earned'
      BY <1>0, <2>1, <2>2 DEF DocumentInv
    <2>5. Doc!AllValidated' /\ ~dropped' =>
            step' \/ \E q \in DocRequests : docReq'[q].pc \in {"read", "mark"}
      BY <1>0, <2>1, <2>2 DEF DocumentInv, DocumentTypeInv
    <2> QED
      BY <1>0, <2>3, <2>4, <2>5 DEF DocumentInv
  <1> QED
    BY <1>1, <1>2

LEMMA DocumentsHold == OfficeSpec => []DocumentInv
  <1>1. OfficeInit => DocumentInv
    <2> SUFFICES ASSUME Doc!Init PROVE DocumentInv
      BY DEF OfficeInit
    <2>1. DocumentTypeInv /\ \A r \in DocRequests : docReq[r].pc = "idle"
      BY DEF Doc!Init, Doc!Idle, DocumentTypeInv
    <2>2. ~Doc!AllValidated
      BY OfficeAssumption DEF Doc!Init, Doc!AllValidated, Doc!TypesValidated
    <2> QED
      BY <2>1, <2>2 DEF Doc!Init, DocumentInv
  <1>2. DocumentInv /\ [Doc!Next]_(Doc!vars) => DocumentInv'
    <2> SUFFICES ASSUME DocumentInv, [Doc!Next]_(Doc!vars) PROVE DocumentInv'
      OBVIOUS
    <2>1. CASE UNCHANGED Doc!vars
      BY <2>1 DEF Doc!vars, DocumentInv, DocumentTypeInv, Doc!AllValidated, Doc!TypesValidated
    <2> QED
      BY <2>1, AgencyKeepsDocuments, CompletionKeepsDocuments DEF Doc!Next
  <1>3. DocumentInv /\ [OfficeNext]_officeVars => DocumentInv'
    BY <1>2, StepsOfParts
  <1> QED
    BY <1>1, <1>3, PTL DEF OfficeSpec

\* For any required types and any number of uploads, validations and refusals at once,
\* the DOCUMENTS step is only marked for a file that was complete, and is marked for it
\* unless a request died on the way.
THEOREM StepAlwaysFollowsDocuments == OfficeSpec => []StepFollowsDocuments
  <1>1. DocumentInv => StepFollowsDocuments
    BY DEF DocumentInv, DocumentTypeInv, StepFollowsDocuments, Doc!StepFollowsDocuments,
           Doc!StepWasEarned, Doc!CompleteFileIsMarked, Doc!Idle
  <1> QED
    BY <1>1, DocumentsHold, PTL

-----------------------------------------------------------------------------
(* Treasury *)

\* The days of the books: what was exported is past, and nothing is dated ahead.
BooksInv ==
  /\ today \in Nat /\ closed \in Int /\ Tre!NoDay <= closed /\ closed < today
  /\ moved \in BOOLEAN
  /\ pays \in [Payments -> [status : {"pending", "succeeded", "refunded"},
                            confirmed : Int, refunded : Int]]
  /\ exported \in [Tre!Pieces -> Nat]
  /\ \A x \in Tre!Pieces : Tre!Dated(x) <= today
  /\ Tre!JournalsAddUp

\* Each piece has a payment and a kind, and its date is one of the payment's.
LEMMA PieceIsDated ==
  ASSUME BooksInv, NEW x \in Tre!Pieces
  PROVE  /\ x[1] \in Payments /\ x[2] \in {"ENC", "REM"}
         /\ Tre!Dated(x) \in Int /\ exported[x] \in Nat
  BY DEF BooksInv, Tre!Pieces, Tre!Dated

\* A payment that gets a date today, which it had not or had already.
LEMMA DatedToday ==
  ASSUME BooksInv, UNCHANGED <<today, closed, exported>>, moved' \in BOOLEAN, moved => moved',
         pays' \in [Payments -> [status : {"pending", "succeeded", "refunded"},
                                 confirmed : Int, refunded : Int]],
         \A x \in Tre!Pieces :
           \/ Tre!Dated(x)' = Tre!Dated(x)
           \/ Tre!Dated(x)' = today /\ (moved' \/ Tre!Dated(x) \in {Tre!NoDay, today})
  PROVE  BooksInv'
  <1>1. \A x \in Tre!Pieces : Tre!Dated(x)' <= today
    BY DEF BooksInv
  <1>2. Tre!JournalsAddUp'
    <2> SUFFICES ASSUME ~moved', NEW x \in Tre!Pieces
                 PROVE  exported[x] = IF Tre!Dated(x)' # Tre!NoDay /\ Tre!Dated(x)' <= closed
                                      THEN 1 ELSE 0
      BY DEF Tre!JournalsAddUp, Tre!NoDay
    <2>1. exported[x] = IF Tre!Dated(x) # Tre!NoDay /\ Tre!Dated(x) <= closed THEN 1 ELSE 0
      BY DEF BooksInv, Tre!JournalsAddUp
    <2> QED
      BY <2>1, PieceIsDated DEF BooksInv
  <1> QED
    BY <1>1, <1>2 DEF BooksInv, Tre!NoDay

LEMMA NextBooks == BooksInv /\ [Tre!Next]_(Tre!vars) => BooksInv'
  <1> SUFFICES ASSUME BooksInv, [Tre!Next]_(Tre!vars) PROVE BooksInv'
    OBVIOUS
  <1>1. ASSUME NEW p \in Payments, Tre!Confirm(p)
        PROVE  BooksInv'
    <2>1. /\ pays' = [pays EXCEPT ![p].status = "succeeded", ![p].confirmed = today]
          /\ moved' = (moved \/ pays[p].confirmed \notin {Tre!NoDay, today})
          /\ UNCHANGED <<today, closed, exported>>
      BY <1>1 DEF Tre!Confirm
    <2>2. /\ pays' \in [Payments -> [status : {"pending", "succeeded", "refunded"},
                                     confirmed : Int, refunded : Int]]
          /\ pays'[p].confirmed = today /\ pays'[p].refunded = pays[p].refunded
          /\ \A q \in Payments \ {p} : pays'[q] = pays[q]
      <3> DEFINE marked == [pays EXCEPT ![p].status = "succeeded"]
      <3>1. /\ marked \in [Payments -> [status : {"pending", "succeeded", "refunded"},
                                       confirmed : Int, refunded : Int]]
            /\ marked[p].refunded = pays[p].refunded
            /\ \A q \in Payments \ {p} : marked[q] = pays[q]
        BY DEF BooksInv
      <3>2. pays' = [marked EXCEPT ![p].confirmed = today]
        BY <2>1
      <3> HIDE DEF marked
      <3> QED
        BY <3>1, <3>2 DEF BooksInv
    <2>3. moved' \in BOOLEAN /\ (moved => moved')
          /\ (moved' \/ pays[p].confirmed \in {Tre!NoDay, today})
      BY <2>1 DEF BooksInv
    <2>4. ASSUME NEW x \in Tre!Pieces
          PROVE  \/ Tre!Dated(x)' = Tre!Dated(x)
                 \/ Tre!Dated(x)' = today /\ (moved' \/ Tre!Dated(x) \in {Tre!NoDay, today})
      BY <2>2, <2>3, PieceIsDated DEF Tre!Dated
    <2> QED
      BY <2>1, <2>2, <2>3, <2>4, DatedToday
  <1>2. ASSUME NEW p \in Payments, Tre!Refund(p)
        PROVE  BooksInv'
    <2>1. /\ pays' = [pays EXCEPT ![p].status = "refunded", ![p].refunded = today]
          /\ pays[p].refunded = Tre!NoDay
          /\ UNCHANGED <<today, closed, exported, moved>>
      BY <1>2 DEF Tre!Refund
    <2>2. /\ pays' \in [Payments -> [status : {"pending", "succeeded", "refunded"},
                                     confirmed : Int, refunded : Int]]
          /\ pays'[p].refunded = today /\ pays'[p].confirmed = pays[p].confirmed
          /\ \A q \in Payments \ {p} : pays'[q] = pays[q]
      BY <2>1 DEF BooksInv
    <2>3. ASSUME NEW x \in Tre!Pieces
          PROVE  \/ Tre!Dated(x)' = Tre!Dated(x)
                 \/ Tre!Dated(x)' = today /\ (moved' \/ Tre!Dated(x) \in {Tre!NoDay, today})
      BY <2>1, <2>2, PieceIsDated DEF Tre!Dated
    <2>4. moved' \in BOOLEAN /\ (moved => moved')
      BY <2>1 DEF BooksInv
    <2> QED
      BY <2>1, <2>2, <2>3, <2>4, DatedToday
  <1>3. CASE Tre!NextDay
    <2>1. today' = today + 1 /\ UNCHANGED <<pays, closed, exported, moved>>
      BY <1>3 DEF Tre!NextDay
    <2>2. \A x \in Tre!Pieces : Tre!Dated(x)' = Tre!Dated(x)
      BY <2>1 DEF Tre!Dated
    <2>3. \A x \in Tre!Pieces : Tre!Dated(x) <= today + 1
      BY PieceIsDated DEF BooksInv
    <2>4. Tre!JournalsAddUp'
      BY <2>1, <2>2 DEF BooksInv, Tre!JournalsAddUp, Tre!NoDay
    <2> QED
      BY <2>1, <2>2, <2>3, <2>4 DEF BooksInv, Tre!NoDay
  <1>4. CASE Tre!Export
    <2>1. /\ exported' = [x \in Tre!Pieces |-> exported[x] +
                            IF x \in Tre!Entries(closed + 1, today - 1) THEN 1 ELSE 0]
          /\ closed < today - 1 /\ closed' = today - 1
          /\ UNCHANGED <<today, pays, moved>>
      BY <1>4 DEF Tre!Export
    <2>2. \A x \in Tre!Pieces : Tre!Dated(x)' = Tre!Dated(x)
      BY <2>1 DEF Tre!Dated
    <2>3. exported' \in [Tre!Pieces -> Nat]
      BY <2>1, PieceIsDated DEF BooksInv
    <2>4. Tre!JournalsAddUp'
      <3> SUFFICES ASSUME ~moved, NEW x \in Tre!Pieces
                   PROVE  exported'[x] = IF Tre!Dated(x) # Tre!NoDay /\ Tre!Dated(x) <= today - 1
                                         THEN 1 ELSE 0
        BY <2>1, <2>2 DEF Tre!JournalsAddUp, Tre!NoDay
      <3>1. exported[x] = IF Tre!Dated(x) # Tre!NoDay /\ Tre!Dated(x) <= closed THEN 1 ELSE 0
        BY DEF BooksInv, Tre!JournalsAddUp
      <3>2. x \in Tre!Entries(closed + 1, today - 1) <=>
              /\ Tre!Dated(x) # Tre!NoDay
              /\ closed + 1 <= Tre!Dated(x) /\ Tre!Dated(x) <= today - 1
        BY DEF Tre!Entries
      <3>3. exported'[x] = exported[x] +
              IF x \in Tre!Entries(closed + 1, today - 1) THEN 1 ELSE 0
        BY <2>1
      <3> QED
        BY <2>1, <3>1, <3>2, <3>3, PieceIsDated DEF BooksInv
    <2> QED
      BY <2>1, <2>2, <2>3, <2>4 DEF BooksInv, Tre!NoDay
  <1>5. CASE UNCHANGED Tre!vars
    <2>1. UNCHANGED <<today, pays, closed, exported, moved>>
      BY <1>5 DEF Tre!vars
    <2>2. \A x \in Tre!Pieces : Tre!Dated(x)' = Tre!Dated(x)
      BY <2>1 DEF Tre!Dated
    <2> QED
      BY <2>1, <2>2 DEF BooksInv, Tre!JournalsAddUp, Tre!NoDay
  <1> QED
    BY <1>1, <1>2, <1>3, <1>4, <1>5 DEF Tre!Next

-----------------------------------------------------------------------------
(* Treasury: the projection *)

\* The calendar is within its bound, the departure and the plan are known ones.
ForecastInv ==
  /\ today \in 0..LastBooksDay
  /\ departure \in Departures /\ plan \in Plans \union {None}

LEMMA NextForecast == ForecastInv /\ [Tre!Next]_(Tre!vars) => ForecastInv'
  <1> SUFFICES ASSUME ForecastInv, [Tre!Next]_(Tre!vars) PROVE ForecastInv'
    OBVIOUS
  <1>1. CASE Tre!Export
    BY <1>1 DEF ForecastInv, Tre!Export
  <1>2. CASE Tre!NextDay
    BY <1>2, OfficeAssumption DEF ForecastInv, Tre!NextDay
  <1>3. ASSUME NEW p \in Payments, Tre!Confirm(p) \/ Tre!Refund(p)
        PROVE  ForecastInv'
    BY <1>3 DEF ForecastInv, Tre!Confirm, Tre!Refund
  <1>4. CASE UNCHANGED Tre!vars
    BY <1>4 DEF ForecastInv, Tre!vars
  <1> QED
    BY <1>1, <1>2, <1>3, <1>4 DEF Tre!Next

\* The greatest of some numbers, for the operator of the library that Treasury uses.
LEMMA MaxOfTreasury ==
  ASSUME NEW S, S \subseteq Int, NEW x \in S, \A y \in S : y <= x
  PROVE  Tre!Max(S) = x
  <1> DEFINE P(z) == z \in S /\ \A y \in S : z >= y
             m == Tre!Max(S)
  <1>1. P(x)
    OBVIOUS
  <1>2. P(CHOOSE z : P(z))
    BY <1>1
  <1>3. Tre!Max(S) = CHOOSE z : P(z)
    BY DEF Tre!Max
  <1>4. m \in S /\ m >= x
    BY <1>2, <1>3
  <1> HIDE DEF m
  <1>5. m \in Int /\ x \in Int /\ m <= x
    BY <1>4
  <1>6. m = x
    BY <1>4, <1>5
  <1> QED
    BY <1>6 DEF m

LEMMA MaxOfTwo ==
  ASSUME NEW a \in Int, NEW b \in Int
  PROVE  Tre!Max({a, b}) = IF a < b THEN b ELSE a
  <1>1. {a, b} \subseteq Int /\ a \in {a, b} /\ b \in {a, b}
    OBVIOUS
  <1>2. CASE a < b
    BY <1>1, <1>2, MaxOfTreasury
  <1>3. CASE ~(a < b)
    BY <1>1, <1>3, MaxOfTreasury
  <1> QED
    BY <1>2, <1>3

LEMMA MinOfTwo ==
  ASSUME NEW a \in Int, NEW b \in Int
  PROVE  Tre!Min({a, b}) = IF a < b THEN a ELSE b
  <1> DEFINE P(z) == z \in {a, b} /\ \A y \in {a, b} : z <= y
             m == Tre!Min({a, b})
  <1>1. \E z : P(z)
    <2>1. CASE a < b
      BY <2>1
    <2>2. CASE ~(a < b)
      BY <2>2
    <2> QED
      BY <2>1, <2>2
  <1>2. P(CHOOSE z : P(z))
    BY <1>1
  <1>3. m = CHOOSE z : P(z)
    BY DEF Tre!Min
  <1>4. m \in {a, b} /\ m <= a /\ m <= b
    BY <1>2, <1>3
  <1> QED
    BY <1>4

\* The sums of the projection are sums of functions.
LEMMA AmountsAreTotal ==
  ASSUME NEW S
  PROVE  Tre!SumOver(LAMBDA e : e.amount, S) = Total([e \in S |-> e.amount], S)
  <1> DEFINE f == [e \in S |-> e.amount]
             x(s) == CHOOSE e \in s : TRUE
             Q(g) == g = [s \in SUBSET S |-> IF s = {} THEN 0 ELSE SumStep(f, g, s)]
             R(g) == g = [s \in SUBSET S |-> IF s = {} THEN 0
                                             ELSE x(s).amount + g[s \ {x(s)}]]
  <1>1. Tre!SumOver(LAMBDA e : e.amount, S) = (CHOOSE g : R(g))[S]
    BY DEF Tre!SumOver, Tre!FoldSet, Tre!MapThenFoldSet
  <1>2. PartialSums(f, S) = CHOOSE g : Q(g)
    BY DEF PartialSums
  <1>3. ASSUME NEW g PROVE R(g) <=> Q(g)
    <2>1. \A s \in SUBSET S : s # {} => x(s).amount + g[s \ {x(s)}] = SumStep(f, g, s)
      BY DEF SumStep
    <2> QED
      BY <2>1
  <1>4. (CHOOSE g : R(g)) = CHOOSE g : Q(g)
    <2> HIDE DEF R, Q
    <2> QED
      BY <1>3
  <1> QED
    BY <1>1, <1>2, <1>4 DEF Total

LEMMA MonthsAreTotal ==
  ASSUME NEW h, NEW S
  PROVE  Tre!SumOver(LAMBDA m : h[m], S) = Total(h, S)
  <1> DEFINE x(s) == CHOOSE m \in s : TRUE
             Q(g) == g = [s \in SUBSET S |-> IF s = {} THEN 0 ELSE SumStep(h, g, s)]
             R(g) == g = [s \in SUBSET S |-> IF s = {} THEN 0 ELSE h[x(s)] + g[s \ {x(s)}]]
  <1>1. Tre!SumOver(LAMBDA m : h[m], S) = (CHOOSE g : R(g))[S]
    BY DEF Tre!SumOver, Tre!FoldSet, Tre!MapThenFoldSet
  <1>2. PartialSums(h, S) = CHOOSE g : Q(g)
    BY DEF PartialSums
  <1>3. ASSUME NEW g PROVE R(g) <=> Q(g)
    <2>1. \A s \in SUBSET S : s # {} => h[x(s)] + g[s \ {x(s)}] = SumStep(h, g, s)
      BY DEF SumStep
    <2> QED
      BY <2>1
  <1>4. (CHOOSE g : R(g)) = CHOOSE g : Q(g)
    <2> HIDE DEF R, Q
    <2> QED
      BY <1>3
  <1> QED
    BY <1>1, <1>2, <1>4 DEF Total

LEMMA BalanceIsNatural == Tre!Balance \in Nat
  <1> DEFINE v(p) == IF pays[p].status = "succeeded" THEN Amount ELSE 0
             f == [p \in Payments |-> v(p)]
             x(s) == CHOOSE p \in s : TRUE
             Q(g) == g = [s \in SUBSET Payments |-> IF s = {} THEN 0 ELSE SumStep(f, g, s)]
             R(g) == g = [s \in SUBSET Payments |-> IF s = {} THEN 0
                                                    ELSE v(x(s)) + g[s \ {x(s)}]]
  <1>1. Tre!Collected = (CHOOSE g : R(g))[Payments]
    BY DEF Tre!Collected, Tre!SumOver, Tre!FoldSet, Tre!MapThenFoldSet
  <1>2. PartialSums(f, Payments) = CHOOSE g : Q(g)
    BY DEF PartialSums
  <1>3. ASSUME NEW g PROVE R(g) <=> Q(g)
    <2>1. \A s \in SUBSET Payments : s # {} => v(x(s)) + g[s \ {x(s)}] = SumStep(f, g, s)
      BY DEF SumStep
    <2> QED
      BY <2>1
  <1>4. (CHOOSE g : R(g)) = CHOOSE g : Q(g)
    <2> HIDE DEF R, Q
    <2> QED
      BY <1>3
  <1>5. Tre!Collected = Total(f, Payments)
    BY <1>1, <1>2, <1>4 DEF Total
  <1>6. IsFiniteSet(Payments) /\ Price \in Nat /\ \A p \in Payments : f[p] \in Int
    BY OfficeAssumption
  <1>7. Tre!Collected \in Int
    <2> HIDE DEF f
    <2> QED
      BY <1>5, <1>6, TotalAdds
  <1>8. 0 \in Int /\ Price - Tre!Collected \in Int
    BY <1>6, <1>7
  <1>9. Tre!Max({0, Price - Tre!Collected}) \in Nat
    BY <1>8, MaxOfTwo
  <1> QED
    BY <1>9 DEF Tre!Balance

\* The balance after each installment: the first is the whole, each takes its amount while
\* some is left.
LEMMA LeftFollows ==
  ASSUME ForecastInv, plan # None
  PROVE  /\ Tre!Left[0] = Tre!Balance
         /\ \A k \in 1..Price :
              Tre!Left[k] = Tre!Left[k - 1] - Tre!Min({Tre!Left[k - 1], plan.amount})
  <1> DEFINE Took(u) == u - Tre!Min({u, plan.amount})
             base == Tre!Balance
             Solves(g, m) == g = [k \in 0..m |-> IF k = 0 THEN base ELSE Took(g[k - 1])]
             Bad == {m \in Nat : ~\E g : Solves(g, m)}
  <1> HIDE DEF base, Took
  <1>1. Bad = {}
    <2> SUFFICES ASSUME Bad # {} PROVE FALSE
      OBVIOUS
    <2>0. Bad \subseteq Nat
      OBVIOUS
    <2>1. PICK m \in Bad : \A k \in Bad : m <= k
      <3> HIDE DEF Bad
      <3> QED
        BY <2>0, LeastNatural
    <2>2. m # 0
      <3>1. Solves([k \in 0..0 |-> base], 0)
        OBVIOUS
      <3> QED
        BY <2>1, <3>1
    <2>3. m \in Nat /\ m - 1 \in Nat /\ m - 1 \notin Bad
      <3>1. m \in Nat
        BY <2>1
      <3> HIDE DEF Bad
      <3> QED
        BY <2>1, <2>2, <3>1
    <2>4. PICK g : Solves(g, m - 1)
      BY <2>3
    <2> DEFINE h == [k \in 0..m |-> IF k = m THEN Took(g[m - 1]) ELSE g[k]]
    <2>5. \A k \in 0..(m - 1) : h[k] = g[k]
      BY <2>3
    <2>6. ASSUME NEW k \in 0..m
          PROVE  h[k] = IF k = 0 THEN base ELSE Took(h[k - 1])
      <3>1. CASE k = m
        <4>1. h[k] = Took(g[m - 1]) /\ h[m - 1] = g[m - 1]
          BY <2>3, <2>5, <3>1
        <4> QED
          BY <2>2, <3>1, <4>1
      <3>2. CASE k = 0
        <4>1. h[k] = g[k] /\ g[0] = base
          BY <2>3, <2>4, <2>5, <3>2
        <4> QED
          BY <3>2, <4>1
      <3>3. CASE k # m /\ k # 0
        <4>1. k \in 0..(m - 1) /\ k - 1 \in 0..(m - 1)
          BY <2>3, <3>3
        <4>2. g[k] = Took(g[k - 1])
          BY <2>4, <3>3, <4>1
        <4> QED
          BY <2>5, <3>3, <4>1, <4>2
      <3> QED
        BY <3>1, <3>2, <3>3
    <2>7. h = [k \in 0..m |-> h[k]]
      OBVIOUS
    <2> HIDE DEF h
    <2>8. Solves(h, m)
      BY <2>6, <2>7
    <2> QED
      BY <2>1, <2>8
  <1>2. Price \in Nat
    BY OfficeAssumption
  <1>3. \E g : Solves(g, Price)
    BY <1>1, <1>2
  <1> DEFINE Turn(g) == Solves(g, Price)
             e == Tre!Left
  <1>4. e = CHOOSE g : Turn(g)
    BY DEF Tre!Left, Tre!Ks, base, Took
  <1> HIDE DEF Solves, e
  <1>5. Turn(e)
    <2> HIDE DEF Turn
    <2>1. \E g : Turn(g)
      BY <1>3 DEF Turn
    <2> QED
      BY <1>4, <2>1
  <1>6. e = [k \in 0..Price |-> IF k = 0 THEN base ELSE Took(e[k - 1])]
    BY <1>5 DEF Turn, Solves
  <1>7. e[0] = base /\ \A k \in 1..Price : e[k] = Took(e[k - 1])
    BY <1>2, <1>6
  <1> QED
    BY <1>7 DEF e, base, Took

\* It never rises nor falls below zero, and once it is zero it stays so.
LEMMA LeftFalls ==
  ASSUME ForecastInv, plan # None
  PROVE  \A k \in 0..Price :
           /\ Tre!Left[k] \in Nat
           /\ k > 0 => Tre!Left[k - 1] \in Nat /\ Tre!Left[k] <= Tre!Left[k - 1]
  <1> DEFINE l == Tre!Left
             a == plan.amount
             Bad == {k \in 0..Price : l[k] \notin Nat}
  <1>1. l[0] \in Nat
    BY LeftFollows, BalanceIsNatural
  <1>2. Price \in Nat /\ a \in Nat
    BY OfficeAssumption DEF ForecastInv
  <1>3. \A k \in 1..Price : l[k] = l[k - 1] - Tre!Min({l[k - 1], a})
    BY LeftFollows
  <1> HIDE DEF l, a
  <1>4. ASSUME NEW k \in 1..Price, l[k - 1] \in Nat
        PROVE  l[k] \in Nat /\ l[k] <= l[k - 1]
    <2>1. Tre!Min({l[k - 1], a}) = IF l[k - 1] < a THEN l[k - 1] ELSE a
      BY <1>2, <1>4, MinOfTwo
    <2>2. l[k] = l[k - 1] - Tre!Min({l[k - 1], a})
      BY <1>3
    <2> QED
      BY <1>2, <1>4, <2>1, <2>2
  <1>5. Bad = {}
    <2> SUFFICES ASSUME Bad # {} PROVE FALSE
      OBVIOUS
    <2>0. Bad \subseteq Nat
      BY <1>2
    <2>1. PICK m \in Bad : \A k \in Bad : m <= k
      <3> HIDE DEF Bad
      <3> QED
        BY <2>0, LeastNatural
    <2>2. m \in 0..Price /\ l[m] \notin Nat
      BY <2>1
    <2>3. m # 0
      BY <1>1, <2>2
    <2>4. m \in 1..Price /\ m - 1 \in 0..Price /\ m - 1 \notin Bad
      <3> HIDE DEF Bad
      <3> QED
        BY <1>2, <2>1, <2>2, <2>3
    <2> QED
      BY <1>4, <2>2, <2>4
  <1>6. \A k \in 0..Price : l[k] \in Nat
    BY <1>5
  <1>7. ASSUME NEW k \in 0..Price, k > 0
        PROVE  l[k - 1] \in Nat /\ l[k] <= l[k - 1]
    <2>1. k \in 1..Price /\ k - 1 \in 0..Price
      BY <1>2, <1>7
    <2> QED
      BY <1>4, <1>6, <2>1
  <1> QED
    BY <1>6, <1>7 DEF l

\* The installment asked for k periods from now.
Entry(k) == [day |-> Tre!Date(k), amount |-> Tre!Left[k - 1] - Tre!Left[k]]

LEMMA PlanShape ==
  ASSUME ForecastInv, plan # None
  PROVE  /\ plan.next \in Nat /\ plan.period \in Nat \ {0} /\ plan.amount \in Nat
         /\ Price \in Nat /\ departure \in Nat /\ LastBooksDay \in Nat
         /\ \A k \in 1..Price : Tre!Date(k) \in Nat
         /\ \A j, k \in 1..Price : j < k => Tre!Date(j) < Tre!Date(k)
  <1>1. /\ plan.next \in Nat /\ plan.period \in Nat \ {0} /\ plan.amount \in Nat
        /\ Price \in Nat /\ departure \in Nat /\ LastBooksDay \in Nat
    <2>1. plan \in Plans /\ departure \in Departures
      BY DEF ForecastInv
    <2>2. /\ Plans \subseteq [next : Nat, period : Nat \ {0}, amount : Nat]
          /\ Price \in Nat /\ Departures \subseteq Nat /\ LastBooksDay \in Nat
      BY OfficeAssumption
    <2> QED
      BY <2>1, <2>2
  <1> DEFINE a == plan.next
             b == plan.period
  <1>2. a \in Nat /\ b \in Nat \ {0} /\ Price \in Nat
    BY <1>1
  <1>3. \A k : Tre!Date(k) = a + (k - 1) * b
    BY DEF Tre!Date
  <1> HIDE DEF a, b
  <1>4. ASSUME NEW k \in 1..Price PROVE Tre!Date(k) \in Nat
    <2>1. (k - 1) * b \in Nat
      BY <1>2
    <2> QED
      BY <1>2, <1>3, <2>1
  <1>5. ASSUME NEW j \in 1..Price, NEW k \in 1..Price, j < k
        PROVE  Tre!Date(j) < Tre!Date(k)
    <2>1. (j - 1) * b \in Nat /\ (k - 1) * b \in Nat /\ (k - 1) * b = (j - 1) * b + (k - j) * b
      BY <1>2
    <2>2. (k - j) * b \in Nat /\ (k - j) * b > 0
      BY <1>2, <1>5
    <2> QED
      BY <1>2, <1>3, <2>1, <2>2
  <1> QED
    BY <1>1, <1>4, <1>5

\* The installments that fall before the departure are the first ones.
LEMMA FirstOnes ==
  ASSUME ForecastInv, plan # None
  PROVE  \E n \in 0..Price : Tre!PaidOn = 1..n /\ Tre!Cardinality(Tre!PaidOn) = n
  <1>1. Price \in Nat
    BY OfficeAssumption
  <1>2. Tre!PaidOn = {k \in 1..Price : Tre!Left[k - 1] > 0 /\ Tre!Date(k) < departure}
    <2>1. (0..Price) \ {0} = 1..Price
      BY <1>1
    <2> QED
      BY <2>1 DEF Tre!PaidOn, Tre!Ks
  <1>3. ASSUME NEW k \in Tre!PaidOn, k > 1
        PROVE  k - 1 \in Tre!PaidOn
    <2>1. k \in 1..Price /\ k - 1 \in 1..Price /\ (k - 1) - 1 = k - 2
      BY <1>1, <1>2, <1>3
    <2>2. Tre!Left[k - 1] > 0 /\ Tre!Date(k) < departure
      BY <1>2
    <2>3. /\ Tre!Left[k - 1] \in Nat /\ Tre!Left[(k - 1) - 1] \in Nat
          /\ Tre!Left[k - 1] <= Tre!Left[(k - 1) - 1]
      <3>1. k - 1 \in 0..Price /\ k - 1 > 0
        BY <2>1
      <3> QED
        BY <3>1, LeftFalls
    <2>4. Tre!Left[(k - 1) - 1] > 0
      BY <2>2, <2>3
    <2>5. Tre!Date(k - 1) < departure
      <3>1. Tre!Date(k - 1) < Tre!Date(k) /\ Tre!Date(k - 1) \in Nat /\ Tre!Date(k) \in Nat
            /\ departure \in Nat
        BY <2>1, PlanShape
      <3> QED
        BY <2>2, <3>1
    <2> QED
      BY <1>2, <2>1, <2>4, <2>5
  <1>4. Tre!PaidOn \subseteq 1..Price
    BY <1>2
  <1>5. Tre!Cardinality(Tre!PaidOn) = Cardinality(Tre!PaidOn)
    BY DEF Tre!Cardinality, Cardinality
  <1> QED
    BY <1>1, <1>3, <1>4, <1>5, NoHole

\* What n installments take is what the balance has lost.
LEMMA Telescope ==
  ASSUME ForecastInv, plan # None, NEW n \in 0..Price, NEW f,
         \A k \in 1..n : f[Entry(k)] = Entry(k).amount
  PROVE  /\ IsFiniteSet({Entry(k) : k \in 1..n})
         /\ Total(f, {Entry(k) : k \in 1..n}) = Tre!Left[0] - Tre!Left[n]
  <1> DEFINE l == Tre!Left
             E(j) == {Entry(k) : k \in 1..j}
             Good(j) == IsFiniteSet(E(j)) /\ Total(f, E(j)) = l[0] - l[j]
             Bad == {j \in 0..n : ~Good(j)}
  <1>1. Price \in Nat /\ n \in Nat
    BY OfficeAssumption
  <1>2. \A k \in 0..Price : l[k] \in Nat
    BY LeftFalls
  <1>3. \A k : Entry(k).day = Tre!Date(k) /\ Entry(k).amount = l[k - 1] - l[k]
    BY DEF Entry
  <1> HIDE DEF l
  <1>4. Good(0)
    <2>1. E(0) = {}
      OBVIOUS
    <2>2. l[0] - l[0] = 0
      BY <1>1, <1>2
    <2> QED
      BY <2>1, <2>2, FS_EmptySet, TotalOfNothing
  <1>5. ASSUME NEW j \in 1..n, Good(j - 1)
        PROVE  Good(j)
    <2> DEFINE x == Entry(j)
               S == E(j)
               T == E(j - 1)
    <2>1. 1..j = 1..(j - 1) \union {j} /\ j - 1 \in 0..Price /\ j \in 0..Price /\ j \in 1..Price
      BY <1>1
    <2>2. S = T \union {x}
      BY <2>1
    <2>3. x \notin T
      <3> SUFFICES ASSUME NEW k \in 1..(j - 1), Entry(k) = x PROVE FALSE
        OBVIOUS
      <3>1. k \in 1..Price /\ k < j
        BY <1>1
      <3>2. Tre!Date(k) < Tre!Date(j) /\ Tre!Date(k) \in Nat /\ Tre!Date(j) \in Nat
        BY <2>1, <3>1, PlanShape
      <3>3. Tre!Date(k) = Tre!Date(j)
        BY <1>3
      <3> QED
        BY <3>2, <3>3
    <2>4. \A e \in S : f[e] \in Int
      <3> SUFFICES ASSUME NEW k \in 1..j PROVE f[Entry(k)] \in Int
        OBVIOUS
      <3>1. k \in 1..n /\ k \in 0..Price /\ k - 1 \in 0..Price
        BY <1>1
      <3>2. l[k - 1] - l[k] \in Int
        BY <1>2, <3>1
      <3> QED
        BY <1>3, <3>1, <3>2
    <2>5. f[x] = l[j - 1] - l[j]
      BY <1>3
    <2>6. IsFiniteSet(T) /\ Total(f, T) = l[0] - l[j - 1]
      BY <1>5
    <2> HIDE DEF S, T, x
    <2>7. IsFiniteSet(S)
      BY <2>2, <2>6, FS_AddElement
    <2>8. S \ {x} = T /\ x \in S
      BY <2>2, <2>3
    <2>9. Total(f, S) = f[x] + Total(f, T)
      BY <2>4, <2>7, <2>8, TotalAdds
    <2>10. l[0] \in Int /\ l[j - 1] \in Int /\ l[j] \in Int
      BY <1>1, <1>2, <2>1
    <2>11. Total(f, S) = l[0] - l[j]
      BY <2>5, <2>6, <2>9, <2>10
    <2> QED
      BY <2>7, <2>11 DEF S
  <1>6. Bad = {}
    <2> SUFFICES ASSUME Bad # {} PROVE FALSE
      OBVIOUS
    <2>0. Bad \subseteq Nat
      BY <1>1
    <2>1. PICK m \in Bad : \A k \in Bad : m <= k
      <3> HIDE DEF Bad
      <3> QED
        BY <2>0, LeastNatural
    <2>2. m \in 0..n /\ ~Good(m)
      BY <2>1
    <2> HIDE DEF Good
    <2>3. m # 0
      BY <1>4, <2>2
    <2>4. m \in 1..n /\ m - 1 \in 0..n /\ m - 1 \notin Bad
      <3> HIDE DEF Bad
      <3> QED
        BY <1>1, <2>1, <2>2, <2>3
    <2> QED
      BY <1>5, <2>2, <2>4
  <1>7. Good(n)
    <2> HIDE DEF Good
    <2>1. n \in 0..n
      BY <1>1
    <2> QED
      BY <1>6, <2>1
  <1> QED
    BY <1>7 DEF l

\* What is expected, with or without a plan: numbers, within the calendar, that add up to
\* the balance.
LEMMA ExpectedIsBalance ==
  ASSUME ForecastInv
  PROVE  /\ IsFiniteSet(Tre!Expected)
         /\ \A e \in Tre!Expected :
              /\ e.amount \in Int /\ e.day \in Nat
              /\ e.day <= LastBooksDay + Tre!Max(Departures)
         /\ LastBooksDay + Tre!Max(Departures) \in Nat
         /\ Total([e \in Tre!Expected |-> e.amount], Tre!Expected) = Tre!Balance
  <1> DEFINE D == Tre!Max(Departures)
             X == Tre!Expected
             f == [e \in X |-> e.amount]
  <1>1. /\ LastBooksDay \in Nat /\ DueDays \in Nat /\ Departures \subseteq Nat
        /\ IsFiniteSet(Departures) /\ Price \in Nat /\ departure \in Departures
        /\ today \in 0..LastBooksDay
    BY OfficeAssumption DEF ForecastInv
  <1>2. D \in Nat /\ departure \in Nat /\ departure <= D
    <2>1. Departures # {} /\ Departures \subseteq Int
      BY <1>1
    <2>2. PICK d \in Departures : \A y \in Departures : y <= d
      BY <1>1, <2>1, GreatestOfFinite
    <2>3. D = d
      BY <2>1, <2>2, MaxOfTreasury
    <2> QED
      BY <1>1, <2>2, <2>3
  <1> HIDE DEF D
  <1>3. Tre!Balance \in Nat
    BY BalanceIsNatural
  <1>4. CASE plan = None
    <2> DEFINE day == Tre!Max({departure - DueDays, today})
               x == [day |-> day, amount |-> Tre!Balance]
    <2>1. day \in Nat /\ day <= LastBooksDay + D
      <3>1. departure - DueDays \in Int /\ today \in Int
        BY <1>1, <1>2
      <3>2. day = IF departure - DueDays < today THEN today ELSE departure - DueDays
        BY <3>1, MaxOfTwo
      <3> HIDE DEF day
      <3> QED
        BY <1>1, <1>2, <3>2
    <2> HIDE DEF day
    <2>2. X = {x}
      BY <1>4 DEF Tre!Expected, day
    <2>3. x.day = day /\ x.amount = Tre!Balance
      OBVIOUS
    <2> HIDE DEF X, x
    <2>4. f[x] = Tre!Balance /\ IsFiniteSet(X) /\ X \ {x} = {} /\ x \in X
      BY <2>2, <2>3, FS_Singleton
    <2>5. \A e \in X : f[e] \in Int
      BY <1>3, <2>2, <2>4
    <2> HIDE DEF f
    <2>6. Total(f, X) = f[x] + Total(f, {})
      BY <2>4, <2>5, TotalAdds
    <2>7. Total(f, X) = Tre!Balance
      BY <1>3, <2>4, <2>6, TotalOfNothing
    <2> QED
      BY <1>1, <1>2, <1>3, <2>1, <2>2, <2>3, <2>4, <2>7 DEF f, X, D
  <1>5. CASE plan # None
    <2>1. PICK n \in 0..Price : Tre!PaidOn = 1..n /\ Tre!Cardinality(Tre!PaidOn) = n
      BY <1>5, FirstOnes
    <2> DEFINE P == {Entry(k) : k \in 1..n}
               x == [day |-> departure, amount |-> Tre!Left[n]]
    <2>2. X = P \union {x}
      <3>1. Tre!Expected =
              {[day |-> Tre!Date(k), amount |-> Tre!Left[k - 1] - Tre!Left[k]] : k \in Tre!PaidOn}
              \union {[day |-> departure, amount |-> Tre!Left[Tre!Cardinality(Tre!PaidOn)]]}
        BY <1>5 DEF Tre!Expected
      <3> QED
        BY <2>1, <3>1 DEF Entry
    <2>3. /\ Tre!Left[n] \in Nat /\ Tre!Left[0] = Tre!Balance
          /\ \A k \in 1..n : Tre!Left[k - 1] - Tre!Left[k] \in Int
      <3>1. \A k \in 1..n : k \in 0..Price /\ k > 0
        BY <1>1
      <3> QED
        BY <1>5, <3>1, LeftFalls, LeftFollows
    <2>4. ASSUME NEW k \in 1..n
          PROVE  /\ Entry(k).amount \in Int /\ Entry(k).day \in Nat
                 /\ Entry(k).day <= LastBooksDay + D /\ Entry(k) # x
      <3>1. Entry(k).day = Tre!Date(k) /\ Entry(k).amount = Tre!Left[k - 1] - Tre!Left[k]
        BY DEF Entry
      <3>2. k \in 1..Price
        BY <1>1
      <3>3. Tre!Date(k) \in Nat /\ Tre!Date(k) < departure
        BY <1>5, <2>1, <3>2, PlanShape DEF Tre!PaidOn
      <3>4. Tre!Date(k) <= LastBooksDay + D /\ Tre!Date(k) # departure
        BY <1>1, <1>2, <3>3
      <3> QED
        BY <2>3, <3>1, <3>3, <3>4
    <2>5. x.day = departure /\ x.amount = Tre!Left[n]
      OBVIOUS
    <2>6. departure <= LastBooksDay + D
      BY <1>1, <1>2
    <2> HIDE DEF X, x
    <2>7. \A k \in 1..n : f[Entry(k)] = Entry(k).amount
      BY <2>2
    <2>8. f[x] = Tre!Left[n]
      BY <2>2, <2>5
    <2>9. \A e \in X : e.amount \in Int /\ e.day \in Nat /\ e.day <= LastBooksDay + D
      BY <1>2, <2>2, <2>3, <2>4, <2>5, <2>6
    <2>10. \A e \in X : f[e] \in Int
      BY <2>9
    <2> HIDE DEF f
    <2>11. IsFiniteSet(P) /\ Total(f, P) = Tre!Left[0] - Tre!Left[n]
      BY <1>5, <2>7, Telescope
    <2>12. x \in X /\ X \ {x} = P
      BY <2>2, <2>4
    <2> HIDE DEF P
    <2>13. IsFiniteSet(X)
      BY <2>2, <2>11, FS_AddElement
    <2>14. Total(f, X) = f[x] + Total(f, P)
      BY <2>10, <2>12, <2>13, TotalAdds
    <2>15. Total(f, X) = Tre!Balance
      BY <1>3, <2>3, <2>8, <2>11, <2>14
    <2> QED
      BY <1>1, <1>2, <2>9, <2>13, <2>15 DEF f, X, D
  <1> QED
    BY <1>4, <1>5

LEMMA QuotientInRange ==
  ASSUME NEW a \in Nat, NEW b \in Nat, a <= b, NEW d \in Nat \ {0}
  PROVE  a \div d \in 0..(b \div d) /\ b \div d \in Nat
  <1> DEFINE q == a \div d
             r == b \div d
  <1>1. q \in Int /\ r \in Int /\ d * q <= a /\ a < d * q + d /\ d * r <= b /\ b < d * r + d
    OBVIOUS
  <1> HIDE DEF q, r
  <1>2. d * q \in Int /\ d * r \in Int
    BY <1>1
  <1>3. q >= 0
    <2> SUFFICES ASSUME q <= -1 PROVE FALSE
      BY <1>1
    <2>1. d * q <= d * (-1) /\ d * (-1) = -d
      BY <1>1
    <2> QED
      BY <1>1, <1>2, <2>1
  <1>4. q <= r
    <2> SUFFICES ASSUME r + 1 <= q PROVE FALSE
      BY <1>1
    <2>1. d * (r + 1) <= d * q /\ d * (r + 1) = d * r + d
      BY <1>1
    <2> QED
      BY <1>1, <1>2, <2>1
  <1> QED
    BY <1>1, <1>3, <1>4 DEF q, r

LEMMA ForecastExact ==
  ASSUME ForecastInv
  PROVE  Tre!ForecastAddsUp
  <1> DEFINE X == Tre!Expected
             M == Tre!Months
             f == [e \in X |-> e.amount]
             c == [e \in X |-> e.day \div Month]
             last == LastBooksDay + Tre!Max(Departures)
  <1>1. /\ IsFiniteSet(X) /\ last \in Nat
        /\ \A e \in X : e.amount \in Int /\ e.day \in Nat /\ e.day <= last
        /\ Total(f, X) = Tre!Balance
    BY ExpectedIsBalance
  <1>2. Month \in Nat \ {0}
    BY OfficeAssumption
  <1>3. M = 0..(last \div Month)
    BY DEF Tre!Months
  <1> HIDE DEF last, X
  <1>4. \A e \in X : f[e] \in Int /\ c[e] \in M
    BY <1>1, <1>2, <1>3, QuotientInRange
  <1>5. IsFiniteSet(M)
    <2>1. last \div Month \in Int /\ 0 \in Int
      BY <1>1, <1>2, QuotientInRange
    <2> QED
      BY <1>3, <2>1, FS_Interval
  <1>6. ASSUME NEW m \in M
        PROVE  /\ Tre!Projection[m] = ByClass(f, X, c, M)[m]
               /\ Tre!Projection[m] \in Int
    <2> DEFINE S == Class(X, c, m)
               g == [e \in S |-> e.amount]
    <2>1. S = {e \in X : e.day \div Month = m}
      BY DEF Class
    <2>2. Tre!Projection[m] =
            Tre!SumOver(LAMBDA e : e.amount, {e \in Tre!Expected : e.day \div Month = m})
      BY DEF Tre!Projection
    <2>3. Tre!Projection[m] = Total(g, S)
      BY <2>1, <2>2, AmountsAreTotal DEF X
    <2>4. IsFiniteSet(S) /\ \A e \in S : g[e] \in Int /\ f[e] = g[e]
      <3>1. S \subseteq X
        BY DEF Class
      <3>2. IsFiniteSet(S)
        BY <1>1, <3>1, FS_Subset
      <3> QED
        BY <1>1, <3>1, <3>2
    <2> HIDE DEF S, g, f, c
    <2>5. Total(g, S) = Total(f, S) /\ Total(g, S) \in Int
      BY <2>4, TotalsAgree, TotalAdds
    <2>6. ByClass(f, X, c, M)[m] = Total(f, S)
      BY DEF ByClass, S
    <2> QED
      BY <2>3, <2>5, <2>6
  <1> HIDE DEF f, c, M
  <1>7. Total(Tre!Projection, M) = Total(ByClass(f, X, c, M), M)
    BY <1>5, <1>6, TotalsAgree
  <1>8. Total(ByClass(f, X, c, M), M) = Total(f, X)
    BY <1>1, <1>4, <1>5, TotalByClass
  <1>9. Tre!SumOver(LAMBDA m : Tre!Projection[m], Tre!Months) = Total(Tre!Projection, M)
    BY MonthsAreTotal DEF M
  <1> QED
    BY <1>1, <1>7, <1>8, <1>9 DEF Tre!ForecastAddsUp

\* For any number of payments and of exports, the journals neither lose an entry nor
\* repeat one, unless the provider confirms a payment again on a later day; and for any
\* departure, plan and finite set of payments the projection of the receipts, month by
\* month, adds up to what is owed.
THEOREM BooksAlwaysAddUp == OfficeSpec => []BooksAddUp
  <1>1. OfficeInit => BooksInv /\ ForecastInv
    <2> SUFFICES ASSUME Tre!Init PROVE BooksInv /\ ForecastInv
      BY DEF OfficeInit
    <2>1. \A x \in Tre!Pieces : Tre!Dated(x) = Tre!NoDay
      BY DEF Tre!Init, Tre!Pieces, Tre!Dated
    <2>2. /\ today = 0 /\ closed = -1 /\ moved = FALSE
          /\ pays = [p \in Payments |->
                       [status |-> "pending", confirmed |-> -1, refunded |-> -1]]
          /\ exported = [x \in Tre!Pieces |-> 0]
      BY DEF Tre!Init, Tre!NoDay
    <2>3. Tre!JournalsAddUp
      BY <2>1, <2>2 DEF Tre!JournalsAddUp
    <2>4. /\ pays \in [Payments -> [status : {"pending", "succeeded", "refunded"},
                                     confirmed : Int, refunded : Int]]
          /\ exported \in [Tre!Pieces -> Nat]
      BY <2>2
    <2>5. /\ today \in Nat /\ closed \in Int /\ Tre!NoDay <= closed /\ closed < today
          /\ Tre!NoDay <= today
      BY <2>2 DEF Tre!NoDay
    <2>6. moved \in BOOLEAN
      BY <2>2
    <2>7. \A x \in Tre!Pieces : Tre!Dated(x) <= today
      BY <2>1, <2>5
    <2>8. BooksInv
      BY <2>3, <2>4, <2>5, <2>6, <2>7 DEF BooksInv
    <2>9. today = 0 /\ departure \in Departures /\ plan \in Plans \union {None}
      BY DEF Tre!Init
    <2>10. ForecastInv
      BY <2>9, OfficeAssumption DEF ForecastInv
    <2> QED
      BY <2>8, <2>10
  <1>2. BooksInv /\ [OfficeNext]_officeVars => BooksInv'
    BY NextBooks, StepsOfParts
  <1>3. ForecastInv /\ [OfficeNext]_officeVars => ForecastInv'
    BY NextForecast, StepsOfParts
  <1>4. BooksInv /\ ForecastInv => BooksAddUp
    BY ForecastExact DEF BooksInv, BooksAddUp, Tre!BooksAddUp
  <1> QED
    BY <1>1, <1>2, <1>3, <1>4, PTL DEF OfficeSpec

-----------------------------------------------------------------------------
(* Profitability: the break-even point *)

\* The last simulation is one that was accepted.
SimulationInv ==
  /\ rate \in Nat
  /\ hypotheses # None =>
       /\ hypotheses \in Pro!Hypotheses
       /\ hypotheses.expected <= hypotheses.capacity
       /\ hypotheses.sold # None => hypotheses.sold <= hypotheses.capacity

LEMMA NextSimulation ==
  ASSUME SimulationInv, [Pro!Next]_(Pro!vars)
  PROVE  SimulationInv'
  <1>1. ASSUME NEW h \in Pro!Hypotheses, Pro!Simulate(h)
        PROVE  SimulationInv'
    BY <1>1 DEF SimulationInv, Pro!Simulate
  <1>2. CASE UNCHANGED Pro!vars
    BY <1>2 DEF SimulationInv, Pro!vars
  <1> QED
    BY <1>1, <1>2 DEF Pro!Next

\* Rounded up, a quotient covers what is divided, and one less does not.
LEMMA CeilIsLeast ==
  ASSUME NEW n \in Nat, NEW d \in Nat \ {0}
  PROVE  LET q == (n + d - 1) \div d
         IN  q \in Nat /\ n <= q * d /\ (q > 0 => (q - 1) * d < n)
  <1> DEFINE q == (n + d - 1) \div d
             r == (n + d - 1) % d
  <1>1. n + d - 1 = d * q + r /\ r \in 0..(d - 1) /\ q \in Int
    OBVIOUS
  <1> HIDE DEF q, r
  <1>2. (q - 1) * d = d * q - d /\ q * d = d * q /\ d * q \in Int
    BY <1>1
  <1>3. n <= q * d /\ (q - 1) * d < n
    BY <1>1, <1>2
  <1>4. q >= 0
    <2> SUFFICES ASSUME q <= -1 PROVE FALSE
      BY <1>1
    <2>1. d * q <= d * (-1)
      BY <1>1
    <2> QED
      BY <1>1, <2>1
  <1> QED
    BY <1>1, <1>3, <1>4 DEF q

\* A margin is the contributions of the pilgrims less the fixed costs.
LEMMA MarginIsLinear ==
  ASSUME SimulationInv, hypotheses # None, NEW n \in Int
  PROVE  /\ Pro!UnitContribution \in Int /\ hypotheses.fixed \in Nat
         /\ Pro!Margin(n) = n * Pro!UnitContribution - 100 * hypotheses.fixed
  <1> DEFINE p == hypotheses.price
             c == hypotheses.cost
             f == hypotheses.fixed
  <1>1. p \in Nat /\ c \in Nat /\ f \in Nat /\ rate \in Nat
    BY OfficeAssumption DEF SimulationInv, Pro!Hypotheses
  <1>2. /\ Pro!UnitContribution = p * (100 - rate) - 100 * c
        /\ Pro!Margin(n) = 100 * (p * n) - (p * n) * rate - 100 * (c * n + f)
    BY DEF Pro!UnitContribution, Pro!Margin
  <1> HIDE DEF p, c, f
  <1>3. n * (p * (100 - rate) - 100 * c) = 100 * (p * n) - (p * n) * rate - 100 * (c * n)
    BY <1>1
  <1> QED
    BY <1>1, <1>2, <1>3 DEF f

\* The scenarios fit in the capacity.
LEMMA ScenariosFit ==
  ASSUME SimulationInv, hypotheses # None, NEW n \in Pro!Scenarios
  PROVE  n \in Nat /\ n <= hypotheses.capacity /\ hypotheses.capacity \in Nat
  <1>1. /\ hypotheses.capacity \in Nat /\ hypotheses.expected \in Nat
        /\ hypotheses.expected <= hypotheses.capacity
        /\ hypotheses.sold # None =>
             hypotheses.sold \in Nat /\ hypotheses.sold <= hypotheses.capacity
    <2>1. /\ hypotheses.capacity \in Capacities /\ hypotheses.expected \in 0..9
          /\ hypotheses.sold \in {None} \union (0..9)
      BY DEF SimulationInv, Pro!Hypotheses
    <2>2. /\ hypotheses.expected <= hypotheses.capacity
          /\ hypotheses.sold # None => hypotheses.sold <= hypotheses.capacity
      BY DEF SimulationInv
    <2>3. Capacities \subseteq Nat
      BY OfficeAssumption
    <2>4. hypotheses.capacity \in Nat /\ hypotheses.expected \in Nat
      <3>1. hypotheses.expected \in Nat
        BY <2>1
      <3>2. \A x \in Capacities : x \in Nat
        BY <2>3
      <3> QED
        BY <2>1, <3>1, <3>2, Zenon
    <2>5. hypotheses.sold # None => hypotheses.sold \in Nat
      <3>1. \A x : x \in {None} \union (0..9) /\ x # None => x \in Nat
        OBVIOUS
      <3> QED
        BY <2>1, <3>1, Zenon
    <2> QED
      BY <2>2, <2>4, <2>5, Zenon
  <1> DEFINE m == hypotheses.capacity
  <1>2. /\ Pro!Half(m) \in Nat /\ Pro!Half(m) <= m
        /\ Pro!ThreeQuarters(m) \in Nat /\ Pro!ThreeQuarters(m) <= m
    <2>1. m \in Nat
      BY <1>1
    <2> HIDE DEF m
    <2> QED
      BY <2>1 DEF Pro!Half, Pro!ThreeQuarters
  <1> QED
    BY <1>1, <1>2 DEF Pro!Scenarios

LEMMA BreakEvenExact ==
  ASSUME SimulationInv
  PROVE  Pro!BreakEvenIsExact
  <1> SUFFICES ASSUME hypotheses # None
               PROVE  /\ Pro!BreakEven # None =>
                           /\ Pro!Margin(Pro!BreakEven) >= 0
                           /\ Pro!BreakEven > 0 => Pro!Margin(Pro!BreakEven - 1) < 0
                      /\ ~Pro!BreakEvenReachable /\ hypotheses.fixed > 0 =>
                           \A n \in Pro!Scenarios : Pro!Margin(n) < 0
    BY DEF Pro!BreakEvenIsExact
  <1> DEFINE u == Pro!UnitContribution
             f == hypotheses.fixed
             e == Pro!BreakEven
  <1>1. /\ u \in Int /\ f \in Nat
        /\ \A n \in Int : Pro!Margin(n) = n * u - 100 * f
    <2>1. 0 \in Int
      OBVIOUS
    <2> QED
      BY <2>1, MarginIsLinear
  <1> HIDE DEF f
  <1>2. CASE u > 0
    <2>1. e = (100 * f + u - 1) \div u
      BY <1>2 DEF Pro!BreakEven, Pro!Ceil, f
    <2> HIDE DEF e, u
    <2>2. e \in Nat /\ 100 * f <= e * u /\ (e > 0 => (e - 1) * u < 100 * f)
      BY <1>1, <1>2, <2>1, CeilIsLeast
    <2>3. Pro!Margin(e) >= 0
      <3>1. e * u \in Int /\ Pro!Margin(e) = e * u - 100 * f
        BY <1>1, <2>2
      <3> QED
        BY <1>1, <2>2, <3>1
    <2>4. e > 0 => Pro!Margin(e - 1) < 0
      <3>1. (e - 1) * u \in Int /\ Pro!Margin(e - 1) = (e - 1) * u - 100 * f
        BY <1>1, <2>2
      <3> QED
        BY <1>1, <2>2, <3>1
    <2>5. ASSUME ~Pro!BreakEvenReachable, NEW n \in Pro!Scenarios, f > 0
          PROVE  Pro!Margin(n) < 0
      <3>1. n \in Nat /\ n <= hypotheses.capacity /\ hypotheses.capacity \in Nat
        BY ScenariosFit
      <3>2. e # None
        BY <2>2, OfficeAssumption
      <3>3. ~(e <= hypotheses.capacity)
        BY <2>5, <3>2 DEF Pro!BreakEvenReachable, e
      <3>4. n <= e - 1 /\ e > 0
        BY <2>2, <3>1, <3>3
      <3>5. n * u <= (e - 1) * u /\ n * u \in Int /\ (e - 1) * u \in Int
        BY <1>1, <1>2, <2>2, <3>1, <3>4
      <3>6. Pro!Margin(n) = n * u - 100 * f
        BY <1>1, <3>1
      <3> QED
        BY <1>1, <2>2, <3>4, <3>5, <3>6
    <2> QED
      BY <2>3, <2>4, <2>5 DEF e, f
  <1>3. CASE ~(u > 0)
    <2>1. e = None
      BY <1>3 DEF Pro!BreakEven
    <2>2. ASSUME NEW n \in Pro!Scenarios, f > 0
          PROVE  Pro!Margin(n) < 0
      <3>1. n \in Nat /\ Pro!Margin(n) = n * u - 100 * f
        BY <1>1, ScenariosFit
      <3> HIDE DEF u
      <3>2. n * u <= 0 /\ n * u \in Int
        BY <1>1, <1>3, <3>1
      <3> QED
        BY <1>1, <2>2, <3>1, <3>2
    <2> QED
      BY <2>1, <2>2 DEF f
  <1> QED
    BY <1>2, <1>3

-----------------------------------------------------------------------------
(* Capacity: the worst day *)

\* A trip that is planned has dates in order, a capacity and its sales.
TripInv ==
  \A t \in Cap!Planned :
    /\ t \in Trips /\ trips[t].from \in 0..LastTripDay /\ trips[t].to \in 0..LastTripDay
    /\ trips[t].from <= trips[t].to
    /\ trips[t].capacity \in Nat /\ trips[t].sold \in Nat

TripShape == trips = [t \in Trips |-> trips[t]]

LEMMA NextTrip ==
  ASSUME TripInv, TripShape, [Cap!Next]_(Cap!vars)
  PROVE  TripInv' /\ TripShape'
  <1>1. ASSUME NEW t \in Trips, NEW from \in 0..LastTripDay, NEW to \in 0..LastTripDay,
               NEW s \in Seats, Cap!Create(t, from, to, s)
        PROVE  TripInv' /\ TripShape'
    <2>1. s \in Nat /\ from <= to
      BY <1>1, OfficeAssumption DEF Cap!Create
    <2>2. /\ trips' = [trips EXCEPT ![t] =
                         [from |-> from, to |-> to, capacity |-> s, sold |-> 0]]
      BY <1>1 DEF Cap!Create
    <2> QED
      BY <2>1, <2>2 DEF TripInv, TripShape, Cap!Planned
  <1>2. ASSUME NEW t \in Trips, NEW from \in 0..LastTripDay, NEW to \in 0..LastTripDay,
               Cap!Move(t, from, to)
        PROVE  TripInv' /\ TripShape'
    BY <1>2 DEF TripInv, TripShape, Cap!Planned, Cap!Move
  <1>3. ASSUME NEW t \in Trips, Cap!Sell(t)
        PROVE  TripInv' /\ TripShape'
    BY <1>3 DEF TripInv, TripShape, Cap!Planned, Cap!Sell
  <1>4. CASE UNCHANGED Cap!vars
    BY <1>4 DEF TripInv, TripShape, Cap!Planned, Cap!vars
  <1> QED
    BY <1>1, <1>2, <1>3, <1>4 DEF Cap!Next, Cap!Days

\* The guides needed by some trips: a natural, and none for no trip.
Needed(S) == Cap!SumOver(Cap!GuidesNeeded, S)

LEMMA NeededIsNatural ==
  ASSUME TripInv, NEW S \in SUBSET Cap!Planned
  PROVE  Needed(S) \in Nat /\ (S = {} => Needed(S) = 0)
  <1> DEFINE f == [t \in S |-> Cap!GuidesNeeded(t)]
             x(s) == CHOOSE t \in s : TRUE
             Q(g) == g = [s \in SUBSET S |-> IF s = {} THEN 0 ELSE SumStep(f, g, s)]
             R(g) == g = [s \in SUBSET S |-> IF s = {} THEN 0
                                             ELSE Cap!GuidesNeeded(x(s)) + g[s \ {x(s)}]]
  <1>1. Needed(S) = (CHOOSE g : R(g))[S]
    BY DEF Needed, Cap!SumOver, Cap!FoldSet, Cap!MapThenFoldSet
  <1>2. PartialSums(f, S) = CHOOSE g : Q(g)
    BY DEF PartialSums
  <1>3. ASSUME NEW g PROVE R(g) <=> Q(g)
    <2>1. \A s \in SUBSET S :
            s # {} => Cap!GuidesNeeded(x(s)) + g[s \ {x(s)}] = SumStep(f, g, s)
      BY DEF SumStep
    <2> QED
      BY <2>1
  <1>4. (CHOOSE g : R(g)) = CHOOSE g : Q(g)
    <2> HIDE DEF R, Q
    <2> QED
      BY <1>3
  <1>5. Needed(S) = Total(f, S)
    BY <1>1, <1>2, <1>4 DEF Total
  <1>6. IsFiniteSet(S)
    BY FS_Subset, OfficeAssumption DEF Cap!Planned
  <1>7. \A t \in S : f[t] \in Nat
    <2> SUFFICES ASSUME NEW t \in S PROVE Cap!GuidesNeeded(t) \in Nat
      OBVIOUS
    <2>1. trips[t].capacity \in Nat
      BY DEF TripInv
    <2>2. PilgrimsPerGuide \in Nat \ {0}
      BY OfficeAssumption
    <2> QED
      BY <2>1, <2>2, CeilIsLeast DEF Cap!GuidesNeeded, Cap!Ceil
  <1> HIDE DEF f
  <1>8. Total(f, S) \in Nat
    BY <1>6, <1>7, TotalOfNaturals
  <1> QED
    BY <1>5, <1>8, TotalOfNothing

\* The trips under way on a day.
OnDay(d) == {t \in Cap!Planned : trips[t].from <= d /\ d <= trips[t].to}

LEMMA InstantsBound ==
  ASSUME TripInv
  PROVE  /\ Cap!Instants \subseteq 0..(LastTripDay + 1)
         /\ \A t \in Cap!Planned :
              /\ trips[t].from \in Cap!Instants /\ trips[t].to + 1 \in Cap!Instants
              /\ Cap!End(t) = trips[t].to + 1
  <1>1. ASSUME NEW t \in Cap!Planned
        PROVE  /\ Cap!End(t) = trips[t].to + 1
               /\ trips[t].from \in 0..(LastTripDay + 1)
               /\ trips[t].to + 1 \in 0..(LastTripDay + 1)
    BY OfficeAssumption DEF TripInv, Cap!End
  <1> QED
    BY <1>1 DEF Cap!Instants

\* The trips of a period are those of its first day.
LEMMA PeriodIsADay ==
  ASSUME TripInv, NEW p \in Cap!Periods, Cap!UnderWay(p) # {}
  PROVE  p.from \in 0..LastTripDay /\ Cap!UnderWay(p) = OnDay(p.from)
  <1>1. /\ p.from \in 0..(LastTripDay + 1) /\ p.to \in 0..(LastTripDay + 1)
        /\ p.from < p.to /\ \A i \in Cap!Instants : i <= p.from \/ i >= p.to
    BY InstantsBound DEF Cap!Periods
  <1>2. LastTripDay \in Nat
    BY OfficeAssumption
  <1>3. p.from \in 0..LastTripDay
    BY <1>1, <1>2
  <1>4. ASSUME NEW t \in Cap!Planned
        PROVE  Cap!End(t) >= p.to <=> p.from <= trips[t].to
    <2>1. /\ trips[t].to \in Nat /\ Cap!End(t) = trips[t].to + 1
          /\ trips[t].to + 1 <= p.from \/ trips[t].to + 1 >= p.to
      BY <1>1, InstantsBound DEF TripInv
    <2> QED
      BY <1>1, <2>1
  <1>5. Cap!UnderWay(p) = OnDay(p.from)
    BY <1>4 DEF Cap!UnderWay, OnDay
  <1> QED
    BY <1>3, <1>5

\* A day on which a trip is under way is one of a period with the same trips.
LEMMA DayIsInPeriod ==
  ASSUME TripInv, NEW d \in 0..LastTripDay, OnDay(d) # {}
  PROVE  \E p \in Cap!Periods : Cap!UnderWay(p) = OnDay(d)
  <1> DEFINE Before == {i \in Cap!Instants : i <= d}
             After == {i \in Cap!Instants : d < i}
  <1>1. LastTripDay \in Nat /\ d \in Nat
    BY OfficeAssumption
  <1>2. PICK t \in OnDay(d) : TRUE
    OBVIOUS
  <1>3. t \in Cap!Planned /\ trips[t].from <= d /\ d <= trips[t].to /\ trips[t].to \in Nat
    BY <1>2 DEF OnDay, TripInv
  <1>4. Before \subseteq 0..d /\ Before # {}
    BY <1>1, <1>3, InstantsBound
  <1>5. After \subseteq Nat /\ After # {}
    <2>1. trips[t].to + 1 \in After
      BY <1>1, <1>3, InstantsBound
    <2> QED
      BY <2>1, InstantsBound
  <1>6. PICK a \in Before : \A i \in Before : a >= i
    <2> HIDE DEF Before
    <2> QED
      BY <1>1, <1>4, GreatestNatural
  <1>7. PICK b \in After : \A i \in After : b <= i
    <2> HIDE DEF After
    <2> QED
      BY <1>5, LeastNatural
  <1>8. a \in Nat /\ b \in Nat /\ a <= d /\ d < b /\ a \in Cap!Instants /\ b \in Cap!Instants
    BY <1>1, <1>4, <1>5, <1>6, <1>7
  <1>9. ASSUME NEW i \in Cap!Instants
        PROVE  i \in Nat /\ (i <= a \/ i >= b) /\ (i <= d <=> i <= a)
    <2>1. i \in Nat
      BY InstantsBound
    <2>2. i \in Before \/ i \in After
      BY <1>1, <2>1
    <2>3. i \in Before => i <= a
      BY <1>6, <1>8, <2>1
    <2>4. i \in After => i >= b
      BY <1>7, <1>8, <2>1
    <2>5. i <= a => i <= d
      BY <1>1, <1>8, <2>1
    <2>6. i <= d => i <= a
      BY <2>1, <2>3
    <2> QED
      BY <2>1, <2>2, <2>3, <2>4, <2>5, <2>6
  <1> DEFINE p == [from |-> a, to |-> b]
  <1>10. p \in Cap!Periods
    <2>1. a < b
      BY <1>1, <1>8
    <2> QED
      BY <1>8, <1>9, <2>1 DEF Cap!Periods
  <1>11. ASSUME NEW u \in Cap!Planned
         PROVE  (trips[u].from <= a /\ Cap!End(u) >= b) <=> (trips[u].from <= d /\ d <= trips[u].to)
    <2>1. /\ trips[u].from \in Cap!Instants /\ trips[u].to + 1 \in Cap!Instants
          /\ Cap!End(u) = trips[u].to + 1 /\ trips[u].to \in Nat
      BY InstantsBound DEF TripInv
    <2>2. trips[u].from <= a <=> trips[u].from <= d
      BY <1>9, <2>1
    <2>3. trips[u].to + 1 >= b <=> d <= trips[u].to
      <3>1. \/ trips[u].to + 1 <= a
            \/ trips[u].to + 1 >= b
        BY <1>9, <2>1
      <3> QED
        BY <1>1, <1>8, <2>1, <3>1
    <2> QED
      BY <2>1, <2>2, <2>3
  <1>12. Cap!UnderWay(p) = OnDay(d)
    BY <1>11 DEF Cap!UnderWay, OnDay
  <1> QED
    BY <1>10, <1>12

LEMMA MaxIsGreatest ==
  ASSUME NEW S, S \subseteq Int, NEW x \in S, \A y \in S : y <= x
  PROVE  Cap!Max(S) = x
  <1> DEFINE P(z) == z \in S /\ \A y \in S : z >= y
  <1>1. P(x)
    OBVIOUS
  <1>2. P(CHOOSE z : P(z))
    BY <1>1
  <1>3. Cap!Max(S) = CHOOSE z : P(z)
    BY DEF Cap!Max
  <1> DEFINE m == Cap!Max(S)
  <1>4. m \in S /\ m >= x
    BY <1>2, <1>3
  <1> HIDE DEF m
  <1>5. m \in Int /\ x \in Int /\ m <= x
    BY <1>4
  <1>6. m = x
    BY <1>4, <1>5
  <1> QED
    BY <1>6 DEF m

LEMMA WorstDayFound ==
  ASSUME TripInv
  PROVE  Cap!PeakIsTheWorstDay
  <1> DEFINE D == 0..LastTripDay
             N(d) == Needed(OnDay(d))
             A == {0} \union {Cap!Load(p).needed : p \in {q \in Cap!Periods : Cap!UnderWay(q) # {}}}
             B == {N(d) : d \in D}
  <1>1. /\ LastTripDay \in Nat /\ PilgrimsPerGuide \in Nat \ {0} /\ Guides \in Nat
        /\ D # {} /\ IsFiniteSet(D)
    <2>1. LastTripDay \in Nat /\ PilgrimsPerGuide \in Nat \ {0} /\ Guides \in Nat
      BY OfficeAssumption
    <2>2. D # {} /\ 0 \in Int /\ LastTripDay \in Int
      BY <2>1
    <2>3. IsFiniteSet(0..LastTripDay)
      BY <2>2, FS_Interval
    <2> QED
      BY <2>1, <2>2, <2>3
  <1>2. \A d \in D : N(d) \in Nat /\ (OnDay(d) = {} => N(d) = 0)
    BY NeededIsNatural DEF OnDay
  <1>3. \A d \in D : Cap!GuidesOn(d) = N(d)
    BY DEF Cap!GuidesOn, Needed, OnDay
  <1>4. \A p \in Cap!Periods : Cap!Load(p).needed = Needed(Cap!UnderWay(p))
    BY DEF Cap!Load, Needed
  <1> HIDE DEF N
  <1>5. PICK b \in B : \A y \in B : y <= b
    <2>1. B # {} /\ B \subseteq Int
      BY <1>1, <1>2
    <2>2. [d \in D |-> N(d)] \in Surjection(D, B)
      BY DEF Surjection
    <2>3. IsFiniteSet(B)
      <3> HIDE DEF D, B
      <3> QED
        BY <1>1, <2>2, FS_Surjection
    <2> HIDE DEF B
    <2> QED
      BY <2>1, <2>3, GreatestOfFinite
  <1>6. PICK d \in D : b = N(d)
    BY <1>5
  <1>7. b \in Nat /\ \A e \in D : N(e) <= b
    BY <1>2, <1>5, <1>6
  <1>8. b \in A
    <2>1. CASE OnDay(d) = {}
      BY <1>2, <1>6, <2>1
    <2>2. CASE OnDay(d) # {}
      <3>1. PICK p \in Cap!Periods : Cap!UnderWay(p) = OnDay(d)
        BY <2>2, DayIsInPeriod
      <3>2. Cap!Load(p).needed = b
        BY <1>4, <1>6, <3>1 DEF N
      <3> QED
        BY <2>2, <3>1, <3>2
    <2> QED
      BY <2>1, <2>2
  <1>9. ASSUME NEW a \in A
        PROVE  a \in Int /\ a <= b
    <2>1. CASE a = 0
      BY <1>7, <2>1
    <2>2. CASE a # 0
      <3>1. PICK p \in Cap!Periods : Cap!UnderWay(p) # {} /\ a = Cap!Load(p).needed
        BY <2>2
      <3>2. p.from \in D /\ Cap!UnderWay(p) = OnDay(p.from)
        BY <3>1, PeriodIsADay
      <3>3. a = N(p.from)
        BY <1>4, <3>1, <3>2 DEF N
      <3> QED
        BY <1>2, <1>7, <3>2, <3>3
    <2> QED
      BY <2>1, <2>2
  <1>10. Cap!Peak = b
    <2>1. Cap!Peak = Cap!Max(A)
      BY DEF Cap!Peak
    <2> HIDE DEF A
    <2> QED
      BY <1>8, <1>9, <2>1, MaxIsGreatest
  <1>11. Cap!Max({Cap!GuidesOn(e) : e \in Cap!Days}) = b
    <2>1. {Cap!GuidesOn(e) : e \in Cap!Days} = B
      BY <1>3 DEF Cap!Days
    <2>2. B \subseteq Int
      BY <1>2
    <2> HIDE DEF B
    <2> QED
      BY <1>5, <2>1, <2>2, MaxIsGreatest
  <1>12. ASSUME NEW e \in Cap!Days, Cap!ExtraPilgrimsAtPeak > 0
         PROVE  Cap!GuidesOn(e) + Cap!Ceil(Cap!ExtraPilgrimsAtPeak, PilgrimsPerGuide) <= Guides
    <2> DEFINE k == Guides - b
               q == PilgrimsPerGuide
    <2>1. k \in Int /\ q \in Nat \ {0} /\ Cap!SpareGuidesAtPeak = k
      BY <1>1, <1>7, <1>10 DEF Cap!SpareGuidesAtPeak
    <2>2. k > 0 /\ Cap!ExtraPilgrimsAtPeak = k * q
      <3>1. CASE k >= 0
        <4>1. Cap!Max({0, k}) = k
          BY <2>1, <3>1, MaxIsGreatest
        <4>2. Cap!ExtraPilgrimsAtPeak = k * q
          BY <2>1, <4>1 DEF Cap!ExtraPilgrimsAtPeak
        <4>3. k # 0
          BY <1>12, <2>1, <4>2
        <4> QED
          BY <2>1, <3>1, <4>2, <4>3
      <3>2. CASE k < 0
        <4>1. Cap!Max({0, k}) = 0
          BY <2>1, <3>2, MaxIsGreatest
        <4>2. Cap!ExtraPilgrimsAtPeak = 0
          BY <2>1, <4>1 DEF Cap!ExtraPilgrimsAtPeak
        <4> QED
          BY <1>12, <4>2
      <3> QED
        BY <2>1, <3>1, <3>2
    <2> HIDE DEF k
    <2>3. Cap!Ceil(k * q, q) = k
      <3> DEFINE n == k * q
                 c == (n + q - 1) \div q
      <3>1. n \in Nat
        BY <2>1, <2>2
      <3> HIDE DEF q
      <3>2. c \in Nat /\ n <= c * q /\ (c > 0 => (c - 1) * q < n)
        <4> HIDE DEF n
        <4> QED
          BY <2>1, <3>1, CeilIsLeast
      <3>3. Cap!Ceil(n, q) = c
        BY DEF Cap!Ceil
      <3> HIDE DEF c
      <3>4. k <= c
        <4> SUFFICES ASSUME c <= k - 1 PROVE FALSE
          BY <2>1, <3>2
        <4>1. c * q <= (k - 1) * q /\ (k - 1) * q = k * q - q
          BY <2>1, <2>2, <3>2
        <4> QED
          BY <2>1, <3>1, <3>2, <4>1
      <3>5. c <= k
        <4> SUFFICES ASSUME k <= c - 1 PROVE FALSE
          BY <2>1, <3>2
        <4>1. k * q <= (c - 1) * q /\ c > 0
          BY <2>1, <2>2, <3>2
        <4> QED
          BY <2>1, <3>1, <3>2, <4>1
      <3> QED
        BY <2>1, <3>2, <3>3, <3>4, <3>5
    <2>4. e \in D
      BY DEF Cap!Days
    <2>5. Cap!GuidesOn(e) \in Nat /\ Cap!GuidesOn(e) <= b
      BY <1>2, <1>3, <1>7, <2>4
    <2>6. Cap!GuidesOn(e) + k <= Guides
      BY <1>1, <1>7, <2>5 DEF k
    <2> QED
      BY <2>2, <2>3, <2>6
  <1> QED
    BY <1>10, <1>11, <1>12 DEF Cap!PeakIsTheWorstDay

\* For every set of trips and every hypothesis, the capacity simulation finds the worst day,
\* first and last days included, and what it adds to that day can be led; the profitability
\* one finds the first number of pilgrims that loses nothing.
THEOREM SimulationsAreAlwaysExact == OfficeSpec => []SimulationsAreExact
  <1>1. OfficeInit => SimulationInv /\ TripInv /\ TripShape
    <2>1. OfficeInit => SimulationInv
      BY OfficeAssumption DEF OfficeInit, Pro!Init, SimulationInv
    <2>2. OfficeInit => TripInv /\ TripShape
      BY DEF OfficeInit, Cap!Init, TripInv, TripShape, Cap!Planned
    <2> QED
      BY <2>1, <2>2
  <1>2. SimulationInv /\ TripInv /\ TripShape /\ [OfficeNext]_officeVars =>
          SimulationInv' /\ TripInv' /\ TripShape'
    BY StepsOfParts, NextSimulation, NextTrip
  <1>3. SimulationInv /\ TripInv => SimulationsAreExact
    BY BreakEvenExact, WorstDayFound DEF SimulationsAreExact
  <1> QED
    BY <1>1, <1>2, <1>3, PTL DEF OfficeSpec

-----------------------------------------------------------------------------
(* Reputation: the trust score *)

\* What a review in flight carries; and nothing completes a booking.
ReputationInv ==
  /\ status \in [ReviewBookings -> {"confirmed", "cancelled"}]
  /\ rating \in [ReviewBookings -> Ratings \union {0}]
  /\ reviewReq \in [ReviewRequests ->
       {Rep!Idle} \union [pc : {"create"}, booking : ReviewBookings, rating : Ratings]]

LEMMA NextReputation == ReputationInv /\ [Rep!Next]_(Rep!vars) => ReputationInv'
  <1> SUFFICES ASSUME ReputationInv, [Rep!Next]_(Rep!vars) PROVE ReputationInv'
    OBVIOUS
  <1>1. ASSUME NEW b \in ReviewBookings, Rep!Cancel(b)
        PROVE  ReputationInv'
    BY <1>1 DEF ReputationInv, Rep!Cancel
  <1>2. CASE Rep!Decide
    BY <1>2 DEF ReputationInv, Rep!Decide
  <1>3. ASSUME NEW r \in ReviewRequests, Rep!CreateWrite(r)
        PROVE  ReputationInv'
    <2>1. reviewReq[r] \in [pc : {"create"}, booking : ReviewBookings, rating : Ratings]
      BY <1>3 DEF ReputationInv, Rep!CreateWrite, Rep!Idle
    <2> QED
      BY <1>3, <2>1 DEF ReputationInv, Rep!CreateWrite
  <1>4. ASSUME NEW r \in ReviewRequests, NEW b \in ReviewBookings, NEW n \in Ratings,
               Rep!CreateRead(r, b, n)
        PROVE  ReputationInv'
    BY <1>4 DEF ReputationInv, Rep!CreateRead
  <1>5. CASE UNCHANGED Rep!vars
    BY <1>5 DEF ReputationInv, Rep!vars
  <1> QED
    BY <1>1, <1>2, <1>3, <1>4, <1>5 DEF Rep!Next

\* The ratings are positive, and have a greatest and a least one.
LEMMA BestAndWorst ==
  /\ Rep!Max(Ratings) \in Ratings /\ Rep!Min(Ratings) \in Ratings
  /\ \A n \in Ratings : /\ n \in Nat /\ n > 0
                        /\ Rep!Min(Ratings) <= n /\ n <= Rep!Max(Ratings)
  <1>1. Ratings \subseteq Nat \ {0} /\ IsFiniteSet(Ratings) /\ Ratings # {}
    BY OfficeAssumption
  <1> DEFINE P(x) == x \in Ratings /\ \A y \in Ratings : x >= y
             Q(x) == x \in Ratings /\ \A y \in Ratings : x <= y
  <1>2. \E x : P(x)
    <2>1. Ratings \subseteq Int
      BY <1>1
    <2>2. PICK x \in Ratings : \A y \in Ratings : y <= x
      BY <1>1, <2>1, GreatestOfFinite
    <2> QED
      BY <2>1, <2>2
  <1>3. \E x : Q(x)
    <2>1. Ratings \subseteq Nat
      BY <1>1
    <2> QED
      BY <1>1, <2>1, LeastNatural
  <1>4. P(CHOOSE x : P(x)) /\ Q(CHOOSE x : Q(x))
    BY <1>2, <1>3
  <1>5. Rep!Max(Ratings) = (CHOOSE x : P(x)) /\ Rep!Min(Ratings) = CHOOSE x : Q(x)
    BY DEF Rep!Max, Rep!Min
  <1>6. P(Rep!Max(Ratings)) /\ Q(Rep!Min(Ratings))
    BY <1>4, <1>5
  <1> DEFINE high == Rep!Max(Ratings)
             low == Rep!Min(Ratings)
  <1> HIDE DEF high, low
  <1>7. high \in Ratings /\ low \in Ratings /\ \A y \in Ratings : high >= y /\ low <= y
    BY <1>6 DEF high, low
  <1>8. \A y \in Ratings : y \in Nat /\ y > 0
    BY <1>1
  <1>9. \A y \in Ratings : low <= y /\ y <= high
    BY <1>7, <1>8
  <1> QED
    BY <1>7, <1>8, <1>9 DEF high, low

\* Rounding to the nearest keeps the order of the quotients.
LEMMA RoundGrows ==
  ASSUME NEW a \in Nat, NEW b \in Nat, NEW d \in Nat \ {0}, NEW e \in Nat \ {0},
         a * e <= b * d
  PROVE  Rep!Round(a, d) \in Nat /\ Rep!Round(a, d) <= Rep!Round(b, e)
  <1> DEFINE q == (2 * a + d) \div (2 * d)
             r == (2 * b + e) \div (2 * e)
  <1>1. /\ q \in Int /\ (2 * d) * q <= 2 * a + d /\ 2 * a + d < (2 * d) * q + 2 * d
        /\ r \in Int /\ 2 * b + e < (2 * e) * r + 2 * e
    <2> DEFINE n == 2 * a + d
               m == 2 * b + e
               c == 2 * d
               f == 2 * e
    <2>1. n \in Nat /\ m \in Nat /\ c \in Nat \ {0} /\ f \in Nat \ {0}
      OBVIOUS
    <2> HIDE DEF n, m, c, f
    <2>2. /\ n \div c \in Int /\ c * (n \div c) <= n /\ n < c * (n \div c) + c
          /\ m \div f \in Int /\ m < f * (m \div f) + f
      BY <2>1
    <2> QED
      BY <2>2 DEF n, m, c, f
  <1>2. Rep!Round(a, d) = q /\ Rep!Round(b, e) = r
    BY DEF Rep!Round
  <1> HIDE DEF q, r
  <1> DEFINE x == d * q
             y == e * r
  <1>3. x \in Int /\ y \in Int /\ (2 * d) * q = 2 * x /\ (2 * e) * r = 2 * y
    BY <1>1
  <1>4. 2 * x <= 2 * a + d /\ 2 * a + d < 2 * x + 2 * d /\ 2 * b + e < 2 * y + 2 * e
    BY <1>1, <1>3
  <1>5. q >= 0
    <2> SUFFICES ASSUME q <= -1 PROVE FALSE
      BY <1>1
    <2>1. x <= -d
      <3>1. d * q <= d * (-1)
        BY <1>1
      <3> QED
        BY <3>1
    <2> HIDE DEF x
    <2> QED
      BY <1>3, <1>4, <2>1
  <1>6. q <= r
    <2> SUFFICES ASSUME r + 1 <= q PROVE FALSE
      BY <1>1
    <2>1. e * (d * (r + 1)) <= e * x
      <3>1. d * (r + 1) <= d * q
        BY <1>1
      <3> DEFINE u == d * (r + 1)
                 v == d * q
      <3>2. u \in Int /\ v \in Int
        BY <1>1
      <3> HIDE DEF u, v
      <3>3. e * u <= e * v
        BY <3>1, <3>2 DEF u, v
      <3> QED
        BY <3>3 DEF u, v
    <2>2. e * (d * (r + 1)) = d * y + d * e
      BY <1>1
    <2>3. e * (2 * x) <= e * (2 * a + d) /\ d * (2 * b + e) < d * (2 * y + 2 * e)
      <3> HIDE DEF x, y
      <3>1. e * (2 * x) <= e * (2 * a + d)
        BY <1>3, <1>4
      <3> DEFINE u == 2 * b + e
                 v == 2 * y + 2 * e
      <3>2. u \in Int /\ v \in Int /\ u < v
        BY <1>3, <1>4
      <3> HIDE DEF u, v
      <3>3. d * u < d * v
        BY <3>2
      <3> QED
        BY <3>1, <3>3 DEF u, v
    <2> HIDE DEF x, y
    <2> DEFINE ex == e * x
               dy == d * y
               de == d * e
               ae == a * e
               bd == b * d
    <2>4. /\ ex \in Int /\ dy \in Int /\ de \in Int /\ ae \in Int /\ bd \in Int
          /\ e * (2 * x) = 2 * ex /\ e * (2 * a + d) = 2 * ae + de
          /\ d * (2 * b + e) = 2 * bd + de /\ d * (2 * y + 2 * e) = 2 * dy + 2 * de
      BY <1>3
    <2>5. ae <= bd /\ dy + de <= ex
      BY <2>1, <2>2
    <2> HIDE DEF ex, dy, de, ae, bd
    <2> QED
      BY <2>3, <2>4, <2>5
  <1> QED
    BY <1>1, <1>2, <1>5, <1>6

\* The ratings add up in any order.
LEMMA RatingsAreTotal == Rep!RatingSum = Total(rating, Rep!Reviewed)
  <1> DEFINE S == Rep!Reviewed
             x(s) == CHOOSE b \in s : TRUE
             Q(g) == g = [s \in SUBSET S |-> IF s = {} THEN 0 ELSE SumStep(rating, g, s)]
             R(g) == g = [s \in SUBSET S |-> IF s = {} THEN 0 ELSE rating[x(s)] + g[s \ {x(s)}]]
  <1>1. Rep!RatingSum = (CHOOSE g : R(g))[S]
    BY DEF Rep!RatingSum, Rep!FoldSet, Rep!MapThenFoldSet
  <1>2. PartialSums(rating, S) = CHOOSE g : Q(g)
    BY DEF PartialSums
  <1>3. ASSUME NEW g PROVE R(g) <=> Q(g)
    <2>1. \A s \in SUBSET S : s # {} => rating[x(s)] + g[s \ {x(s)}] = SumStep(rating, g, s)
      BY DEF SumStep
    <2> QED
      BY <2>1
  <1>4. (CHOOSE g : R(g)) = CHOOSE g : Q(g)
    <2> HIDE DEF R, Q
    <2> QED
      BY <1>3
  <1> QED
    BY <1>1, <1>2, <1>4 DEF Total

\* As no booking is completed, the score is the mean rating, weighted by whether a
\* booking was cancelled, or nothing but the cancellations.
Weight == IF Rep!Concluded > 0 THEN 12 ELSE 20

ScoreFacts ==
  /\ IsFiniteSet(Rep!Reviewed) /\ Rep!ReviewCount = Cardinality(Rep!Reviewed)
  /\ Rep!ReviewCount \in Nat /\ Rep!RatingSum \in Nat
  /\ Rep!RatingSum = Total(rating, Rep!Reviewed)
  /\ Rep!Concluded \in Nat /\ Rep!Concluded = Rep!Count("cancelled")
  /\ Rep!Min(Ratings) * Rep!ReviewCount <= Rep!RatingSum
  /\ Rep!RatingSum <= Rep!Max(Ratings) * Rep!ReviewCount
  /\ Rep!ReviewCount > 0 => Rep!Score = Rep!Round(Weight * Rep!RatingSum, Rep!ReviewCount)
  /\ Rep!ReviewCount = 0 /\ Rep!Concluded > 0 => Rep!Score = 0
  /\ Rep!ReviewCount = 0 /\ Rep!Concluded = 0 => Rep!Score = None

LEMMA ScoreKnown == ReputationInv => ScoreFacts
  <1> SUFFICES ASSUME ReputationInv PROVE ScoreFacts
    OBVIOUS
  <1> DEFINE n == Rep!ReviewCount
             S == Rep!RatingSum
             C == Rep!Concluded
             high == Rep!Max(Ratings)
             low == Rep!Min(Ratings)
  <1>1. \A T : Rep!Cardinality(T) = Cardinality(T)
    BY DEF Rep!Cardinality, Cardinality
  <1>2. IsFiniteSet(Rep!Reviewed) /\ n = Cardinality(Rep!Reviewed) /\ n \in Nat
    <2>1. IsFiniteSet(ReviewBookings) /\ Rep!Reviewed \subseteq ReviewBookings
      BY OfficeAssumption DEF Rep!Reviewed
    <2>2. IsFiniteSet(Rep!Reviewed)
      BY <2>1, FS_Subset
    <2> QED
      BY <1>1, <2>2, FS_CardinalityType DEF Rep!ReviewCount
  <1>3. C = Rep!Count("cancelled") /\ C \in Nat /\ Rep!Completed = 0
    <2>1. \A s : Rep!Count(s) = Cardinality({b \in ReviewBookings : status[b] = s})
      BY <1>1 DEF Rep!Count
    <2>2. {b \in ReviewBookings : status[b] = "completed"} = {}
      BY DEF ReputationInv
    <2>3. Rep!Count("completed") = 0
      BY <2>1, <2>2, FS_EmptySet
    <2> DEFINE T == {b \in ReviewBookings : status[b] = "cancelled"}
    <2>4. T \subseteq ReviewBookings /\ IsFiniteSet(ReviewBookings)
      BY OfficeAssumption
    <2> HIDE DEF T
    <2>5. Cardinality(T) \in Nat
      BY <2>4, FS_Subset, FS_CardinalityType
    <2>6. Rep!Count("cancelled") = Cardinality(T)
      BY <2>1 DEF T
    <2> QED
      BY <2>3, <2>5, <2>6 DEF Rep!Concluded, Rep!Completed
  <1>4. \A b \in Rep!Reviewed : rating[b] \in Ratings
    BY DEF ReputationInv, Rep!Reviewed
  <1>5. high \in Nat /\ low \in Nat
    BY BestAndWorst
  <1>6. S = Total(rating, Rep!Reviewed)
    BY RatingsAreTotal
  <1>7. S \in Nat
    BY <1>2, <1>4, <1>6, BestAndWorst, TotalOfNaturals
  <1>8. low * n <= S /\ S <= high * n
    <2>1. \A b \in Rep!Reviewed : rating[b] \in Int /\ low <= rating[b] /\ rating[b] <= high
      BY <1>4, BestAndWorst
    <2>2. low \in Int /\ high \in Int
      BY <1>5
    <2> HIDE DEF low, high
    <2> QED
      BY <1>2, <1>6, <2>1, <2>2, TotalBounds
  <1>9. ASSUME n > 0 PROVE Rep!Score = Rep!Round(Weight * S, n)
    <2>1. CASE C > 0
      <3>1. Rep!Score = Rep!Round(12 * S * C + 40 * Rep!Completed * n, n * C)
        BY <1>9, <2>1 DEF Rep!Score
      <3> HIDE DEF n, S, C
      <3> DEFINE a == 12 * S
                 p == a * C
                 k == n * C
      <3>2. a \in Nat /\ p \in Nat /\ k \in Nat \ {0}
        BY <1>2, <1>3, <1>7, <1>9, <2>1
      <3>3. 12 * S * C + 40 * Rep!Completed * n = p
        <4>1. 40 * 0 * n = 0
          BY <1>2
        <4> QED
          BY <1>3, <3>2, <4>1
      <3>4. p * n = a * k
        <4> HIDE DEF a
        <4> QED
          BY <1>2, <1>3, <3>2
      <3>5. n \in Nat \ {0} /\ p * n \in Int
        BY <1>2, <1>9, <3>2
      <3> HIDE DEF a, p, k
      <3>6. Rep!Round(p, k) \in Nat /\ Rep!Round(a, n) \in Nat
            /\ Rep!Round(p, k) <= Rep!Round(a, n) /\ Rep!Round(a, n) <= Rep!Round(p, k)
        <4>1. p * n <= a * k /\ a * k <= p * n
          BY <3>4, <3>5
        <4> QED
          BY <3>2, <3>5, <4>1, RoundGrows
      <3>7. Rep!Round(p, k) = Rep!Round(a, n)
        <4> DEFINE u == Rep!Round(p, k)
                   v == Rep!Round(a, n)
        <4> HIDE DEF u, v
        <4>1. u \in Nat /\ v \in Nat /\ u <= v /\ v <= u
          BY <3>6 DEF u, v
        <4>2. u = v
          BY <4>1
        <4> QED
          BY <4>2 DEF u, v
      <3>8. Weight * S = a
        BY <2>1 DEF Weight, C, a
      <3> QED
        BY <3>1, <3>3, <3>7, <3>8 DEF k
    <2>2. CASE ~(C > 0)
      BY <1>9, <2>2 DEF Rep!Score, Weight
    <2> QED
      BY <2>1, <2>2
  <1>10. ASSUME n = 0, C > 0 PROVE Rep!Score = 0
    <2>1. Rep!Score = Rep!Round(100 * 0, C)
      BY <1>3, <1>10 DEF Rep!Score
    <2>2. Rep!Round(0, 1) = 0
      BY DEF Rep!Round
    <2>3. C \in Nat \ {0}
      BY <1>3, <1>10
    <2> HIDE DEF C
    <2>4. Rep!Round(0, C) \in Nat /\ Rep!Round(0, C) <= Rep!Round(0, 1)
      <3>1. 0 * 1 <= 0 * C
        BY <2>3
      <3> QED
        BY <2>3, <3>1, RoundGrows
    <2> DEFINE u == Rep!Round(0, C)
    <2> HIDE DEF u
    <2>5. u \in Nat /\ u <= 0
      BY <2>2, <2>4 DEF u
    <2>6. u = 0
      BY <2>5
    <2> QED
      BY <2>1, <2>6 DEF u
  <1>11. ASSUME n = 0, C = 0 PROVE Rep!Score = None
    BY <1>11 DEF Rep!Score
  <1> QED
    BY <1>2, <1>3, <1>6, <1>7, <1>8, <1>9, <1>10, <1>11 DEF ScoreFacts

\* One more rating moves the weighted mean towards it.
LEMMA MeanMoves ==
  ASSUME NEW S \in Nat, NEW n \in Nat, NEW x \in Nat, NEW w \in Nat
  PROVE  /\ S <= x * n => (w * S) * (n + 1) <= (w * (S + x)) * n
         /\ x * n <= S => (w * (S + x)) * n <= (w * S) * (n + 1)
  <1> DEFINE u == S * (n + 1)
             v == (S + x) * n
             sn == S * n
             xn == x * n
  <1>1. u \in Nat /\ v \in Nat /\ sn \in Nat /\ xn \in Nat /\ u = sn + S /\ v = sn + xn
    OBVIOUS
  <1>2. (w * S) * (n + 1) = w * u /\ (w * (S + x)) * n = w * v
    OBVIOUS
  <1> HIDE DEF u, v, sn
  <1>3. (u <= v => w * u <= w * v) /\ (v <= u => w * v <= w * u)
    BY <1>1
  <1>4. (S <= xn => u <= v) /\ (xn <= S => v <= u)
    <2> HIDE DEF xn
    <2> QED
      BY <1>1
  <1> QED
    BY <1>2, <1>3, <1>4

\* Ratings are left alone, or a booking without one gets one.
LEMMA RatingStep ==
  ASSUME ReputationInv, [Rep!Next]_(Rep!vars)
  PROVE  \/ rating' = rating
         \/ \E b \in ReviewBookings, x \in Ratings :
              /\ rating[b] = 0 /\ rating' = [rating EXCEPT ![b] = x]
              /\ UNCHANGED <<status, approved>>
  <1>1. ASSUME NEW r \in ReviewRequests, Rep!CreateWrite(r)
        PROVE  \/ rating' = rating
               \/ \E b \in ReviewBookings, x \in Ratings :
                    /\ rating[b] = 0 /\ rating' = [rating EXCEPT ![b] = x]
                    /\ UNCHANGED <<status, approved>>
    <2> DEFINE b == reviewReq[r].booking
               x == reviewReq[r].rating
    <2>1. reviewReq[r] \in [pc : {"create"}, booking : ReviewBookings, rating : Ratings]
      BY <1>1 DEF ReputationInv, Rep!CreateWrite, Rep!Idle
    <2>2. b \in ReviewBookings /\ x \in Ratings
      BY <2>1
    <2>3. rating' = [rating EXCEPT ![b] = IF rating[b] = 0 THEN x ELSE rating[b]]
          /\ UNCHANGED <<status, approved>>
      BY <1>1 DEF Rep!CreateWrite
    <2> HIDE DEF b, x
    <2>4. CASE rating[b] = 0
      <3>1. rating' = [rating EXCEPT ![b] = x]
        BY <2>3, <2>4
      <3> QED
        BY <2>2, <2>3, <2>4, <3>1
    <2>5. CASE rating[b] # 0
      <3>1. rating' = rating
        BY <2>3, <2>5 DEF ReputationInv
      <3> QED
        BY <3>1
    <2> QED
      BY <2>4, <2>5
  <1>2. ASSUME NEW b \in ReviewBookings, Rep!Cancel(b) PROVE rating' = rating
    BY <1>2 DEF Rep!Cancel
  <1>3. ASSUME NEW r \in ReviewRequests, NEW b \in ReviewBookings, NEW n \in Ratings,
               Rep!CreateRead(r, b, n)
        PROVE  rating' = rating
    BY <1>3 DEF Rep!CreateRead
  <1>4. CASE Rep!Decide \/ UNCHANGED Rep!vars
    BY <1>4 DEF Rep!Decide, Rep!vars
  <1> QED
    BY <1>1, <1>2, <1>3, <1>4 DEF Rep!Next

Best == \E b \in ReviewBookings : rating[b] = 0 /\ rating'[b] = Rep!Max(Ratings)
Worst == \E b \in ReviewBookings : rating[b] = 0 /\ rating'[b] = Rep!Min(Ratings)

\* Without a review, the score only moves when a booking is cancelled, and downwards.
LEMMA CancelLowers ==
  ASSUME ScoreFacts, ScoreFacts', rating' = rating, Rep!Score # None,
         Rep!Count("cancelled")' > Rep!Count("cancelled")
  PROVE  Rep!Score' <= Rep!Score
  <1> DEFINE n == Rep!ReviewCount
             S == Rep!RatingSum
             C == Rep!Concluded
  <1>1. n' = n /\ S' = S
    <2>1. Rep!Reviewed' = Rep!Reviewed
      BY DEF Rep!Reviewed
    <2>2. S = Total(rating, Rep!Reviewed) /\ S' = Total(rating', Rep!Reviewed')
      BY DEF ScoreFacts
    <2>3. n = Cardinality(Rep!Reviewed) /\ n' = Cardinality(Rep!Reviewed')
      BY DEF ScoreFacts
    <2> QED
      BY <2>1, <2>2, <2>3
  <1>2. n \in Nat /\ S \in Nat /\ C \in Nat /\ C' \in Nat /\ C' > C
    BY DEF ScoreFacts
  <1>3. C' > 0
    BY <1>2
  <1>4. CASE n > 0
    <2>1. Rep!Score = Rep!Round(Weight * S, n) /\ Rep!Score' = Rep!Round(12 * S, n)
      <3>1. Rep!Score = Rep!Round(Weight * S, n)
        BY <1>4 DEF ScoreFacts
      <3>2. Rep!Score' = Rep!Round(Weight' * S', n')
        BY <1>1, <1>4 DEF ScoreFacts, Rep!Round
      <3>3. Weight' = 12
        BY <1>3 DEF Weight
      <3> QED
        BY <1>1, <3>1, <3>2, <3>3
    <2>2. Weight \in {12, 20}
      BY DEF Weight
    <2> HIDE DEF n, S
    <2>3. 12 * S \in Nat /\ Weight * S \in Nat /\ 12 * S <= Weight * S
      BY <1>2, <2>2
    <2> DEFINE a == 12 * S
               b == Weight * S
    <2>4. a \in Nat /\ b \in Nat /\ a <= b
      BY <2>3
    <2> HIDE DEF a, b
    <2>5. a * n <= b * n /\ n \in Nat \ {0}
      BY <1>2, <1>4, <2>4
    <2>6. Rep!Round(a, n) <= Rep!Round(b, n)
      BY <2>4, <2>5, RoundGrows
    <2> QED
      BY <2>1, <2>6 DEF a, b
  <1>5. CASE ~(n > 0)
    <2>1. n = 0 /\ n' = 0
      BY <1>1, <1>2, <1>5
    <2>2. C > 0
      BY <1>2, <2>1 DEF ScoreFacts
    <2>3. Rep!Score = 0 /\ Rep!Score' = 0
      BY <1>3, <2>1, <2>2 DEF ScoreFacts
    <2> QED
      BY <2>3
  <1> QED
    BY <1>4, <1>5

\* A review moves the score towards its rating.
LEMMA ReviewMoves ==
  ASSUME ReputationInv, ScoreFacts, ScoreFacts', NEW b \in ReviewBookings, NEW x \in Ratings,
         rating[b] = 0, rating' = [rating EXCEPT ![b] = x], UNCHANGED status,
         Rep!Score # None
  PROVE  /\ Rep!Score' \in Nat /\ Rep!Score \in Nat
         /\ Rep!ReviewCount \in Nat /\ Rep!ReviewCount' = Rep!ReviewCount + 1
         /\ x = Rep!Max(Ratings) => Rep!Score' >= Rep!Score
         /\ x = Rep!Min(Ratings) /\ Rep!ReviewCount > 0 => Rep!Score' <= Rep!Score
  <1> DEFINE n == Rep!ReviewCount
             S == Rep!RatingSum
             C == Rep!Concluded
  <1>1. x \in Nat /\ x > 0
    BY BestAndWorst
  <1>2. n \in Nat /\ S \in Nat /\ C \in Nat
    BY DEF ScoreFacts
  <1>3. b \notin Rep!Reviewed /\ Rep!Reviewed' = Rep!Reviewed \union {b}
    BY <1>1 DEF ReputationInv, Rep!Reviewed
  <1>4. n' = n + 1
    <2>1. IsFiniteSet(Rep!Reviewed) /\ n = Cardinality(Rep!Reviewed)
      BY DEF ScoreFacts
    <2>2. Cardinality(Rep!Reviewed \union {b}) = Cardinality(Rep!Reviewed) + 1
      BY <1>3, <2>1, FS_AddElement
    <2>3. n' = Cardinality(Rep!Reviewed')
      BY DEF ScoreFacts
    <2> QED
      BY <1>3, <2>1, <2>2, <2>3
  <1>5. S' = S + x
    <2> DEFINE T == Rep!Reviewed
    <2>1. IsFiniteSet(T) /\ IsFiniteSet(T \union {b}) /\ (T \union {b}) \ {b} = T
      BY <1>3, FS_AddElement DEF ScoreFacts
    <2>2. \A y \in T : y # b /\ rating[y] \in Int /\ rating'[y] = rating[y]
      BY <1>3, BestAndWorst DEF ReputationInv, Rep!Reviewed
    <2>3. rating'[b] = x
      BY DEF ReputationInv
    <2>4. S' = Total(rating', T \union {b}) /\ S = Total(rating, T)
      BY <1>3 DEF ScoreFacts
    <2> HIDE DEF T
    <2>5. Total(rating', T) = Total(rating, T)
      BY <2>1, <2>2, TotalsAgree
    <2>6. Total(rating', T \union {b}) = rating'[b] + Total(rating', (T \union {b}) \ {b})
      <3>1. \A y \in T \union {b} : rating'[y] \in Int
        BY <1>1, <2>2, <2>3
      <3>2. b \in T \union {b}
        OBVIOUS
      <3> QED
        BY <2>1, <3>1, <3>2, TotalAdds
    <2>7. S' = x + S
      BY <2>1, <2>3, <2>4, <2>5, <2>6
    <2> HIDE DEF S
    <2> QED
      BY <1>1, <1>2, <2>7
  <1>6. C' = C /\ Weight' = Weight /\ Weight \in {12, 20}
    BY DEF Rep!Concluded, Rep!Count, Weight
  <1> DEFINE a == Weight * S
             c == Weight * (S + x)
             k == n + 1
  <1>7. a \in Nat /\ c \in Nat /\ k \in Nat \ {0}
    BY <1>1, <1>2, <1>6
  <1>8. Rep!Score' = Rep!Round(c, k)
    <2>1. n' > 0
      BY <1>2, <1>4
    <2>2. Rep!Score' = Rep!Round(Weight' * S', n')
      BY <2>1 DEF ScoreFacts, Rep!Round
    <2> QED
      BY <1>4, <1>5, <1>6, <2>2
  <1>9. CASE n > 0
    <2>1. Rep!Score = Rep!Round(a, n) /\ n \in Nat \ {0}
      BY <1>2, <1>9 DEF ScoreFacts
    <2>2. /\ S <= x * n => a * k <= c * n
          /\ x * n <= S => c * n <= a * k
      BY <1>1, <1>2, <1>6, MeanMoves
    <2>3. (x = Rep!Max(Ratings) => S <= x * n) /\ (x = Rep!Min(Ratings) => x * n <= S)
      BY DEF ScoreFacts
    <2> HIDE DEF a, c, k, n, S
    <2>4. Rep!Round(a, n) \in Nat /\ Rep!Round(c, k) \in Nat
      <3>1. a * n <= a * n /\ c * k <= c * k
        BY <1>7, <2>1
      <3> QED
        BY <1>7, <2>1, <3>1, RoundGrows
    <2>5. a * k <= c * n => Rep!Round(a, n) <= Rep!Round(c, k)
      BY <1>7, <2>1, RoundGrows
    <2>6. c * n <= a * k => Rep!Round(c, k) <= Rep!Round(a, n)
      BY <1>7, <2>1, RoundGrows
    <2> DEFINE p == Rep!Round(a, n)
               q == Rep!Round(c, k)
    <2> HIDE DEF p, q
    <2>7. /\ p \in Nat /\ q \in Nat /\ Rep!Score = p /\ Rep!Score' = q
          /\ x = Rep!Max(Ratings) => p <= q
          /\ x = Rep!Min(Ratings) => q <= p
      BY <1>8, <2>1, <2>2, <2>3, <2>4, <2>5, <2>6 DEF p, q
    <2>8. p <= q => q >= p
      BY <2>7
    <2> QED
      BY <1>2, <1>4, <2>7, <2>8 DEF n
  <1>10. CASE ~(n > 0)
    <2>1. n = 0
      BY <1>2, <1>10
    <2>2. Rep!Score = 0
      BY <1>2, <2>1 DEF ScoreFacts
    <2>3. Rep!Round(c, k) \in Nat
      <3> HIDE DEF c, k
      <3>1. c * k <= c * k
        BY <1>7
      <3> QED
        BY <1>7, <3>1, RoundGrows
    <2> DEFINE q == Rep!Score'
    <2>4. q \in Nat
      BY <1>8, <2>3
    <2> HIDE DEF q
    <2>5. q >= 0
      BY <2>4
    <2> QED
      BY <1>2, <1>4, <2>1, <2>2, <2>4, <2>5 DEF q
  <1> QED
    BY <1>9, <1>10

FairScore ==
  Rep!Score # None =>
    /\ Best => Rep!Score' >= Rep!Score /\ (Rep!Badge = "trusted" => Rep!Badge' = "trusted")
    /\ (Worst /\ Rep!ReviewCount > 0) \/ Rep!Count("cancelled")' > Rep!Count("cancelled") =>
         Rep!Score' <= Rep!Score
    /\ \A b \in Rep!Reviewed : rating'[b] = rating[b]

LEMMA FairStep ==
  ASSUME ReputationInv, [Rep!Next]_(Rep!vars), ScoreFacts, ScoreFacts', Rep!Score # None
  PROVE  FairScore
  <1>1. Rep!Max(Ratings) > 0 /\ Rep!Min(Ratings) > 0
    BY BestAndWorst
  <1>2. CASE rating' = rating
    <2>1. ~Best /\ ~Worst
      BY <1>1, <1>2 DEF Best, Worst
    <2>2. Rep!Count("cancelled")' > Rep!Count("cancelled") => Rep!Score' <= Rep!Score
      BY <1>2, CancelLowers
    <2> QED
      BY <1>2, <2>1, <2>2 DEF FairScore
  <1>3. ASSUME NEW b \in ReviewBookings, NEW x \in Ratings,
               rating[b] = 0, rating' = [rating EXCEPT ![b] = x], UNCHANGED <<status, approved>>
        PROVE  FairScore
    <2>1. /\ Rep!Score' \in Nat /\ Rep!Score \in Nat
          /\ Rep!ReviewCount \in Nat /\ Rep!ReviewCount' = Rep!ReviewCount + 1
          /\ x = Rep!Max(Ratings) => Rep!Score' >= Rep!Score
          /\ x = Rep!Min(Ratings) /\ Rep!ReviewCount > 0 => Rep!Score' <= Rep!Score
      BY <1>3, ReviewMoves
    <2>2. rating'[b] = x /\ \A y \in ReviewBookings \ {b} : rating'[y] = rating[y]
      BY <1>3 DEF ReputationInv
    <2>3. (Best => x = Rep!Max(Ratings)) /\ (Worst => x = Rep!Min(Ratings))
      BY <1>1, <2>2 DEF Best, Worst
    <2>4. ~(Rep!Count("cancelled")' > Rep!Count("cancelled"))
      <3>1. Rep!Count("cancelled")' = Rep!Count("cancelled")
        BY <1>3 DEF Rep!Count
      <3>2. Rep!Count("cancelled") \in Nat
        BY DEF ScoreFacts
      <3> DEFINE u == Rep!Count("cancelled")
      <3> HIDE DEF u
      <3>3. ~(u > u)
        BY <3>2 DEF u
      <3> QED
        BY <3>1, <3>3 DEF u
    <2>5. \A y \in Rep!Reviewed : rating'[y] = rating[y]
      BY <1>3, <2>2 DEF Rep!Reviewed
    <2>6. ASSUME Best, Rep!Badge = "trusted" PROVE Rep!Badge' = "trusted"
      <3>1. CASE ~approved
        <4>1. Rep!Badge = None /\ Rep!Badge' = None
          BY <1>3, <3>1 DEF Rep!Badge
        <4> QED
          BY <2>6, <4>1
      <3>2. CASE approved
        <4>1. Rep!Score >= Threshold /\ Rep!ReviewCount >= MinReviews
          BY <2>6, <3>2 DEF Rep!Badge
        <4>2. Threshold \in Nat /\ MinReviews \in Nat /\ None \notin Nat
          BY OfficeAssumption
        <4>3. Rep!Score' >= Rep!Score
          BY <2>1, <2>3, <2>6
        <4>4. Rep!Score' >= Threshold /\ Rep!ReviewCount' >= MinReviews
          <5> DEFINE s == Rep!Score
                     t == Rep!Score'
                     m == Rep!ReviewCount
          <5>1. s \in Nat /\ t \in Nat /\ m \in Nat /\ t >= s /\ s >= Threshold
                /\ m >= MinReviews /\ Rep!ReviewCount' = m + 1
            BY <2>1, <4>1, <4>3
          <5> HIDE DEF s, t, m
          <5>2. t >= Threshold /\ m + 1 >= MinReviews
            BY <4>2, <5>1
          <5> QED
            BY <5>1, <5>2 DEF t
        <4>5. Rep!Score' # None /\ approved'
          BY <1>3, <2>1, <3>2, <4>2
        <4> QED
          BY <4>4, <4>5 DEF Rep!Badge
      <3> QED
        BY <3>1, <3>2
    <2> QED
      BY <2>1, <2>3, <2>4, <2>5, <2>6 DEF FairScore
  <1> QED
    BY <1>2, <1>3, RatingStep

\* For any finite set of bookings and any positive ratings: a best review never lowers the
\* trust score nor takes the badge away, a cancelled booking or one more of the worst
\* reviews never raises it, and a review is never replaced.
THEOREM ScoreIsAlwaysFair == OfficeSpec => ScoreIsFair
  <1>1. OfficeInit => ReputationInv
    BY DEF OfficeInit, Rep!Init, ReputationInv
  <1>2. ReputationInv /\ [OfficeNext]_officeVars => ReputationInv'
    BY NextReputation, StepsOfParts
  <1>3. OfficeSpec => []ReputationInv
    BY <1>1, <1>2, PTL DEF OfficeSpec
  <1>4. OfficeSpec => []ScoreFacts
    BY <1>3, ScoreKnown, PTL
  <1>5. ReputationInv /\ ScoreFacts /\ ScoreFacts' /\ [OfficeNext]_officeVars
          => [FairScore]_(Rep!vars)
    BY FairStep, StepsOfParts DEF FairScore
  <1> HIDE DEF FairScore
  <1>6. OfficeSpec => [][FairScore]_(Rep!vars)
    BY <1>3, <1>4, <1>5, PTL DEF OfficeSpec
  <1> QED
    BY <1>6 DEF ScoreIsFair, Rep!ScoreIsFair, FairScore, Best, Worst

=============================================================================
