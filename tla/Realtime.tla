------------------------------- MODULE Realtime -------------------------------
(***************************************************************************)
(* Tickets and sockets of one user: RealtimeTicketService,                 *)
(* RealtimeSessionsService and the handshake of the two gateways.          *)
(*                                                                         *)
(* The instants that matter are those the code compares with the end of a  *)
(* ticket: the clock counts seconds up to MaxNow, and a time to live takes *)
(* a few of them.                                                          *)
(*                                                                         *)
(* A definition commented "Mutant" is no part of the specification.        *)
(***************************************************************************)
EXTENDS Naturals, FiniteSets

CONSTANTS
  Tickets,    \* the tickets' jti
  Clients,    \* sockets that the user's devices open
  Ttl,        \* ticketTtlSeconds
  MaxNow,     \* bound of the clock
  None        \* no ticket

\* exp: end of each ticket, 0 before it is issued; consommes: the memory of the
\* service, 0 without an entry; excused: tickets that the memory may have lost.
VARIABLES now, exp, consommes, client, timers, excused
vars == <<now, exp, consommes, client, timers, excused>>

\* served: the ticket that admitted the socket.
NewClient == [pc |-> "new", ticket |-> None, served |-> FALSE]
Presented(c) == client[c].ticket

Init ==
  /\ now = 1
  /\ exp = [t \in Tickets |-> 0] /\ consommes = [t \in Tickets |-> 0]
  /\ client = [c \in Clients |-> NewClient]
  /\ timers = {} /\ excused = {}

Tick ==
  /\ now < MaxNow /\ now' = now + 1
  /\ UNCHANGED <<exp, consommes, client, timers, excused>>

Issue(t) ==
  /\ exp[t] = 0 /\ exp' = [exp EXCEPT ![t] = now + Ttl]
  /\ UNCHANGED <<now, consommes, client, timers, excused>>

\* A device opens a socket: with a ticket, or (None) with an access token.
Connect(c, t) ==
  /\ client[c].pc = "new"
  /\ t # None => exp[t] # 0
  /\ client' = [client EXCEPT ![c].pc = "verify", ![c].ticket = t]
  /\ UNCHANGED <<now, exp, consommes, timers, excused>>

Gone(c) == client' = [client EXCEPT ![c].pc = "gone"] /\ timers' = timers \ {c}

\* jwtService.verifyAsync: the signature and the end of the ticket.
Verify(c) ==
  LET t == Presented(c)
  IN  /\ client[c].pc = "verify"
      /\ IF t = None THEN client' = [client EXCEPT ![c].pc = "register"] /\ UNCHANGED timers
         ELSE IF now < exp[t] THEN client' = [client EXCEPT ![c].pc = "consume"] /\ UNCHANGED timers
         ELSE Gone(c)
      /\ UNCHANGED <<now, exp, consommes, excused>>

\* Mutant: the end of the ticket is remembered in another unit than the clock's.
RememberInSeconds(t) == 0

Remember(t) == exp[t]

OublierExpires == [t \in Tickets |-> IF consommes[t] < now THEN 0 ELSE consommes[t]]

\* A ticket that lapsed between its verification and here may be forgotten.
Consume(c) ==
  LET t == Presented(c)
      kept == OublierExpires
  IN  /\ client[c].pc = "consume"
      /\ excused' = IF exp[t] < now THEN excused \union {t} ELSE excused
      /\ IF kept[t] # 0
         THEN consommes' = kept /\ Gone(c)
         ELSE /\ consommes' = [kept EXCEPT ![t] = Remember(t)]
              /\ client' = [client EXCEPT ![c].pc = "register", ![c].served = TRUE]
              /\ UNCHANGED timers
      /\ UNCHANGED <<now, exp>>

\* Mutant: the socket gets no timer.
RegisterUntimed(c) ==
  /\ client[c].pc = "register"
  /\ client' = [client EXCEPT ![c].pc = "open"]
  /\ UNCHANGED <<now, exp, consommes, timers, excused>>

\* RealtimeSessionsService.register, with its timer.
Register(c) ==
  /\ client[c].pc = "register"
  /\ client' = [client EXCEPT ![c].pc = "open"] /\ timers' = timers \union {c}
  /\ UNCHANGED <<now, exp, consommes, excused>>

Open == {c \in Clients : client[c].pc = "open"}

TimerFires(c) ==
  /\ c \in timers /\ Gone(c)
  /\ UNCHANGED <<now, exp, consommes, excused>>

ClientLeaves(c) ==
  /\ c \in Open /\ Gone(c)
  /\ UNCHANGED <<now, exp, consommes, excused>>

\* POST /auth/logout: every registered socket of the user is closed.
DisconnectUser ==
  /\ Open # {}
  /\ client' = [c \in Clients |-> IF c \in Open THEN [client[c] EXCEPT !.pc = "gone"]
                                  ELSE client[c]]
  /\ timers' = timers \ Open
  /\ UNCHANGED <<now, exp, consommes, excused>>

\* The memory and the connections die with the process.
Restart ==
  /\ excused' = excused \union {t \in Tickets : consommes[t] # 0}
  /\ consommes' = [t \in Tickets |-> 0]
  /\ client' = [c \in Clients |-> IF client[c].pc = "new" THEN client[c]
                                  ELSE [client[c] EXCEPT !.pc = "gone"]]
  /\ timers' = {}
  /\ UNCHANGED <<now, exp>>

ClientStep(c) == Verify(c) \/ Consume(c) \/ Register(c)

Next ==
  \/ Tick \/ DisconnectUser \/ Restart
  \/ \E t \in Tickets : Issue(t)
  \/ \E c \in Clients :
       \/ \E t \in Tickets \union {None} : Connect(c, t)
       \/ Verify(c) \/ Consume(c) \/ Register(c) \/ TimerFires(c) \/ ClientLeaves(c)

\* The event loop runs what is ready, and timers fire.
Fairness == \A c \in Clients : WF_vars(ClientStep(c)) /\ WF_vars(TimerFires(c))

Spec == Init /\ [][Next]_vars /\ Fairness

-----------------------------------------------------------------------------
(* Properties *)

\* A ticket admits one socket, however many present it at once: until the process
\* restarts, or the ticket lapses in the middle of its verification.
TicketServesOnce ==
  \A c, d \in Clients :
    client[c].served /\ client[d].served /\ Presented(c) = Presented(d) =>
      c = d \/ Presented(c) \in excused

\* No socket outlives its fifteen minutes: one that asks to be admitted, or is open,
\* is gone in the end.
SocketsEnd == \A c \in Clients : client[c].pc = "verify" ~> client[c].pc = "gone"
=============================================================================
