------------------------------- MODULE Messaging -------------------------------
(***************************************************************************)
(* The two private threads of one booking, pilgrim with agency and pilgrim *)
(* with guide: MessagingService and MessagingInboxService.  Who takes part *)
(* is worked out anew by every request, from the booking and its group; so *)
(* a new guide takes over the thread of the one before.                    *)
(*                                                                         *)
(* A definition commented "Mutant" is no part of the specification.        *)
(***************************************************************************)
EXTENDS Naturals, Sequences

CONSTANTS
  Requests,     \* slots for the requests in flight
  Pilgrim, Agency, Guides,
  MaxMessages,  \* bound
  None          \* no guide

\* guide: of the group of the booking; threads: conversations that exist;
\* messages: in the order of their creation; takenOver: the guide has changed.
VARIABLES guide, threads, messages, takenOver, req
vars == <<guide, threads, messages, takenOver, req>>

Users == {Pilgrim, Agency} \union Guides
Channels == {"agency", "guide"}
Idle == [pc |-> "idle", channel |-> "agency", user |-> None, to |-> None]

Init ==
  /\ guide = None /\ threads = {} /\ messages = <<>> /\ takenOver = FALSE
  /\ req = [r \in Requests |-> Idle]

Resolved(ch) == ch = "agency" \/ guide # None
Other(ch) == IF ch = "agency" THEN Agency ELSE guide
Participant(u, ch) == Resolved(ch) /\ u \in {Pilgrim, Other(ch)}

\* assignGroup and assignGuide, seen from here: the booking may also be moved to a
\* group that has no guide.
AssignGuide(u) ==
  /\ guide # u /\ guide' = u
  /\ takenOver' = (takenOver \/ guide # None)
  /\ UNCHANGED <<threads, messages, req>>

GetOrCreateConversation(u, ch) ==
  /\ Participant(u, ch)
  /\ threads' = threads \union {ch}
  /\ UNCHANGED <<guide, messages, takenOver, req>>

CanOpen(u, ch) == ch \in threads /\ Participant(u, ch)

Begin(r, pc, ch, u) ==
  /\ req[r].pc = "idle"
  /\ req' = [req EXCEPT ![r] = [pc |-> pc, channel |-> ch, user |-> u,
                               to |-> IF u = Pilgrim THEN Other(ch) ELSE Pilgrim]]
  /\ UNCHANGED <<guide, threads, messages, takenOver>>

SendRead(r, u, ch) == CanOpen(u, ch) /\ Begin(r, "send", ch, u)

\* to: who is notified, as resolved above; opened: the users who have asked to mark
\* it as read.
SendWrite(r) ==
  /\ req[r].pc = "send" /\ Len(messages) < MaxMessages
  /\ messages' = Append(messages, [channel |-> req[r].channel, sender |-> req[r].user,
                                   to |-> req[r].to, read |-> FALSE, opened |-> {}])
  /\ req' = [req EXCEPT ![r] = Idle]
  /\ UNCHANGED <<guide, threads, takenOver>>

MarkRead(r, u, ch) == CanOpen(u, ch) /\ Begin(r, "mark", ch, u)

Marked(m, ch, u) ==
  IF m.channel = ch THEN [m EXCEPT !.opened = @ \union {u}, !.read = @ \/ m.sender # u] ELSE m

\* One updateMany: every message of the thread that another has sent.
MarkWrite(r) ==
  /\ req[r].pc = "mark"
  /\ messages' = [i \in DOMAIN messages |-> Marked(messages[i], req[r].channel, req[r].user)]
  /\ req' = [req EXCEPT ![r] = Idle]
  /\ UNCHANGED <<guide, threads, takenOver>>

\* Mutant: the guide of the group finds every thread of the booking.
InboxAnyChannel(u) ==
  {ch \in threads : (\E i \in DOMAIN messages : messages[i].channel = ch)
                    /\ (u \in {Pilgrim, guide} \/ (u = Agency /\ ch = "agency"))}

\* listInbox, in the terms of its own query.
Inbox(u) ==
  {ch \in threads : (\E i \in DOMAIN messages : messages[i].channel = ch)
                    /\ (\/ u = Pilgrim
                        \/ (u = Agency /\ ch = "agency")
                        \/ (u = guide /\ ch = "guide"))}

Next ==
  \/ \E u \in Guides \union {None} : AssignGuide(u)
  \/ \E u \in Users, ch \in Channels :
       \/ GetOrCreateConversation(u, ch)
       \/ \E r \in Requests : SendRead(r, u, ch) \/ MarkRead(r, u, ch)
  \/ \E r \in Requests : SendWrite(r) \/ MarkWrite(r)

Spec == Init /\ [][Next]_vars

-----------------------------------------------------------------------------
(* Properties *)

\* The inbox and the threads are guarded by two different pieces of code, which
\* agree: a user finds a thread in the inbox exactly when it has a message and its
\* participants, worked out one by one, include the user.  Only the pilgrim of a booking
\* that has lost its guide still finds a thread that nobody may open.
InboxMatchesAccess ==
  \A u \in Users, ch \in Channels :
    Resolved(ch) \/ u # Pilgrim =>
      (ch \in Inbox(u) <=> CanOpen(u, ch) /\ \E i \in DOMAIN messages : messages[i].channel = ch)

\* "Marque lus les messages reçus de l'interlocuteur": a message only counts as read
\* once its addressee has opened the thread, as long as the booking keeps its guide.
ReadMeansOpened ==
  \A i \in DOMAIN messages :
    messages[i].read => messages[i].to \in messages[i].opened \/ takenOver

\* What a user finds, may open and has read of the two threads agree.
ThreadsReachTheirReaders == InboxMatchesAccess /\ ReadMeansOpened
=============================================================================
