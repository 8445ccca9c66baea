------------------------------- MODULE Storage -------------------------------
(***************************************************************************)
(* A document on the local disk and the short-lived links that serve it:   *)
(* DocumentsService.upload and getAccessUrl, LocalDiskStorageProvider.     *)
(***************************************************************************)
EXTENDS Naturals

CONSTANTS
  Users,
  Kinds,       \* PilgrimDocumentType, among passport and flight_ticket
  Extensions,  \* whether the name of an uploaded file has an extension
  LinkTtl, MaxNow  \* ACCESS_URL_TTL_MS and the bound on the clock, in one unit

\* files: on the disk; links: handed out; served: the outcomes of the links.
VARIABLES files, links, served, now
vars == <<files, links, served, now>>

\* <owner>-<type>-<uuid><extension of the original name>, the uuid left out.
Names == [owner : Users, kind : Kinds, extension : Extensions]

Init == files = {} /\ links = {} /\ served = {} /\ now = 0

Store(f) ==
  /\ files' = files \union {f}
  /\ UNCHANGED <<links, served, now>>

\* The owner asks for a link; the agency of the booking may as well.
GetAccessUrl(f) ==
  /\ f \in files
  /\ links' = links \union {[file |-> f, exp |-> now + LinkTtl]}
  /\ UNCHANGED <<files, served, now>>

\* FILE_NAME_PATTERN: letters, digits and hyphens, a dot, letters and digits.
NameMatches(f) == f.extension /\ f.kind # "flight_ticket"

\* What resolveSignedToken answers for a link of its own making.
Outcome(l) == IF l.exp < now \/ ~NameMatches(l.file) THEN "not found" ELSE "served"

Open(l) ==
  /\ served' = served \union {[link |-> l, at |-> now, outcome |-> Outcome(l)]}
  /\ UNCHANGED <<files, links, now>>

Tick == now < MaxNow /\ now' = now + 1 /\ UNCHANGED <<files, links, served>>

Next == \/ \E f \in Names : Store(f) \/ GetAccessUrl(f)
        \/ \E l \in links : Open(l)
        \/ Tick

Spec == Init /\ [][Next]_vars

-----------------------------------------------------------------------------
(* Properties *)

\* "le nom de fichier ne devrait jamais pouvoir s'écarter de ce format (voir `store`
\* ci-dessus)": a link opened within its life serves the file it was made for.
FreshLinksServe == \A s \in served : s.at <= s.link.exp => s.outcome = "served"
=============================================================================
