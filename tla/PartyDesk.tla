----------------------------- MODULE PartyDesk -----------------------------
(***************************************************************************)
(* The page of one party: its cached detail, the operations panel that     *)
(* moves it from status to status, and the history of those moves          *)
(* (src/src/app/(auth-v2)/app/parties/[partyId]/page.tsx and               *)
(* app/_components/PartyOperationsPanel.tsx), with other desks that move   *)
(* the same party.  A move is sent with the version of the party that was  *)
(* on the page; the server (external) refuses it when the party has moved  *)
(* since.                                                                  *)
(***************************************************************************)
EXTENDS Integers

CONSTANTS MaxVersion, \* bound: moves of the party
          MaxVisits,  \* bound: times the page is opened
          MaxFaults,  \* bound: failed requests
          NULL

VARIABLES
  server,       \* the party: its status and version
  own,          \* whether the party belongs to the business of the admin
  mounted,      \* whether the page is open
  detail,       \* the cached party, or NULL
  fetch, read,  \* its fetch, NULL, "asked" or "read", and what it read
  detailError, invalidated,
  history, historyFetch, \* the versions the history shows, or NULL; its fetch
  reason,       \* whether a reason is typed
  runs,         \* the moves under way, each of one visit, and whether the
                \* panel it was made in is there as it was
  blind,        \* ghost: a move was made from a status that was not shown
  owed, made,   \* ghosts: the version the page owes its operator since a move
                \* was answered, or made, or 0
  visits, faults

vars == <<server, own, mounted, detail, fetch, read, detailError, invalidated, history,
          historyFetch, reason, runs, blind, owed, made, visits, faults>>
detailVars == <<detail, fetch, read, detailError, invalidated>>
ghosts == <<blind, owed, made>>
historyVars == <<history, historyFetch>>
bounds == <<visits, faults>>

(* The moves the server allows (external): up to the end, or to the        *)
(* cancellation.                                                           *)
Allowed(status) ==
  CASE status = "DRAFT" -> {"OPEN", "CANCELLED"}
    [] status = "OPEN" -> {"CLOSED", "CANCELLED"}
    [] OTHER -> {}
Statuses == {"DRAFT", "OPEN", "CLOSED", "CANCELLED"}
Party == [status : Statuses, version : 0..MaxVersion]

TypeOK ==
  /\ server \in Party /\ read \in Party \cup {NULL} /\ detail \in Party \cup {NULL}
  /\ own \in BOOLEAN /\ mounted \in BOOLEAN /\ reason \in BOOLEAN
  /\ detailError \in BOOLEAN /\ invalidated \in BOOLEAN /\ blind \in BOOLEAN
  /\ fetch \in {NULL, "asked", "read"} /\ historyFetch \in {NULL, "asked"}
  /\ history \in 0..MaxVersion \cup {NULL} /\ owed \in 0..MaxVersion /\ made \in 0..MaxVersion
  /\ \A m \in runs : /\ m.visit \in 1..visits /\ m.to \in Allowed(m.seen)
                     /\ m.phase \in {"post", "get", "settle"} /\ m.panel \in BOOLEAN
                     /\ m.to = "CANCELLED" => m.reason

-----------------------------------------------------------------------------
(* The queries.                                                            *)

(* A query of the page that is asked again starts over, unless it has no   *)
(* answer to start over from; on a page that was left it is only marked.   *)
Invalidate ==
  /\ invalidated' = TRUE
  /\ IF mounted /\ (detail # NULL \/ fetch = NULL)
     THEN fetch' = "asked" /\ read' = NULL ELSE UNCHANGED <<fetch, read>>

(* The mount fetches what is not fresh, and prefetches the history.        *)
Enter ==
  /\ ~mounted /\ visits < MaxVisits /\ visits' = visits + 1 /\ mounted' = TRUE
  /\ \/ fetch = NULL /\ fetch' = "asked" /\ read' = NULL
     \/ (fetch # NULL \/ (detail # NULL /\ ~invalidated)) /\ UNCHANGED <<fetch, read>>
  /\ historyFetch' = "asked" /\ reason' = FALSE
  /\ UNCHANGED <<server, own, detail, detailError, invalidated, history, runs, ghosts, faults>>

Leave ==
  /\ mounted /\ mounted' = FALSE /\ owed' = 0 /\ made' = 0 /\ reason' = FALSE
  /\ UNCHANGED <<server, own, detailVars, historyVars, runs, blind, bounds>>

DetailReads ==
  /\ fetch = "asked" /\ fetch' = "read" /\ read' = server
  /\ UNCHANGED <<server, own, mounted, detail, detailError, invalidated, historyVars,
                 reason, runs, ghosts, bounds>>

DetailAnswered ==
  /\ fetch = "read" /\ fetch' = NULL /\ read' = NULL
  /\ detail' = read /\ detailError' = FALSE /\ invalidated' = FALSE
  /\ UNCHANGED <<server, own, mounted, historyVars, reason, runs, ghosts, bounds>>

(* The page shows its error in place of the panel, which starts anew when  *)
(* the party is shown again.                                               *)
DetailFails ==
  /\ faults < MaxFaults /\ faults' = faults + 1
  /\ fetch # NULL /\ fetch' = NULL /\ read' = NULL /\ detailError' = TRUE
  /\ reason' = FALSE /\ runs' = {[m EXCEPT !.panel = FALSE] : m \in runs}
  /\ UNCHANGED <<server, own, mounted, detail, invalidated, historyVars, ghosts, visits>>

HistoryAnswered ==
  /\ historyFetch = "asked" /\ historyFetch' = NULL /\ history' = server.version
  /\ UNCHANGED <<server, own, mounted, detailVars, reason, runs, ghosts, bounds>>

-----------------------------------------------------------------------------
(* The page shows the panel of a party of its own business, and the rest   *)
(* of its states no button at all.                                         *)
Panel == mounted /\ own /\ detail # NULL /\ ~detailError

(* The move of this panel that is under way.                               *)
pending == \E m \in runs : m.visit = visits /\ m.panel

TypeReason ==
  /\ Panel /\ "CANCELLED" \in Allowed(detail.status) /\ reason' = ~reason
  /\ UNCHANGED <<server, own, mounted, detailVars, historyVars, runs, ghosts, bounds>>

(* Mutant: whatever version the party has when the move is made. *)
anyVersion == server.version

expectedVersion == detail.version

(* Mutant: a cancellation needs no reason. *)
StartBlank(to) ==
  /\ Panel /\ ~pending /\ to \in Allowed(detail.status)
  /\ runs' = runs \cup {[visit |-> visits, to |-> to, seen |-> detail.status,
                         version |-> expectedVersion, reason |-> reason, phase |-> "post",
                         panel |-> TRUE]}
  /\ UNCHANGED <<server, own, mounted, detailVars, historyVars, reason, ghosts, bounds>>

(* The button, and the confirmation.                                       *)
Start(to) ==
  /\ Panel /\ ~pending /\ to \in Allowed(detail.status)
  /\ to = "CANCELLED" => reason
  /\ runs' = runs \cup {[visit |-> visits, to |-> to, seen |-> detail.status,
                         version |-> expectedVersion, reason |-> reason, phase |-> "post",
                         panel |-> TRUE]}
  /\ UNCHANGED <<server, own, mounted, detailVars, historyVars, reason, ghosts, bounds>>

Moved(to) == server' = [status |-> to, version |-> server.version + 1]

Enters(m, phase) == runs' = (runs \ {m}) \cup {[m EXCEPT !.phase = phase]}

(* The answer to a move of this visit: the page owes what the server has.  *)
Owes(m) ==
  owed' = IF mounted /\ m.visit = visits THEN server'.version ELSE owed

(* Mutant: the page is not told of a move that failed. *)
FailQuietly(m) == Enters(m, "settle") /\ UNCHANGED <<fetch, read, invalidated>>

(* The catch block: the party is fetched again, and the button waits.      *)
Fail(m) == Enters(m, "settle") /\ Invalidate

(* The server moves the party and answers, or its answer is lost.          *)
Post(m) ==
  /\ m.phase = "post" /\ m.version = server.version /\ m.to \in Allowed(server.status)
  /\ server.version < MaxVersion
  /\ Moved(m.to) /\ blind' = (blind \/ m.seen # server.status) /\ Owes(m)
  /\ \/ Enters(m, "get") /\ UNCHANGED <<fetch, read, invalidated, faults>>
     \/ faults < MaxFaults /\ faults' = faults + 1 /\ Fail(m)
  /\ UNCHANGED <<own, mounted, detail, detailError, historyVars, reason, made, visits>>

(* It has moved since, or the request did not arrive.                      *)
PostFails(m) ==
  /\ m.phase = "post" /\ Fail(m) /\ UNCHANGED server /\ Owes(m)
  /\ \/ m.version # server.version \/ m.to \notin Allowed(server.status)
     \/ faults < MaxFaults
  /\ faults' = IF m.version # server.version \/ m.to \notin Allowed(server.status)
               THEN faults ELSE faults + 1
  /\ UNCHANGED <<own, mounted, detail, detailError, historyVars, reason, blind, made, visits>>

(* Mutant: the history is left as it is. *)
GetOnly(m) ==
  /\ m.phase = "get" /\ Enters(m, "settle")
  /\ detail' = server /\ detailError' = FALSE /\ invalidated' = TRUE
  /\ IF mounted THEN fetch' = "asked" /\ read' = NULL ELSE UNCHANGED <<fetch, read>>
  /\ made' = IF mounted /\ m.visit = visits THEN server.version ELSE made
  /\ UNCHANGED <<server, own, mounted, historyVars, reason, blind, owed, bounds>>

(* transitionParty reads the party it has moved: into the cache, and       *)
(* everything of parties is fetched again.                                 *)
Get(m) ==
  /\ m.phase = "get" /\ Enters(m, "settle")
  /\ detail' = server /\ detailError' = FALSE /\ invalidated' = TRUE
  /\ IF mounted THEN fetch' = "asked" /\ read' = NULL ELSE UNCHANGED <<fetch, read>>
  /\ historyFetch' = "asked"
  /\ made' = IF mounted /\ m.visit = visits THEN server.version ELSE made
  /\ UNCHANGED <<server, own, mounted, history, reason, blind, owed, bounds>>

(* The move was made, and reading it failed: the same catch block.         *)
GetFails(m) ==
  /\ m.phase = "get" /\ faults < MaxFaults /\ faults' = faults + 1 /\ Fail(m)
  /\ UNCHANGED <<server, own, mounted, detail, detailError, historyVars, reason, ghosts, visits>>

(* The awaited fetches are over.                                           *)
Settle(m) ==
  /\ m.phase = "settle" /\ (mounted => fetch = NULL)
  /\ runs' = runs \ {m}
  /\ reason' \in IF m.visit = visits /\ m.panel THEN {FALSE, reason} ELSE {reason}
  /\ UNCHANGED <<server, own, mounted, detailVars, historyVars, ghosts, bounds>>

(* Another desk.                                                           *)
MovesElsewhere ==
  /\ server.version < MaxVersion
  /\ \E to \in Allowed(server.status) : Moved(to)
  /\ UNCHANGED <<own, mounted, detailVars, historyVars, reason, runs, ghosts, bounds>>

Init ==
  /\ server = [status |-> "DRAFT", version |-> 0] /\ own \in BOOLEAN /\ mounted = FALSE
  /\ detail = NULL /\ fetch = NULL /\ read = NULL
  /\ detailError = FALSE /\ invalidated = FALSE
  /\ history = NULL /\ historyFetch = NULL /\ reason = FALSE
  /\ runs = {} /\ blind = FALSE /\ owed = 0 /\ made = 0 /\ visits = 0 /\ faults = 0

Moves == \E m \in runs : Post(m) \/ PostFails(m) \/ Get(m) \/ Settle(m)

Next ==
  \/ Enter \/ Leave \/ TypeReason \/ (\E to \in Statuses : Start(to))
  \/ DetailReads \/ DetailAnswered \/ HistoryAnswered \/ Moves
  \/ DetailFails \/ (\E m \in runs : GetFails(m)) \/ MovesElsewhere

Spec == Init /\ [][Next]_vars

-----------------------------------------------------------------------------
(* No move is made from a status the operator did not see: when the party  *)
(* has moved since the page showed it, the move that was confirmed is      *)
(* refused instead of being made from somewhere else.                      *)
NoBlindMove == ~blind

(* Made or refused, a move that was confirmed leaves the page up to date:  *)
(* the panel comes to show the party at least as the server had it when    *)
(* the move was answered, unless the page is left or a fetch fails.        *)
PanelOwed(v) == owed = v
PanelCatchesUp(v) == owed # v \/ detailError \/ (detail # NULL /\ detail.version >= v)

(* The history of the page comes to hold the move the page has made.       *)
MoveMade(v) == made = v
HistoryCatchesUp(v) == made # v \/ (history # NULL /\ history >= v)
=============================================================================
