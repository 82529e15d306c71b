------------------------------ MODULE ChatRoom ------------------------------
(***************************************************************************)
(* The operator's chat room (src/src/components/business-mobile/           *)
(* BusinessMobileChatRoom.tsx): a window of messages over a log the server *)
(* orders, fed by four sources that answer in any order: the initial       *)
(* history, the live frames of a socket that closes and reconnects, the    *)
(* catch-up pages that fill the gaps, and the pages the operator asks for. *)
(*                                                                         *)
(* The room is mounted once per room: the route's parameter keys the page. *)
(* A React commit and its layout effect are one step with their cause.     *)
(***************************************************************************)
EXTENDS Integers, Sequences, FiniteSets

CONSTANTS Clients,   \* the client message ids the operator may use (uuidV7)
          USER,      \* the sender of every other message
          Window,    \* CHAT_MESSAGE_WINDOW_SIZE, 200
          PageSize,  \* the limit of a page, 100
          MaxUser,   \* bound: messages of the user
          MaxFaults, \* bound: closed sockets, failed requests, clearings
          NULL       \* no request under way

ASSUME ClientsAssumption == USER \notin Clients /\ IsFiniteSet(Clients)
ASSUME SizesAssumption == /\ Window \in Nat \ {0} /\ PageSize \in Nat \ {0}
                          /\ MaxUser \in Nat /\ MaxFaults \in Nat

VARIABLES
  log,    \* the server's messages; roomSeq is the index, the value the sender
  floor,  \* clearedBeforeSeq: the operator's endpoint hides what is not above
  sent,   \* chat:send frames on their way to the gateway
  frames, \* frames on their way to the room
  joined, \* whether the gateway has processed chat:join on this socket
  readMark,  \* businessLastReadSeq
  phase,     \* "loading", "error", "ready", "left"
  socket,    \* "ticket", "open", "closing", "waiting" or "none"
  shown,     \* roomSeqs of the committed messages of the window
  locals,    \* the optimistic messages, which sort behind every committed one
  hasOlder, hasNewer,
  contiguous, observed, \* contiguousSeqRef, observedSeqsRef
  pendingRead, readTimer, sendTimers,
  history, catchUp, older, newer, \* requests under way
  requestedTail, retryTimer,
  near, visible, \* isNearBottom, document.visibilityState
  used,     \* client message ids drawn so far
  base,     \* history: contiguous when the history had loaded
  received, \* history: committed messages handed to the room
  faults    \* bound: faults so far

server == <<log, floor, sent>>
wire == <<frames, joined, socket>>
window == <<shown, locals, hasOlder, hasNewer>>
cursor == <<contiguous, observed, received>>
reading == <<pendingRead, readTimer>>
pages == <<older, newer>>
chasing == <<catchUp, requestedTail, retryTimer>>
screen == <<near, visible>>
vars == <<log, floor, sent, frames, joined, readMark, phase, socket, shown,
          locals, hasOlder, hasNewer, contiguous, observed, pendingRead,
          readTimer, sendTimers, history, catchUp, older, newer,
          requestedTail, retryTimer, near, visible, used, base, received,
          faults>>

Seqs == 1..(MaxUser + Cardinality(Clients))
Locals == [cid : Clients, deliveryState : {"pending", "failed"}]
Frames == [type : {"message-committed", "watermark"}, roomSeq : {0} \cup Seqs]
Requests == [after : {0} \cup Seqs, target : {0} \cup Seqs, len : {0} \cup Seqs]

TypeOK ==
  /\ log \in Seq(Clients \cup {USER}) /\ Len(log) <= Cardinality(Seqs)
  /\ floor \in 0..Len(log) /\ readMark \in 0..Len(log)
  /\ sent \subseteq used /\ frames \subseteq Frames /\ joined \in BOOLEAN
  /\ phase \in {"loading", "error", "ready", "left"}
  /\ socket \in {"none", "ticket", "open", "closing", "waiting"}
  /\ shown \subseteq Seqs /\ locals \in Seq(Locals)
  /\ Cardinality(shown) + Len(locals) <= Window
  /\ {hasOlder, hasNewer, readTimer, retryTimer, near, visible} \subseteq BOOLEAN
  /\ {contiguous, pendingRead, requestedTail, base} \subseteq {0} \cup Seqs
  /\ observed \subseteq Seqs /\ received \subseteq Seqs
  /\ sendTimers \subseteq used /\ used \subseteq Clients
  /\ history \in {0} \cup Seqs \cup {NULL} /\ older \in Seqs \cup {NULL}
  /\ {catchUp, newer} \subseteq Requests \cup {NULL}
  /\ faults \in 0..MaxFaults

-----------------------------------------------------------------------------
(* The pages of /chat/operator/rooms/:id/messages, and the window.         *)

Larger(a, b) == IF a > b THEN a ELSE b
Smallest(S, k) == {s \in S : Cardinality({t \in S : t < s}) < k}
Largest(S, k) == {s \in S : Cardinality({t \in S : t > s}) < k}
Lowest(S) == CHOOSE s \in S : \A t \in S : s <= t

latestCommittedSequence(S) == IF S = {} THEN 0
                              ELSE CHOOSE s \in S : \A t \in S : t <= s
earliestCommittedSequence(S) == Lowest(S)

(* A page read when the log held n messages, of those above the floor.     *)
PageAfter(after, n) ==
  LET there == {s \in (after + 1)..n : s > floor}
  IN  [messages |-> Smallest(there, PageSize),
       hasMore |-> Cardinality(there) > PageSize]
PageBefore(before) ==
  LET there == (floor + 1)..(before - 1)
  IN  [messages |-> Largest(there, PageSize),
       hasMore |-> Cardinality(there) > PageSize]

(* Mutant: merging is by id only. *)
mergeById(seqs, optimistic) == optimistic

(* Merging is by id, then by client message id: a committed message takes  *)
(* the place of the optimistic one it commits.                             *)
mergeBusinessMessages(seqs, optimistic) ==
  LET kept == {i \in DOMAIN optimistic : \A s \in seqs : log[s] # optimistic[i].cid}
  IN  [k \in 1..Cardinality(kept) |->
         optimistic[CHOOSE i \in kept : Cardinality({j \in kept : j <= i}) = k]]

(* Mutant: live messages are appended without a limit. *)
unlimitedWindow(seqs, optimistic) ==
  [shown |-> seqs, locals |-> optimistic, trimmed |-> FALSE]

newestWindow(seqs, optimistic) ==
  LET over == Cardinality(seqs) + Len(optimistic) - Window
  IN  [shown |-> IF over > 0 THEN Largest(seqs, Cardinality(seqs) - over) ELSE seqs,
       locals |-> IF over > Cardinality(seqs)
                  THEN SubSeq(optimistic, over - Cardinality(seqs) + 1, Len(optimistic))
                  ELSE optimistic,
       trimmed |-> over > 0]

oldestWindow(seqs, optimistic) ==
  LET over == Cardinality(seqs) + Len(optimistic) - Window
  IN  [shown |-> Smallest(seqs, Window),
       locals |-> IF over > 0
                  THEN SubSeq(optimistic, 1, Len(optimistic) - over)
                  ELSE optimistic,
       trimmed |-> over > 0]

-----------------------------------------------------------------------------
(* The parts the handlers share.                                           *)

scheduleRead(seq, away, bottom, seen) ==
  IF seq = 0 \/ away THEN UNCHANGED reading
  ELSE /\ pendingRead' = Larger(pendingRead, seq)
       /\ readTimer' = (bottom /\ seen)

(* setNewerAvailable(true): a scheduled read is withdrawn.                 *)
withdrawRead == /\ readTimer' = FALSE
                /\ pendingRead' = IF readTimer THEN 0 ELSE pendingRead

(* Mutant: the cursor follows the newest message received. *)
AdvanceToNewest(from, seen) == latestCommittedSequence({from} \cup seen)

(* The cursor moves over what has been observed without a gap.             *)
Advance(from, seen) ==
  CHOOSE n \in {from} \cup seen :
    /\ (from + 1)..n \subseteq seen /\ n >= from
    /\ n + 1 \notin seen

mergeCommittedMessages(seqs, from) ==
  LET win == newestWindow(shown \cup seqs, mergeBusinessMessages(seqs, locals))
      seen == observed \cup {s \in seqs : s > from}
      to == Advance(from, seen)
  IN  /\ IF hasNewer
         THEN withdrawRead /\ UNCHANGED window
         ELSE /\ shown' = win.shown /\ locals' = win.locals
              /\ hasOlder' = (hasOlder \/ win.trimmed)
              /\ scheduleRead(to, FALSE, near, visible)
              /\ UNCHANGED hasNewer
      /\ sendTimers' = sendTimers \ {log[s] : s \in seqs}
      /\ observed' = seen \ (from + 1)..to
      /\ contiguous' = to
      /\ received' = received \cup seqs

Request(at, tail) == [after |-> at, target |-> tail, len |-> Len(log)]

catchUpTo(tail, at) ==
  LET wanted == Larger(requestedTail, tail)
  IN  /\ requestedTail' = wanted
      /\ IF wanted <= at \/ catchUp # NULL THEN UNCHANGED <<catchUp, retryTimer>>
         ELSE catchUp' = Request(at, wanted) /\ retryTimer' = FALSE

Fault == faults < MaxFaults /\ faults' = faults + 1

-----------------------------------------------------------------------------
(* The server and the gateway (external): the log is totally ordered, a    *)
(* client message id is committed once, frames arrive in any order.  A     *)
(* watermark on its way is overtaken by the next: only the highest counts. *)

Announce(new) ==
  frames' = IF ~joined THEN frames
            ELSE new \cup {f \in frames : \A g \in new : f.type = "watermark" =>
                                                     g.type # "watermark"}
Committed(s) == [type |-> "message-committed", roomSeq |-> s]
Watermarked(s) == [type |-> "watermark", roomSeq |-> s]

UserSpeaks ==
  /\ phase # "left"
  /\ Cardinality({s \in DOMAIN log : log[s] = USER}) < MaxUser
  /\ log' = Append(log, USER)
  /\ Announce({Committed(Len(log) + 1)})
  /\ UNCHANGED <<floor, sent, joined, readMark, phase, socket, window, cursor,
       reading, sendTimers, history, pages, chasing, screen, used, base, faults>>

Commit(c) ==
  /\ c \in sent
  /\ sent' = sent \ {c}
  /\ IF \E s \in DOMAIN log : log[s] = c
     THEN /\ UNCHANGED log
          /\ Announce({Watermarked(Len(log))})
     ELSE /\ log' = Append(log, c)
          /\ Announce({Committed(Len(log) + 1), Watermarked(Len(log) + 1)})
  /\ UNCHANGED <<floor, joined, readMark, phase, socket, window, cursor,
       reading, sendTimers, history, pages, chasing, screen, used, base, faults>>

GatewayJoin ==
  /\ socket = "open" /\ ~joined
  /\ joined' = TRUE
  /\ frames' = {Watermarked(Len(log))}
  /\ UNCHANGED <<server, readMark, phase, socket, window, cursor, reading,
       sendTimers, history, pages, chasing, screen, used, base, faults>>

Watermark ==
  /\ socket = "open" /\ joined
  /\ Announce({Watermarked(Len(log))})
  /\ UNCHANGED <<server, joined, readMark, phase, socket, window, cursor,
       reading, sendTimers, history, pages, chasing, screen, used, base, faults>>

(* The operator clears the room on another device.                         *)
ClearElsewhere ==
  /\ Fault /\ phase # "left"
  /\ floor < Len(log) /\ floor' = Len(log)
  /\ UNCHANGED <<log, sent, wire, readMark, phase, window, cursor, reading,
       sendTimers, history, pages, chasing, screen, used, base>>

-----------------------------------------------------------------------------
(* The initial history.                                                    *)

HistoryLoaded ==
  /\ phase = "loading"
  /\ \E n \in history..Len(log) :
       LET page == PageBefore(n + 1)
           win == newestWindow(page.messages, <<>>)
           at == latestCommittedSequence(page.messages)
       IN  /\ shown' = win.shown /\ locals' = win.locals
           /\ hasOlder' = (page.hasMore \/ win.trimmed) /\ hasNewer' = FALSE
           /\ contiguous' = at /\ observed' = {} /\ base' = at
           /\ requestedTail' = at
           /\ received' = page.messages
           /\ scheduleRead(at, FALSE, TRUE, visible)
  /\ near' = TRUE
  /\ history' = NULL
  /\ phase' = "ready" /\ socket' = "ticket"
  /\ UNCHANGED <<server, frames, joined, readMark, sendTimers, pages, catchUp,
       retryTimer, visible, used, faults>>

HistoryFails ==
  /\ phase = "loading" /\ Fault
  /\ phase' = "error" /\ history' = NULL
  /\ UNCHANGED <<server, wire, readMark, window, cursor, reading, sendTimers,
       pages, chasing, screen, used, base>>

ReloadHistory ==
  /\ phase = "error"
  /\ phase' = "loading" /\ history' = Len(log)
  /\ UNCHANGED <<server, wire, readMark, window, cursor, reading, sendTimers,
       pages, chasing, screen, used, base, faults>>

-----------------------------------------------------------------------------
(* The socket.                                                             *)

onopen ==
  /\ socket = "ticket"
  /\ socket' = "open"
  /\ UNCHANGED <<server, frames, joined, readMark, phase, window, cursor,
       reading, sendTimers, history, pages, chasing, screen, used, base, faults>>

TicketFails ==
  /\ socket = "ticket" /\ Fault
  /\ socket' = "waiting"
  /\ UNCHANGED <<server, frames, joined, readMark, phase, window, cursor,
       reading, sendTimers, history, pages, chasing, screen, used, base>>

(* The connection is gone before onclose tells: what was on its way to the *)
(* gateway may or may not have reached it.                                 *)
ConnectionDrops ==
  /\ socket = "open" /\ Fault
  /\ socket' = "closing" /\ joined' = FALSE /\ frames' = {}
  /\ sent' \in SUBSET sent
  /\ UNCHANGED <<log, floor, readMark, phase, window, cursor, reading,
       sendTimers, history, pages, chasing, screen, used, base>>

onclose ==
  /\ socket = "closing"
  /\ socket' = "waiting"
  /\ UNCHANGED <<server, frames, joined, readMark, phase, window, cursor,
       reading, sendTimers, history, pages, chasing, screen, used, base, faults>>

Reconnect ==
  /\ socket = "waiting"
  /\ socket' = "ticket"
  /\ UNCHANGED <<server, frames, joined, readMark, phase, window, cursor,
       reading, sendTimers, history, pages, chasing, screen, used, base, faults>>

onmessage(f) ==
  /\ f \in frames /\ socket = "open"
  /\ frames' = frames \ {f}
  /\ IF f.type = "message-committed"
     THEN mergeCommittedMessages({f.roomSeq}, contiguous)
     ELSE UNCHANGED <<window, cursor, reading, sendTimers>>
  /\ IF f.roomSeq > 0 THEN catchUpTo(f.roomSeq, contiguous') ELSE UNCHANGED chasing
  /\ UNCHANGED <<server, joined, readMark, phase, socket, history, pages,
       screen, used, base, faults>>

-----------------------------------------------------------------------------
(* Catching up.                                                            *)

(* Mutant: a catch-up that fails is not tried again. *)
EndCatchUpForGood(at) == catchUp' = NULL /\ UNCHANGED retryTimer

EndCatchUp(at) == catchUp' = NULL /\ retryTimer' = (requestedTail > at)

Continue(at) == IF at < requestedTail
                THEN catchUp' = Request(at, requestedTail) /\ UNCHANGED retryTimer
                ELSE EndCatchUp(at)

(* Mutant: an empty page is taken to confirm the latest tail, not the one  *)
(* that was known when it was asked for.                                   *)
CatchUpEmptyToLatest ==
  /\ contiguous' = Larger(contiguous, requestedTail)
  /\ observed' = {s \in observed : s > contiguous'}
  /\ scheduleRead(contiguous', hasNewer, near, visible)
  /\ Continue(contiguous')
  /\ UNCHANGED <<window, received, sendTimers>>

CatchUpEmpty ==
  LET to == Larger(contiguous, catchUp.target)
  IN  /\ contiguous' = to
      /\ observed' = {s \in observed : s > to}
      /\ scheduleRead(to, hasNewer, near, visible)
      /\ Continue(to)
      /\ UNCHANGED <<window, received, sendTimers>>

CatchUpPage(page) ==
  /\ mergeCommittedMessages(page.messages,
                            Larger(contiguous, Lowest(page.messages) - 1))
  /\ IF \/ contiguous' <= catchUp.after
        \/ ~page.hasMore /\ contiguous' < requestedTail
     THEN EndCatchUp(contiguous')
     ELSE Continue(contiguous')

CatchUpAnswered ==
  /\ catchUp # NULL
  /\ \E n \in catchUp.len..Len(log) :
       LET page == PageAfter(catchUp.after, n)
       IN  IF page.messages = {} THEN CatchUpEmpty ELSE CatchUpPage(page)
  /\ UNCHANGED <<server, wire, readMark, phase, history, pages, requestedTail,
       screen, used, base, faults>>

CatchUpFails ==
  /\ catchUp # NULL /\ Fault
  /\ EndCatchUp(contiguous)
  /\ UNCHANGED <<server, wire, readMark, phase, window, cursor, reading,
       sendTimers, history, pages, requestedTail, screen, used, base>>

RetryCatchUp ==
  /\ retryTimer
  /\ IF requestedTail > contiguous
     THEN catchUp' = Request(contiguous, requestedTail)
     ELSE UNCHANGED catchUp
  /\ retryTimer' = FALSE
  /\ UNCHANGED <<server, wire, readMark, phase, window, cursor, reading,
       sendTimers, history, pages, requestedTail, screen, used, base, faults>>

-----------------------------------------------------------------------------
(* The operator scrolls, hides the tab, loads pages.                       *)

Scroll(b) ==
  /\ phase = "ready" /\ near' = b
  /\ scheduleRead(contiguous, hasNewer, b, visible)
  /\ UNCHANGED <<server, wire, readMark, phase, window, cursor, sendTimers,
       history, pages, chasing, visible, used, base, faults>>

VisibilityChange ==
  /\ phase = "ready" /\ visible' = ~visible
  /\ scheduleRead(contiguous, hasNewer, near, ~visible)
  /\ UNCHANGED <<server, wire, readMark, phase, window, cursor, sendTimers,
       history, pages, chasing, near, used, base, faults>>

loadOlderMessages ==
  /\ phase = "ready" /\ hasOlder /\ older = NULL /\ shown # {}
  /\ older' = earliestCommittedSequence(shown)
  /\ UNCHANGED <<server, wire, readMark, phase, window, cursor, reading,
       sendTimers, history, newer, chasing, screen, used, base, faults>>

(* The page comes first in the merge: an optimistic message takes the      *)
(* place of its own committed copy.                                        *)
OlderArrives ==
  /\ older # NULL
  /\ LET page == PageBefore(older)
         fresh == {s \in page.messages :
                     \A i \in DOMAIN locals : locals[i].cid # log[s]}
         win == oldestWindow(fresh \cup shown, locals)
     IN  /\ shown' = win.shown /\ locals' = win.locals
         /\ hasOlder' = page.hasMore
         /\ hasNewer' = (hasNewer \/ win.trimmed)
         /\ IF win.trimmed THEN withdrawRead ELSE UNCHANGED reading
         /\ received' = received \cup page.messages
  /\ older' = NULL
  /\ UNCHANGED <<server, wire, readMark, phase, contiguous, observed,
       sendTimers, history, newer, chasing, screen, used, base, faults>>

loadNewerMessages ==
  /\ phase = "ready" /\ hasNewer /\ newer = NULL /\ shown # {}
  /\ newer' = Request(latestCommittedSequence(shown), 0)
  /\ UNCHANGED <<server, wire, readMark, phase, window, cursor, reading,
       sendTimers, history, older, chasing, screen, used, base, faults>>

NewerArrives ==
  /\ newer # NULL
  /\ \E n \in newer.len..Len(log) :
       LET page == PageAfter(newer.after, n)
           win == newestWindow(shown \cup page.messages,
                               mergeBusinessMessages(page.messages, locals))
           away == page.hasMore \/ latestCommittedSequence(win.shown) < contiguous
       IN  /\ shown' = win.shown /\ locals' = win.locals
           /\ hasOlder' = (hasOlder \/ win.trimmed)
           /\ hasNewer' = away
           /\ IF away THEN withdrawRead /\ UNCHANGED near
              ELSE near' = TRUE /\ scheduleRead(contiguous, FALSE, TRUE, visible)
           /\ received' = received \cup page.messages
  /\ newer' = NULL
  /\ UNCHANGED <<server, wire, readMark, phase, contiguous, observed,
       sendTimers, history, older, chasing, visible, used, base, faults>>

PageFails ==
  /\ Fault
  /\ \/ older # NULL /\ older' = NULL /\ UNCHANGED newer
     \/ newer # NULL /\ newer' = NULL /\ UNCHANGED older
  /\ UNCHANGED <<server, wire, readMark, phase, window, cursor, reading,
       sendTimers, history, chasing, screen, used, base>>

-----------------------------------------------------------------------------
(* Sending.  The composer sends when connected and at the live tail.       *)

connected == socket \in {"open", "closing"}

send(c) ==
  /\ phase = "ready" /\ connected /\ ~hasNewer
  /\ c \in Clients \ used /\ used' = used \cup {c}
  /\ LET open == socket = "open"
         win == newestWindow(shown, Append(locals,
                  [cid |-> c, deliveryState |-> IF open THEN "pending" ELSE "failed"]))
     IN  /\ shown' = win.shown /\ locals' = win.locals
         /\ hasOlder' = (hasOlder \/ win.trimmed)
         /\ sent' = IF open THEN sent \cup {c} ELSE sent
         /\ sendTimers' = IF open THEN sendTimers \cup {c} ELSE sendTimers
  /\ near' = TRUE
  /\ scheduleRead(contiguous, FALSE, TRUE, visible)
  /\ UNCHANGED <<log, floor, wire, readMark, phase, hasNewer, cursor, history,
       pages, chasing, visible, base, faults>>

Mark(c, from, to) ==
  [i \in DOMAIN locals |->
     IF locals[i].cid = c /\ locals[i].deliveryState = from
     THEN [locals[i] EXCEPT !.deliveryState = to] ELSE locals[i]]

(* Mutant: a retry is sent without a timer of its own. *)
retryUntimed(c) ==
  /\ phase = "ready" /\ socket = "open"
  /\ \E i \in DOMAIN locals : locals[i] = [cid |-> c, deliveryState |-> "failed"]
  /\ locals' = Mark(c, "failed", "pending")
  /\ sent' = sent \cup {c}
  /\ UNCHANGED <<log, floor, wire, readMark, phase, shown, hasOlder, hasNewer,
       cursor, reading, sendTimers, history, pages, chasing, screen, used, base,
       faults>>

retryMessage(c) ==
  /\ phase = "ready" /\ socket = "open"
  /\ \E i \in DOMAIN locals : locals[i] = [cid |-> c, deliveryState |-> "failed"]
  /\ locals' = Mark(c, "failed", "pending")
  /\ sent' = sent \cup {c}
  /\ sendTimers' = sendTimers \cup {c}
  /\ UNCHANGED <<log, floor, wire, readMark, phase, shown, hasOlder, hasNewer,
       cursor, reading, history, pages, chasing, screen, used, base, faults>>

markFailed(c) ==
  /\ c \in sendTimers
  /\ sendTimers' = sendTimers \ {c}
  /\ locals' = Mark(c, "pending", "failed")
  /\ UNCHANGED <<server, wire, readMark, phase, shown, hasOlder, hasNewer,
       cursor, reading, history, pages, chasing, screen, used, base, faults>>

-----------------------------------------------------------------------------
(* Reading.                                                                *)

MayRead(bottom) == pendingRead > 0 /\ ~hasNewer /\ visible /\ bottom

flushRead ==
  /\ readTimer /\ readTimer' = FALSE
  /\ IF MayRead(near)
     THEN /\ pendingRead' = 0
          /\ readMark' \in {readMark, Larger(readMark, pendingRead)}
     ELSE UNCHANGED <<pendingRead, readMark>>
  /\ UNCHANGED <<server, wire, phase, window, cursor, sendTimers, history,
       pages, chasing, screen, used, base, faults>>

(* The cleanup flushes the read when React has already detached the scroll *)
(* container's ref, and isNearBottom(null) is true.                        *)
Leave ==
  /\ phase # "left" /\ phase' = "left"
  /\ readMark' \in IF phase = "ready" /\ MayRead(TRUE)
                   THEN {readMark, Larger(readMark, pendingRead)} ELSE {readMark}
  /\ pendingRead' = 0 /\ readTimer' = FALSE
  /\ sendTimers' = {} /\ socket' = "none" /\ joined' = FALSE /\ frames' = {}
  /\ history' = NULL /\ catchUp' = NULL /\ retryTimer' = FALSE
  /\ older' = NULL /\ newer' = NULL
  /\ UNCHANGED <<server, window, cursor, requestedTail, screen, used, base, faults>>

-----------------------------------------------------------------------------
Init ==
  /\ log \in UNION {[1..n -> {USER}] : n \in 0..MaxUser}
  /\ floor \in {0, Len(log)}
  /\ sent = {} /\ frames = {} /\ joined = FALSE /\ readMark = 0
  /\ phase = "loading" /\ history = Len(log) /\ socket = "none"
  /\ shown = {} /\ locals = <<>> /\ hasOlder = FALSE /\ hasNewer = FALSE
  /\ contiguous = 0 /\ observed = {} /\ received = {} /\ base = 0
  /\ pendingRead = 0 /\ readTimer = FALSE /\ sendTimers = {}
  /\ catchUp = NULL /\ older = NULL /\ newer = NULL
  /\ requestedTail = 0 /\ retryTimer = FALSE
  /\ near = TRUE /\ visible = TRUE
  /\ used = {} /\ faults = 0

Socket == onopen \/ onclose \/ Reconnect \/ \E f \in frames : onmessage(f)
Requested == HistoryLoaded \/ CatchUpAnswered \/ RetryCatchUp
Operator == \/ ReloadHistory \/ (\E b \in BOOLEAN : Scroll(b)) \/ VisibilityChange
            \/ loadOlderMessages \/ loadNewerMessages \/ Leave
            \/ \E c \in Clients : send(c) \/ retryMessage(c)
Faulty == \/ HistoryFails \/ TicketFails \/ ConnectionDrops \/ CatchUpFails
          \/ PageFails \/ ClearElsewhere

Next ==
  \/ UserSpeaks \/ (\E c \in Clients : Commit(c)) \/ GatewayJoin \/ Watermark
  \/ Socket \/ Requested \/ OlderArrives \/ NewerArrives \/ flushRead
  \/ (\E c \in Clients : markFailed(c))
  \/ Operator \/ Faulty

Spec == Init /\ [][Next]_vars

-----------------------------------------------------------------------------
(* Properties.                                                             *)

(* One copy: a message is never on the screen both as the committed one    *)
(* and as its optimistic or failed draft, whatever was retried or trimmed. *)
OneCopy ==
  \A i \in DOMAIN locals : \A s \in shown : log[s] # locals[i].cid

(* Sliding the window back to the live tail shows the tail                 *)
(* (BusinessMobileChatRoom.test.tsx:601, :330): with nothing newer to      *)
(* load, the window is not behind the cursor, but for what was cleared.    *)
(* Refuted: a frame that overtakes another while the window is away from   *)
(* the tail is observed and not kept; the newer page is compared with the  *)
(* cursor, still before the gap, and taken for the tail; once the gap      *)
(* closes the cursor passes, and reports as read, what is not shown.       *)
LiveTailIsShown ==
  (phase = "ready" /\ ~hasNewer) =>
    contiguous <= Larger(floor, latestCommittedSequence(shown))

(* Read marks move only while the room is visible and near the bottom      *)
(* (BusinessMobileChatRoom.test.tsx:516).  Refuted: a room that is left    *)
(* while it is scrolled up reports what waited for the bottom.             *)
ReadOnlyWhenSeen ==
  [][readMark' # readMark => (near /\ visible /\ ~hasNewer)]_vars

Ready == phase = "ready"

(* After every reconnect the room catches up with the log: MCMessages      *)
(* checks that a room that is ready comes to be so.                        *)
CatchesUp == contiguous >= Len(log) \/ phase = "left"

(* Every message sent settles: it is committed or offered for a retry.     *)
Pending(c) == \E i \in DOMAIN locals :
                locals[i] = [cid |-> c, deliveryState |-> "pending"]
SendSettles(c) == ~Pending(c) \/ hasNewer \/ phase = "left"

-----------------------------------------------------------------------------
(* The room is a reader of its log that reports nothing unread as read.    *)
Reader == INSTANCE ReadCursor WITH
  tail <- Len(log), cursor <- contiguous, read <- readMark, floor <- floor,
  received <- received, base <- base
ReadsAsPromised == Reader!Spec
=============================================================================
