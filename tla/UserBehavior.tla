----------------------------- MODULE UserBehavior -----------------------------
(***************************************************************************)
(* What one user did in the app, minute by minute                          *)
(* (src/src/features/analytics/user-behavior-report.ts): the rows of       *)
(* Google are read page by page while Google still adds to them, put into  *)
(* minutes, the minutes into sessions, and the sessions into visits of     *)
(* screens (UserBehaviorPanel.tsx shows them).                             *)
(***************************************************************************)
EXTENDS Integers, FiniteSets, Sequences, SequencesExt, FiniteSetsExt

CONSTANTS Minutes,      \* the minutes something may happen in
          Kinds,        \* what may happen: an event on a screen, so many times
          GAP,          \* SESSION_GAP_MINUTES
          DAY,          \* the minutes of a day
          PAGE_LIMIT, MAX_PAGES,
          MaxRows,      \* a bound: the rows Google has
          MaxMoves,     \* a bound: how often the rows change meanwhile
          NOT_SET

VARIABLES
  google,     \* the rows of Google, in the order it would answer now
  moves,      \* how often that order has changed since the first page
  page,       \* the page that is asked for; MAX_PAGES when it is over
  rows,       \* those that were read
  rowCount,   \* what the last answer said of their number
  truncated,  \* are there rows that were not read
  done

vars == <<google, moves, page, rows, rowCount, truncated, done>>

Row == [minute : Minutes, kind : Kinds]

(* Google names a minute, an event, a screen and a platform once.          *)
Ordered(s) == \A i, j \in DOMAIN s : i < j => s[i].minute <= s[j].minute /\ s[i] # s[j]

TypeOK ==
  /\ google \in Seq(Row) /\ Ordered(google) /\ Len(google) <= MaxRows
  /\ moves \in 0..MaxMoves /\ page \in 0..MAX_PAGES /\ done \in BOOLEAN
  /\ rows \in Seq(Row) /\ rowCount \in 0..MaxRows /\ truncated \in BOOLEAN
  /\ Len(rows) <= MAX_PAGES * PAGE_LIMIT

-----------------------------------------------------------------------------
(* The rows of one minute: the first screen that has a name, and how often *)
(* each event came.                                                        *)
Named(s) == SelectSeq(s, LAMBDA r : r.kind.screen # NOT_SET)
Sum(s) == FoldLeft(LAMBDA n, r : n + r.kind.count, 0, s)
Views(s) == Sum(SelectSeq(s, LAMBDA r : r.kind.name = "screen_view"))

(* Mutant: the last screen wins. *)
screenLast(s) == s[Len(s)].kind.screen

screen(s) == IF Named(s) = <<>> THEN NOT_SET ELSE Named(s)[1].kind.screen

bucket(minute, s) ==
  [minute |-> minute, day |-> minute \div DAY, screen |-> screen(s), count |-> Sum(s), views |-> Views(s)]

(* Mutant: the minutes stay as they come. *)
bucketRowsUnsorted(rs) ==
  [i \in DOMAIN rs |-> bucket(rs[i].minute, <<rs[i]>>)]

bucketRowsByMinute(rs) ==
  LET minutes == SetToSortSeq({rs[i].minute : i \in DOMAIN rs}, <) IN
  [i \in DOMAIN minutes |-> bucket(minutes[i], SelectSeq(rs, LAMBDA r : r.minute = minutes[i]))]

Visit(b) == [screen |-> b.screen, start |-> b.minute, end |-> b.minute, count |-> b.count]

(* Mutant: a visit goes on whatever is on the screen. *)
addToLast(visits, b) ==
  [visits EXCEPT ![Len(visits)].end = b.minute, ![Len(visits)].count = @ + b.count]

(* A visit goes on as long as the screen is the same.                      *)
add(visits, b) ==
  IF Last(visits).screen = b.screen
  THEN [visits EXCEPT ![Len(visits)].end = b.minute, ![Len(visits)].count = @ + b.count]
  ELSE Append(visits, Visit(b))

(* Mutant: the gap is measured from where the session began. *)
gapFromStart(session, b) == b.minute - session.start

gap(session, b) == b.minute - session.end

(* Mutant: a minute that prolongs a session is not counted. *)
prolongUncounted(session, b) ==
  [session EXCEPT !.end = b.minute, !.endDay = b.day, !.visits = add(@, b)]

(* Mutant: the day of the end is the day of the start. *)
prolongSameDay(session, b) ==
  [session EXCEPT !.end = b.minute, !.count = @ + b.count, !.visits = add(@, b)]

prolong(session, b) ==
  [session EXCEPT !.end = b.minute, !.endDay = b.day, !.count = @ + b.count, !.visits = add(@, b)]

(* A minute too far from the last one starts a session.                    *)
place(sessions, b) ==
  IF sessions = <<>> \/ gap(Last(sessions), b) > GAP
  THEN Append(sessions, [start |-> b.minute, end |-> b.minute, day |-> b.day, endDay |-> b.day,
                         count |-> b.count, visits |-> <<Visit(b)>>])
  ELSE [sessions EXCEPT ![Len(sessions)] = prolong(@, b)]

shapeUserBehaviorRows(rs) ==
  LET buckets == bucketRowsByMinute(rs) IN
  [sessions |-> FoldLeft(place, <<>>, buckets),
   events |-> FoldLeft(LAMBDA n, b : n + b.count, 0, buckets),
   screenViews |-> FoldLeft(LAMBDA n, b : n + b.views, 0, buckets)]

flow == shapeUserBehaviorRows(rows)

(* The end of a session as it is written: the minute of a day, with its    *)
(* date when that is not the one of the start.                             *)
endText(session) ==
  [minute |-> session.end % DAY,
   day |-> IF session.endDay = session.day THEN session.day ELSE session.endDay]

-----------------------------------------------------------------------------
(* Mutant: a page too many. *)
isLastPageLate == page = MAX_PAGES

isLastPage == page = MAX_PAGES - 1

(* Mutant: what is left out goes unsaid. *)
isCutNever(count) == FALSE

isCut(count) == isLastPage

(* A page is read; there is another one unless the rows have ended.        *)
fetchUserBehaviorFlow ==
  LET offset == page * PAGE_LIMIT
      answer == SubSeq(google, offset + 1, IF offset + PAGE_LIMIT < Len(google) THEN offset + PAGE_LIMIT ELSE Len(google))
      last == answer = <<>> \/ Len(google) <= offset + PAGE_LIMIT
  IN /\ ~done
     /\ rows' = rows \o answer /\ rowCount' = Len(google)
     /\ truncated' = (~last /\ isCut(Len(google)))
     /\ page' = page + 1 /\ done' = (last \/ isLastPage)
     /\ UNCHANGED <<google, moves>>

(* Google has another row, of today or of a minute it processes late, or   *)
(* answers the rows of a minute in another order.                          *)
Reorder ==
  /\ ~done /\ page > 0 /\ moves < MaxMoves /\ moves' = moves + 1
  /\ \/ \E r \in Row, i \in 1..(Len(google) + 1) :
          Len(google) < MaxRows /\ google' = InsertAt(google, i, r) /\ Ordered(google')
     \/ \E i \in 1..(Len(google) - 1) :
          /\ google[i].minute = google[i + 1].minute
          /\ google' = [google EXCEPT ![i] = google[i + 1], ![i + 1] = google[i]]
  /\ UNCHANGED <<page, rows, rowCount, truncated, done>>

Init ==
  /\ \E n \in 0..MaxRows : google \in {s \in [1..n -> Row] : Ordered(s)}
  /\ moves = 0 /\ page = 0 /\ rows = <<>> /\ rowCount = 0 /\ truncated = FALSE /\ done = FALSE

Next == fetchUserBehaviorFlow \/ Reorder

Spec == Init /\ [][Next]_vars

-----------------------------------------------------------------------------
(* No event is lost or told twice between the rows and the screen: the     *)
(* three totals agree at every level, whatever order the rows came in, and *)
(* they are those of Google when its rows did not change meanwhile         *)
(* (user-behavior-report.ts:201, 242).                                     *)
EventsAddUp ==
  done =>
    LET sessions == flow.sessions
        total(s) == FoldLeft(LAMBDA n, x : n + x.count, 0, s)
    IN /\ flow.events = total(sessions) /\ flow.events = Sum(rows)
       /\ \A i \in DOMAIN sessions : sessions[i].count = total(sessions[i].visits)
       /\ (moves = 0 /\ ~truncated) => flow.events = Sum(google)

(* A session is what no silence longer than the gap interrupts: the next   *)
(* one begins after a longer one, and within it there is none              *)
(* (user-behavior-report.ts:258).                                          *)
SessionsAreApart ==
  done =>
    LET sessions == flow.sessions
        minutes == {rows[i].minute : i \in DOMAIN rows}
    IN /\ \A i \in 1..(Len(sessions) - 1) : sessions[i + 1].start - sessions[i].end > GAP
       /\ \A i \in DOMAIN sessions :
            LET inside == {m \in minutes : m >= sessions[i].start /\ m <= sessions[i].end} IN
            \A m \in inside \ {sessions[i].end} : \E n \in inside : n > m /\ n - m <= GAP
       /\ \A m \in minutes : \E i \in DOMAIN sessions : m >= sessions[i].start /\ m <= sessions[i].end

(* The visits of a session follow one another, each on another screen than *)
(* the one before, and a screen with a name is not hidden by an event      *)
(* without one in the same minute (user-behavior-report.ts:224, 290).      *)
VisitsAreReadable ==
  done => \A i \in DOMAIN flow.sessions :
    LET visits == flow.sessions[i].visits IN
    /\ \A j \in 1..(Len(visits) - 1) :
         visits[j].end < visits[j + 1].start /\ visits[j].screen # visits[j + 1].screen
    /\ \A j \in DOMAIN visits : visits[j].screen = NOT_SET =>
         \A k \in DOMAIN rows :
           (rows[k].minute >= visits[j].start /\ rows[k].minute <= visits[j].end) => rows[k].kind.screen = NOT_SET

(* The end of a session never reads as if it came before its start, and    *)
(* its minutes are those it lasted (user-behavior-report.ts:175).          *)
EndReadsLater ==
  done => \A i \in DOMAIN flow.sessions :
    LET session == flow.sessions[i] IN
    endText(session).day * DAY + endText(session).minute = session.end

(* Whoever is not told that rows were left out has all that Google counted *)
(* in its last answer (user-behavior-report.ts:376).                       *)
LeftOutIsTold == (done /\ ~truncated) => Len(rows) >= rowCount

=============================================================================
