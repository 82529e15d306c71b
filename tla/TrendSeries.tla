---------------------------- MODULE TrendSeries ----------------------------
(***************************************************************************)
(* The daily trend of the overview: from the rows Google answers to the    *)
(* points that are drawn (src/src/features/analytics/analytics-reports.ts, *)
(* shapeSeries).  Days are numbers.  The rows arrive in any order and are  *)
(* taken one at a time; Google leaves out a day without events, and its    *)
(* "yesterday" may differ by a day from that of the operator: by the time  *)
(* zone of the property, or because midnight passes while it answers.      *)
(***************************************************************************)
EXTENDS Integers, FiniteSets, TLC

CONSTANTS RANGE_DAYS, \* days of a window
          Today       \* of the operator, when the answer is shaped

VARIABLES
  gaYesterday, \* yesterday, by Google
  counts,      \* the truth: the users of every day Google knows events of
  rows,        \* the rows that are still to be taken: a slot and a day
  current, previous \* the maps of shapeSeries: a day to its users

vars == <<gaYesterday, counts, rows, current, previous>>

(* The windows of the request, by the calendar of Google.                  *)
analyticsDateRange(prev) ==
  IF prev THEN (gaYesterday + 1 - 2 * RANGE_DAYS) .. (gaYesterday - RANGE_DAYS)
  ELSE (gaYesterday + 1 - RANGE_DAYS) .. gaYesterday

Slots == {"current", "previous", "date_range_0", "date_range_1", "(other)"}

(* The name of the window in a row: the one supplied, or its position.     *)
rangeSlot(value) ==
  CASE value \in {"current", "date_range_0"} -> "current"
    [] value \in {"previous", "date_range_1"} -> "previous"
    [] OTHER -> "none"

(* Mutant: one window's worth of rows is asked for. *)
limitOne == RANGE_DAYS

limit == 2 * RANGE_DAYS

(* Google answers the days that have events, in both windows, by day, as   *)
(* far as the limit goes.                                                  *)
Answer(positional) ==
  LET all == {[slot |-> IF positional THEN "date_range_0" ELSE "current", day |-> d]
                : d \in DOMAIN counts \cap analyticsDateRange(FALSE)}
             \cup {[slot |-> IF positional THEN "date_range_1" ELSE "previous", day |-> d]
                : d \in DOMAIN counts \cap analyticsDateRange(TRUE)}
  IN {r \in all : Cardinality({s \in all : s.day < r.day}) < limit}

TypeOK ==
  /\ gaYesterday \in Today - 2 .. Today /\ rows \subseteq [slot : Slots, day : DOMAIN counts]
  /\ DOMAIN current \subseteq analyticsDateRange(FALSE)
  /\ DOMAIN previous \subseteq analyticsDateRange(TRUE)

(* Mutant: every row belongs to the current window. *)
TakeUnsorted ==
  \E r \in rows :
    /\ rows' = rows \ {r} /\ current' = current @@ (r.day :> counts[r.day])
    /\ UNCHANGED <<gaYesterday, counts, previous>>

(* A row goes to the window it names; one that names none is dropped.      *)
Take ==
  \E r \in rows :
    /\ rows' = rows \ {r}
    /\ current' = IF rangeSlot(r.slot) = "current" THEN (r.day :> counts[r.day]) @@ current ELSE current
    /\ previous' = IF rangeSlot(r.slot) = "previous" THEN (r.day :> counts[r.day]) @@ previous ELSE previous
    /\ UNCHANGED <<gaYesterday, counts>>

(* Mutant: the day is read in another time zone. *)
windowEndDayUtc == Today - 2

windowEndDay == Today - 1

At(map, day) == IF day \in DOMAIN map THEN map[day] ELSE 0

(* Mutant: the windows are paired by position. *)
pointByPosition(i) ==
  LET date == windowEndDay - RANGE_DAYS + i
      nth(S, k) == {d \in S : Cardinality({e \in S : e < d}) = k - 1}
      prev == nth(DOMAIN previous, i)
  IN [date |-> date, previousDate |-> date - RANGE_DAYS, current |-> At(current, date),
      previous |-> IF prev = {} THEN 0 ELSE previous[CHOOSE d \in prev : TRUE]]

(* The i-th point of the window that was requested; a day Google left out  *)
(* had no events.                                                          *)
point(i) ==
  LET date == windowEndDay - RANGE_DAYS + i
  IN [date |-> date, previousDate |-> date - RANGE_DAYS,
      current |-> At(current, date), previous |-> At(previous, date - RANGE_DAYS)]

(* No rows of the current window: nothing to draw.                         *)
points == IF DOMAIN current = {} THEN <<>> ELSE [i \in 1..RANGE_DAYS |-> point(i)]

Init ==
  /\ gaYesterday \in {Today - 2, Today - 1, Today}
  /\ \E days \in SUBSET (analyticsDateRange(TRUE) \cup analyticsDateRange(FALSE)) :
       counts = [d \in days |-> d]
  /\ \E positional \in BOOLEAN : rows = Answer(positional)
                                        \cup {[slot |-> "(other)", day |-> d] : d \in DOMAIN counts \cap {gaYesterday}}
  /\ current = <<>> /\ previous = <<>>

Next == Take

Spec == Init /\ [][Next]_vars

-----------------------------------------------------------------------------
Edge(i) == i \in {1, RANGE_DAYS} /\ gaYesterday # windowEndDay

Drawn == rows = {} /\ points # <<>>

(* The comparison is never shifted (analytics-reports.ts:217, 228): every  *)
(* point shows the users of its own day, and of the day one window before, *)
(* whatever Google left out; where the calendars differ, one day at one    *)
(* edge is empty, and no other.                                            *)
NeverShifted ==
  Drawn =>
    /\ \A i \in DOMAIN points :
         /\ points[i].current = At(counts, points[i].date) \/ (Edge(i) /\ points[i].current = 0)
         /\ \/ points[i].previous = At(counts, points[i].previousDate)
            \/ Edge(i) /\ points[i].previous = 0
    /\ Cardinality({i \in DOMAIN points : points[i].current # At(counts, points[i].date)}) <= 1
    /\ Cardinality({i \in DOMAIN points : points[i].previous # At(counts, points[i].previousDate)}) <= 1

(* The points are the days of one window, without a hole, and the window   *)
(* before adjoins it; a window of zeros is drawn for a day that had none   *)
(* only if another day had some (analytics-reports.ts:247).                *)
NoInventedCollapse ==
  rows = {} => (points # <<>>) = (DOMAIN counts \cap analyticsDateRange(FALSE) # {})
=============================================================================
