-------------------------- MODULE RetentionCohorts --------------------------
(***************************************************************************)
(* The weekly retention (src/src/features/analytics/analytics-retention.ts): *)
(* the cohorts that are asked for, and the rows of the answer, which come  *)
(* in any order, put into their cells.  Days are numbers, day 0 a Sunday.  *)
(***************************************************************************)
EXTENDS Integers, FiniteSets, TLC

CONSTANTS RETENTION_COHORT_COUNT, RETENTION_HORIZON,
          Yesterdays   \* the days on which the report may be read

VARIABLES
  yesterday,
  rows,      \* the rows still to be taken: which cohort (by its name or by
             \* its position), which week, active and total users
  byCohort   \* the cells that are filled

vars == <<yesterday, rows, byCohort>>

Cohorts == 1..RETENTION_COHORT_COUNT
Weeks == 0..RETENTION_HORIZON

(* Mutant: the last Saturday before tomorrow's. *)
latestStartEarly == yesterday - (yesterday % 7) - 6

(* The Sunday of the newest week that is over.                             *)
latestStart ==
  LET weekday == yesterday % 7
      lastSaturday == yesterday - ((weekday + 1) % 7)
  IN lastSaturday - 6

cohort(k) ==
  LET start == latestStart - (RETENTION_COHORT_COUNT - k) * 7
  IN [name |-> start, startDate |-> start, endDate |-> start + 6]

(* The users Google counts, all of them different.                         *)
Total(k) == 100 * k
Active(k, week) == IF week = 0 THEN Total(k) ELSE 10 * k + week

(* Google answers some of the cells of weeks that have begun.              *)
Answerable == {c \in Cohorts \X Weeks : cohort(c[1]).startDate + 7 * c[2] <= yesterday}

TypeOK ==
  /\ yesterday \in Yesterdays
  /\ \A r \in rows : r.by \in {"name", "position"} /\ r.week \in Weeks
  /\ DOMAIN byCohort \subseteq Cohorts \X Weeks

(* Mutant: positions count from one. *)
resolveCohortFromOne(r) ==
  {k \in Cohorts : IF r.by = "name" THEN cohort(k).name = r.value ELSE k = r.value}

(* Mutant: the name is believed as it comes. *)
resolveCohortUnchecked(r) == {r.value + 1}

(* A cohort by the name it was given, or by its position from zero; a row  *)
(* of another cohort is dropped.                                           *)
resolveCohortName(r) ==
  {k \in Cohorts : IF r.by = "name" THEN cohort(k).name = r.value ELSE k = r.value + 1}

Take ==
  \E r \in rows :
    /\ rows' = rows \ {r} /\ UNCHANGED yesterday
    /\ byCohort' = [cell \in {<<k, r.week>> : k \in resolveCohortName(r)} |->
                      [active |-> r.active, total |-> r.total]] @@ byCohort

(* Mutant: the size of a cohort is read from its first week. *)
totalUsersOfWeek0(k) == IF <<k, 0>> \in DOMAIN byCohort THEN byCohort[<<k, 0>>].total ELSE 0

(* The size of a cohort, by the cells that were answered.                  *)
totalUsers(k) ==
  LET totals == {0} \cup {byCohort[c].total : c \in {d \in DOMAIN byCohort : d[1] = k}}
  IN CHOOSE t \in totals : \A u \in totals : u <= t

(* Mutant: a week is over on its last day. *)
stateEarly(k, week) ==
  LET weekStart == cohort(k).startDate + week * 7
  IN IF weekStart + 5 <= yesterday THEN "complete"
     ELSE IF weekStart <= yesterday THEN "partial" ELSE "future"

state(k, week) ==
  LET weekStart == cohort(k).startDate + week * 7
  IN IF weekStart + 6 <= yesterday THEN "complete"
     ELSE IF weekStart <= yesterday THEN "partial" ELSE "future"

(* A rate is kept as a pair; NULL is <<>>.                                 *)
cell(k, week) ==
  LET active == IF <<k, week>> \in DOMAIN byCohort THEN byCohort[<<k, week>>].active ELSE 0
  IN [activeUsers |-> active, state |-> state(k, week),
      rate |-> IF totalUsers(k) > 0 THEN <<active, totalUsers(k)>> ELSE <<>>]

(* What a cell of the table says (RetentionHeatmap.tsx).                   *)
cellText(k, week) ==
  LET c == cell(k, week)
  IN IF c.state = "future" \/ c.rate = <<>> THEN "none"
     ELSE IF c.state = "partial" THEN "unfinished" ELSE "rate"

Row(c, by) ==
  [by |-> by, value |-> IF by = "name" THEN cohort(c[1]).name ELSE c[1] - 1, week |-> c[2],
   active |-> Active(c[1], c[2]), total |-> Total(c[1])]

(* A row of a cohort that was not asked for.                               *)
Foreign == [by |-> "name", value |-> -1, week |-> 0, active |-> 7, total |-> 7]

Init ==
  /\ yesterday \in Yesterdays
  /\ \E answered \in SUBSET Answerable, by \in {"name", "position"} :
       rows = {Row(c, by) : c \in answered} \cup {Foreign}
  /\ byCohort = <<>>

Next == Take

Spec == Init /\ [][Next]_vars

-----------------------------------------------------------------------------
(* The cohorts are whole weeks from Sunday to Saturday that adjoin, the    *)
(* newest is over, and no newer one is (analytics-retention.ts:65).        *)
WeeksAreOver ==
  /\ \A k \in Cohorts : /\ cohort(k).startDate % 7 = 0
                        /\ cohort(k).endDate = cohort(k).startDate + 6
                        /\ k < RETENTION_COHORT_COUNT => cohort(k + 1).startDate = cohort(k).endDate + 1
  /\ cohort(RETENTION_COHORT_COUNT).endDate \in yesterday - 6 .. yesterday

(* Every cell shows the users of its own cohort and week, as a share of    *)
(* its own cohort, whatever Google left out and in whatever order it       *)
(* answered (analytics-retention.ts:132).                                  *)
OwnUsers ==
  rows = {} => \A c \in DOMAIN byCohort :
    /\ cell(c[1], c[2]).activeUsers = Active(c[1], c[2])
    /\ cell(c[1], c[2]).rate = <<Active(c[1], c[2]), Total(c[1])>>

(* A rate is called final only when its week is over, and users Google has *)
(* counted are never hidden as a week to come.                             *)
FinalWhenOver ==
  \A k \in Cohorts, week \in Weeks :
    /\ cellText(k, week) = "rate" => cohort(k).startDate + 7 * week + 6 <= yesterday
    /\ (rows = {} /\ <<k, week>> \in DOMAIN byCohort) => cellText(k, week) # "none"
=============================================================================
