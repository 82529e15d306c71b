------------------------------ MODULE Insights ------------------------------
(***************************************************************************)
(* The sentences above the overview                                        *)
(* (src/src/features/analytics/analytics-insights.ts): which changes are   *)
(* worth one, how grave they are, and which five are shown.  Wording is    *)
(* left out, and so is the order among insights that are equally grave.    *)
(* The rate of engagement is in thousandths.                               *)
(***************************************************************************)
EXTENDS Integers, FiniteSets, FiniteSetsExt

CONSTANTS Changes,         \* pairs of counts: the period before, and this one
          RateChanges, RevenueChanges, \* the same for the other metrics
          Platforms, PlatformChanges

VARIABLES metrics, rate, revenue, platforms, \* what Google has answered
          shown                              \* the insights that are shown

vars == <<metrics, rate, revenue, platforms, shown>>

totalDeltaPercent == 20
totalBaseUsers == 50
revenueBase == 1
engagementPointDelta == 5
platformDeltaPercent == 25
platformBaseUsers == 30
shareShiftPoints == 10
maxInsights == 5
COUNT_METRICS == {"activeUsers", "newUsers", "sessions", "keyEvents"}
SEVERITY_ORDER == [warning |-> 0, positive |-> 1, info |-> 2]

Abs(n) == IF n < 0 THEN -n ELSE n
Insight(id, severity) == [id |-> id, severity |-> severity]
Movement(change) == IF change[2] < change[1] THEN "warning" ELSE "positive"

(* Mutant: the movement of a small base counts as well. *)
movedAnyBase(change, base, percent) ==
  change[1] > 0 /\ 100 * Abs(change[2] - change[1]) >= percent * change[1]

(* A movement of so many percent, on a base that is large enough.          *)
moved(change, base, percent) ==
  /\ change[1] >= base /\ change[1] > 0
  /\ 100 * Abs(change[2] - change[1]) >= percent * change[1]

Counts == {Insight(<<"total", m>>, Movement(metrics[m])) :
             m \in {k \in COUNT_METRICS : moved(metrics[k], totalBaseUsers, totalDeltaPercent)}}

(* Percentage points, whatever the base.                                   *)
Engagement == IF Abs(rate[2] - rate[1]) >= 10 * engagementPointDelta
              THEN {Insight(<<"total", "engagementRate">>, Movement(rate))} ELSE {}

Revenue == IF moved(revenue, revenueBase, totalDeltaPercent)
           THEN {Insight(<<"total", "totalRevenue">>, Movement(revenue))} ELSE {}

PlatformMoves == {Insight(<<"platform", p>>, Movement(platforms[p])) :
                    p \in {q \in Platforms : moved(platforms[q], platformBaseUsers, platformDeltaPercent)}}

SumOf(S, when) == MapThenSumSet(LAMBDA p : platforms[p][when], S)

(* A shift of the shares is context, not an alarm.                         *)
Shares ==
  LET before == SumOf(Platforms, 1)
      now == SumOf(Platforms, 2)
  IN IF before = 0 \/ now = 0 THEN {}
     ELSE {Insight(<<"share", p>>, "info") : p \in {q \in Platforms :
             100 * Abs(platforms[q][2] * before - platforms[q][1] * now) >= shareShiftPoints * before * now}}

All == Counts \cup Engagement \cup Revenue \cup PlatformMoves \cup Shares

(* Mutant: five are taken before they are put in order. *)
firstUnsorted(S) == {T \in SUBSET S : Cardinality(T) = IF Cardinality(S) < maxInsights THEN Cardinality(S) ELSE maxInsights}

(* Mutant: a sixth slips through. *)
firstSix(S) ==
  {T \in SUBSET S :
     /\ Cardinality(T) = IF Cardinality(S) <= maxInsights THEN Cardinality(S) ELSE maxInsights + 1
     /\ \A t \in T, s \in S \ T : SEVERITY_ORDER[t.severity] <= SEVERITY_ORDER[s.severity]}

(* The gravest five.                                                       *)
first(S) ==
  {T \in SUBSET S :
     /\ Cardinality(T) = IF Cardinality(S) < maxInsights THEN Cardinality(S) ELSE maxInsights
     /\ \A t \in T, s \in S \ T : SEVERITY_ORDER[t.severity] <= SEVERITY_ORDER[s.severity]}

SmallBase == Insight(<<"info", "small-base">>, "info")

(* Mutant: silence is just silence. *)
silence == {}

(* Nothing moved: because the base is too small to tell, or indeed.        *)
nothing == IF metrics["activeUsers"][1] < totalBaseUsers THEN {SmallBase} ELSE {}

buildInsights == IF All = {} THEN {nothing} ELSE first(All)

Init ==
  /\ metrics \in [COUNT_METRICS -> Changes] /\ rate \in RateChanges /\ revenue \in RevenueChanges
  /\ platforms \in [Platforms -> PlatformChanges]
  /\ shown \in buildInsights

Next == UNCHANGED vars

Spec == Init /\ [][Next]_vars

TypeOK == Cardinality(shown) <= maxInsights /\ \A s, t \in shown : s.id = t.id => s = t

-----------------------------------------------------------------------------
(* No fall is left out for something less grave                            *)
(* (analytics-insights.ts:208): a movement that is not shown stands behind *)
(* five that are.                                                          *)
NoFallHidden ==
  \A i \in All \ shown : i.severity = "warning" => \A s \in shown : s.severity = "warning"

(* Silence says which silence it is (analytics-insights.ts:190): an empty  *)
(* panel means that nothing moved on a base that can tell.                 *)
SilenceIsTold ==
  shown = {} => /\ metrics["activeUsers"][1] >= totalBaseUsers
                /\ \A m \in COUNT_METRICS : metrics[m][1] >= totalBaseUsers =>
                     100 * Abs(metrics[m][2] - metrics[m][1]) < totalDeltaPercent * metrics[m][1]

Quiet ==
  /\ \A m \in COUNT_METRICS : metrics[m][1] < totalBaseUsers
  /\ \A p \in Platforms : platforms[p][1] < platformBaseUsers
  /\ revenue[1] < revenueBase

(* Numbers too small to mean anything never raise an alarm of a count      *)
(* (analytics-insights.ts:20).                                             *)
CountsNeedABase ==
  Quiet => \A s \in shown : s.severity = "warning" => s.id = <<"total", "engagementRate">>

=============================================================================
