---------------------------- MODULE MCAnalytics ----------------------------
(***************************************************************************)
(* What the console shows of Google Analytics and of a user's history: the *)
(* token, the dashboard, a report on its way with one request or two, the  *)
(* panel of a user's behaviour, and the timeline, with two categories of   *)
(* rows and with one.  They share no state but the token, of which the     *)
(* dashboard and the panel have their own view; so the part that "screen"  *)
(* names takes every step, in the variables x1, x2, ...                    *)
(***************************************************************************)
EXTENDS Integers, Sequences, FiniteSets

CONSTANTS app, web, p1, p2, u1, u2, pay, acc, d1, d2, Unread,
          home, NOT_SET, RESERVED_TOTAL, NULL

(* Rows of two days: one of a time that cannot be read between two of the  *)
(* same day, one of a kind that is not listed, one of a kind listed under  *)
(* another category than the server's, one outside the period.             *)
Row(d, c, k, r) == [day |-> d, category |-> c, listed |-> k, recent |-> r]
TwoKinds ==
  <<Row(d2, pay, pay, TRUE), Row(d2, pay, pay, TRUE), Row(Unread, acc, acc, TRUE),
    Row(d2, pay, NULL, TRUE), Row(d1, acc, pay, TRUE), Row(d1, pay, pay, FALSE)>>
OneKind ==
  <<Row(d2, pay, pay, TRUE), Row(d2, pay, pay, TRUE), Row(d2, pay, NULL, TRUE),
    Row(d1, pay, pay, TRUE), Row(d1, pay, pay, FALSE)>>

(* Changes on both sides of each threshold of the insights.                *)
CountChanges == {<<12, 5>>, <<50, 40>>, <<50, 41>>, <<50, 60>>}
Rates == {<<574, 512>>, <<574, 525>>}
Revenues == {<<0, 9>>, <<10, 8>>}
PlatformCounts == {<<29, 4>>, <<30, 20>>, <<30, 31>>}

Events == {[name |-> "screen_view", screen |-> home, count |-> 1],
           [name |-> "tap", screen |-> NOT_SET, count |-> 2],
           [name |-> "tap", screen |-> pay, count |-> 3]}

VARIABLES screen,
          x1, x2, x3, x4, x5, x6, x7, x8, x9, x10, x11, x12

vars == <<screen, x1, x2, x3, x4, x5, x6, x7, x8, x9, x10, x11, x12>>
After3 == <<x4, x5, x6, x7, x8, x9, x10, x11, x12>>
After5 == <<x6, x7, x8, x9, x10, x11, x12>>
After7 == <<x8, x9, x10, x11, x12>>
After11 == <<x12>>

Token == INSTANCE AnalyticsToken WITH
  MaxSessions <- 3, MaxVisits <- 3, MaxGrants <- 2, MaxClock <- 2, Life <- 1,
  session <- x1, store <- x2, timers <- x3, clock <- x4, screen <- x5,
  visits <- x6, asks <- x7, loader <- x8, script <- x9, fetches <- x10,
  cache <- x11
Dashboard == INSTANCE AnalyticsDashboard WITH
  Properties <- {app, web}, Mixed <- {app}, Registered <- {app},
  First <- app, MaxChoices <- 2, MaxGrants <- 1, MaxPolls <- 1, token <- x1,
  chosen <- x2, quota <- x3, exhausted <- x4, caps <- x5, cache <- x6,
  failed <- x7, fetching <- x8, last <- x9, refusals <- x10, choices <- x11,
  polls <- x12
Request == INSTANCE AnalyticsRequest WITH
  Parts <- {p1}, Told <- {0, 5}, MaxClock <- 20, token <- x1, parts <- x2,
  aborted <- x3, clock <- x4, outcome <- x5
Realtime == INSTANCE AnalyticsRequest WITH
  Parts <- {p1, p2}, Told <- {3}, MaxClock <- 5, token <- x1, parts <- x2,
  aborted <- x3, clock <- x4, outcome <- x5
Panel == INSTANCE BehaviorPanel WITH
  Users <- {u1, u2}, Properties <- {app, web}, First <- app, MaxGrants <- 2,
  MaxSteps <- 5, token <- x1, usable <- x2, screen <- x3, cache <- x4,
  failed <- x5, fetching <- x6, steps <- x7
Timeline == INSTANCE UserTimeline WITH
  Rows <- TwoKinds, Categories <- {pay, acc}, Unread <- Unread, Limit <- 2,
  MaxSteps <- 3, MaxFaults <- 1, newest <- x1, filter <- x2, cache <- x3,
  fetch <- x4, failed <- x5, steps <- x6, faults <- x7
History == INSTANCE UserTimeline WITH
  Rows <- OneKind, Categories <- {pay}, Unread <- Unread, Limit <- 2,
  MaxSteps <- 2, MaxFaults <- 1, newest <- x1, filter <- x2, cache <- x3,
  fetch <- x4, failed <- x5, steps <- x6, faults <- x7
Trend == INSTANCE TrendSeries WITH
  RANGE_DAYS <- 3, Today <- 20, gaYesterday <- x1, counts <- x2, rows <- x3,
  current <- x4, previous <- x5
Retention == INSTANCE RetentionCohorts WITH
  RETENTION_COHORT_COUNT <- 2, RETENTION_HORIZON <- 2, Yesterdays <- 28..34,
  yesterday <- x1, rows <- x2, byCohort <- x3
Funnel == INSTANCE FunnelSteps WITH
  Steps <- 3, Platforms <- {app, web}, FUNNEL_TOTAL_VALUE <- RESERVED_TOTAL,
  breakdown <- x1, numbered <- x2, truth <- x3, rows <- x4, appearance <- x5,
  totals <- x6, grouped <- x7
Findings == INSTANCE Insights WITH
  Changes <- CountChanges, RateChanges <- Rates, RevenueChanges <- Revenues,
  Platforms <- {app, web}, PlatformChanges <- PlatformCounts, metrics <- x1,
  rate <- x2, revenue <- x3, platforms <- x4, shown <- x5
Behavior == INSTANCE UserBehavior WITH
  Minutes <- {0, 30, 31, 61}, Kinds <- Events, GAP <- 30, DAY <- 31,
  PAGE_LIMIT <- 2, MAX_PAGES <- 2, MaxRows <- 4, MaxMoves <- 1,
  NOT_SET <- NOT_SET, google <- x1, moves <- x2, page <- x3, rows <- x4,
  rowCount <- x5, truncated <- x6, done <- x7
Cut == INSTANCE UserBehavior WITH
  Minutes <- {0, 30, 31, 61}, Kinds <- Events, GAP <- 30, DAY <- 31,
  PAGE_LIMIT <- 1, MAX_PAGES <- 2, MaxRows <- 3, MaxMoves <- 1,
  NOT_SET <- NOT_SET, google <- x1, moves <- x2, page <- x3, rows <- x4,
  rowCount <- x5, truncated <- x6, done <- x7

(* NULL is no number, no error, and nothing that can be chosen.            *)
ASSUME NullAssumption ==
  NULL \notin Nat /\ NULL \notin Request!Kinds \cup {"ok"} /\ NULL \notin Panel!Choice

OnToken(A) == screen = "token" /\ A /\ UNCHANGED <<screen, After11>>
OnDashboard(A) == screen = "dashboard" /\ A /\ UNCHANGED <<screen>>
OnRequest(A) == screen = "request" /\ A /\ UNCHANGED <<screen, After5>>
OnRealtime(A) == screen = "realtime" /\ A /\ UNCHANGED <<screen, After5>>
OnPanel(A) == screen = "panel" /\ A /\ UNCHANGED <<screen, After7>>
OnTimeline(A) == screen = "timeline" /\ A /\ UNCHANGED <<screen, After7>>
OnHistory(A) == screen = "history" /\ A /\ UNCHANGED <<screen, After7>>
OnTrend(A) == screen = "trend" /\ A /\ UNCHANGED <<screen, After5>>
OnRetention(A) == screen = "retention" /\ A /\ UNCHANGED <<screen, After3>>
OnFunnel(A) == screen = "funnel" /\ A /\ UNCHANGED <<screen, After7>>
OnFindings(A) == screen = "insights" /\ A /\ UNCHANGED <<screen, After5>>
OnBehavior(A) == screen = "behavior" /\ A /\ UNCHANGED <<screen, After7>>
OnCut(A) == screen = "cut" /\ A /\ UNCHANGED <<screen, After7>>

Idle11 == x12 = NULL
Idle7 == x8 = NULL /\ x9 = NULL /\ x10 = NULL /\ x11 = NULL /\ Idle11
Idle5 == x6 = NULL /\ x7 = NULL /\ Idle7
Idle3 == x4 = NULL /\ x5 = NULL /\ Idle5

Init ==
  \/ screen = "token" /\ Token!Init /\ Idle11
  \/ screen = "dashboard" /\ Dashboard!Init
  \/ screen = "request" /\ Request!Init /\ Idle5
  \/ screen = "realtime" /\ Realtime!Init /\ Idle5
  \/ screen = "panel" /\ Panel!Init /\ Idle7
  \/ screen = "timeline" /\ Timeline!Init /\ Idle7
  \/ screen = "history" /\ History!Init /\ Idle7
  \/ screen = "trend" /\ Trend!Init /\ Idle5
  \/ screen = "retention" /\ Retention!Init /\ Idle3
  \/ screen = "funnel" /\ Funnel!Init /\ Idle7
  \/ screen = "insights" /\ Findings!Init /\ Idle5
  \/ screen = "behavior" /\ Behavior!Init /\ Idle7
  \/ screen = "cut" /\ Cut!Init /\ Idle7

Next ==
  \/ OnToken(Token!Next)
  \/ OnDashboard(Dashboard!Next)
  \/ OnRequest(Request!Next)
  \/ OnRealtime(Realtime!Next)
  \/ OnPanel(Panel!Next)
  \/ OnTimeline(Timeline!Next)
  \/ OnHistory(History!Next)
  \/ OnTrend(Trend!Next)
  \/ OnRetention(Retention!Next)
  \/ OnFunnel(Funnel!Next)
  \/ OnFindings(Findings!Next)
  \/ OnBehavior(Behavior!Next)
  \/ OnCut(Cut!Next)

(* Time passes, timers fire, a popup is answered or closed in the end, and *)
(* every request is answered or refused.                                   *)
OfHistory(f) == History!NextPageAnswered(f) \/ History!PageAnswered(f) \/ History!Fails(f)
Fairness ==
  /\ WF_vars(\/ OnToken(Token!Tick) \/ OnRequest(Request!Tick) \/ OnDashboard(Dashboard!Answer)
             \/ OnPanel(Panel!Answer) \/ OnHistory(OfHistory([categories |-> {}, period |-> "28d"])))
  /\ WF_vars(\/ OnToken(Token!TimerFires) \/ OnRequest(Request!Start)
             \/ OnPanel(Panel!clearAnalyticsAccessToken)
             \/ OnHistory(OfHistory([categories |-> {pay}, period |-> "28d"])))
  /\ WF_vars(\/ OnToken(Token!LoaderTimesOut) \/ OnRequest(Request!Read(p1))
             \/ OnHistory(OfHistory([categories |-> {}, period |-> "all"])))
  /\ WF_vars(\/ OnToken(Token!Answer(1)) \/ OnRequest(Request!Answered(p1) \/ Request!SendFails(p1))
             \/ OnHistory(OfHistory([categories |-> {pay}, period |-> "all"])))
  /\ WF_vars(OnToken(Token!Answer(2)) \/ OnRequest(Request!Resend(p1)))
  /\ WF_vars(OnToken(Token!Answer(3)))

Spec == Init /\ [][Next]_vars /\ Fairness

-----------------------------------------------------------------------------
(* What is shown is the answer to what was asked: under a grant of this    *)
(* session, for the user, property, report and range on screen, and whole. *)
ReportIsOwn ==
  /\ screen = "token" => Token!TypeOK /\ Token!ConnectedIsOwn
  /\ screen = "dashboard" =>
       /\ Dashboard!TypeOK /\ Dashboard!ShownIsChosen /\ Dashboard!BannerIsOfItsPool
       /\ Dashboard!ClosedByRefusal /\ Dashboard!FiltersFit
  /\ screen = "request" => Request!TypeOK /\ Request!ReportIsWhole
  /\ screen = "realtime" => Realtime!TypeOK /\ Realtime!ReportIsWhole
  /\ screen = "panel" => Panel!TypeOK /\ Panel!OwnFlow /\ Panel!NothingKept

(* The history of a user is whole: no row that was asked for is missing or *)
(* doubled between two pages or out of its day, and "nothing" is said      *)
(* where there is none of them.  (Rows of a category whose kinds are not   *)
(* listed under it are not asked for when it is chosen: see                *)
(* UnlistedKindIsShown.)                                                   *)
HistoryIsWhole ==
  /\ screen = "timeline" =>
       /\ Timeline!TypeOK /\ Timeline!NoHoles
       /\ Timeline!EmptyIsTrue /\ Timeline!OneSectionPerDay
  /\ screen = "history" => History!TypeOK /\ History!NoHoles

(* A row of a kind that is not listed is shown under its category          *)
(* (user-timeline-model.ts:41).  The code does not keep to it.             *)
UnlistedKindIsShown == screen = "timeline" => Timeline!UnlistedKindIsShown

(* The figures are those of Google: of the day, cohort, step, screen or    *)
(* platform they stand for, whatever rows it left out, added or answered   *)
(* in another order, and whatever was cut is told.                         *)
FiguresAreTrue ==
  /\ screen = "trend" => Trend!TypeOK /\ Trend!NeverShifted /\ Trend!NoInventedCollapse
  /\ screen = "retention" =>
       Retention!TypeOK /\ Retention!WeeksAreOver /\ Retention!OwnUsers /\ Retention!FinalWhenOver
  /\ screen = "funnel" =>
       Funnel!TypeOK /\ Funnel!OwnUsers /\ Funnel!BarsFall /\ Funnel!RatesWhereTheyMean
  /\ screen = "insights" =>
       Findings!TypeOK /\ Findings!NoFallHidden /\ Findings!SilenceIsTold /\ Findings!CountsNeedABase
  /\ screen = "behavior" =>
       /\ Behavior!TypeOK /\ Behavior!EventsAddUp /\ Behavior!SessionsAreApart
       /\ Behavior!VisitsAreReadable /\ Behavior!EndReadsLater
  /\ screen = "cut" => Cut!TypeOK /\ Cut!LeftOutIsTold

(* Google is asked for nothing nobody waits for, nor again before the      *)
(* moment it has named, nor after it has refused; a grant is not called    *)
(* expired before its time; a warning of coverage stays.                   *)
AsksWithCare ==
  [][/\ screen = "token" => Token!LastsItsTime
     /\ screen = "request" => Request!SilentAfterAbort /\ Request!Patient /\ Request!RefusalIsFinal
     /\ screen = "realtime" => Realtime!SilentAfterAbort
     /\ screen = "timeline" => Timeline!WarningsStay]_vars

(* Whatever is waited for ends: a grant, a call of connect, a request that *)
(* may have been abandoned, a dashboard, a panel and a list that load, and *)
(* a grant that Google has refused.                                        *)
WaitsEnd ==
  /\ (\/ screen = "token" /\ Token!TokenIsHeld
      \/ screen = "dashboard" /\ Dashboard!Loading
      \/ screen = "request" /\ ~Request!Ended
      \/ screen = "panel" /\ Panel!isPending
      \/ screen = "history" /\ History!isPending)
     ~> (/\ screen = "token" => ~Token!TokenIsHeld
         /\ screen = "dashboard" => ~Dashboard!Loading
         /\ screen = "request" => Request!Ended
         /\ screen = "panel" => ~Panel!isPending
         /\ screen = "history" => ~History!isPending)
  /\ \A v \in 1..3 :
       (\/ screen = "token" /\ Token!Connecting(v)
        \/ screen = "panel" /\ v = 1 /\ Panel!refused)
         ~> (/\ screen = "token" => ~Token!Connecting(v)
             /\ (screen = "panel" /\ v = 1) => ~Panel!connected)
=============================================================================
