------------------------- MODULE AnalyticsDashboard -------------------------
(***************************************************************************)
(* The Google Analytics screen of a super administrator                    *)
(* (src/src/features/analytics/AnalyticsDashboard.tsx): the property, the  *)
(* report, the range and the filters that are chosen, the report that is   *)
(* on screen meanwhile, the reading of the quota beside it and the reports *)
(* that a refused quota closes.  Reports are cached by all the choices;    *)
(* one that is no longer looked at is aborted.  A grant is a generation    *)
(* (AnalyticsToken); numbers of a report are left out.                     *)
(***************************************************************************)
EXTENDS Integers, FiniteSets

CONSTANTS Properties,    \* the configured GA4 properties
          Mixed,         \* those with more than one platform
          Registered,    \* those that have the dimension account_type
          First,         \* the first of the configuration
          MaxChoices, MaxGrants, MaxPolls, \* bounds: controls touched, grants,
          NULL                             \* reports asked for again

VARIABLES
  token,     \* generation, and whether it is connected
  chosen,    \* property, view, range, platforms, accountType, variant
  quota,     \* latestQuota: the report it was read from, or NULL
  exhausted, \* exhaustedPools
  caps,      \* the capabilities of each property
  cache,     \* the reports in the query cache
  failed,    \* the reports whose last request failed, and how
  fetching,  \* is the report on screen being requested
  last,      \* the report the mounted view showed last, or NULL
  refusals,  \* every pool Google has refused, and for which property
  choices, polls

vars == <<token, chosen, quota, exhausted, caps, cache, failed, fetching, last, refusals, choices, polls>>
queryVars == <<quota, exhausted, cache, failed, fetching, last>>

Views == {"overview", "funnel", "realtime"}
Ranges == {"7d", "28d"}
VIEW_POOLS == [overview |-> "core", funnel |-> "funnel", realtime |-> "realtime"]
Choice == [property : Properties, view : Views, range : Ranges, platforms : BOOLEAN,
           accountType : {"all", "consumer"}, variant : BOOLEAN]

TypeOK ==
  /\ token \in [generation : 0..MaxGrants, connected : BOOLEAN]
  /\ chosen \in Choice /\ quota \in Choice \cup {NULL}
  /\ exhausted \subseteq {VIEW_POOLS[v] : v \in Views}
  /\ caps \in [Properties -> {"pending", "available", "unavailable", "unknown"}]
  /\ cache \subseteq Choice /\ failed \subseteq [key : Choice, kind : {"quota", "other"}]
  /\ fetching \in BOOLEAN /\ (fetching => token.connected)
  /\ last \in Choice \cup {NULL} /\ choices \in 0..MaxChoices /\ polls \in 0..MaxPolls

-----------------------------------------------------------------------------
(* What is on screen.                                                      *)

(* The key of a report: the preset of the funnel counts in the funnel only. *)
report(c) == [c EXCEPT !.variant = (c.view = "funnel") /\ @]
Key == report(chosen)

(* Mutant: one view serves every range. *)
SameViewAnyRange(a, b) == a.property = b.property /\ a.view = b.view

(* The React key of the view: other filters are the same view.             *)
SameView(a, b) == a.property = b.property /\ a.view = b.view /\ a.range = b.range

isError(k) == \E f \in failed : f.key = k
isPending == Key \notin cache /\ ~isError(Key)
isPlaceholderData == isPending /\ last # NULL

Shown == IF isError(Key) THEN NULL ELSE IF Key \in cache THEN Key ELSE last

(* Tabs of a refused pool are closed.                                      *)
available(view) == view = chosen.view \/ VIEW_POOLS[view] \notin exhausted

-----------------------------------------------------------------------------
(* Mutant: a view that still has a report to show asks for no other. *)
ObserveLazily(c, q, pools) ==
  LET k == report(c) IN
  /\ chosen' = c
  /\ fetching' = (k \notin cache /\ (last = NULL \/ ~SameView(c, chosen)))
  /\ failed' = {f \in failed : f.key # k \/ k \in cache}
  /\ quota' = IF k \in cache THEN k ELSE q
  /\ exhausted' = pools
  /\ last' = IF k \in cache THEN k ELSE IF SameView(c, chosen) THEN last ELSE NULL

(* The screen looks at the report of the choice c, with q and pools as the *)
(* reading and the closed pools.  A report in the cache is shown, and      *)
(* asked for again when it is stale; its quota is read, and an earlier     *)
(* refusal seen again.                                                     *)
Observe(c, q, pools) ==
  LET k == report(c) IN
  /\ chosen' = c
  /\ fetching' \in (IF k \in cache THEN BOOLEAN ELSE {TRUE})
  /\ failed' = {f \in failed : f.key # k \/ k \in cache}
  /\ quota' = IF k \in cache THEN k ELSE q
  /\ exhausted' = pools \cup {VIEW_POOLS[k.view] : f \in {g \in failed' : g.key = k /\ g.kind = "quota"}}
  /\ last' = IF k \in cache THEN k ELSE IF SameView(c, chosen) THEN last ELSE NULL

Chooses == token.connected /\ choices < MaxChoices /\ choices' = choices + 1

(* Mutant: another property keeps the filters. *)
selectPropertyKeeps(p) ==
  /\ Chooses /\ p # chosen.property
  /\ Observe([chosen EXCEPT !.property = p, !.variant = FALSE], NULL, {})
  /\ caps' = [caps EXCEPT ![p] = IF @ = "unknown" THEN "pending" ELSE @]
  /\ UNCHANGED <<token, cache, refusals, polls>>

(* Mutant: another property keeps the closed tabs. *)
selectPropertyClosed(p) ==
  /\ Chooses /\ p # chosen.property
  /\ Observe([chosen EXCEPT !.property = p, !.platforms = FALSE, !.accountType = "all",
                            !.variant = FALSE], NULL, exhausted)
  /\ caps' = [caps EXCEPT ![p] = IF @ = "unknown" THEN "pending" ELSE @]
  /\ UNCHANGED <<token, cache, refusals, polls>>

(* Another property: filters, preset, reading and closed pools start anew. *)
selectProperty(p) ==
  /\ Chooses /\ p # chosen.property
  /\ Observe([chosen EXCEPT !.property = p, !.platforms = FALSE, !.accountType = "all",
                            !.variant = FALSE], NULL, {})
  /\ caps' = [caps EXCEPT ![p] = IF @ = "unknown" THEN "pending" ELSE @]
  /\ UNCHANGED <<token, cache, refusals, polls>>

(* Mutant: the reading of the report before stays. *)
selectViewReading(view) ==
  /\ Chooses /\ view # chosen.view /\ available(view)
  /\ Observe([chosen EXCEPT !.view = view], quota, exhausted)
  /\ UNCHANGED <<token, caps, cache, refusals, polls>>

selectView(view) ==
  /\ Chooses /\ view # chosen.view /\ available(view)
  /\ Observe([chosen EXCEPT !.view = view], NULL, exhausted)
  /\ UNCHANGED <<token, caps, cache, refusals, polls>>

setRange(range) ==
  /\ Chooses /\ range # chosen.range /\ chosen.view # "realtime"
  /\ Observe([chosen EXCEPT !.range = range], quota, exhausted)
  /\ UNCHANGED <<token, caps, cache, refusals, polls>>

(* The filter bar, which does not serve the realtime report: the platforms *)
(* of a mixed property, the account type where the property is known to    *)
(* have it, both cleared.                                                  *)
setFilters ==
  /\ Chooses /\ chosen.view # "realtime"
  /\ \/ chosen.property \in Mixed
        /\ Observe([chosen EXCEPT !.platforms = ~@], quota, exhausted)
     \/ caps[chosen.property] = "available"
        /\ Observe([chosen EXCEPT !.accountType = IF @ = "all" THEN "consumer" ELSE "all"],
                   quota, exhausted)
     \/ (chosen.platforms \/ chosen.accountType # "all")
        /\ Observe([chosen EXCEPT !.platforms = FALSE, !.accountType = "all"], quota, exhausted)
  /\ UNCHANGED <<token, caps, cache, refusals, polls>>

(* The preset and the breakdown of the funnel.                             *)
setFunnel ==
  /\ Chooses /\ Shown # NULL /\ chosen.view = "funnel"
  /\ Observe([chosen EXCEPT !.variant = ~@], quota, exhausted)
  /\ UNCHANGED <<token, caps, cache, refusals, polls>>

(* Mutant: the polling outlives the connection. *)
RefetchAnyway ==
  /\ ~fetching /\ (chosen.view = "realtime" \/ isError(Key))
  /\ polls < MaxPolls /\ polls' = polls + 1 /\ fetching' = TRUE
  /\ failed' = {f \in failed : f.key # Key \/ Key \in cache}
  /\ UNCHANGED <<token, chosen, quota, exhausted, caps, cache, last, refusals, choices>>

(* The realtime report asks again by itself, a failed one when it is told. *)
Refetch ==
  /\ token.connected /\ ~fetching /\ (chosen.view = "realtime" \/ isError(Key))
  /\ polls < MaxPolls /\ polls' = polls + 1 /\ fetching' = TRUE
  /\ failed' = {f \in failed : f.key # Key \/ Key \in cache}
  /\ UNCHANGED <<token, chosen, quota, exhausted, caps, cache, last, refusals, choices>>

-----------------------------------------------------------------------------
(* What Google answers.                                                    *)
fetchAnalyticsReport ==
  /\ fetching /\ fetching' = FALSE
  /\ cache' = cache \cup {Key} /\ failed' = {f \in failed : f.key # Key}
  /\ quota' = Key /\ last' = Key
  /\ UNCHANGED <<token, chosen, exhausted, caps, refusals, choices, polls>>

(* A quota that is used up closes the pool of the report.                  *)
handleQuotaError ==
  /\ fetching /\ fetching' = FALSE
  /\ failed' = {f \in failed : f.key # Key} \cup {[key |-> Key, kind |-> "quota"]}
  /\ exhausted' = exhausted \cup {VIEW_POOLS[chosen.view]}
  /\ refusals' = refusals \cup {<<chosen.property, VIEW_POOLS[chosen.view]>>}
  /\ UNCHANGED <<token, chosen, quota, caps, cache, last, choices, polls>>

ReportFails ==
  /\ fetching /\ fetching' = FALSE
  /\ failed' = {f \in failed : f.key # Key} \cup {[key |-> Key, kind |-> "other"]}
  /\ UNCHANGED <<token, chosen, quota, exhausted, caps, cache, last, refusals, choices, polls>>

(* The capabilities are read once per property and grant; a failed read    *)
(* only leaves the account type closed.                                    *)
fetchAnalyticsCapabilities ==
  /\ token.connected /\ caps[chosen.property] = "pending"
  /\ \E answer \in {IF chosen.property \in Registered THEN "available" ELSE "unavailable", "unknown"} :
       caps' = [caps EXCEPT ![chosen.property] = answer]
  /\ UNCHANGED <<token, chosen, queryVars, refusals, choices, polls>>

(* The cache forgets a report nobody has looked at for its stale time.     *)
CacheForgets ==
  /\ \E k \in cache \ {Key} : cache' = cache \ {k} /\ failed' = {f \in failed : f.key # k}
  /\ UNCHANGED <<token, chosen, quota, exhausted, caps, fetching, last, refusals, choices, polls>>

(* The grant ends: refused by Google, too old, or given back.  The screen  *)
(* becomes the offer to connect and the cache is emptied; the choices, the *)
(* reading and the closed pools stay.                                      *)
Disconnect ==
  /\ token.connected /\ token' = [token EXCEPT !.connected = FALSE]
  /\ cache' = {} /\ failed' = {} /\ fetching' = FALSE /\ last' = NULL
  /\ caps' = [p \in Properties |-> "pending"]
  /\ UNCHANGED <<chosen, quota, exhausted, refusals, choices, polls>>

Connect ==
  /\ ~token.connected /\ token.generation < MaxGrants
  /\ token' = [generation |-> token.generation + 1, connected |-> TRUE]
  /\ fetching' = TRUE
  /\ UNCHANGED <<chosen, quota, exhausted, caps, cache, failed, last, refusals, choices, polls>>

Init ==
  /\ token = [generation |-> 0, connected |-> FALSE]
  /\ chosen = [property |-> First, view |-> "overview", range |-> "28d", platforms |-> FALSE,
               accountType |-> "all", variant |-> FALSE]
  /\ quota = NULL /\ exhausted = {} /\ caps = [p \in Properties |-> "pending"]
  /\ cache = {} /\ failed = {} /\ fetching = FALSE /\ last = NULL /\ refusals = {}
  /\ choices = 0 /\ polls = 0

Answer == fetchAnalyticsReport \/ handleQuotaError \/ ReportFails

Next ==
  \/ (\E p \in Properties : selectProperty(p)) \/ (\E v \in Views : selectView(v))
  \/ (\E r \in Ranges : setRange(r)) \/ setFilters \/ setFunnel \/ Refetch
  \/ Answer \/ fetchAnalyticsCapabilities \/ CacheForgets \/ Disconnect \/ Connect

Spec == Init /\ [][Next]_vars

-----------------------------------------------------------------------------
(* What is on screen belongs to the property, the report and the range the *)
(* controls name, also while other filters load                            *)
(* (AnalyticsDashboard.tsx:412, 515).                                      *)
ShownIsChosen ==
  token.connected /\ Shown # NULL =>
    Shown.property = chosen.property /\ Shown.view = chosen.view /\ Shown.range = chosen.range

(* The banner speaks of the pool the open report spends, of this property  *)
(* (AnalyticsDashboard.tsx:203, 222).                                      *)
BannerIsOfItsPool ==
  quota # NULL => /\ quota.property = chosen.property
                  /\ VIEW_POOLS[quota.view] = VIEW_POOLS[chosen.view]

(* A report is closed only after Google has refused its pool for the very  *)
(* property on screen (AnalyticsDashboard.tsx:528).                        *)
ClosedByRefusal == \A pool \in exhausted : <<chosen.property, pool>> \in refusals

(* No report is asked for with a filter its property cannot serve: neither *)
(* a platform where there is one only nor a dimension it does not have     *)
(* (analytics-filters.ts:8, 96).                                           *)
FiltersFit ==
  /\ chosen.platforms => chosen.property \in Mixed
  /\ chosen.accountType # "all" => chosen.property \in Registered

(* An operator waits, for a report or an error to retry from.              *)
Loading == token.connected /\ isPending

=============================================================================
