---------------------------- MODULE UserTimeline ----------------------------
(***************************************************************************)
(* The activity of one user as the server recorded it, newest first        *)
(* (src/src/features/users/UserFlowTimeline.tsx, use-user-timeline-query,  *)
(* user-timeline-model.ts): filtered by categories and a period, page by   *)
(* page, grouped by day.  Every filter has its own pages in the cache, and *)
(* a request goes on when another filter is looked at.                     *)
(***************************************************************************)
EXTENDS Integers, FiniteSets, Sequences, SequencesExt

CONSTANTS Rows,        \* the rows there will be, newest first: day; category,
                       \* which the server names; listed, the category this
                       \* code lists its kind under, or NULL; recent (in the
                       \* period of 28 days)
          Categories,
          Unread,      \* the day of a row whose time cannot be read
          Limit,       \* rows of a page
          MaxSteps, MaxFaults, \* bounds: controls touched, requests that fail
          NULL

VARIABLES
  newest,     \* the newest row that has happened
  filter,     \* the categories and the period that are chosen
  cache,      \* the pages of each filter
  fetch,      \* the request of each filter that runs: its mode and the pages
              \* it has read so far; or NULL
  failed,     \* the filters whose last request failed, and its mode
  steps, faults

vars == <<newest, filter, cache, fetch, failed, steps, faults>>

Filter == [categories : SUBSET Categories, period : {"28d", "all"}]
Ids == DOMAIN Rows
Warnings == {"retained from a later day"}
Page == [items : Seq(Ids), next : Ids \cup {NULL}, coverage : SUBSET Warnings]

TypeOK ==
  /\ newest \in Ids /\ filter \in Filter /\ steps \in 0..MaxSteps /\ faults \in 0..MaxFaults
  /\ cache \in [Filter -> Seq(Page)]
  /\ \A f \in Filter : fetch[f] = NULL \/ fetch[f] \in [mode : {"all", "next"}, pages : Seq(Page)]
  /\ failed \in [Filter -> {NULL, "all", "next"}]
  /\ \A f \in Filter : Len(cache[f]) > 0 => \A i \in 1..(Len(cache[f]) - 1) : cache[f][i].next # NULL

-----------------------------------------------------------------------------
(* The server (external).                                                  *)

(* Mutant: the categories are not sent. *)
kindsSendAll(f) == [f EXCEPT !.categories = {}]

(* The kinds of the categories and the start of the period are sent.       *)
kindsForCategories(f) == f

InPeriod(f, i) == f.period = "all" \/ Rows[i].recent

(* A row the server sends for a filter: kinds select kinds, so those that  *)
(* are not listed are sent without them only.                              *)
Sends(f, i) ==
  InPeriod(f, i) /\ (f.categories = {} \/ Rows[i].listed \in f.categories)

(* The page after a row, or the first; a warning of coverage may come      *)
(* with any page.                                                          *)
Answer(f, after, coverage) ==
  LET rest == SetToSortSeq({i \in newest..Len(Rows) : Sends(kindsForCategories(f), i) /\ (after = NULL \/ i > after)}, <) IN
  IF Len(rest) > Limit
  THEN [items |-> SubSeq(rest, 1, Limit), next |-> rest[Limit], coverage |-> coverage]
  ELSE [items |-> rest, next |-> NULL, coverage |-> coverage]

-----------------------------------------------------------------------------
(* What is on screen.                                                      *)
pages == cache[filter]
items == FlattenSeq([n \in DOMAIN pages |-> pages[n].items])
isPending == pages = <<>> /\ failed[filter] = NULL

(* Mutant: there is always more. *)
hasNextPageAlways == pages # <<>>

hasNextPage == pages # <<>> /\ Last(pages).next # NULL

(* Mutant: the warnings of the latest page only. *)
mergeLatest(ps) == Last(ps).coverage

mergeTimelineCoverage(ps) == UNION {ps[n].coverage : n \in DOMAIN ps}

coverage == IF pages = <<>> THEN {} ELSE mergeTimelineCoverage(pages)

filterTimelineItems(s) ==
  SelectSeq(s, LAMBDA i : \/ filter.categories = {}
                          \/ {Rows[i].category, Rows[i].listed} \cap filter.categories # {})

visibleItems == filterTimelineItems(items)

(* Mutant: a row is put to the last group or starts one. *)
groupWithLast(groups, i) ==
  IF groups # <<>> /\ Last(groups).day = Rows[i].day
  THEN [groups EXCEPT ![Len(groups)].items = Append(@, i)]
  ELSE Append(groups, [day |-> Rows[i].day, items |-> <<i>>])

(* A row is put to the group of its day, the latest or not.                *)
group(groups, i) ==
  IF \E n \in DOMAIN groups : groups[n].day = Rows[i].day
  THEN [n \in DOMAIN groups |->
          IF groups[n].day = Rows[i].day THEN [groups[n] EXCEPT !.items = Append(@, i)] ELSE groups[n]]
  ELSE Append(groups, [day |-> Rows[i].day, items |-> <<i>>])

groupTimelineByDay == FoldLeft(group, <<>>, visibleItems)

-----------------------------------------------------------------------------
Steps == steps < MaxSteps /\ steps' = steps + 1

(* Mutant: a filter that failed is not asked for again. *)
ObserveOnce(f) ==
  /\ filter' = f
  /\ fetch' = IF cache[f] = <<>> /\ fetch[f] = NULL /\ failed[f] = NULL
              THEN [fetch EXCEPT ![f] = [mode |-> "all", pages |-> <<>>]] ELSE fetch
  /\ failed' = [failed EXCEPT ![f] = NULL]

(* Another filter: its pages are asked for if there are none.  (Pages that *)
(* are stale are read again, too: refetch.)                                *)
Observe(f) ==
  /\ filter' = f
  /\ fetch' = IF cache[f] = <<>> /\ fetch[f] = NULL
              THEN [fetch EXCEPT ![f] = [mode |-> "all", pages |-> <<>>]] ELSE fetch
  /\ failed' = IF cache[f] = <<>> THEN [failed EXCEPT ![f] = NULL] ELSE failed

toggleCategory(c) ==
  /\ Steps
  /\ Observe([filter EXCEPT !.categories = IF c \in @ THEN @ \ {c} ELSE @ \cup {c}])
  /\ UNCHANGED <<newest, cache, faults>>

setPeriod(period) ==
  /\ Steps /\ period # filter.period
  /\ Observe([filter EXCEPT !.period = period]) /\ UNCHANGED <<newest, cache, faults>>

(* Refreshing, or trying again: all pages are read again, one after the    *)
(* other.                                                                  *)
refetch ==
  /\ Steps /\ fetch[filter] = NULL
  /\ fetch' = [fetch EXCEPT ![filter] = [mode |-> "all", pages |-> <<>>]]
  /\ failed' = IF pages = <<>> THEN [failed EXCEPT ![filter] = NULL] ELSE failed
  /\ UNCHANGED <<newest, filter, cache, faults>>

(* The next page; a refresh that runs is given up for it.                  *)
loadNextPage ==
  /\ Steps /\ hasNextPage /\ (fetch[filter] # NULL => fetch[filter].mode = "all")
  /\ fetch' = [fetch EXCEPT ![filter] = [mode |-> "next", pages |-> <<>>]]
  /\ UNCHANGED <<newest, filter, cache, failed, faults>>

(* Mutant: the next page is asked for after as many rows as there are. *)
cursorByCount(f) == newest + Len(FlattenSeq([n \in DOMAIN cache[f] |-> cache[f][n].items])) - 1

cursor(f) == Last(cache[f]).next

NextPageAnswered(f) ==
  /\ fetch[f] # NULL /\ fetch[f].mode = "next"
  /\ \E c \in SUBSET Warnings : cache' = [cache EXCEPT ![f] = Append(@, Answer(f, cursor(f), c))]
  /\ fetch' = [fetch EXCEPT ![f] = NULL] /\ failed' = [failed EXCEPT ![f] = NULL]
  /\ UNCHANGED <<newest, filter, steps, faults>>

(* Mutant: a refresh reads the pages after the rows that were last before. *)
refetchCursorOld(f, read) == IF read = <<>> THEN NULL ELSE cache[f][Len(read)].next

refetchCursor(f, read) == IF read = <<>> THEN NULL ELSE Last(read).next

(* A page of a refresh: as many are read as there were, unless the rows    *)
(* end before.                                                             *)
PageAnswered(f) ==
  /\ fetch[f] # NULL /\ fetch[f].mode = "all"
  /\ \E c \in SUBSET Warnings :
       LET read == Append(fetch[f].pages, Answer(f, refetchCursor(f, fetch[f].pages), c)) IN
       IF Len(read) < Len(cache[f]) /\ Last(read).next # NULL
       THEN fetch' = [fetch EXCEPT ![f].pages = read] /\ UNCHANGED <<cache, failed>>
       ELSE /\ cache' = [cache EXCEPT ![f] = read]
            /\ fetch' = [fetch EXCEPT ![f] = NULL] /\ failed' = [failed EXCEPT ![f] = NULL]
  /\ UNCHANGED <<newest, filter, steps, faults>>

(* A request fails: the pages that were there stay.                        *)
Fails(f) ==
  /\ fetch[f] # NULL /\ faults < MaxFaults /\ faults' = faults + 1
  /\ fetch' = [fetch EXCEPT ![f] = NULL] /\ failed' = [failed EXCEPT ![f] = fetch[f].mode]
  /\ UNCHANGED <<newest, filter, cache, steps>>

(* The user does something.                                                *)
Happens ==
  /\ newest > 1 /\ newest' = newest - 1
  /\ UNCHANGED <<filter, cache, fetch, failed, steps, faults>>

Init ==
  /\ newest = 2 /\ filter = [categories |-> {}, period |-> "28d"]
  /\ cache = [f \in Filter |-> <<>>] /\ failed = [f \in Filter |-> NULL]
  /\ fetch = [f \in Filter |-> IF f = filter THEN [mode |-> "all", pages |-> <<>>] ELSE NULL]
  /\ steps = 0 /\ faults = 0

Next ==
  \/ \E c \in Categories : toggleCategory(c)
  \/ \E period \in {"28d", "all"} : setPeriod(period)
  \/ refetch \/ loadNextPage \/ Happens
  \/ \E f \in Filter : NextPageAnswered(f) \/ PageAnswered(f) \/ Fails(f)

Spec == Init /\ [][Next]_vars

-----------------------------------------------------------------------------
(* However pages were read, read again and appended while rows came in,    *)
(* the list has every row once, newest first, and between the first and    *)
(* the last of them none is missing that the server was asked for          *)
(* (use-user-timeline-query.ts:34).  While a category is chosen, rows of   *)
(* its that are of a kind not listed under it are not asked for: see       *)
(* UnlistedKindIsShown.                                                    *)
NoHoles ==
  /\ \A m, n \in DOMAIN items : m < n => items[m] < items[n]
  /\ items # <<>> =>
       \A i \in Ids : (Sends(filter, i) /\ i > items[1] /\ i < Last(items)) => \E n \in DOMAIN items : items[n] = i

(* "Nothing matches the filter" is not said of pages the server has not    *)
(* been asked for: an empty list is empty at the server, at the moment of  *)
(* its answer, of the kinds that were asked for.                           *)
EmptyIsTrue ==
  (~isPending /\ failed[filter] = NULL /\ visibleItems = <<>>) =>
     \A i \in 2..Len(Rows) : ~Sends(filter, i)

(* Every day has one section, which names its rows in their order          *)
(* (user-timeline-model.ts:302).                                           *)
OneSectionPerDay ==
  LET groups == groupTimelineByDay IN
  /\ \A m, n \in DOMAIN groups : m # n => groups[m].day # groups[n].day
  /\ \A n \in DOMAIN groups : groups[n].items = SelectSeq(visibleItems, LAMBDA i : Rows[i].day = groups[n].day)

(* What the code says of its filter: what is shown is decided by the       *)
(* category the server gives a row, so that a row of a kind this code does *)
(* not list is never hidden (user-timeline-model.ts:41).  The list ends,   *)
(* and a row of the chosen category that is not listed is in it.           *)
(* It fails: the kinds of the category are sent to the server.             *)
UnlistedKindIsShown ==
  (pages # <<>> /\ ~hasNextPage) =>
     \A i \in 2..Len(Rows) :
       (/\ Rows[i].listed = NULL /\ InPeriod(filter, i)
        /\ filter.categories = {} \/ Rows[i].category \in filter.categories)
         => \E n \in DOMAIN visibleItems : visibleItems[n] = i

(* A warning about the window stays on screen while more of the window is  *)
(* read (UserFlowTimeline.tsx:31).                                         *)
WarningsStay ==
  (filter' = filter /\ Len(pages') > Len(pages)) => coverage \subseteq coverage'

=============================================================================
