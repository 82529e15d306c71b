----------------------------- MODULE PartyList -----------------------------
(***************************************************************************)
(* The party list of a business                                            *)
(* (src/src/app/(auth-v2)/app/_components/BusinessPartyListPanel.tsx): one *)
(* page is shown at a time, from lists that are read page by page, one     *)
(* list per lifecycle.  Two tabs share the list of open parties, whose     *)
(* pages are then searched for rows of the tab.  With it, where the focus  *)
(* goes (src/src/hooks/use-cursor-append-focus.ts in its page mode).       *)
(*                                                                         *)
(* The queries are external: a list goes on being read when its tab is     *)
(* left; what an awaited fetchNextPage gives is the result of the list     *)
(* that is observed when the page comes.                                   *)
(***************************************************************************)
EXTENDS Integers, Sequences, FiniteSetsExt

CONSTANTS Tabs,     \* the tabs the operator uses
          MaxPages, \* bound: pages of a list
          AUTO_OPEN_SCAN_PAGE_LIMIT,
          MaxMoves, \* bound: presses of a button
          MaxFaults, \* bound: failed requests
          NULL

VARIABLES
  book,   \* the server's lists: for each lifecycle its pages, each the set of
          \* tabs it has rows of
  tab,    \* the tab that is pressed
  lists,  \* the queries: the pages read, what is under way, what failed
  index,  \* pageIndexByScope: the page asked for on each tab, or NULL
  asks,   \* for each list, who awaits its next page: a tab and the page it was on
  focus,  \* what has the focus, or NULL: nothing
  handoff, \* the hook's pending: the view it was noted on, or NULL
  moves, faults

vars == <<book, tab, lists, index, asks, focus, handoff, moves, faults>>

operatorLifecycleForTab(t) ==
  CASE t = "ALL" -> "ALL"
    [] t = "WAITING" -> "PENDING"
    [] t \in {"RECRUITING", "IN_PROGRESS"} -> "OPEN"
    [] t = "ENDED" -> "CLOSED"
Lifecycles == {operatorLifecycleForTab(t) : t \in Tabs}
lifecycle == operatorLifecycleForTab(tab)

(* The tabs a party of the list can belong to.                             *)
Held(l) == CASE l = "ALL" -> {"RECRUITING", "IN_PROGRESS"} \cup (Tabs \ {"ALL"})
             [] l = "OPEN" -> {"RECRUITING", "IN_PROGRESS"}
             [] l = "PENDING" -> {"WAITING"}
             [] l = "CLOSED" -> {"ENDED"}

partyRowsForTab(page, t) == IF t = "ALL" THEN page ELSE page \cap {t}

-----------------------------------------------------------------------------
(* What the render reads.                                                  *)

query == lists[lifecycle]

(* Mutant: there is always one more. *)
hasOneMore == query.pages > 0 /\ query.pages <= Len(book[lifecycle])

hasMore == query.pages > 0 /\ query.pages < Len(book[lifecycle])

isFetchingNextPage == query.fetch = "next"
isLoading == query.pages = 0 /\ query.fetch # NULL
isNextPageError == query.error = "next"
isError == query.error # NULL /\ \A k \in 1..query.pages : book[lifecycle][k] = {}

matchingOperatorPages(t, pages) ==
  {k \in 1..pages : partyRowsForTab(book[operatorLifecycleForTab(t)][k], t) # {}}
matching == matchingOperatorPages(tab, query.pages)

currentPage ==
  IF index[tab] # NULL /\ index[tab] \in matching THEN index[tab]
  ELSE IF matching = {} THEN 1 ELSE Min(matching)
before == {k \in matching : k < currentPage}
after == IF matching = {} THEN {} ELSE {k \in matching : k > currentPage}

(* Mutant: only what is loaded. *)
hasLoadedNextPage == after # {}

hasNextPage == after # {} \/ hasMore

isDetailedSearchPaused ==
  /\ lifecycle = "OPEN" /\ matching = {} /\ hasMore /\ ~isFetchingNextPage
  /\ query.pages >= AUTO_OPEN_SCAN_PAGE_LIMIT

(* What the operator sees.                                                 *)
Ready == ~isLoading /\ ~isError
Empty == Ready /\ matching = {} /\ ~isFetchingNextPage /\ ~isDetailedSearchPaused
         /\ ~hasNextPage
RetryShown == Ready /\ isNextPageError
MoreShown == Ready /\ ~isNextPageError /\ hasNextPage
PreviousShown == Ready /\ before # {}
view == [tab |-> tab, page |-> currentPage, rows |-> matching # {}]

TypeOK ==
  /\ tab \in Tabs /\ DOMAIN lists = Lifecycles
  /\ \A l \in Lifecycles : /\ lists[l].pages \in 0..Len(book[l])
                           /\ lists[l].fetch \in {NULL, "all", "next"}
                           /\ lists[l].error \in {NULL, "all", "next"}
                           /\ lists[l].fetch = "next" => lists[l].pages < Len(book[l])
                           /\ asks[l] # NULL => lists[l].fetch = "next"
  /\ index \in [Tabs -> 1..MaxPages \cup {NULL}]
  /\ focus \in {"more", "previous", "retry", "item", "fallback", "tab", NULL}
  /\ moves \in 0..MaxMoves /\ faults \in 0..MaxFaults

-----------------------------------------------------------------------------
(* The focus after a render.                                               *)

(* An element that leaves the page takes the focus with it.                *)
Remains ==
  CASE focus = "more" -> MoreShown'
    [] focus = "previous" -> PreviousShown'
    [] focus = "retry" -> RetryShown'
    [] focus = "item" -> view' = view /\ Ready'
    [] focus = "fallback" -> Empty'
    [] OTHER -> TRUE
Kept == IF Remains THEN focus ELSE NULL
FirstItem == IF Ready' /\ matching' # {} THEN "item" ELSE IF Empty' THEN "fallback" ELSE Kept

(* Mutant: only an appended item is looked for, as in the append mode. *)
EffectAppend ==
  IF handoff = NULL THEN focus' = Kept /\ handoff' = NULL
  ELSE IF handoff.tab # tab' THEN focus' = Kept /\ handoff' = NULL
  ELSE IF isNextPageError' THEN focus' = (IF RetryShown' THEN "retry" ELSE Kept)
                                /\ UNCHANGED handoff
  ELSE IF isFetchingNextPage' \/ hasNextPage' THEN focus' = Kept /\ UNCHANGED handoff
  ELSE focus' = FirstItem /\ handoff' = NULL

(* The hook's effect, after every render of a change.                      *)
Effect ==
  IF handoff = NULL THEN focus' = Kept /\ handoff' = NULL
  ELSE IF handoff.tab # tab' THEN focus' = Kept /\ handoff' = NULL
  ELSE IF isNextPageError' THEN focus' = (IF RetryShown' THEN "retry" ELSE Kept)
                                /\ UNCHANGED handoff
  ELSE IF isFetchingNextPage' THEN focus' = Kept /\ UNCHANGED handoff
  ELSE IF handoff # view' \/ ~hasNextPage' THEN focus' = FirstItem /\ handoff' = NULL
  ELSE focus' = Kept /\ UNCHANGED handoff

(* A press of a button: it has the focus, the hook notes the view, and the *)
(* render that follows runs the effect.                                    *)
EffectOf(button) ==
  IF isNextPageError' THEN /\ focus' = (IF RetryShown' THEN "retry" ELSE NULL)
                           /\ handoff' = view
  ELSE IF view' # view THEN focus' = FirstItem /\ handoff' = NULL
  ELSE focus' = button /\ handoff' = view

-----------------------------------------------------------------------------
(* A tab is pressed: its list is read when it has not been, and again when *)
(* it has gone stale (15 s).  A list with a read under way keeps it.       *)
setTab(t) ==
  /\ moves < MaxMoves /\ moves' = moves + 1 /\ t # tab /\ tab' = t
  /\ LET l == operatorLifecycleForTab(t)
         q == lists[l]
     IN \/ q.fetch = NULL /\ l # lifecycle
           /\ lists' = [lists EXCEPT ![l] = [q EXCEPT !.fetch = "all",
                                               !.error = IF q.pages = 0 THEN NULL
                                                         ELSE IF q.error = NULL THEN NULL ELSE "all"]]
        \/ (q.pages > 0 \/ l = lifecycle \/ q.fetch # NULL) /\ UNCHANGED lists
  /\ focus' = "tab" /\ handoff' = NULL
  /\ UNCHANGED <<book, index, asks, faults>>

(* Mutant: the newest page that is loaded. *)
showNewest(k) == index' = [index EXCEPT ![tab] = Max(after)]

(* The next page of the tab that is loaded.                                *)
showOperatorPage(k) == index' = [index EXCEPT ![tab] = k]

(* "More", or the retry of a page that failed.  A page that is loaded is   *)
(* shown; otherwise one is read.                                           *)
loadMore ==
  /\ moves < MaxMoves /\ moves' = moves + 1
  /\ (MoreShown \/ RetryShown) /\ ~isFetchingNextPage
  /\ IF after # {} THEN showOperatorPage(Min(after)) /\ UNCHANGED <<lists, asks>>
     ELSE IF hasMore
     THEN /\ lists' = [lists EXCEPT ![lifecycle] = [query EXCEPT !.fetch = "next",
                         !.error = IF query.error = NULL THEN NULL ELSE "next"]]
          /\ asks' = [asks EXCEPT ![lifecycle] = [tab |-> tab, from |-> currentPage]]
          /\ UNCHANGED index
     ELSE UNCHANGED <<lists, asks, index>>
  /\ UNCHANGED <<book, tab, faults>>
  /\ EffectOf(IF isNextPageError THEN "retry" ELSE "more")

showPreviousPage ==
  /\ moves < MaxMoves /\ moves' = moves + 1
  /\ PreviousShown /\ ~isFetchingNextPage
  /\ index' = [index EXCEPT ![tab] = Max(before)]
  /\ UNCHANGED <<book, tab, lists, asks, faults>>
  /\ EffectOf("previous")

(* The first read failed: it can be tried again.                           *)
Retry ==
  /\ isError /\ query.fetch = NULL /\ moves < MaxMoves /\ moves' = moves + 1
  /\ lists' = [lists EXCEPT ![lifecycle] = [query EXCEPT !.fetch = "all",
                 !.error = IF query.pages = 0 THEN NULL ELSE "all"]]
  /\ UNCHANGED <<book, tab, index, asks, faults>>
  /\ Effect

(* Mutant: the search stops one page short of where it says it has. *)
scanShort ==
  /\ lifecycle = "OPEN" /\ ~isLoading /\ query.error = NULL /\ matching = {}
  /\ query.pages < AUTO_OPEN_SCAN_PAGE_LIMIT - 1 /\ hasMore /\ ~isFetchingNextPage

(* The search of the open parties asks for itself, up to its limit.        *)
needsDetailedOpenScan ==
  /\ lifecycle = "OPEN" /\ ~isLoading /\ query.error = NULL /\ matching = {}
  /\ query.pages < AUTO_OPEN_SCAN_PAGE_LIMIT /\ hasMore /\ ~isFetchingNextPage

Scan ==
  /\ needsDetailedOpenScan
  /\ lists' = [lists EXCEPT ![lifecycle].fetch = "next"]
  /\ UNCHANGED <<book, tab, index, asks, moves, faults>>
  /\ Effect

-----------------------------------------------------------------------------
(* The answer to the fetch that was awaited: the page to show is looked    *)
(* for in the list that is observed now.                                   *)
Answered(l, q) ==
  LET observed == [lists EXCEPT ![l] = q][lifecycle]
      found == {k \in 1..observed.pages :
                  /\ asks[l] # NULL /\ k > asks[l].from
                  /\ partyRowsForTab(book[lifecycle][k], asks[l].tab) # {}}
  IN IF asks[l] = NULL \/ observed.error # NULL \/ found = {} THEN UNCHANGED index
     ELSE index' = [index EXCEPT ![asks[l].tab] = Min(found)]

PageArrives(l) ==
  /\ lists[l].fetch = "next"
  /\ LET q == [pages |-> lists[l].pages + 1, fetch |-> NULL, error |-> NULL]
     IN lists' = [lists EXCEPT ![l] = q] /\ Answered(l, q)
  /\ asks' = [asks EXCEPT ![l] = NULL]
  /\ UNCHANGED <<book, tab, moves, faults>>
  /\ Effect

(* The first page, or every page that had been read.                       *)
ListArrives(l) ==
  /\ lists[l].fetch = "all"
  /\ lists' = [lists EXCEPT ![l] = [pages |-> Max({lists[l].pages, 1}),
                                    fetch |-> NULL, error |-> NULL]]
  /\ UNCHANGED <<book, tab, index, asks, moves, faults>>
  /\ Effect

ReadFails(l) ==
  /\ faults < MaxFaults /\ faults' = faults + 1
  /\ lists[l].fetch # NULL
  /\ LET q == [lists[l] EXCEPT !.fetch = NULL, !.error = lists[l].fetch]
     IN lists' = [lists EXCEPT ![l] = q] /\ Answered(l, q)
  /\ asks' = [asks EXCEPT ![l] = NULL]
  /\ UNCHANGED <<book, tab, moves>>
  /\ Effect

(* Any lists of the server: only a last page may be empty, and the list of *)
(* all parties, where it is used, is as long as another and has its rows.  *)
Books == UNION {[1..n -> SUBSET Held("ALL")] : n \in 1..MaxPages}
Within(list, all) ==
  /\ \A k \in DOMAIN list : list[k] # {} => k \in DOMAIN all /\ all[k] # {}
  /\ UNION {list[k] : k \in DOMAIN list} \subseteq UNION {all[k] : k \in DOMAIN all}
Init ==
  /\ book \in {b \in [Lifecycles -> Books] :
               /\ \A l \in Lifecycles : \A k \in 1..Len(b[l]) :
                    b[l][k] \subseteq Held(l) /\ (b[l][k] # {} \/ k = Len(b[l]))
               /\ "ALL" \in Lifecycles => \A l \in Lifecycles : Within(b[l], b["ALL"])}
  /\ tab \in Tabs /\ index = [t \in Tabs |-> NULL]
  /\ lists = [l \in Lifecycles |-> [pages |-> 0, fetch |-> IF l = lifecycle THEN "all" ELSE NULL,
                                    error |-> NULL]]
  /\ asks = [l \in Lifecycles |-> NULL]
  /\ focus = NULL /\ handoff = NULL /\ moves = 0 /\ faults = 0

Next ==
  \/ \E t \in Tabs : setTab(t)
  \/ loadMore \/ showPreviousPage \/ Retry \/ Scan
  \/ \E l \in Lifecycles : PageArrives(l) \/ ListArrives(l) \/ ReadFails(l)

Spec == Init /\ [][Next]_vars

-----------------------------------------------------------------------------
(* "You have no party yet" is said only when the list has none, read or    *)
(* unread, for the tab that is pressed.                                    *)
EmptyIsTrue ==
  Empty => \A k \in 1..Len(book[lifecycle]) : partyRowsForTab(book[lifecycle][k], tab) = {}

(* Going through a list, and coming back to it, skips no page with rows:   *)
(* from one page that is shown to the next there is none in between.       *)
NothingSkipped ==
  (tab' = tab /\ view.rows /\ view'.rows /\ index[tab] \in matching \cup {NULL}) =>
    \A k \in 1..query'.pages :
      ((k > currentPage /\ k < currentPage') \/ (k < currentPage /\ k > currentPage'))
        => partyRowsForTab(book[lifecycle][k], tab) = {}

(* A page that was asked for and has come takes the focus to its first     *)
(* party, whichever button asked for it and whether or not that button is  *)
(* still there.                                                            *)
PageHasFocus ==
  (tab' = tab /\ view.rows /\ view' # view /\ ~isNextPageError'
    /\ (handoff # NULL \/ moves' # moves)) => focus' = "item"

(* A search for rows of a tab comes to an end the operator can see: rows,  *)
(* the offer to go on, the message that there are none, or an error.       *)
Searching == lifecycle = "OPEN" /\ matching = {}
SearchEnds ==
  ~Searching \/ isDetailedSearchPaused \/ Empty \/ query.error # NULL

(* What they rest on: a list that is shown was asked for; whoever awaits a *)
(* page is still on the page it was asked from; and the view the hook      *)
(* noted is the one that is shown, unless a page that failed is to be      *)
(* tried again.                                                            *)
PageOf(t) ==
  LET found == matchingOperatorPages(t, lists[operatorLifecycleForTab(t)].pages)
  IN IF index[t] # NULL /\ index[t] \in found THEN index[t]
     ELSE IF found = {} THEN 1 ELSE Min(found)
Queries == [pages : Nat, fetch : {NULL, "all", "next"}, error : {NULL, "all", "next"}]
ListInv ==
  /\ TypeOK /\ book \in [Lifecycles -> Books]
  /\ lists \in [Lifecycles -> Queries]
  /\ asks \in [Lifecycles -> {NULL} \cup [tab : Tabs, from : Nat]]
  /\ query.pages = 0 => query.fetch # NULL \/ query.error # NULL
  /\ \A l \in Lifecycles, t \in Tabs : asks[l] # NULL /\ asks[l].tab = t =>
       operatorLifecycleForTab(t) = l /\ asks[l].from = PageOf(t)
  /\ \/ handoff \in {NULL, view}
     \/ handoff.tab = tab /\ isNextPageError /\ ~isFetchingNextPage

(* PartyListPanel.test.tsx, line 239: the panel "restores the current      *)
(* cursor page independently for each status filter": a filter that was    *)
(* left is found on the page it was left on, or on one after it that was   *)
(* asked for before.                                                       *)
PageIsRestored ==
  [][\A t \in Tabs \ {tab, tab'} : PageOf(t)' >= PageOf(t)]_vars
=============================================================================
