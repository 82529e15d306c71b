--------------------------- MODULE ResourceConsole ---------------------------
(***************************************************************************)
(* The list of a resource console and what is done to its rows             *)
(* (src/src/components/admin/AdminResourceConsole.tsx with ResourceList,   *)
(* ResourceRowActions, ResourceActionDialog and ResourceEditorDialog of    *)
(* resource-console): lists per filter, read page by page and shown one    *)
(* page at a time, dialogs opened on the row that was shown, one mutation  *)
(* shared by the dialogs.  A row is open or done; a list may be of the     *)
(* open ones only.                                                         *)
(*                                                                         *)
(* The queries are external: a list goes on being read when its filter is  *)
(* left, an invalidation starts the list on screen again when it has been  *)
(* read, joins its first read, and marks the others to be read when they   *)
(* are shown; what an awaited fetchNextPage gives is the list on screen.   *)
(***************************************************************************)
EXTENDS Integers, Sequences, FiniteSetsExt

CONSTANTS Rows,      \* in the order of the lists
          PAGE_SIZE,
          MaxMoves,  \* bound: what the operator and the others do
          MaxFaults, \* bound: requests that fail
          NULL

VARIABLES
  done,     \* the rows that are done, at the server
  filter,   \* the list on screen
  lists,    \* of each filter: its pages, a fetch, an error, whether invalidated
  pageState, \* the page that was chosen, and of which list
  asks,     \* of each list: its pages when its next one was asked for, or NULL
  dialog,   \* the open dialog, its row as it was shown, or NULL
  mutation, \* where the request of a dialog is, and of which dialog
  owed,     \* of each list: the rows acted on from here since it was read
  cut,      \* the lists whose reading was cut short, or failed, before a next page
  moves, faults

vars == <<done, filter, lists, pageState, asks, dialog, mutation, owed, cut,
          moves, faults>>

Filters == {"all", "open"}
Item == [id : Rows, done : BOOLEAN]
Page == [items : SUBSET Item, next : Rows \cup {NULL}]
Reading == [kind : {"all", "next"}, got : Seq(Page)]
Dialog == [kind : {"action", "editor"}, row : Item \cup {NULL}, serial : 1..MaxMoves]

-----------------------------------------------------------------------------
(* The server's page after a cursor; the cursor of a last page is NULL.    *)
listAdminResources(f, cursor) ==
  LET found == {r \in Rows : r > cursor /\ (f = "open" => r \notin done)}
      items == {r \in found : Cardinality({q \in found : q <= r}) <= PAGE_SIZE}
  IN [items |-> {[id |-> r, done |-> r \in done] : r \in items},
      next |-> IF items = found THEN NULL ELSE Max(items)]

(* Where the next page begins, or NULL after the last one.                 *)
getNextPageParam(pages) == pages[Len(pages)].next

list == lists[filter]
isFetching == list.fetch # NULL
isFetchingNextPage == isFetching /\ list.fetch.kind = "next"
isPending == list.pages = <<>> /\ ~list.error
requestedPageIndex == IF pageState.key = filter THEN pageState.index ELSE 1

(* Mutant: the page that was chosen, read or not. *)
currentUnclamped == requestedPageIndex

currentPageIndex == Min({requestedPageIndex, Max({1, Len(list.pages)})})

visibleItems == IF list.pages = <<>> THEN {} ELSE list.pages[currentPageIndex].items
hasLoadedNextPage == currentPageIndex < Len(list.pages)
hasNextPage == hasLoadedNextPage \/ (list.pages # <<>> /\ getNextPageParam(list.pages) # NULL)
mutationPending == mutation.state \in {"sent", "applied"}
mutationError == IF mutation.state = "failed" THEN mutation.dialog ELSE NULL

TypeOK ==
  /\ done \subseteq Rows /\ filter \in Filters /\ DOMAIN lists = Filters
  /\ pageState.key \in Filters /\ pageState.index \in Nat \ {0}
  /\ currentPageIndex \in 1..Max({1, Len(list.pages)})
  /\ dialog \in Dialog \cup {NULL} /\ (mutation.state = "idle") = (mutation.dialog = NULL)
  /\ owed \in [Filters -> SUBSET Rows]

-----------------------------------------------------------------------------
Moves == moves < MaxMoves /\ moves' = moves + 1 /\ UNCHANGED faults
Fetch(kind) == [kind |-> kind, got |-> <<>>]

(* Mutant: a list is read again only if it had been. *)
ObserveAgain(q) ==
  IF q.fetch # NULL \/ ~q.invalidated THEN q
  ELSE [q EXCEPT !.fetch = Fetch("all"), !.error = q.error /\ q.pages # <<>>]

(* A list is shown: it is read when it was not, or is to be read again.    *)
Observe(q) ==
  IF q.fetch # NULL \/ (q.pages # <<>> /\ ~q.invalidated) THEN q
  ELSE [q EXCEPT !.fetch = Fetch("all"), !.error = q.error /\ q.pages # <<>>]

setFilters(f) ==
  /\ f # filter /\ dialog = NULL /\ Moves
  /\ filter' = f /\ lists' = [lists EXCEPT ![f] = Observe(@)]
  /\ UNCHANGED <<done, pageState, asks, dialog, mutation, owed, cut>>

(* Offered with rows only, and not while the next page is on its way.      *)
showNextPage ==
  /\ dialog = NULL /\ visibleItems # {} /\ hasNextPage /\ ~isFetchingNextPage /\ Moves
  /\ IF hasLoadedNextPage
     THEN /\ pageState' = [key |-> filter, index |-> currentPageIndex + 1]
          /\ UNCHANGED <<lists, asks, cut>>
     ELSE /\ asks' = [asks EXCEPT ![filter] = Len(list.pages)]
          /\ cut' = IF isFetching \/ list.error THEN cut \cup {filter} ELSE cut
          /\ lists' = [lists EXCEPT ![filter].fetch = Fetch("next")]
          /\ UNCHANGED pageState
  /\ UNCHANGED <<done, filter, dialog, mutation, owed>>

showPreviousPage ==
  /\ dialog = NULL /\ visibleItems # {} /\ currentPageIndex > 1 /\ Moves
  /\ pageState' = [key |-> filter, index |-> currentPageIndex - 1]
  /\ UNCHANGED <<done, filter, lists, asks, dialog, mutation, owed, cut>>

(* The button of the header, and the one of a list that failed.            *)
refetch ==
  /\ dialog = NULL /\ ~isFetching /\ Moves
  /\ lists' = [lists EXCEPT ![filter].fetch = Fetch("all"),
                            ![filter].error = @ /\ list.pages # <<>>]
  /\ UNCHANGED <<done, filter, pageState, asks, dialog, mutation, owed, cut>>

-----------------------------------------------------------------------------
(* The server reads the next page of a fetch: after the last one it has    *)
(* given, or the last one that is loaded.                                  *)
Wanted(q) == IF q.fetch.kind = "next" THEN 1 ELSE Max({1, Len(q.pages)})
Complete(q) ==
  q.fetch.got # <<>> /\ (Len(q.fetch.got) = Wanted(q) \/ getNextPageParam(q.fetch.got) = NULL)
Cursor(q) == IF q.fetch.got # <<>> THEN getNextPageParam(q.fetch.got)
             ELSE IF q.fetch.kind = "next" THEN getNextPageParam(q.pages) ELSE 0

PageRead(f) ==
  LET q == lists[f] IN
  /\ q.fetch # NULL /\ ~Complete(q)
  /\ lists' = [lists EXCEPT ![f].fetch.got =
                 Append(@, listAdminResources(f, Cursor(q)))]
  /\ UNCHANGED <<done, filter, pageState, asks, dialog, mutation, owed, cut, moves, faults>>

(* Mutant: the page that was asked for is shown in whichever list. *)
settleHere(f, observed) ==
  IF asks[f] = NULL THEN UNCHANGED <<pageState, asks>>
  ELSE /\ asks' = [asks EXCEPT ![f] = NULL]
       /\ pageState' = IF Len(observed.pages) > asks[f]
                       THEN [key |-> filter, index |-> asks[f] + 1] ELSE pageState

(* Who awaited the page goes there if the list on screen has it: the page  *)
(* is that of the list it was asked for in.                                *)
settle(f, observed) ==
  IF asks[f] = NULL THEN UNCHANGED <<pageState, asks>>
  ELSE /\ asks' = [asks EXCEPT ![f] = NULL]
       /\ pageState' = IF Len(observed.pages) > asks[f]
                       THEN [key |-> f, index |-> asks[f] + 1] ELSE pageState

Answered(f) ==
  LET q == lists[f] IN
  /\ q.fetch # NULL /\ Complete(q)
  /\ lists' = [lists EXCEPT ![f] =
       [pages |-> IF q.fetch.kind = "next" THEN q.pages \o q.fetch.got ELSE q.fetch.got,
        fetch |-> NULL, error |-> FALSE, invalidated |-> FALSE]]
  /\ cut' = IF q.fetch.kind = "all" THEN cut \ {f} ELSE cut
  /\ settle(f, lists'[filter])
  /\ UNCHANGED <<done, filter, dialog, mutation, owed, moves, faults>>

ReadFails(f) ==
  /\ faults < MaxFaults /\ faults' = faults + 1
  /\ lists[f].fetch # NULL
  /\ lists' = [lists EXCEPT ![f].fetch = NULL, ![f].error = TRUE, ![f].invalidated = TRUE]
  /\ settle(f, lists'[filter])
  /\ UNCHANGED <<done, filter, dialog, mutation, owed, cut, moves>>

-----------------------------------------------------------------------------
(* Mutant: the last error stays. *)
openKeepsError(kind, item) ==
  /\ dialog = NULL /\ ~mutationPending /\ Moves
  /\ dialog' = [kind |-> kind, row |-> item, serial |-> moves']
  /\ UNCHANGED <<done, filter, lists, pageState, asks, mutation, owed, cut>>

(* openAction and openEditor, on a row as it is shown; a new row has none. *)
open(kind, item) ==
  /\ dialog = NULL /\ ~mutationPending /\ Moves
  /\ dialog' = [kind |-> kind, row |-> item, serial |-> moves']
  /\ mutation' = [state |-> "idle", dialog |-> NULL]
  /\ UNCHANGED <<done, filter, lists, pageState, asks, owed, cut>>

openAction == \E item \in visibleItems : ~item.done /\ open("action", item)
openEditor == \E item \in visibleItems \cup {NULL} : open("editor", item)

(* Mutant: the dialog can be left while its request is under way. *)
onCloseAnyway ==
  /\ dialog # NULL /\ dialog' = NULL
  /\ UNCHANGED <<done, filter, lists, pageState, asks, mutation, owed, cut, moves, faults>>

onClose ==
  /\ dialog # NULL /\ ~mutationPending /\ dialog' = NULL
  /\ UNCHANGED <<done, filter, lists, pageState, asks, mutation, owed, cut, moves, faults>>

submit ==
  /\ dialog # NULL /\ ~mutationPending /\ Moves
  /\ mutation' = [state |-> "sent", dialog |-> dialog]
  /\ UNCHANGED <<done, filter, lists, pageState, asks, dialog, owed, cut>>

mutateAdminResource ==
  /\ mutation.state = "sent" /\ mutation' = [mutation EXCEPT !.state = "applied"]
  /\ done' = IF mutation.dialog.kind = "action" THEN done \cup {mutation.dialog.row.id} ELSE done
  /\ UNCHANGED <<filter, lists, pageState, asks, dialog, owed, cut, moves, faults>>

(* Mutant: a read that is under way is joined. *)
refreshJoins(q, active) ==
  IF active /\ q.fetch = NULL
  THEN [q EXCEPT !.fetch = Fetch("all"), !.error = q.error /\ q.pages # <<>>]
  ELSE [q EXCEPT !.invalidated = TRUE]

(* Mutant: only the list on screen is invalidated. *)
refreshActive(q, active) ==
  IF active /\ ~(q.fetch # NULL /\ q.pages = <<>>)
  THEN [q EXCEPT !.fetch = Fetch("all"), !.error = q.error /\ q.pages # <<>>]
  ELSE q

(* refresh: every list of the resource is invalidated.                     *)
refresh(q, active) ==
  IF active /\ ~(q.fetch # NULL /\ q.pages = <<>>)
  THEN [q EXCEPT !.fetch = Fetch("all"), !.error = q.error /\ q.pages # <<>>]
  ELSE [q EXCEPT !.invalidated = TRUE]

onSuccess ==
  /\ mutation.state = "applied"
  /\ mutation' = [state |-> "idle", dialog |-> NULL] /\ dialog' = NULL
  /\ lists' = [f \in Filters |-> refresh(lists[f], f = filter)]
  /\ asks' = [asks EXCEPT ![filter] = NULL]
  /\ owed' = [f \in Filters |->
       IF mutation.dialog.kind = "action" /\ lists[f].pages # <<>>
            /\ (f = filter \/ lists[f].fetch = NULL)
       THEN owed[f] \cup {mutation.dialog.row.id} ELSE owed[f]]
  /\ UNCHANGED <<done, filter, pageState, cut, moves, faults>>

(* The request fails, before or after the server has done it.              *)
onError ==
  /\ faults < MaxFaults /\ faults' = faults + 1
  /\ mutationPending /\ mutation' = [mutation EXCEPT !.state = "failed"]
  /\ UNCHANGED <<done, filter, lists, pageState, asks, dialog, owed, cut, moves>>

OthersAct ==
  /\ moves < MaxMoves /\ moves' = moves + 1
  /\ \E r \in Rows \ done : done' = done \cup {r}
  /\ UNCHANGED <<filter, lists, pageState, asks, dialog, mutation, owed, cut, faults>>

Init ==
  /\ done \in SUBSET Rows /\ filter = "all"
  /\ lists = [f \in Filters |->
       [pages |-> <<>>, fetch |-> IF f = filter THEN Fetch("all") ELSE NULL,
        error |-> FALSE, invalidated |-> FALSE]]
  /\ pageState = [key |-> filter, index |-> 1] /\ asks = [f \in Filters |-> NULL]
  /\ dialog = NULL /\ mutation = [state |-> "idle", dialog |-> NULL]
  /\ owed = [f \in Filters |-> {}] /\ cut = {} /\ moves = 0 /\ faults = 0

Next ==
  \/ \E f \in Filters : setFilters(f) \/ PageRead(f) \/ Answered(f) \/ ReadFails(f)
  \/ showNextPage \/ showPreviousPage \/ refetch
  \/ openAction \/ openEditor \/ onClose \/ submit
  \/ mutateAdminResource \/ onSuccess \/ onError \/ OthersAct

Spec == Init /\ [][Next]_vars

-----------------------------------------------------------------------------
ShownAsItWas ==
  ~isFetching /\ ~list.error
    /\ \E k \in 1..Len(list.pages) : \E item \in list.pages[k].items :
         item.id \in owed[filter] /\ ~item.done

(* What the operator did is seen: once the list on screen is at rest, a    *)
(* row that was acted on from here is not offered as it was, in any list   *)
(* that had been read before, whatever was being read meanwhile.  A read   *)
(* that is the first of its list, or that of a list left with its read     *)
(* under way, may still bring the old row; so may one that is cut short by *)
(* the next page, after whose answer the list counts as valid again.       *)
OwnActionIsSeen == ShownAsItWas => filter \in cut

(* A request is that of the dialog on screen until it is answered, so that *)
(* its success closes, and its error is written in, no other.              *)
DialogIsOwn == mutationPending => mutation.dialog = dialog

(* An error that a dialog shows is the one of its own request.             *)
ErrorIsOwn == (dialog # NULL /\ mutationError # NULL) => mutationError = dialog

(* An answer moves the list on screen forward only to the page that was    *)
(* asked for in this list; the next page of a list that was left moves no  *)
(* other one on.                                                           *)
OnlyAskedPages ==
  (moves' = moves /\ currentPageIndex' > currentPageIndex)
    => asks[filter] # NULL /\ currentPageIndex' = asks[filter] + 1

(* A list does not stay a skeleton, and a dialog not locked.               *)
Waits == isPending \/ mutationPending
=============================================================================
