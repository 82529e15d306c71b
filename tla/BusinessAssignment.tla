--------------------------- MODULE BusinessAssignment ---------------------------
(***************************************************************************)
(* Users are made administrators of businesses                             *)
(* (src/src/components/admin/BusinessAdminAssignmentConsole.tsx with       *)
(* BusinessAdminPicker.tsx): a business is chosen, its picker searches for *)
(* users, page by page, and assigns one.  The picker of another business   *)
(* is another one; what was searched is kept in the cache for all of them. *)
(*                                                                         *)
(* The server is external: it assigns a user who has no business yet to    *)
(* one that is active.  So are the queries.  A page is one user, and the   *)
(* businesses are on one page.                                             *)
(***************************************************************************)
EXTENDS Integers, Sequences, FiniteSets

CONSTANTS Businesses,
          Users,     \* numbers, in the order in which they are found
          Searches,  \* what is typed; every user is found by each
          MaxMoves,  \* bound: what operators do
          MaxFaults, \* bound: requests that fail
          NULL

VARIABLES
  server,     \* each user's business, when it last changed; the active businesses
  businesses, \* the query of the active businesses
  search,     \* of each search: its query
  businessId,
  picker,     \* of the business chosen: what is searched for, and the page
  mount,      \* which picker it is
  nextPage,   \* the press on "more" whose answer is awaited: picker, search, pages
  assignment, \* assignments under way, of all pickers
  told,       \* of each search and user, the last assignment the operator was told of
  moves, faults

vars == <<server, businesses, search, businessId, picker, mount, nextPage,
          assignment, told, moves, faults>>

selectedBusiness ==
  IF businesses.data # NULL /\ businessId \in businesses.data THEN businessId ELSE NULL
submittedQuery == picker.submittedQuery
current == search[submittedQuery]
pages(q) == IF search[q].data = NULL THEN 0 ELSE search[q].data.pages
searching == selectedBusiness # NULL /\ submittedQuery # NULL
currentPageIndex ==
  LET requested == IF picker.key = submittedQuery THEN picker.index ELSE 0
      last == pages(submittedQuery) - 1
  IN IF last < 0 THEN 0 ELSE IF requested > last THEN last ELSE requested
hasLoadedNextPage == currentPageIndex < pages(submittedQuery) - 1
hasNextPage == hasLoadedNextPage \/ (0 < pages(submittedQuery) /\ pages(submittedQuery) < Cardinality(Users))
candidate == currentPageIndex + 1

(* Mutant: assigning is over before the lists have been read again. *)
isSent == \E a \in assignment : a.mount = mount /\ a.state = "sent"

isPending == \E a \in assignment : a.mount = mount

NoSearch == [submittedQuery |-> NULL, key |-> NULL, index |-> 0]

TypeOK ==
  /\ \A u \in Users : server.of[u] \in Businesses \cup {NULL}
  /\ \A q \in Searches : pages(q) <= Cardinality(Users)
  /\ picker.submittedQuery \in Searches \cup {NULL} /\ picker.index < Cardinality(Users)
  /\ Cardinality({a \in assignment : a.mount = mount}) <= 1
-----------------------------------------------------------------------------
Moves == moves < MaxMoves /\ moves' = moves + 1 /\ UNCHANGED faults
Steady == UNCHANGED <<moves, faults>>
Fault == faults < MaxFaults /\ faults' = faults + 1 /\ UNCHANGED moves

(* The whole list is read again, from its start, however many pages of it  *)
(* there are; only a read that has nothing to show yet is left alone.      *)
Ask(q) == IF q.data = NULL /\ q.fetch # NULL THEN q
          ELSE [q EXCEPT !.fetch = "all", !.read = NULL,
                    !.error = IF q.error = NULL \/ q.data = NULL THEN NULL ELSE "all"]

(* Another picker, or none.                                                *)
NewPicker == picker' = NoSearch /\ mount' = mount + 1

ListRead ==
  /\ businesses.fetch = "all" /\ businesses.read = NULL /\ Steady
  /\ businesses' = [businesses EXCEPT !.read = server.active]
  /\ UNCHANGED <<server, search, businessId, picker, mount, nextPage, assignment, told>>

(* A business that was chosen may be active no more: its picker goes.      *)
ListAnswered ==
  /\ businesses.read # NULL /\ Steady
  /\ businesses' = [data |-> businesses.read, fetch |-> NULL, read |-> NULL, error |-> NULL]
  /\ IF selectedBusiness # IF businessId \in businesses.read THEN businessId ELSE NULL
     THEN NewPicker ELSE UNCHANGED <<picker, mount>>
  /\ UNCHANGED <<server, search, businessId, nextPage, assignment, told>>

ListFails ==
  /\ businesses.fetch # NULL /\ Fault
  /\ businesses' = [businesses EXCEPT !.fetch = NULL, !.read = NULL, !.error = "all"]
  /\ UNCHANGED <<server, search, businessId, picker, mount, nextPage, assignment, told>>

refetchList ==
  /\ businesses.error # NULL /\ businesses.fetch = NULL /\ Steady /\ businesses' = Ask(businesses)
  /\ UNCHANGED <<server, search, businessId, picker, mount, nextPage, assignment, told>>

selectBusiness(b) ==
  /\ businesses.data # NULL /\ b \in businesses.data /\ b # businessId /\ Moves
  /\ businessId' = b /\ NewPicker
  /\ UNCHANGED <<server, businesses, search, nextPage, assignment, told>>

-----------------------------------------------------------------------------
(* The picker.  What was found before is shown, and read again when it is  *)
(* old or was invalidated.                                                 *)
submitSearch(q) ==
  /\ selectedBusiness # NULL /\ (submittedQuery # NULL => current.fetch = NULL)
  /\ q # submittedQuery /\ Moves /\ picker' = [picker EXCEPT !.submittedQuery = q]
  /\ \E old \in BOOLEAN :
       search' = IF search[q].fetch = NULL /\ (old \/ search[q].data = NULL \/ search[q].invalidated)
                 THEN [search EXCEPT ![q] = Ask(@)] ELSE search
  /\ UNCHANGED <<server, businesses, businessId, mount, nextPage, assignment, told>>

(* What is known of the users that are read: their business, as of when.   *)
SearchRead(q) ==
  /\ search[q].fetch # NULL /\ search[q].read = NULL /\ Steady
  /\ search' = [search EXCEPT ![q].read = [of |-> server.of, changed |-> server.changed]]
  /\ UNCHANGED <<server, businesses, businessId, picker, mount, nextPage, assignment, told>>

(* fetchNextPage has ended: the page it was for is shown, if it came; the  *)
(* picker that asked may be gone.                                          *)
NextEnded(q, n) ==
  /\ nextPage' = IF nextPage # NULL /\ nextPage.q = q THEN NULL ELSE nextPage
  /\ picker' = IF nextPage # NULL /\ nextPage.q = q /\ nextPage.mount = mount /\ n > nextPage.pages
               THEN [picker EXCEPT !.key = q, !.index = nextPage.pages] ELSE picker

(* Either every page is new, or one is added to those there were.          *)
SearchAnswered(q) ==
  /\ search[q].read # NULL /\ Steady
  /\ LET s == search[q]
         first == IF s.fetch = "next" THEN pages(q) ELSE 0
         n == IF s.fetch = "next" THEN pages(q) + 1 ELSE IF pages(q) = 0 THEN 1 ELSE pages(q)
         Part(old, new) == [u \in 1..n |-> IF u <= first THEN old[u] ELSE new[u]]
     IN /\ search' = [search EXCEPT ![q] =
             [data |-> [pages |-> n, of |-> Part(IF first = 0 THEN <<>> ELSE s.data.of, s.read.of),
                        changed |-> Part(IF first = 0 THEN <<>> ELSE s.data.changed, s.read.changed)],
              fetch |-> NULL, read |-> NULL, error |-> NULL, invalidated |-> FALSE,
              torn |-> s.fetch = "next" /\ (s.torn \/ s.invalidated)]]
        /\ NextEnded(q, n)
  /\ UNCHANGED <<server, businesses, businessId, mount, assignment, told>>

SearchFails(q) ==
  /\ search[q].fetch # NULL /\ Fault
  /\ search' = [search EXCEPT ![q].fetch = NULL, ![q].read = NULL, ![q].error = search[q].fetch, ![q].invalidated = TRUE]
  /\ NextEnded(q, 0)
  /\ UNCHANGED <<server, businesses, businessId, mount, assignment, told>>

refetchSearch ==
  /\ searching /\ current.error # NULL /\ current.fetch = NULL /\ Steady
  /\ search' = [search EXCEPT ![submittedQuery] = Ask(@)]
  /\ UNCHANGED <<server, businesses, businessId, picker, mount, nextPage, assignment, told>>

(* More: a page that was read, or the next one, for which the library      *)
(* gives up a read of the whole list that is under way.                    *)
loadNextPage ==
  /\ searching /\ hasNextPage /\ current.fetch # "next" /\ Moves
  /\ IF hasLoadedNextPage
     THEN /\ picker' = [picker EXCEPT !.key = submittedQuery, !.index = currentPageIndex + 1]
          /\ UNCHANGED <<search, nextPage>>
     ELSE /\ search' = [search EXCEPT ![submittedQuery] =
               [@ EXCEPT !.fetch = "next", !.read = NULL,
                         !.error = IF current.error = NULL THEN NULL ELSE "next",
                         !.torn = current.torn \/ current.fetch = "all"]]
          /\ nextPage' = [q |-> submittedQuery, mount |-> mount, pages |-> pages(submittedQuery)]
          /\ UNCHANGED picker
  /\ UNCHANGED <<server, businesses, businessId, mount, assignment, told>>

loadPreviousPage ==
  /\ searching /\ currentPageIndex > 0 /\ current.error # "next" /\ Moves
  /\ picker' = [picker EXCEPT !.key = submittedQuery, !.index = currentPageIndex - 1]
  /\ UNCHANGED <<server, businesses, search, businessId, mount, nextPage, assignment, told>>

-----------------------------------------------------------------------------
assignCandidate ==
  /\ searching /\ pages(submittedQuery) > 0 /\ ~isPending
  /\ current.data.of[candidate] = NULL /\ Moves
  /\ assignment' = assignment \cup {[user |-> candidate, business |-> selectedBusiness, mount |-> mount,
                                     state |-> "sent", changed |-> 0, id |-> moves]}
  /\ UNCHANGED <<server, businesses, search, businessId, picker, mount, nextPage, told>>

Assigned(u, b) == [server EXCEPT !.of[u] = b, !.changed[u] = @ + 1]

assignBusinessAdmin(a) ==
  /\ a.state = "sent" /\ Steady
  /\ IF server.of[a.user] = NULL /\ a.business \in server.active
     THEN /\ server' = Assigned(a.user, a.business)
          /\ assignment' = (assignment \ {a}) \cup
               {[a EXCEPT !.state = "ok", !.changed = server.changed[a.user] + 1]}
     ELSE assignment' = (assignment \ {a}) \cup {[a EXCEPT !.state = "refused"]} /\ UNCHANGED server
  /\ UNCHANGED <<businesses, search, businessId, picker, mount, nextPage, told>>

(* Mutant: what was searched for stays as it is. *)
invalidateList == businesses' = Ask(businesses) /\ UNCHANGED search

(* Everything below businessQueryKeys.all: what is on screen is read.      *)
invalidate ==
  /\ businesses' = Ask(businesses)
  /\ search' = [q \in Searches |->
       IF searching /\ q = submittedQuery THEN Ask(search[q]) ELSE [search[q] EXCEPT !.invalidated = TRUE]]

(* onSuccess, of the picker that asked, be it gone or not.  Reads that are *)
(* neither given up nor begun by the invalidation promise nothing.         *)
AssignDone(a) ==
  /\ a.state = "ok" /\ Steady /\ invalidate
  /\ assignment' = (assignment \ {a}) \cup {[a EXCEPT !.state = "refreshing"]}
  /\ told' = [q \in Searches |->
       IF search[q].fetch = NULL \/ (searching /\ q = submittedQuery /\ search[q].data # NULL)
       THEN [told[q] EXCEPT ![a.user] = a.changed] ELSE told[q]]
  /\ UNCHANGED <<server, businessId, picker, mount, nextPage>>

(* Mutant: an assignment that was refused is never over. *)
AssignedWell(a) ==
  /\ a.state = "refreshing" /\ businesses.fetch = NULL /\ (\A q \in Searches : search[q].fetch = NULL)
  /\ assignment' = assignment \ {a} /\ Steady
  /\ UNCHANGED <<server, businesses, search, businessId, picker, mount, nextPage, told>>

AssignEnded(a) ==
  /\ \/ a.state = "refused"
     \/ a.state = "refreshing" /\ businesses.fetch = NULL /\ \A q \in Searches : search[q].fetch = NULL
  /\ assignment' = assignment \ {a} /\ Steady
  /\ UNCHANGED <<server, businesses, search, businessId, picker, mount, nextPage, told>>

AssignLost(a) ==
  /\ a.state \in {"sent", "ok"} /\ Fault /\ assignment' = assignment \ {a}
  /\ UNCHANGED <<server, businesses, search, businessId, picker, mount, nextPage, told>>

(* Other operators assign, release, and switch businesses off and on.      *)
OthersAct ==
  /\ Moves
  /\ \/ \E u \in Users, b \in Businesses \cup {NULL} : b # server.of[u] /\ server' = Assigned(u, b)
     \/ \E b \in Businesses :
          server' = [server EXCEPT !.active = IF b \in @ THEN @ \ {b} ELSE @ \cup {b}]
  /\ UNCHANGED <<businesses, search, businessId, picker, mount, nextPage, assignment, told>>

Init ==
  /\ server = [of |-> [u \in Users |-> NULL], changed |-> [u \in Users |-> 0], active |-> Businesses]
  /\ businesses = [data |-> NULL, fetch |-> "all", read |-> NULL, error |-> NULL]
  /\ search = [q \in Searches |-> [data |-> NULL, fetch |-> NULL, read |-> NULL, error |-> NULL,
                                   invalidated |-> FALSE, torn |-> FALSE]]
  /\ businessId = NULL /\ picker = NoSearch /\ mount = 0 /\ nextPage = NULL
  /\ assignment = {} /\ told = [q \in Searches |-> [u \in Users |-> 0]] /\ moves = 0 /\ faults = 0

Next ==
  \/ ListRead \/ ListAnswered \/ ListFails \/ refetchList
  \/ \E b \in Businesses : selectBusiness(b)
  \/ \E q \in Searches : submitSearch(q) \/ SearchRead(q) \/ SearchAnswered(q) \/ SearchFails(q)
  \/ refetchSearch \/ loadNextPage \/ loadPreviousPage \/ assignCandidate
  \/ \E a \in assignment : assignBusinessAdmin(a) \/ AssignDone(a) \/ AssignEnded(a) \/ AssignLost(a)
  \/ OthersAct

Spec == Init /\ [][Next]_vars

(* What the server does without an operator.                               *)
Server == \E a \in assignment : assignBusinessAdmin(a) \/ AssignDone(a) \/ AssignEnded(a)

-----------------------------------------------------------------------------
Settled == searching /\ pages(submittedQuery) > 0 /\ current.fetch = NULL /\ current.error = NULL

(* A user whose assignment was confirmed is not offered as one who has no  *)
(* business: not by the picker that assigned, nor by that of another       *)
(* business from what the first has left in the cache.  Lists that were    *)
(* torn, in which a page was added to older ones, may still offer one.     *)
OwnAssignmentIsSeen ==
  (Settled /\ ~current.torn /\ ~isPending) =>
    current.data.changed[candidate] >= told[submittedQuery][candidate]

(* No picker stays locked by an assignment, be it refused, its answer      *)
(* lost, or the lists read again with errors.                              *)
PickerLocked == isPending
=============================================================================
