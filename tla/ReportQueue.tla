----------------------------- MODULE ReportQueue -----------------------------
(***************************************************************************)
(* The queue of reports of the super administrator                         *)
(* (src/src/app/(super-admin)/super-admin/reports/page.tsx with            *)
(* src/src/auth/api/admin-reports.api.ts): a list per status, read page by *)
(* page by an opaque cursor; counters that are polled apart from it; a     *)
(* dialog that reads one report and decides it.  Other moderators work on  *)
(* the same queue.                                                         *)
(*                                                                         *)
(* Reports are numbered in the order of their deadlines, a new one has the *)
(* last.  The server is external: it gives a list in that order, decides a *)
(* report once and refuses a second decision.  So are the queries: one     *)
(* that is not on screen goes on being read, an invalidation starts those  *)
(* on screen again (but joins a first read) and marks the others.          *)
(***************************************************************************)
EXTENDS Integers, Sequences, FiniteSetsExt

CONSTANTS Reports,
          TABS,      \* bound: the tabs that are used
          PAGE_SIZE, \* the limit of a page
          MaxMoves,  \* bound: what moderators, reporters and the clock do
          MaxFaults, \* bound: requests that fail
          NULL

ReportStatus == {"PENDING", "ACTIONED", "DISMISSED"}

VARIABLES
  server,   \* the status of each report, or NULL when it is not yet made
  late,     \* reports up to this one are past their deadline
  status,   \* the tab on screen
  lists,    \* of each tab: its pages, its fetch, an error, whether invalidated
  queueSummary, \* the polled counters and their fetch
  details,  \* of each report: what the dialog reads
  dialog,   \* the open dialog, or NULL
  requests, \* decisions under way, with the dialogs they were made in
  decided,  \* reports decided from here, as far as the screen has been told
  moves, faults

vars == <<server, late, status, lists, queueSummary, details, dialog, requests,
          decided, moves, faults>>
lists_vars == <<status, lists>>
dialog_vars == <<details, dialog, requests, decided>>

-----------------------------------------------------------------------------
Of(s) == {r \in Reports : server[r] = s}
Counts == [open |-> Cardinality(Of("PENDING")),
           overdue |-> Cardinality({r \in Of("PENDING") : r <= late})]

(* Mutant: the cursor is a number of rows, as it once was. *)
listByOffset(s, cursor) ==
  LET found == {r \in Of(s) : Cardinality({q \in Of(s) : q <= r}) > cursor}
      items == {r \in found : Cardinality({q \in found : q <= r}) <= PAGE_SIZE}
  IN [items |-> {[id |-> r, overdue |-> r <= late /\ s = "PENDING"] : r \in items},
      next |-> IF items = found THEN NULL ELSE cursor + Cardinality(items),
      counts |-> Counts]

(* A page after the position the cursor stands for.                        *)
listAdminReports(s, cursor) ==
  LET found == {r \in Of(s) : r > cursor}
      items == {r \in found : Cardinality({q \in found : q <= r}) <= PAGE_SIZE}
  IN [items |-> {[id |-> r, overdue |-> r <= late /\ s = "PENDING"] : r \in items},
      next |-> IF items = found THEN NULL ELSE Max(items),
      counts |-> Counts]

(* Where the next page begins, or NULL after the last one.                 *)
getNextPageParam(pages) == pages[Len(pages)].next

reports == lists[status]
ItemsOf(q) == UNION {q.pages[k].items : k \in DOMAIN q.pages}
items == ItemsOf(reports)
hasNextPage == reports.pages # <<>> /\ getNextPageParam(reports.pages) # NULL
isFetchingNextPage == reports.fetch # NULL /\ reports.fetch.kind = "next"
isRefreshing == reports.fetch # NULL \/ queueSummary.fetch # NULL

(* Mutant: the counters of the list come first. *)
summaryOfList ==
  IF reports.pages # <<>> THEN reports.pages[1].counts ELSE queueSummary.data

summary ==
  IF queueSummary.data # NULL THEN queueSummary.data
  ELSE IF reports.pages # <<>> THEN reports.pages[1].counts ELSE NULL

report == IF dialog = NULL THEN NULL ELSE details[dialog.report].data
isOpen == report = "PENDING"
resolvePending == \E q \in requests : q.dialog = dialog /\ q.state # "failed"

TypeOK ==
  /\ server \in [Reports -> ReportStatus \cup {NULL}] /\ late \in Nat /\ status \in TABS
  /\ \A t \in TABS : \A k \in DOMAIN lists[t].pages :
       k < Len(lists[t].pages) => lists[t].pages[k].next # NULL
  /\ \A r \in Reports : details[r].data \in ReportStatus \cup {NULL}
  /\ dialog # NULL => dialog.report \in Reports
  /\ \A q \in requests : server[q.dialog.report] # NULL

-----------------------------------------------------------------------------
Moves == moves < MaxMoves /\ moves' = moves + 1 /\ UNCHANGED faults
Steady == UNCHANGED <<moves, faults>>
Fault == faults < MaxFaults /\ faults' = faults + 1 /\ UNCHANGED moves
Reading(kind) == [kind |-> kind, got |-> <<>>]
Restart(q) == [q EXCEPT !.fetch = Reading("all"), !.error = q.error /\ q.pages # <<>>]

(* A tab is shown: its list is read when it was not, or is to be again.    *)
setStatus(t) ==
  /\ dialog = NULL /\ t # status /\ Moves /\ status' = t
  /\ lists' = [lists EXCEPT ![t] =
       IF @.fetch # NULL \/ (@.pages # <<>> /\ ~@.invalidated) THEN @ ELSE Restart(@)]
  /\ UNCHANGED <<server, late, queueSummary, dialog_vars>>

loadNextReportPage ==
  /\ dialog = NULL /\ hasNextPage /\ ~isFetchingNextPage /\ Moves
  /\ lists' = [lists EXCEPT ![status] = [@ EXCEPT !.fetch = Reading("next")]]
  /\ UNCHANGED <<server, late, status, queueSummary, dialog_vars>>

refetch ==
  /\ dialog = NULL /\ ~isRefreshing /\ Moves
  /\ lists' = [lists EXCEPT ![status] = Restart(@)]
  /\ queueSummary' = [queueSummary EXCEPT !.fetch = "asked"]
  /\ UNCHANGED <<server, late, status, dialog_vars>>

Complete(q) ==
  /\ q.fetch.got # <<>>
  /\ (\/ getNextPageParam(q.fetch.got) = NULL
      \/ Len(q.fetch.got) = IF q.fetch.kind = "next" THEN 1 ELSE Max({1, Len(q.pages)}))
Cursor(q) == IF q.fetch.got # <<>> THEN getNextPageParam(q.fetch.got)
             ELSE IF q.fetch.kind = "next" THEN getNextPageParam(q.pages) ELSE 0

PageRead(t) ==
  LET q == lists[t] IN
  /\ q.fetch # NULL /\ ~Complete(q) /\ Steady
  /\ lists' = [lists EXCEPT ![t] = [@ EXCEPT !.fetch =
       [kind |-> q.fetch.kind, got |-> Append(q.fetch.got, listAdminReports(t, Cursor(q)))]]]
  /\ UNCHANGED <<server, late, status, queueSummary, dialog_vars>>

(* Mutant: pages that were read again are added. *)
ListAdded(t) ==
  LET q == lists[t] IN
  /\ q.fetch # NULL /\ Complete(q) /\ Steady
  /\ lists' = [lists EXCEPT ![t] =
       [pages |-> q.pages \o q.fetch.got, fetch |-> NULL, error |-> FALSE, invalidated |-> FALSE]]
  /\ UNCHANGED <<server, late, status, queueSummary, dialog_vars>>

ListAnswered(t) ==
  LET q == lists[t] IN
  /\ q.fetch # NULL /\ Complete(q) /\ Steady
  /\ lists' = [lists EXCEPT ![t] =
       [pages |-> IF q.fetch.kind = "next" THEN q.pages \o q.fetch.got ELSE q.fetch.got,
        fetch |-> NULL, error |-> FALSE, invalidated |-> FALSE]]
  /\ UNCHANGED <<server, late, status, queueSummary, dialog_vars>>

ListFails(t) ==
  /\ lists[t].fetch # NULL /\ Fault
  /\ lists' = [lists EXCEPT ![t] =
       [pages |-> @.pages, fetch |-> NULL, error |-> TRUE, invalidated |-> TRUE]]
  /\ UNCHANGED <<server, late, status, queueSummary, dialog_vars>>

(* The minute of the refetchInterval is over.                              *)
Poll ==
  /\ queueSummary.fetch = NULL /\ Steady
  /\ queueSummary' = [queueSummary EXCEPT !.fetch = "asked"]
  /\ UNCHANGED <<server, late, lists_vars, dialog_vars>>

SummaryRead ==
  /\ queueSummary.fetch = "asked" /\ Steady
  /\ queueSummary' = [queueSummary EXCEPT !.fetch = "read", !.read = Counts]
  /\ UNCHANGED <<server, late, lists_vars, dialog_vars>>

SummaryAnswered ==
  /\ queueSummary.fetch = "read" /\ Steady
  /\ queueSummary' = [data |-> queueSummary.read, fetch |-> NULL, read |-> NULL]
  /\ UNCHANGED <<server, late, lists_vars, dialog_vars>>

SummaryFails ==
  /\ queueSummary.fetch # NULL /\ Fault
  /\ queueSummary' = [queueSummary EXCEPT !.fetch = NULL, !.read = NULL]
  /\ UNCHANGED <<server, late, lists_vars, dialog_vars>>

-----------------------------------------------------------------------------
Ask(d) == [d EXCEPT !.fetch = "asked", !.read = NULL]

openDialog(r) ==
  /\ dialog = NULL /\ r \in {i.id : i \in items} /\ Moves
  /\ dialog' = [report |-> r, serial |-> moves']
  /\ details' = [details EXCEPT ![r] =
       IF @.fetch # NULL \/ (@.data # NULL /\ ~@.invalidated) THEN @ ELSE Ask(@)]
  /\ UNCHANGED <<server, late, lists_vars, queueSummary, requests, decided>>

(* onOpenChange: a dialog can be left while its decision is under way.     *)
onClose ==
  /\ dialog # NULL /\ dialog' = NULL /\ Steady
  /\ UNCHANGED <<server, late, lists_vars, queueSummary, details, requests, decided>>

DetailRead(r) ==
  /\ details[r].fetch = "asked" /\ Steady
  /\ details' = [details EXCEPT ![r] = [@ EXCEPT !.fetch = "read", !.read = server[r]]]
  /\ UNCHANGED <<server, late, lists_vars, queueSummary, dialog, requests, decided>>

DetailAnswered(r) ==
  /\ details[r].fetch = "read" /\ Steady
  /\ details' = [details EXCEPT ![r] =
       [data |-> @.read, fetch |-> NULL, read |-> NULL, invalidated |-> FALSE]]
  /\ UNCHANGED <<server, late, lists_vars, queueSummary, dialog, requests, decided>>

DetailFails(r) ==
  /\ details[r].fetch # NULL /\ Fault
  /\ details' = [details EXCEPT ![r] =
       [data |-> @.data, fetch |-> NULL, read |-> NULL, invalidated |-> TRUE]]
  /\ UNCHANGED <<server, late, lists_vars, queueSummary, dialog, requests, decided>>

resolve(resolution) ==
  /\ isOpen /\ ~resolvePending /\ Moves
  /\ requests' = {q \in requests : q.dialog # dialog} \cup
       {[dialog |-> dialog, state |-> "sent",
         status |-> IF resolution = "DISMISSED" THEN "DISMISSED" ELSE "ACTIONED"]}
  /\ UNCHANGED <<server, late, lists_vars, queueSummary, details, dialog, decided>>

resolveAdminReport(q) ==
  /\ q.state = "sent" /\ Steady
  /\ LET r == q.dialog.report
         ok == server[r] = "PENDING"
     IN /\ server' = IF ok THEN [server EXCEPT ![r] = q.status] ELSE server
        /\ requests' = (requests \ {q}) \cup
             {[q EXCEPT !.state = IF ok THEN "applied" ELSE "refused"]}
  /\ UNCHANGED <<late, lists_vars, queueSummary, details, dialog, decided>>

InvalidateDetail(d, active) ==
  IF active /\ ~(d.fetch # NULL /\ d.data = NULL) THEN Ask(d) ELSE [d EXCEPT !.invalidated = TRUE]
InvalidateList(q, active) ==
  IF active /\ ~(q.fetch # NULL /\ q.pages = <<>>) THEN Restart(q)
  ELSE [q EXCEPT !.invalidated = TRUE]

(* Mutant: the lists are invalidated, the reports are not. *)
invalidateLists ==
  /\ lists' = [t \in TABS |-> InvalidateList(lists[t], t = status)]
  /\ queueSummary' = [queueSummary EXCEPT !.fetch = "asked", !.read = NULL]
  /\ UNCHANGED details

(* Everything below adminQueryKeys.reports.all.                            *)
invalidateQueries ==
  /\ lists' = [t \in TABS |-> InvalidateList(lists[t], t = status)]
  /\ queueSummary' =
       IF queueSummary.data = NULL /\ queueSummary.fetch # NULL THEN queueSummary
       ELSE [queueSummary EXCEPT !.fetch = "asked", !.read = NULL]
  /\ details' = [r \in Reports |->
       InvalidateDetail(details[r], dialog # NULL /\ dialog.report = r)]

(* onResolved: whichever dialog is open is closed.                         *)
onResolved(q) ==
  /\ q.state = "applied" /\ requests' = requests \ {q} /\ Steady
  /\ dialog' = NULL
  /\ invalidateQueries
  /\ decided' = LET r == q.dialog.report IN
       IF details[r].fetch = NULL \/ (dialog # NULL /\ dialog.report = r)
       THEN decided \cup {r} ELSE decided
  /\ UNCHANGED <<server, late, status>>

onError(q) ==
  /\ q.state # "failed"
  /\ IF q.state = "refused" THEN Steady ELSE Fault
  /\ requests' = (requests \ {q}) \cup {[q EXCEPT !.state = "failed"]}
  /\ UNCHANGED <<server, late, lists_vars, queueSummary, details, dialog, decided>>

-----------------------------------------------------------------------------
Others ==
  /\ moves < MaxMoves /\ moves' = moves + 1
  /\ \/ \E r \in Of("PENDING"), s \in {"ACTIONED", "DISMISSED"} :
          server' = [server EXCEPT ![r] = s] /\ UNCHANGED late
     \/ \E r \in Of(NULL) : /\ \A q \in Of(NULL) : r <= q
                            /\ server' = [server EXCEPT ![r] = "PENDING"] /\ UNCHANGED late
     \/ \E r \in Reports : server[r] # NULL /\ late < r /\ late' = r /\ UNCHANGED server
  /\ UNCHANGED <<lists_vars, queueSummary, dialog_vars, faults>>

Init ==
  /\ late = 0 /\ status = "PENDING"
  /\ \E n \in 1..Cardinality(Reports) : server = [r \in Reports |-> IF r <= n THEN "PENDING" ELSE NULL]
  /\ lists = [t \in TABS |-> [pages |-> <<>>, fetch |-> IF t = status THEN Reading("all") ELSE NULL,
                              error |-> FALSE, invalidated |-> FALSE]]
  /\ queueSummary = [data |-> NULL, fetch |-> "asked", read |-> NULL]
  /\ details = [r \in Reports |-> [data |-> NULL, fetch |-> NULL, read |-> NULL, invalidated |-> FALSE]]
  /\ dialog = NULL /\ requests = {} /\ decided = {} /\ moves = 0 /\ faults = 0

Next ==
  \/ \E t \in TABS : setStatus(t) \/ PageRead(t) \/ ListAnswered(t) \/ ListFails(t)
  \/ loadNextReportPage \/ refetch
  \/ Poll \/ SummaryRead \/ SummaryAnswered \/ SummaryFails
  \/ \E r \in Reports : openDialog(r) \/ DetailRead(r) \/ DetailAnswered(r) \/ DetailFails(r)
  \/ onClose \/ resolve("DISMISSED") \/ resolve("USER_SUSPENDED")
  \/ \E q \in requests : resolveAdminReport(q) \/ onResolved(q) \/ onError(q)
  \/ Others

Spec == Init /\ [][Next]_vars

-----------------------------------------------------------------------------
(* "paging by offset over a queue that shrinks as it is worked skips the   *)
(* reports that slide up past the window, and those are the ones closest   *)
(* to their deadline" (admin-reports.api.ts:48): a report that is waiting  *)
(* is listed once a later one is, whatever was decided between two pages.  *)
NothingSkipped ==
  \A r \in Of("PENDING") :
    (\E i \in ItemsOf(lists["PENDING"]) : i.id > r) => \E i \in ItemsOf(lists["PENDING"]) : i.id = r

(* A report decided from here is not offered for a decision again, once it *)
(* has been read: not in the dialog that is opened on it from a list that  *)
(* still has it, and not after a read that was under way when its dialog   *)
(* was open.                                                               *)
DecidedStays ==
  (dialog # NULL /\ dialog.report \in decided /\ details[dialog.report].fetch = NULL
     /\ ~details[dialog.report].invalidated) => ~isOpen

(* The counters catch up with the queue, whatever the list does and with   *)
(* requests that fail.                                                     *)
CountsAgree == summary # NULL /\ summary.open = Counts.open
=============================================================================
