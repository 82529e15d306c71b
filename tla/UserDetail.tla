----------------------------- MODULE UserDetail -----------------------------
(***************************************************************************)
(* The screen of one user (src/src/features/users/UserDetailPage.tsx,      *)
(* use-user-detail-query.ts): the detail, the summary that it may carry or *)
(* that has a route of its own, and the actions on the account.  A         *)
(* withdrawn account has a summary at most.  Nothing is retried by itself. *)
(***************************************************************************)
EXTENDS Integers, FiniteSets

CONSTANTS MaxChanges, MaxFaults, MaxRefetches, \* bounds: changes of the account,
          NULL                                \* failures, requests repeated

VARIABLES
  account,  \* of the server: its status, its changes so far, whether the
            \* detail carries the summary, and whether there is a summary
  detail,   \* the query: the data, the error of the last request, the running
            \* request, and what the server has read for it
  summary,  \* the query: "none", "some", "deleted" (one that tells when the
            \* account was deleted) or "missing" (read, but there is none),
            \* the error, is a request running
  dialog,   \* the action that is to be confirmed, or NULL
  mutation, \* the action that is sent, or NULL
  acted,    \* how many changes the account had after the last action
  faults, refetches

vars == <<account, detail, summary, dialog, mutation, acted, faults, refetches>>

Status == {"active", "suspended", "withdrawn"}
Data == [status : Status, change : 0..MaxChanges, summary : BOOLEAN]

TypeOK ==
  /\ account \in [status : Status, change : 0..MaxChanges, inlines : BOOLEAN, summary : BOOLEAN]
  /\ detail \in [data : Data \cup {NULL}, error : {NULL, "404", "403", "other"},
                 fetching : {"no", "asked", "read"}, read : Data \cup {NULL}]
  /\ (detail.read # NULL) = (detail.fetching = "read")
  /\ summary \in [data : {"none", "some", "deleted", "missing"}, error : BOOLEAN, fetching : BOOLEAN]
  /\ dialog \in {NULL, "ban", "unban"} /\ mutation \in {NULL, "ban", "unban"}
  /\ (mutation # NULL => mutation = dialog)
  /\ acted \in 0..MaxChanges /\ faults \in 0..MaxFaults /\ refetches \in 0..MaxRefetches

-----------------------------------------------------------------------------
(* What is on screen.                                                      *)
detailMissing == detail.error = "404"
detailSuccess == detail.data # NULL /\ detail.error = NULL

(* Mutant: the summary is asked for when the detail is there only. *)
enabledIfFound(d) == d.data # NULL /\ d.error = NULL /\ ~d.data.summary

(* Mutant: the summary is asked for at once. *)
enabledAtOnce(d) == TRUE

(* Is the summary asked for, given the query of the detail.                *)
enabled(d) ==
  \/ d.data # NULL /\ d.error = NULL /\ ~d.data.summary
  \/ d.error = "404"

summaryInlined == detail.data # NULL /\ detail.data.summary
summaryShown == summaryInlined \/ summary.data \in {"some", "deleted"}

(* Mutant: a detail whose last request failed is not shown. *)
userIfFresh == IF detailSuccess THEN "detail" ELSE IF detailMissing /\ summaryShown THEN "summary" ELSE NULL

(* The profile is the detail, or made up from the summary.                 *)
user ==
  IF detail.data # NULL THEN "detail" ELSE IF detailMissing /\ summaryShown THEN "summary" ELSE NULL

detailPending == detail.data = NULL /\ detail.error = NULL
summaryPending == summary.data = "none" /\ ~summary.error
skeleton == user = NULL /\ (detailPending \/ (detailMissing /\ summaryPending))

(* The notices in place of a profile.                                      *)
notice ==
  IF user # NULL \/ skeleton THEN NULL
  ELSE CASE detail.error = "403" -> "no permission" [] detailMissing -> "not found" [] OTHER -> "failed"

(* The account is gone, by either answer.                                  *)
withdrawn == detailMissing \/ (~summaryInlined /\ summary.data = "deleted")

(* statusAction: an account is not suspended or released twice.            *)
actions ==
  IF user # "detail" \/ withdrawn THEN {}
  ELSE IF detail.data.status = "suspended" THEN {"unban"} ELSE {"ban"}

-----------------------------------------------------------------------------
(* A request of the summary starts when it becomes wanted and has not been *)
(* read.                                                                   *)
Enable(d) ==
  summary' = IF enabled(d) /\ summary.data = "none" /\ ~summary.fetching
             THEN [summary EXCEPT !.fetching = TRUE, !.error = FALSE] ELSE summary

Failures == faults < MaxFaults /\ faults' = faults + 1

(* The server reads the account for the request of the detail: one that is *)
(* withdrawn has none.                                                     *)
DetailRead ==
  /\ detail.fetching = "asked"
  /\ detail' = [detail EXCEPT !.fetching = "read", !.read =
       [status |-> account.status, change |-> account.change,
        summary |-> account.inlines /\ account.summary]]
  /\ UNCHANGED <<account, summary, dialog, mutation, acted, faults, refetches>>

DetailAnswered ==
  /\ detail.fetching = "read"
  /\ detail' = IF detail.read.status = "withdrawn"
               THEN [detail EXCEPT !.error = "404", !.fetching = "no", !.read = NULL]
               ELSE [data |-> detail.read, error |-> NULL, fetching |-> "no", read |-> NULL]
  /\ Enable(detail')
  /\ UNCHANGED <<account, dialog, mutation, acted, faults, refetches>>

DetailFails ==
  /\ detail.fetching # "no" /\ Failures
  /\ \E error \in {"403", "other"} :
       detail' = [detail EXCEPT !.error = error, !.fetching = "no", !.read = NULL]
  /\ UNCHANGED <<account, summary, dialog, mutation, acted, refetches>>

(* getAdminUserSummary: that there is none is an answer.                   *)
SummaryAnswered ==
  /\ summary.fetching
  /\ summary' = [data |-> CASE ~account.summary -> "missing"
                            [] account.summary /\ account.status = "withdrawn" -> "deleted"
                            [] OTHER -> "some",
                  error |-> FALSE, fetching |-> FALSE]
  /\ UNCHANGED <<account, detail, dialog, mutation, acted, faults, refetches>>

SummaryFails ==
  /\ summary.fetching /\ Failures
  /\ summary' = [summary EXCEPT !.error = TRUE, !.fetching = FALSE]
  /\ UNCHANGED <<account, detail, dialog, mutation, acted, refetches>>

(* Trying again, from the notice of a failure.                             *)
refetch ==
  /\ notice = "failed" /\ detail.fetching = "no" /\ refetches < MaxRefetches
  /\ refetches' = refetches + 1
  /\ detail' = [detail EXCEPT !.fetching = "asked", !.error = NULL]
  /\ UNCHANGED <<account, summary, dialog, mutation, acted, faults>>

(* The screen is opened again soon after; what was read is still there,    *)
(* and is read again when it is stale.                                     *)
Reopen ==
  /\ refetches < MaxRefetches /\ refetches' = refetches + 1
  /\ mutation = NULL /\ dialog' = NULL /\ detail.fetching = "no"
  /\ detail' = [detail EXCEPT !.fetching = "asked", !.error = IF detail.data = NULL THEN NULL ELSE @]
  /\ Enable(detail')
  /\ UNCHANGED <<account, mutation, acted, faults>>

-----------------------------------------------------------------------------
(* An action is chosen, confirmed, and carried out.                        *)
openAction ==
  /\ dialog = NULL /\ mutation = NULL /\ \E a \in actions : dialog' = a
  /\ UNCHANGED <<account, detail, summary, mutation, acted, faults, refetches>>

(* Mutant: the dialog can be closed under the action. *)
onCloseAnyway ==
  /\ dialog # NULL /\ dialog' = NULL
  /\ UNCHANGED <<account, detail, summary, mutation, acted, faults, refetches>>

onClose ==
  /\ dialog # NULL /\ mutation = NULL /\ dialog' = NULL
  /\ UNCHANGED <<account, detail, summary, mutation, acted, faults, refetches>>

submitAction ==
  /\ dialog # NULL /\ mutation = NULL /\ mutation' = dialog
  /\ UNCHANGED <<account, detail, summary, dialog, acted, faults, refetches>>

(* Mutant: a request that already runs will do. *)
invalidateJoins ==
  detail' = [detail EXCEPT !.fetching = IF @ = "no" THEN "asked" ELSE @]

(* What has been read of the user is read again; an older request is       *)
(* given up.  (A detail without data is joined: actions need data.)        *)
invalidate == detail' = [detail EXCEPT !.fetching = "asked", !.read = NULL]

(* The server carries the action out and answers.                          *)
onSuccess ==
  /\ mutation # NULL /\ account.status # "withdrawn" /\ account.change < MaxChanges
  /\ account' = [account EXCEPT !.status = IF mutation = "ban" THEN "suspended" ELSE "active",
                                !.change = @ + 1]
  /\ acted' = account'.change /\ dialog' = NULL /\ mutation' = NULL
  /\ invalidate
  /\ summary' = IF enabled(detail) THEN [summary EXCEPT !.fetching = TRUE] ELSE summary
  /\ UNCHANGED <<faults, refetches>>

(* It is refused, or the request fails: the dialog stays.                  *)
onError ==
  /\ mutation # NULL /\ mutation' = NULL
  /\ IF account.status = "withdrawn" \/ account.change = MaxChanges THEN UNCHANGED faults ELSE Failures
  /\ UNCHANGED <<account, detail, summary, dialog, acted, refetches>>

(* Somebody else acts on the account, or its owner withdraws.              *)
AccountChanges ==
  /\ account.status # "withdrawn" /\ account.change < MaxChanges
  /\ \E s \in Status \ {account.status} :
       account' = [account EXCEPT !.status = s, !.change = @ + 1]
  /\ UNCHANGED <<detail, summary, dialog, mutation, acted, faults, refetches>>

Init ==
  /\ account \in [status : Status, change : {0}, inlines : BOOLEAN, summary : BOOLEAN]
  /\ detail = [data |-> NULL, error |-> NULL, fetching |-> "asked", read |-> NULL]
  /\ summary = [data |-> "none", error |-> FALSE, fetching |-> enabled(detail)]
  /\ dialog = NULL /\ mutation = NULL /\ acted = 0 /\ faults = 0 /\ refetches = 0

Next ==
  \/ DetailRead \/ DetailAnswered \/ DetailFails \/ SummaryAnswered \/ SummaryFails
  \/ refetch \/ Reopen \/ openAction \/ onClose \/ submitAction \/ onSuccess \/ onError
  \/ AccountChanges

Spec == Init /\ [][Next]_vars

(* A request is answered or fails.                                         *)

-----------------------------------------------------------------------------
(* Once the screen has read the account again without a failure, it shows  *)
(* no state from before the operator's own last action, whatever requests  *)
(* were running when it was carried out (UserDetailPage.tsx:123).          *)
OwnActionIsSeen ==
  (detailSuccess /\ detail.fetching = "no") => detail.data.change >= acted

(* A profile that is on screen stays there when the account is read again  *)
(* in vain, or has gone meanwhile.                                         *)
ProfileStays == (user # NULL /\ UNCHANGED refetches) => user' # NULL

(* One request is enough for a user whose detail carries the summary: the  *)
(* summary is never asked for while it is not known that it does not       *)
(* (UserDetailPage.tsx:98).                                                *)
NoNeedlessSummary ==
  (summary'.fetching /\ ~summary.fetching)
    => (detail'.error = "404" \/ (detail'.data # NULL /\ ~detail'.data.summary))

(* The skeleton gives way to a profile or a notice, for a withdrawn        *)
(* account too.                                                            *)
SkeletonShown == skeleton
=============================================================================
