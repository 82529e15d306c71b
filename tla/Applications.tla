---------------------------- MODULE Applications ----------------------------
(***************************************************************************)
(* Reviewing the applications to a party                                   *)
(* (src/src/app/(auth-v2)/app/parties/[partyId]/applications/page.tsx):    *)
(* the list of pending applicants, the sheet over one of them, the dialog  *)
(* that asks for the reason of a rejection, and the one mutation the three *)
(* share.  The list stays in reach while a review is under way; the sheet  *)
(* and the dialog are modal.                                               *)
(***************************************************************************)
EXTENDS Integers, FiniteSets

CONSTANTS Applicants,
          WINDOW_SIZE, \* APPLICATION_WINDOW_SIZE, 40 in the code
          MaxReviews,  \* bound: reviews sent
          MaxFaults,   \* bound: failed requests
          NULL

VARIABLES
  status,      \* the server: [Applicants -> status]
  applicants,  \* the cached list: those it shows as pending, or NULL
  fetch, read, \* its fetch, NULL, "asked" or "read", and what it read
  listError,
  visibleCount,
  selectedApplicant, \* the applicant of the sheet, or NULL
  rejecting, reason, \* the applicant of the dialog, or NULL; whether a reason is typed
  review,      \* the review under way, or NULL
  sent, faults

query == <<applicants, fetch, read, listError>>
view == <<visibleCount, selectedApplicant, rejecting, reason>>
vars == <<status, applicants, fetch, read, listError, visibleCount, selectedApplicant,
          rejecting, reason, review, sent, faults>>

Statuses == {"PENDING", "APPROVED", "REJECTED"}
Reviews == [who : Applicants, status : Statuses \ {"PENDING"}, reason : BOOLEAN, applied : BOOLEAN]

TypeOK ==
  /\ status \in [Applicants -> Statuses]
  /\ applicants = NULL \/ applicants \subseteq Applicants
  /\ fetch \in {NULL, "asked", "read"} /\ read \subseteq Applicants /\ listError \in BOOLEAN
  /\ visibleCount \in {n * WINDOW_SIZE : n \in 1..Cardinality(Applicants) + 1}
  /\ {selectedApplicant, rejecting} \subseteq Applicants \cup {NULL} /\ reason \in BOOLEAN
  /\ review = NULL \/ (review \in Reviews /\ (review.reason <=> review.status = "REJECTED"))

-----------------------------------------------------------------------------
(* The list.                                                               *)

Pending == {a \in Applicants : status[a] = "PENDING"}

Reads ==
  /\ fetch = "asked" /\ fetch' = "read" /\ read' = Pending
  /\ UNCHANGED <<status, applicants, listError, view, review, sent, faults>>

Answered ==
  /\ fetch = "read" /\ fetch' = NULL /\ read' = {}
  /\ applicants' = read /\ listError' = FALSE
  /\ UNCHANGED <<status, view, review, sent, faults>>

ListFails ==
  /\ faults < MaxFaults /\ faults' = faults + 1
  /\ fetch # NULL /\ fetch' = NULL /\ read' = {} /\ listError' = TRUE
  /\ UNCHANGED <<status, applicants, view, review, sent>>

Retry ==
  /\ listError /\ fetch = NULL /\ fetch' = "asked"
  /\ UNCHANGED <<status, applicants, read, listError, view, review, sent, faults>>

(* The page: behind a sheet or a dialog, an error or the first load        *)
(* nothing of it can be pressed.  The window shows any part of the list    *)
(* it has room for, as the server orders it.                               *)
Free == selectedApplicant = NULL /\ rejecting = NULL /\ ~listError /\ applicants # NULL
OnPage(a) ==
  Free /\ \E s \in SUBSET applicants : a \in s /\ Cardinality(s) <= visibleCount

ShowMore ==
  /\ Free /\ visibleCount < Cardinality(applicants)
  /\ visibleCount' = visibleCount + WINDOW_SIZE
  /\ UNCHANGED <<status, query, selectedApplicant, rejecting, reason, review, sent, faults>>

-----------------------------------------------------------------------------
(* The review.                                                             *)

(* mutation.mutate, from buttons that are disabled while it is pending.    *)
Mutate(a, to, why) ==
  /\ review = NULL /\ sent < MaxReviews /\ sent' = sent + 1
  /\ review' = [who |-> a, status |-> to, reason |-> why, applied |-> FALSE]
  /\ UNCHANGED <<status, query, view, faults>>

Approve(a) == (OnPage(a) \/ a = selectedApplicant) /\ Mutate(a, "APPROVED", FALSE)

OpenSheet(a) ==
  /\ OnPage(a) /\ selectedApplicant' = a
  /\ UNCHANGED <<status, query, visibleCount, rejecting, reason, review, sent, faults>>

CloseSheet ==
  /\ selectedApplicant # NULL /\ selectedApplicant' = NULL
  /\ UNCHANGED <<status, query, visibleCount, rejecting, reason, review, sent, faults>>

(* From the list, which does not wait for a review, or from the sheet,     *)
(* which does, and closes.                                                 *)
Reject(a) ==
  /\ OnPage(a) \/ (a = selectedApplicant /\ review = NULL)
  /\ selectedApplicant' = NULL /\ rejecting' = a /\ reason' = FALSE
  /\ UNCHANGED <<status, query, visibleCount, review, sent, faults>>

TypeReason ==
  /\ rejecting # NULL /\ reason' = ~reason
  /\ UNCHANGED <<status, query, visibleCount, selectedApplicant, rejecting, review, sent, faults>>

(* Mutant: a rejection needs no reason. *)
ConfirmBlank == rejecting # NULL /\ Mutate(rejecting, "REJECTED", reason)

ConfirmReject == rejecting # NULL /\ reason /\ Mutate(rejecting, "REJECTED", reason)

CloseReject ==
  /\ rejecting # NULL /\ review = NULL
  /\ rejecting' = NULL /\ reason' = FALSE
  /\ UNCHANGED <<status, query, visibleCount, selectedApplicant, review, sent, faults>>

(* The server decides an application once.                                 *)
ServerDecides ==
  /\ review # NULL /\ ~review.applied /\ status[review.who] = "PENDING"
  /\ status' = [status EXCEPT ![review.who] = review.status]
  /\ review' = [review EXCEPT !.applied = TRUE]
  /\ UNCHANGED <<query, view, sent, faults>>

(* Mutant: the list is left as it is. *)
LeaveApplicants == UNCHANGED <<fetch, read>>

(* There is a list when a review is answered: its fetch starts over.       *)
InvalidateApplicants == fetch' = "asked" /\ read' = {}

(* Mutant: whatever sheet is open closes. *)
CloseAnySheet(a) == NULL

SheetAfter(a) == IF selectedApplicant = a THEN NULL ELSE selectedApplicant

onSuccess ==
  /\ review # NULL /\ review.applied /\ review' = NULL
  /\ InvalidateApplicants
  /\ rejecting' = NULL /\ reason' = FALSE
  /\ selectedApplicant' = SheetAfter(review.who)
  /\ UNCHANGED <<status, applicants, listError, visibleCount, sent, faults>>

(* The request fails before or after the server decided, or the server     *)
(* refuses to decide again.                                                *)
onError ==
  /\ review # NULL /\ review' = NULL
  /\ \/ faults < MaxFaults /\ faults' = faults + 1
     \/ ~review.applied /\ status[review.who] # "PENDING" /\ UNCHANGED faults
  /\ UNCHANGED <<status, query, view, sent>>

-----------------------------------------------------------------------------
Init ==
  /\ status = [a \in Applicants |-> "PENDING"]
  /\ applicants = NULL /\ fetch = "asked" /\ read = {} /\ listError = FALSE
  /\ visibleCount = WINDOW_SIZE /\ selectedApplicant = NULL
  /\ rejecting = NULL /\ reason = FALSE /\ review = NULL
  /\ sent = 0 /\ faults = 0

Operator ==
  \/ Retry \/ ShowMore \/ CloseSheet \/ TypeReason \/ ConfirmReject \/ CloseReject
  \/ \E a \in Applicants : Approve(a) \/ OpenSheet(a) \/ Reject(a)
Requests == Reads \/ Answered \/ ServerDecides \/ onSuccess

Next == Operator \/ Requests \/ ListFails \/ onError

Spec == Init /\ [][Next]_vars

-----------------------------------------------------------------------------
(* The answer to the review of one applicant does not close the sheet that *)
(* was opened over another since.                                          *)
SheetStays ==
  (review # NULL /\ review' = NULL /\ selectedApplicant # review.who)
    => selectedApplicant' = selectedApplicant

(* Whoever was reviewed leaves the list of the pending, unless the list    *)
(* could not be fetched or the answer was lost.                            *)
Decided(a) == review # NULL /\ review.who = a /\ review.applied
Gone(a) == listError \/ faults > 0 \/ (applicants # NULL /\ a \notin applicants)
=============================================================================
