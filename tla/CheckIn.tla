------------------------------ MODULE CheckIn ------------------------------
(***************************************************************************)
(* Checking participants in at the door                                    *)
(* (src/src/app/(auth-v2)/app/parties/[partyId]/check-in/page.tsx): the    *)
(* list of participants, the confirmation dialog, and two mutations, by    *)
(* hand and by QR token, whose answers may come after the dialog that      *)
(* asked for them was closed.                                              *)
(*                                                                         *)
(* A mutation runs the onSuccess of the last render in which its hook      *)
(* still observed it (external: useMutation): reset() lets it go with the  *)
(* values it had then.                                                     *)
(***************************************************************************)
EXTENDS Integers, FiniteSets

CONSTANTS People,
          PAGE_SIZE,  \* CHECK_IN_PAGE_SIZE, 60 in the code
          MaxOps,     \* bound: check-ins sent
          MaxFaults,  \* bound: failed requests
          NULL

VARIABLES
  present,     \* the server: who is checked in
  participants, \* the cached status: whom it shows as checked in, or NULL
  statusFetch, statusRead, \* its fetch, NULL, "asked" or "read", and what it read
  statusError,
  attendanceFilter,
  visibleWindow, \* the filter the window was extended for, and its size
  selected,    \* the participant of the dialog, or NULL
  manual, qr,  \* mutations under way
  qrOpen,
  notice,      \* whom the notice names, or NULL
  ops, faults

status == <<participants, statusFetch, statusRead, statusError>>
page == <<attendanceFilter, visibleWindow, selected, qrOpen, notice>>
vars == <<present, participants, statusFetch, statusRead, statusError,
          attendanceFilter, visibleWindow, selected, manual, qr, qrOpen, notice, ops, faults>>

Filters == {"ALL", "CHECKED_IN", "NOT_CHECKED_IN"}
Counts == {n * PAGE_SIZE : n \in 1..(Cardinality(People) + 1)}
Someone == "participant" \* the name of a participant the page does not know

TypeOK ==
  /\ present \subseteq People
  /\ participants = NULL \/ participants \subseteq People
  /\ statusFetch \in {NULL, "asked", "read"} /\ statusRead \subseteq People
  /\ attendanceFilter \in Filters
  /\ visibleWindow \in [key : Filters, count : Counts]
  /\ selected \in People \cup {NULL} /\ statusError \in BOOLEAN /\ qrOpen \in BOOLEAN
  /\ notice \in People \cup {Someone, NULL}
  /\ \A m \in manual : m.user \in People /\ m.closure \in People \cup {NULL}

-----------------------------------------------------------------------------
(* The list.                                                               *)

filteredParticipants ==
  IF participants = NULL THEN {}
  ELSE {p \in People : \/ attendanceFilter = "ALL"
                       \/ attendanceFilter = "CHECKED_IN" /\ p \in participants
                       \/ attendanceFilter = "NOT_CHECKED_IN" /\ p \notin participants}

(* Mutant: the window outlives its filter. *)
windowOfAnyFilter == visibleWindow.count

visibleCount ==
  IF visibleWindow.key = attendanceFilter THEN visibleWindow.count ELSE PAGE_SIZE

(* What may be on the page: any part of the list the window leaves room    *)
(* for, as the server orders it.                                           *)
OnPage(p) ==
  /\ p \in filteredParticipants /\ ~statusError
  /\ \E s \in SUBSET filteredParticipants : p \in s /\ Cardinality(s) <= visibleCount

Fetch == IF participants = NULL /\ statusFetch # NULL THEN statusFetch ELSE "asked"

(* Mutant: the list is left as it is. *)
LeaveStatus == UNCHANGED <<statusFetch, statusRead>>

(* invalidateQueries: starts over, or joins the first fetch.               *)
InvalidateStatus ==
  statusFetch' = Fetch /\ statusRead' = IF Fetch = "read" THEN statusRead ELSE {}

StatusReads ==
  /\ statusFetch = "asked" /\ statusFetch' = "read" /\ statusRead' = present
  /\ UNCHANGED <<present, participants, statusError, page, manual, qr, ops, faults>>

StatusAnswered ==
  /\ statusFetch = "read" /\ statusFetch' = NULL /\ statusRead' = {}
  /\ participants' = statusRead /\ statusError' = FALSE
  /\ UNCHANGED <<present, page, manual, qr, ops, faults>>

StatusFails ==
  /\ faults < MaxFaults /\ faults' = faults + 1
  /\ statusFetch # NULL /\ statusFetch' = NULL /\ statusRead' = {}
  /\ statusError' = TRUE
  /\ UNCHANGED <<present, participants, page, manual, qr, ops>>

(* The error hides the list and offers a retry.                            *)
Refetch ==
  /\ statusError /\ statusFetch = NULL /\ statusFetch' = "asked"
  /\ UNCHANGED <<present, participants, statusRead, statusError, page, manual, qr, ops, faults>>

Filter(f) ==
  /\ participants # NULL /\ ~statusError /\ f # attendanceFilter
  /\ attendanceFilter' = f
  /\ UNCHANGED <<present, status, visibleWindow, selected, qrOpen, notice, manual,
       qr, ops, faults>>

(* Mutant: the window starts from nothing. *)
ShowMoreFromZero ==
  /\ visibleCount < Cardinality(filteredParticipants) /\ ~statusError
  /\ visibleWindow' = [key |-> attendanceFilter, count |-> visibleCount - PAGE_SIZE]
  /\ UNCHANGED <<present, status, attendanceFilter, selected, qrOpen, notice,
       manual, qr, ops, faults>>

ShowMore ==
  /\ visibleCount < Cardinality(filteredParticipants) /\ ~statusError
  /\ visibleWindow' = [key |-> attendanceFilter, count |-> visibleCount + PAGE_SIZE]
  /\ UNCHANGED <<present, status, attendanceFilter, selected, qrOpen, notice,
       manual, qr, ops, faults>>

-----------------------------------------------------------------------------
(* By hand.                                                                *)

isPending == \E m \in manual : m.observed

(* Mutant: the dialog closes and the mutation stays observed. *)
keep == manual

(* reset(): the mutation under way is let go with what it sees.            *)
reset == {[m EXCEPT !.observed = FALSE, !.closure = IF m.observed THEN selected ELSE @]
            : m \in manual}

Select(p) ==
  /\ selected = NULL /\ ~qrOpen /\ OnPage(p) /\ p \notin participants
  /\ selected' = p /\ manual' = reset
  /\ UNCHANGED <<present, status, attendanceFilter, visibleWindow, qrOpen, notice,
       qr, ops, faults>>

CloseDialog ==
  /\ selected # NULL /\ selected' = NULL /\ manual' = reset
  /\ UNCHANGED <<present, status, attendanceFilter, visibleWindow, qrOpen, notice,
       qr, ops, faults>>

checkInManually ==
  /\ selected # NULL /\ ~isPending
  /\ ops < MaxOps /\ ops' = ops + 1
  /\ manual' = manual \cup {[user |-> selected, closure |-> NULL, observed |-> TRUE,
                             serial |-> ops + 1, applied |-> FALSE]}
  /\ UNCHANGED <<present, status, page, qr, faults>>

(* The server checks the participant in, then answers.                     *)
Applied(m) ==
  /\ m \in manual /\ ~m.applied
  /\ present' = present \cup {m.user}
  /\ manual' = (manual \ {m}) \cup {[m EXCEPT !.applied = TRUE]}
  /\ UNCHANGED <<status, page, qr, ops, faults>>

(* The dialog of its render: the last one, or the one it was let go with.  *)
Sees(m) == IF m.observed THEN selected ELSE m.closure

(* onSuccess names the participant it finds selected, and closes the       *)
(* dialog.                                                                 *)
ManualSucceeds(m) ==
  /\ m \in manual /\ m.applied
  /\ notice' = IF Sees(m) = NULL THEN Someone ELSE Sees(m)
  /\ selected' = NULL /\ manual' = manual \ {m}
  /\ InvalidateStatus
  /\ UNCHANGED <<present, participants, statusError, attendanceFilter,
       visibleWindow, qrOpen, qr, ops, faults>>

(* The error is shown in the dialog, which stays open.                     *)
ManualFails(m) ==
  /\ faults < MaxFaults /\ faults' = faults + 1
  /\ m \in manual /\ manual' = manual \ {m}
  /\ UNCHANGED <<present, status, page, qr, ops>>

-----------------------------------------------------------------------------
(* By token.                                                               *)

ToggleQr ==
  /\ selected = NULL /\ qrOpen' = ~qrOpen
  /\ UNCHANGED <<present, status, attendanceFilter, visibleWindow, selected,
       notice, manual, qr, ops, faults>>

(* A token of some participant, from the scanner or typed.                 *)
checkInByQr(p) ==
  /\ qrOpen /\ ops < MaxOps /\ ops' = ops + 1
  /\ qr' = qr \cup {[user |-> p, serial |-> ops + 1, applied |-> FALSE]}
  /\ UNCHANGED <<present, status, page, manual, faults>>

QrApplied(m) ==
  /\ m \in qr /\ ~m.applied
  /\ present' = present \cup {m.user}
  /\ qr' = (qr \ {m}) \cup {[m EXCEPT !.applied = TRUE]}
  /\ UNCHANGED <<status, page, manual, ops, faults>>

(* The answer names the user; the page may not know them.                  *)
QrSucceeds(m) ==
  /\ m \in qr /\ m.applied /\ qr' = qr \ {m}
  /\ qrOpen' = FALSE
  /\ notice' = IF participants = NULL THEN Someone ELSE m.user
  /\ InvalidateStatus
  /\ UNCHANGED <<present, participants, statusError, attendanceFilter,
       visibleWindow, selected, manual, ops, faults>>

QrFails(m) ==
  /\ faults < MaxFaults /\ faults' = faults + 1
  /\ m \in qr /\ qr' = qr \ {m}
  /\ UNCHANGED <<present, status, page, manual, ops>>

NoticeEnds ==
  /\ notice # NULL /\ notice' = NULL
  /\ UNCHANGED <<present, status, attendanceFilter, visibleWindow, selected,
       qrOpen, manual, qr, ops, faults>>

-----------------------------------------------------------------------------
Init ==
  /\ present \in SUBSET People
  /\ participants = NULL /\ statusFetch = "asked" /\ statusRead = {} /\ statusError = FALSE
  /\ attendanceFilter = "ALL" /\ visibleWindow = [key |-> "ALL", count |-> PAGE_SIZE]
  /\ selected = NULL /\ manual = {} /\ qr = {} /\ qrOpen = FALSE /\ notice = NULL
  /\ ops = 0 /\ faults = 0

Operator ==
  \/ Refetch \/ (\E f \in Filters : Filter(f)) \/ ShowMore
  \/ (\E p \in People : Select(p) \/ checkInByQr(p))
  \/ CloseDialog \/ checkInManually \/ ToggleQr
Requests ==
  \/ StatusReads \/ StatusAnswered
  \/ \E m \in manual : Applied(m) \/ ManualSucceeds(m)
  \/ \E m \in qr : QrApplied(m) \/ QrSucceeds(m)
Failures ==
  \/ StatusFails
  \/ \E m \in manual : ManualFails(m)
  \/ \E m \in qr : QrFails(m)

Next == Operator \/ Requests \/ Failures \/ NoticeEnds

Spec == Init /\ [][Next]_vars

-----------------------------------------------------------------------------
(* The notice never names somebody who is not in: whichever dialog was     *)
(* closed, reopened or answered late, "checked in" is said of the one the  *)
(* server has checked in, or of nobody by name.                            *)
NoticeIsTrue == notice \in present \cup {Someone, NULL}

(* What it rests on: who was served is in, and what a mutation sees of the *)
(* dialog, now or when it was let go, is its own participant or none.      *)
Manual == [user : People, closure : People \cup {NULL}, observed : BOOLEAN,
           serial : Nat, applied : BOOLEAN]
Tokens == [user : People, serial : Nat, applied : BOOLEAN]
NoticeInv ==
  /\ TypeOK /\ ops \in Nat /\ manual \subseteq Manual /\ qr \subseteq Tokens
  /\ \A m \in manual \cup qr : m.applied => m.user \in present
  /\ \A m \in manual : Sees(m) \in {NULL, m.user}
  /\ NoticeIsTrue

(* Whoever a notice names comes to be shown as in, unless the list could   *)
(* not be fetched: an answer never leaves its own check-in out of the list. *)
Named(p) == notice = p
ShownIn(p) == statusError \/ (participants # NULL /\ p \in participants)

(* Extending one filter's list never extends another's: what the page      *)
(* shows beyond its first window was asked for under the same filter.      *)
WindowPerFilter ==
  (attendanceFilter' # attendanceFilter /\ visibleCount' > PAGE_SIZE)
    => visibleWindow.key = attendanceFilter'
=============================================================================
