-------------------------- MODULE AnalyticsRequest --------------------------
(***************************************************************************)
(* One report of Google Analytics on its way                               *)
(* (src/src/features/analytics/analytics-data-api.ts): its requests, four  *)
(* at once for the realtime report (analytics-reports.ts, fetchRealtime)   *)
(* and one for the others, each retried on its own, and the signal that    *)
(* ends them all when nobody looks at the report any more.                 *)
(***************************************************************************)
EXTENDS Integers, FiniteSets

CONSTANTS Parts,      \* the requests of the report
          Told,       \* the waits Google may ask for with Retry-After
          MaxClock,   \* a bound: how far time runs
          NULL

VARIABLES
  token,    \* does the caller have an access token
  parts,    \* at: "unsent", "sent", "reading" an answer, "waiting", "ok",
            \* "failed"; attempt; the answer that is read; until: when the
            \* wait is over; told: when Google wants to be asked again; kind:
            \* of the error
  aborted,  \* options.signal
  clock,
  outcome   \* of the report: NULL, "ok" or the kind of its error

vars == <<token, parts, aborted, clock, outcome>>

MAX_RETRIES == 2
Kinds == {"expired", "permission", "quota", "request", "service", "network", "invalid-response",
          "unknown-field", "aborted"}

(* The answers of Google, by status; a wait may come with two of them.     *)
Answers ==
  [status : {"200", "200 of another shape", "401", "403", "400", "400 not a valid dimension"},
   retryAfter : {NULL}]
  \cup [status : {"429", "403 RESOURCE_EXHAUSTED", "500"}, retryAfter : Told \cup {NULL}]

Part == [at : {"unsent", "sent", "reading", "waiting", "ok", "failed"}, attempt : 0..MAX_RETRIES,
         answer : Answers \cup {NULL}, until : Nat \cup {NULL}, told : Nat, kind : Kinds \cup {NULL}]

TypeOK ==
  /\ token \in BOOLEAN /\ aborted \in BOOLEAN /\ clock \in 0..MaxClock
  /\ parts \in [Parts -> Part] /\ outcome \in Kinds \cup {NULL, "ok"}
  /\ \A p \in Parts : (parts[p].kind # NULL) = (parts[p].at = "failed")

-----------------------------------------------------------------------------
(* The kind of error an answer is.  A body that cannot be read any more    *)
(* names neither an exhausted resource nor an unknown field.               *)
classifyResponseError(status, readable) ==
  CASE status = "401" -> "expired"
    [] status = "429" \/ (status = "403 RESOURCE_EXHAUSTED" /\ readable) -> "quota"
    [] status \in {"403", "403 RESOURCE_EXHAUSTED"} -> "permission"
    [] status = "500" -> "service"
    [] status = "400 not a valid dimension" /\ readable -> "unknown-field"
    [] OTHER -> "request"

(* Mutant: a refusal is retried like a failure. *)
shouldRetryAll(kind) == TRUE

shouldRetry(kind) == kind \in {"quota", "service", "network"}

(* Mutant: Google is asked again after the usual wait. *)
backoffOnly(attempt, retryAfter) == 2 ^ attempt

(* How long to wait, in units of 250 ms.                                   *)
backoff(attempt, retryAfter) == IF retryAfter # NULL THEN retryAfter ELSE 2 ^ attempt

Fail(p, kind) == [p EXCEPT !.at = "failed", !.kind = kind, !.answer = NULL, !.until = NULL]

(* Mutant: one retry too many. *)
RetryOnceMore(p, kind, retryAfter) ==
  IF ~(shouldRetry(kind) /\ p.attempt <= MAX_RETRIES) THEN Fail(p, kind)
  ELSE IF aborted THEN Fail(p, "aborted")
  ELSE [p EXCEPT !.at = "waiting", !.answer = NULL,
                 !.until = clock + backoff(p.attempt, retryAfter),
                 !.told = clock + IF retryAfter = NULL THEN 0 ELSE retryAfter]

(* An error ends the request, or has it wait; the wait ends at once when   *)
(* the signal has gone.                                                    *)
Retry(p, kind, retryAfter) ==
  IF ~(shouldRetry(kind) /\ p.attempt < MAX_RETRIES) THEN Fail(p, kind)
  ELSE IF aborted THEN Fail(p, "aborted")
  ELSE [p EXCEPT !.at = "waiting", !.answer = NULL,
                 !.until = clock + backoff(p.attempt, retryAfter),
                 !.told = clock + IF retryAfter = NULL THEN 0 ELSE retryAfter]

(* Promise.all: the first error is that of the report.                     *)
Settle ==
  outcome' = IF outcome # NULL THEN outcome
             ELSE IF \E p \in Parts : parts'[p].at = "failed"
                  THEN parts'[CHOOSE p \in Parts : parts'[p].at = "failed"].kind
             ELSE IF \A p \in Parts : parts'[p].at = "ok" THEN "ok" ELSE NULL

-----------------------------------------------------------------------------
(* All requests leave together; without a token none does.                 *)
Start ==
  /\ outcome = NULL /\ \A p \in Parts : parts[p].at = "unsent"
  /\ parts' = IF token THEN [p \in Parts |-> [parts[p] EXCEPT !.at = "sent"]]
              ELSE [p \in Parts |-> Fail(parts[p], "expired")]
  /\ Settle /\ UNCHANGED <<token, aborted, clock>>

(* An answer comes; its body is still to be read.                          *)
Answered(p) ==
  /\ parts[p].at = "sent" /\ ~aborted
  /\ \E answer \in Answers : parts' = [parts EXCEPT ![p].at = "reading", ![p].answer = answer]
  /\ UNCHANGED <<token, aborted, clock, outcome>>

(* The request fails on the way, or because of the signal.                 *)
SendFails(p) ==
  /\ parts[p].at = "sent"
  /\ parts' = [parts EXCEPT ![p] = IF aborted THEN Fail(@, "aborted") ELSE Retry(@, "network", NULL)]
  /\ Settle /\ UNCHANGED <<token, aborted, clock>>

(* Mutant: whatever can be parsed is a report. *)
fitsAny(status) == TRUE

(* assertReportContract, assertFunnelContract, the length of a batch.      *)
fits(status) == status = "200"

(* The body is read, in vain when the signal has gone meanwhile: then an   *)
(* answer of success has no shape at all.                                  *)
Read(p) ==
  LET status == parts[p].answer.status IN
  /\ parts[p].at = "reading"
  /\ parts' = [parts EXCEPT ![p] =
       IF status \in {"200", "200 of another shape"}
       THEN IF fits(status) /\ ~aborted THEN [@ EXCEPT !.at = "ok"] ELSE Fail(@, "invalid-response")
       ELSE Retry(@, classifyResponseError(status, ~aborted), @.answer.retryAfter)]
  /\ Settle /\ UNCHANGED <<token, aborted, clock>>

(* The wait is over.                                                       *)
Resend(p) ==
  /\ parts[p].at = "waiting" /\ clock >= parts[p].until
  /\ parts' = [parts EXCEPT ![p].at = "sent", ![p].attempt = @ + 1, ![p].until = NULL]
  /\ UNCHANGED <<token, aborted, clock, outcome>>

(* Mutant: the signal does not reach a request that waits. *)
onAbortDeaf == UNCHANGED parts

(* Mutant: the timer of a wait is cleared and nobody is told. *)
onAbortSilent ==
  parts' = [p \in Parts |-> IF parts[p].at = "waiting"
                            THEN [parts[p] EXCEPT !.until = MaxClock + 1] ELSE parts[p]]

(* A wait listens to the signal.                                           *)
onAbort ==
  parts' = [p \in Parts |-> IF parts[p].at = "waiting" THEN Fail(parts[p], "aborted") ELSE parts[p]]

Abort ==
  /\ ~aborted /\ aborted' = TRUE /\ (\E p \in Parts : parts[p].at # "unsent")
  /\ onAbort /\ Settle /\ UNCHANGED <<token, clock>>

(* Time runs as far as somebody waits for it.                              *)
Tick ==
  /\ clock < MaxClock /\ clock' = clock + 1
  /\ \E p \in Parts : parts[p].at = "waiting" /\ parts[p].until > clock
  /\ UNCHANGED <<token, parts, aborted, outcome>>

Init ==
  /\ token \in BOOLEAN /\ aborted = FALSE /\ clock = 0 /\ outcome = NULL
  /\ parts = [p \in Parts |-> [at |-> "unsent", attempt |-> 0, answer |-> NULL, until |-> NULL,
                               told |-> 0, kind |-> NULL]]

Next ==
  \/ Start \/ Abort \/ Tick
  \/ \E p \in Parts : Answered(p) \/ SendFails(p) \/ Read(p) \/ Resend(p)

Spec == Init /\ [][Next]_vars

-----------------------------------------------------------------------------
(* Nothing is asked of Google for a report nobody waits for, whatever the  *)
(* requests were doing when it was given up (analytics-data-api.ts:342).   *)
SilentAfterAbort ==
  aborted => \A p \in Parts : parts'[p].at = "sent" => parts[p].at = "sent"

(* Google is not asked again before the moment it has named                *)
(* (analytics-data-api.ts:572), and never again after it has refused.      *)
Patient ==
  \A p \in Parts : (parts[p].at = "waiting" /\ parts'[p].at = "sent") => clock >= parts[p].told

RefusalIsFinal ==
  \A p \in Parts :
    (parts[p].at = "reading" /\ parts[p].answer.status \in {"401", "403", "400", "400 not a valid dimension"})
      => parts'[p].at \in {"reading", "failed"}

(* A report is whole: every one of its requests was answered in the shape  *)
(* that was asked for (analytics-data-api.ts:641, analytics-reports.ts:596). *)
ReportIsWhole ==
  outcome = "ok" => \A p \in Parts : parts[p].at = "ok" /\ parts[p].answer.status = "200"

(* As every request does, the ones of an abandoned report too.             *)
Ended == \A p \in Parts : parts[p].at \in {"ok", "failed"}
=============================================================================
