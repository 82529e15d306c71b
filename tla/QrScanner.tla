----------------------------- MODULE QrScanner -----------------------------
(***************************************************************************)
(* The QR scanner of the check-in page                                     *)
(* (src/src/components/business-mobile/CheckInQrScanner.tsx).  Every time  *)
(* the scanner opens, its effect starts a run: ask for the camera, play    *)
(* it, then detect frame by frame until a token is read.  Closing the      *)
(* scanner stops the run wherever it is; the answers it still waits for    *)
(* come all the same, to a run that must let the camera go.                *)
(***************************************************************************)
EXTENDS Integers, FiniteSets

CONSTANTS MaxOpens, \* bound: times the scanner is opened
          MaxTyped  \* bound: tokens typed

Runs == 1..MaxOpens

VARIABLES
  opens,       \* runs started
  qrOpen,      \* whether the last run is on the page
  phase,       \* [Runs -> what the run waits for]
  stopped,     \* [Runs -> whether its effect was cleaned up]
  stream,      \* [Runs -> whether it holds the camera]
  cameraError, \* [Runs -> whether its dialog says that it cannot scan]
  scanned,     \* [Runs -> tokens read by the run]
  typed,       \* tokens typed
  requests,    \* check-ins under way
  observed     \* of these, the one the page waits for: 1, or 0 for none

vars == <<opens, qrOpen, phase, stopped, stream, cameraError, scanned, typed, requests, observed>>

Phases == {"none", "asking", "playing", "detecting", "frame", "done"}

TypeOK ==
  /\ opens \in 0..MaxOpens /\ qrOpen \in BOOLEAN
  /\ phase \in [Runs -> Phases]
  /\ {stopped, stream, cameraError} \subseteq [Runs -> BOOLEAN]
  /\ scanned \in [Runs -> Nat] /\ typed \in 0..MaxTyped
  /\ requests \in 0..MaxOpens + MaxTyped /\ observed \in {0, 1}
  /\ qrOpen => opens > 0 /\ ~stopped[opens]

-----------------------------------------------------------------------------
(* The run.                                                                *)

Wait(r, p) == phase' = [phase EXCEPT ![r] = p]

(* The dialog of a run that was closed has no state to set.                *)
SetCameraError(r) == cameraError' = [cameraError EXCEPT ![r] = ~stopped[r]]

(* The effect of the mount; a browser without cameras says so.  Whoever    *)
(* opens or closes the scanner resets the mutation of the page.            *)
Open ==
  /\ ~qrOpen /\ opens < MaxOpens
  /\ opens' = opens + 1 /\ qrOpen' = TRUE
  /\ \/ Wait(opens', "asking") /\ UNCHANGED cameraError
     \/ Wait(opens', "done") /\ cameraError' = [cameraError EXCEPT ![opens'] = TRUE]
  /\ observed' = 0
  /\ UNCHANGED <<stopped, stream, scanned, typed, requests>>

(* Mutant: the run ends and the scanner stays. *)
CleanUpOnly ==
  /\ qrOpen' = qrOpen
  /\ stopped' = [stopped EXCEPT ![opens] = TRUE]
  /\ stream' = [stream EXCEPT ![opens] = FALSE]
  /\ IF phase[opens] = "frame" THEN Wait(opens, "done") ELSE UNCHANGED phase

(* The cleanup of the effect.                                              *)
CleanUp ==
  /\ qrOpen' = FALSE
  /\ stopped' = [stopped EXCEPT ![opens] = TRUE]
  /\ stream' = [stream EXCEPT ![opens] = FALSE]
  /\ IF phase[opens] = "frame" THEN Wait(opens, "done") ELSE UNCHANGED phase

Close ==
  /\ qrOpen /\ CleanUp /\ observed' = 0
  /\ UNCHANGED <<opens, cameraError, scanned, typed, requests>>

(* Mutant: the camera granted to a closed scanner is played. *)
PlayAnyway(r) ==
  /\ phase[r] = "asking"
  /\ stream' = [stream EXCEPT ![r] = TRUE] /\ Wait(r, "playing")
  /\ UNCHANGED <<opens, qrOpen, stopped, cameraError, scanned, typed, requests, observed>>

CameraGranted(r) ==
  /\ phase[r] = "asking"
  /\ stream' = [stream EXCEPT ![r] = ~stopped[r]]
  /\ Wait(r, IF stopped[r] THEN "done" ELSE "playing")
  /\ UNCHANGED <<opens, qrOpen, stopped, cameraError, scanned, typed, requests, observed>>

(* The camera is refused, or the video does not play.                      *)
CameraRefused(r) ==
  /\ phase[r] \in {"asking", "playing"} /\ Wait(r, "done") /\ SetCameraError(r)
  /\ UNCHANGED <<opens, qrOpen, stopped, stream, scanned, typed, requests, observed>>

(* The video plays: detect, unless the browser has no detector.  The first *)
(* tick of a stopped run returns.                                          *)
Plays(r) ==
  /\ phase[r] = "playing"
  /\ \/ Wait(r, IF stopped[r] THEN "done" ELSE "detecting") /\ UNCHANGED cameraError
     \/ Wait(r, "done") /\ SetCameraError(r)
  /\ UNCHANGED <<opens, qrOpen, stopped, stream, scanned, typed, requests, observed>>

(* Mutant: the run goes on after the token it read. *)
ReadAndGoOn(r) ==
  /\ phase[r] = "detecting" /\ scanned[r] < 2
  /\ scanned' = [scanned EXCEPT ![r] = @ + 1] /\ Wait(r, "frame")
  /\ requests' = requests + 1 /\ observed' = 1
  /\ UNCHANGED <<opens, qrOpen, stopped, stream, cameraError, typed>>

(* A code in the picture: the token goes to the page, and the run is over, *)
(* whether or not the scanner was closed meanwhile.                        *)
Reads(r) ==
  /\ phase[r] = "detecting"
  /\ scanned' = [scanned EXCEPT ![r] = @ + 1] /\ Wait(r, "done")
  /\ requests' = requests + 1 /\ observed' = 1
  /\ UNCHANGED <<opens, qrOpen, stopped, stream, cameraError, typed>>

(* Mutant: a detection that fails ends the run. *)
FailForGood(r) ==
  /\ phase[r] = "detecting" /\ Wait(r, "done")
  /\ UNCHANGED <<opens, qrOpen, stopped, stream, cameraError, scanned, typed, requests, observed>>

(* No code, or a detection that fails: look again in the next frame.       *)
ReadsNothing(r) ==
  /\ phase[r] = "detecting" /\ Wait(r, "frame")
  /\ UNCHANGED <<opens, qrOpen, stopped, stream, cameraError, scanned, typed, requests, observed>>

Tick(r) ==
  /\ phase[r] = "frame" /\ Wait(r, IF stopped[r] THEN "done" ELSE "detecting")
  /\ UNCHANGED <<opens, qrOpen, stopped, stream, cameraError, scanned, typed, requests, observed>>

-----------------------------------------------------------------------------
(* The page.                                                               *)

(* The button is off while the page waits.                                 *)
Type ==
  /\ qrOpen /\ observed = 0 /\ typed < MaxTyped
  /\ typed' = typed + 1 /\ requests' = requests + 1 /\ observed' = 1
  /\ UNCHANGED <<opens, qrOpen, phase, stopped, stream, cameraError, scanned>>

(* A check-in is answered, the one the page waits for or an earlier one.   *)
Answered ==
  /\ requests > 0 /\ requests' = requests - 1
  /\ observed' = 0 \/ (requests > 1 /\ observed' = observed)

(* A check-in that succeeds closes the scanner, whichever asked for it.    *)
Succeeds ==
  /\ Answered
  /\ IF qrOpen THEN CleanUp ELSE UNCHANGED <<qrOpen, stopped, stream, phase>>
  /\ UNCHANGED <<opens, cameraError, scanned, typed>>

(* One that is refused leaves it open, with the error.                     *)
Refused ==
  /\ Answered
  /\ UNCHANGED <<opens, qrOpen, phase, stopped, stream, cameraError, scanned, typed>>

Init ==
  /\ opens = 0 /\ qrOpen = FALSE /\ phase = [r \in Runs |-> "none"]
  /\ stopped = [r \in Runs |-> FALSE] /\ stream = [r \in Runs |-> FALSE]
  /\ cameraError = [r \in Runs |-> FALSE] /\ scanned = [r \in Runs |-> 0]
  /\ typed = 0 /\ requests = 0 /\ observed = 0

(* What the browser answers.                                               *)
Camera(r) ==
  CameraGranted(r) \/ CameraRefused(r) \/ Plays(r) \/ Reads(r) \/ ReadsNothing(r) \/ Tick(r)

Next ==
  \/ Open \/ Close \/ Type \/ Succeeds \/ Refused
  \/ \E r \in Runs : Camera(r)

Spec == Init /\ [][Next]_vars

-----------------------------------------------------------------------------
(* A scanner that was closed never keeps the camera, however late the      *)
(* camera was granted to it: the light goes out with the dialog.           *)
CameraReleased == \A r \in Runs : stream[r] => ~stopped[r]

(* One opening of the scanner checks in at most one token from its camera. *)
OneTokenPerRun == \A r \in Runs : scanned[r] <= 1

(* What they rest on: a run that is still to come waits for nothing; one   *)
(* that has read its token is over; and every check-in under way was asked *)
(* for by a run that has read one, or typed.                               *)
HaveRead == {r \in Runs : scanned[r] > 0}
RunInv ==
  /\ TypeOK /\ CameraReleased
  /\ \A r \in Runs : r > opens => phase[r] = "none" /\ ~stopped[r]
  /\ \A r \in Runs : scanned[r] > 0 => scanned[r] = 1 /\ phase[r] = "done"
  /\ requests <= Cardinality(HaveRead) + typed

(* As long as the camera is live the run keeps scanning, detections that   *)
(* fail included, until it reads a token or the dialog says that a token   *)
(* has to be typed.                                                        *)
ScansOrSays(r) == ~stream[r] \/ phase[r] = "detecting" \/ scanned[r] > 0 \/ cameraError[r]
=============================================================================
