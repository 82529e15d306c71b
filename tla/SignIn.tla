--------------------------------- MODULE SignIn ---------------------------------
(***************************************************************************)
(* The ways into the login page (src/src/app/(auth)/login/page.tsx): a     *)
(* password, Google (src/src/auth/oidc/google-gis.tsx), Apple              *)
(* (apple-signin.ts).  The scripts of both are loaded by promises that     *)
(* outlive the page; a popup outlives it too, and what one sign-in locks   *)
(* another unlocks.  The session is reduced to its generation, which       *)
(* AdminSession models: an answer to what was sent under another is        *)
(* dropped.                                                                *)
(*                                                                         *)
(* External: the scripts, of which Google's is shared with the analytics   *)
(* screens; the popups, which are answered or closed; the server.          *)
(***************************************************************************)
EXTENDS Integers, FiniteSets

CONSTANTS MaxVisits, MaxFlows, \* bounds: mounts of the page, sign-ins begun
          MaxFaults,           \* bound: scripts that fail
          NULL

VARIABLES
  google,    \* the element of Google's script
  gisLoader, \* the promise: NULL, what it waits for, or how it ended
  apple,     \* Apple's script, and with it its promise
  page,      \* the mount whose form is shown, or NULL
  rendered,  \* Google's button
  loading,
  flows,     \* sign-ins under way: [id, kind, page, at, nonce, token, generation]
  generation, signedIn,
  nonces,    \* how many were made; Apple's library has the last one
  visits, begun, faults

scripts == <<google, gisLoader, apple, rendered>>
session == <<generation, signedIn>>
bounds == <<visits, begun, faults>>
vars == <<scripts, page, loading, flows, session, nonces, bounds>>

TypeOK ==
  /\ rendered => page # NULL /\ google = "loaded"
  /\ gisLoader \in {"waiting"} => google = "loading"
  /\ \A f, g \in flows : f.id = g.id => f = g
-----------------------------------------------------------------------------
Begin(kind, at) ==
  /\ page # NULL /\ begun < MaxFlows /\ begun' = begun + 1
  /\ flows' = flows \cup {[id |-> begun', kind |-> kind, page |-> page, at |-> at,
                           nonce |-> 0, token |-> 0, generation |-> generation]}
  /\ UNCHANGED <<visits, faults>>

Becomes(f, g) == flows' = (flows \ {f}) \cup {g}

(* setLoading of the page that a sign-in was begun on; it may be gone.     *)
setLoading(f, value) == loading' = IF f.page = page THEN value ELSE loading

(* Mutant: a script that somebody else has added is not listened to. *)
loadOwnOnly ==
  IF google = "loaded" \/ gisLoader # NULL THEN UNCHANGED <<google, gisLoader>>
  ELSE /\ google' = IF google = "none" THEN "loading" ELSE google
       /\ gisLoader' = IF google = "none" THEN "waiting" ELSE "deaf"

(* One promise for all mounts.  A script that is there is listened to,     *)
(* which says nothing any more once it has failed.                         *)
loadGoogleIdentityServices ==
  IF google = "loaded" \/ gisLoader # NULL THEN UNCHANGED <<google, gisLoader>>
  ELSE /\ google' = IF google = "none" THEN "loading" ELSE google
       /\ gisLoader' = IF google = "failed" THEN "deaf" ELSE "waiting"

preloadAppleSignIn == apple' = IF apple = "none" THEN "loading" ELSE apple

Mount ==
  /\ page = NULL /\ ~signedIn /\ visits < MaxVisits /\ visits' = visits + 1
  /\ page' = visits' /\ loading' = FALSE /\ rendered' = (google = "loaded")
  /\ loadGoogleIdentityServices /\ preloadAppleSignIn
  /\ UNCHANGED <<flows, session, nonces, begun, faults>>

Leave ==
  /\ page # NULL /\ page' = NULL /\ rendered' = FALSE /\ loading' = FALSE
  /\ UNCHANGED <<google, gisLoader, apple, flows, session, nonces, bounds>>

(* The analytics screens load the same script.                             *)
OthersLoad ==
  /\ signedIn /\ google = "none" /\ google' = "loading"
  /\ UNCHANGED <<gisLoader, apple, rendered, page, loading, flows, session, nonces, bounds>>

(* Mutant: the button is rendered though its form has gone. *)
GoogleLoadsLate ==
  /\ google = "loading" /\ google' = "loaded"
  /\ gisLoader' = IF gisLoader = "waiting" THEN "resolved" ELSE gisLoader
  /\ rendered' = (gisLoader = "waiting")
  /\ UNCHANGED <<apple, page, loading, flows, session, nonces, bounds>>

(* The forms that wait, and have not gone, get their button.               *)
GoogleLoads ==
  /\ google = "loading" /\ google' = "loaded"
  /\ gisLoader' = IF gisLoader = "waiting" THEN "resolved" ELSE gisLoader
  /\ rendered' = (page # NULL /\ gisLoader = "waiting")
  /\ UNCHANGED <<apple, page, loading, flows, session, nonces, bounds>>

AppleLoads ==
  /\ apple = "loading" /\ apple' = "loaded"
  /\ UNCHANGED <<google, gisLoader, rendered, page, loading, flows, session, nonces, bounds>>

(* A rejected promise is kept.                                             *)
ScriptFails ==
  /\ faults < MaxFaults /\ faults' = faults + 1
  /\ \/ /\ google = "loading" /\ google' = "failed" /\ UNCHANGED apple
        /\ gisLoader' = IF gisLoader = "waiting" THEN "rejected" ELSE gisLoader
     \/ apple = "loading" /\ apple' = "failed" /\ UNCHANGED <<google, gisLoader>>
  /\ UNCHANGED <<rendered, page, loading, flows, session, nonces, visits, begun>>

-----------------------------------------------------------------------------
(* The button is inert while a sign-in is under way; an open popup is not. *)
pressGoogle ==
  /\ rendered /\ ~loading /\ Begin("GOOGLE", "popup")
  /\ UNCHANGED <<scripts, page, loading, session, nonces>>

onGoogleCredential(f) ==
  /\ f.kind = "GOOGLE" /\ f.at = "popup"
  /\ Becomes(f, [f EXCEPT !.at = "sent", !.generation = generation]) /\ setLoading(f, TRUE)
  /\ UNCHANGED <<scripts, page, session, nonces, bounds>>

onApple ==
  /\ ~loading /\ loading' = TRUE /\ Begin("APPLE", "script")
  /\ UNCHANGED <<scripts, page, session, nonces>>

requestAppleIdToken(f) ==
  /\ f.at = "script" /\ apple = "loaded" /\ nonces' = nonces + 1
  /\ Becomes(f, [f EXCEPT !.at = "popup", !.nonce = nonces', !.token = nonces'])
  /\ UNCHANGED <<scripts, page, loading, session, bounds>>

(* Mutant: the nonce is the module's. *)
AppleAnswersLast(f) ==
  /\ f.kind = "APPLE" /\ f.at = "popup"
  /\ Becomes(f, [f EXCEPT !.at = "sent", !.generation = generation, !.nonce = nonces]) /\ setLoading(f, TRUE)
  /\ UNCHANGED <<scripts, page, session, nonces, bounds>>

(* Mutant: the page is locked by whichever sign-in is answered. *)
AppleLocks(f) ==
  /\ f.kind = "APPLE" /\ f.at = "popup"
  /\ Becomes(f, [f EXCEPT !.at = "sent", !.generation = generation]) /\ loading' = (page # NULL)
  /\ UNCHANGED <<scripts, page, session, nonces, bounds>>

AppleAnswers(f) ==
  /\ f.kind = "APPLE" /\ f.at = "popup"
  /\ Becomes(f, [f EXCEPT !.at = "sent", !.generation = generation]) /\ setLoading(f, TRUE)
  /\ UNCHANGED <<scripts, page, session, nonces, bounds>>

(* Mutant: a popup that was closed leaves the page locked. *)
PopupClosedOnly(f) ==
  /\ f.at = "popup" \/ (f.at = "script" /\ apple = "failed")
  /\ flows' = flows \ {f} /\ UNCHANGED loading
  /\ UNCHANGED <<scripts, page, session, nonces, bounds>>

(* A popup is closed, or Apple's script is not to be had.                  *)
PopupEnds(f) ==
  /\ f.at = "popup" \/ (f.at = "script" /\ apple = "failed")
  /\ flows' = flows \ {f}
  /\ IF f.kind = "APPLE" THEN setLoading(f, FALSE) ELSE UNCHANGED loading
  /\ UNCHANGED <<scripts, page, session, nonces, bounds>>

onSubmit ==
  /\ ~loading /\ loading' = TRUE /\ Begin("PASSWORD", "sent")
  /\ UNCHANGED <<scripts, page, session, nonces>>

(* finishOidc and the rest of onSubmit: refused, or answered under another *)
(* session; a role the web does not support ends the session there is.     *)
Refused(f) ==
  /\ f.at = "sent" /\ flows' = flows \ {f} /\ setLoading(f, FALSE)
  /\ \/ UNCHANGED session
     \/ f.generation = generation /\ generation' = generation + 1 /\ signedIn' = FALSE
  /\ UNCHANGED <<scripts, page, nonces, bounds>>

Adopted(f) ==
  /\ f.at = "sent" /\ f.generation = generation /\ flows' = flows \ {f}
  /\ generation' = generation + 1 /\ signedIn' = TRUE
  /\ page' = NULL /\ rendered' = FALSE /\ loading' = FALSE
  /\ UNCHANGED <<google, gisLoader, apple, nonces, bounds>>

Logout ==
  /\ signedIn /\ signedIn' = FALSE /\ generation' = generation + 1
  /\ UNCHANGED <<scripts, page, loading, flows, nonces, bounds>>

Init ==
  /\ google = "none" /\ gisLoader = NULL /\ apple = "none" /\ page = NULL /\ rendered = FALSE
  /\ loading = FALSE /\ flows = {} /\ generation = 0 /\ signedIn \in BOOLEAN
  /\ nonces = 0 /\ visits = 0 /\ begun = 0 /\ faults = 0

(* The sign-in numbered i goes on.                                         *)
GoesOn(i) ==
  \E f \in flows : f.id = i /\
    (onGoogleCredential(f) \/ requestAppleIdToken(f) \/ AppleAnswers(f) \/ PopupEnds(f) \/ Refused(f) \/ Adopted(f))

Next ==
  \/ Mount \/ Leave \/ OthersLoad \/ GoogleLoads \/ AppleLoads \/ ScriptFails \/ Logout
  \/ pressGoogle \/ onApple \/ onSubmit
  \/ \E i \in 1..MaxFlows : GoesOn(i)

Spec == Init /\ [][Next]_vars

-----------------------------------------------------------------------------
(* An Apple token is posted with the nonce it was asked under, also when a *)
(* second one is asked for while the popup of the first is open            *)
(* (apple-signin.ts:73).                                                   *)
NonceIsOwn == \A f \in flows : (f.kind = "APPLE" /\ f.at = "sent") => f.nonce = f.token

(* The form is locked only while a sign-in that was begun on it is under   *)
(* way: no answer to one of another mount locks it, and none that ends     *)
(* leaves it locked (page.tsx:89, 106).                                    *)
LockIsOwn == loading => \E f \in flows : f.page = page

(* Google is offered by every form as soon as its script is there, whoever *)
(* has loaded it and however often the form was left meanwhile.            *)
OfferedOnceLoaded == (page # NULL /\ google = "loaded") => rendered

(* The form is locked; the lock has to go, also when a popup is closed or  *)
(* a script fails.                                                         *)
Locked == loading

-----------------------------------------------------------------------------
Flows == [id : Nat, kind : {"GOOGLE", "APPLE", "PASSWORD"}, page : Nat,
          at : {"popup", "script", "sent"}, nonce : Nat, token : Nat, generation : Nat]

(* Google's popup alone may close and leave the lock as it is.             *)
Unlocks(f) == f.kind = "GOOGLE" => f.at # "popup"

(* A password has no popup, and Google's has no script to wait for.        *)
Fits(f) ==
  /\ f.id <= begun /\ f.nonce = f.token
  /\ f.at = "script" => f.kind = "APPLE"
  /\ f.at = "popup" => f.kind \in {"GOOGLE", "APPLE"}

(* What the promise of Google's script says of the script.                 *)
LoaderFits ==
  /\ google \in {"none", "loading", "loaded", "failed"}
  /\ gisLoader \in {NULL, "waiting", "deaf", "resolved", "rejected"}
  /\ gisLoader = "waiting" => google = "loading"
  /\ gisLoader = "resolved" => google = "loaded"
  /\ gisLoader \in {"deaf", "rejected"} => google = "failed"
  /\ page # NULL => google = "loaded" \/ gisLoader # NULL

(* Inductive.                                                              *)
SignInInv ==
  /\ TypeOK /\ OfferedOnceLoaded /\ LoaderFits
  /\ {generation, nonces, visits, begun} \subseteq Nat /\ page \in Nat \cup {NULL}
  /\ flows \subseteq Flows /\ \A f \in flows : Fits(f)
  /\ loading => \E f \in flows : f.page = page /\ Unlocks(f)
=============================================================================
