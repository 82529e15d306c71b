--------------------------- MODULE AnalyticsToken ---------------------------
(***************************************************************************)
(* The Google Analytics grant of a tab                                     *)
(* (src/src/features/analytics): its store (analytics-token-store.ts), the *)
(* screens that share it (use-analytics-connection.ts), the loader of the  *)
(* Google script and the request for a grant (google-analytics-oauth.ts).  *)
(* The grant is bound to the session of the administrator who asked for    *)
(* it; screens exist only while somebody is signed in, and the sign-out    *)
(* empties the query cache (both shown in AdminSession and Navigation).    *)
(***************************************************************************)
EXTENDS Integers

CONSTANTS MaxSessions, MaxVisits, MaxGrants, \* bounds: sign-ins and -outs,
          MaxClock,                          \* screens, grants, time
          Life,                              \* how long a grant lives
          NULL

VARIABLES
  session,  \* the admin session: its generation, and whether one is signed in
  store,    \* token (the session that asked for it) and the session it is
            \* bound to, status, expiresAt, generation
  timers,   \* when the expiry timers of the store fire
  clock,
  screen,   \* the screen that is mounted, or NULL
  visits,
  asks,     \* the calls of connect under way
  loader, script, \* gisLoader, NULL or "waiting"; the script of the page
  fetches, cache  \* the reports under way and those in the query cache

vars == <<session, store, timers, clock, screen, visits, asks, loader, script, fetches, cache>>
tokenVars == <<store, timers>>
gisVars == <<loader, script>>
queryVars == <<fetches, cache>>

Generations == 0..(2 * MaxGrants + 2 * MaxSessions + 2)
Ask == [visit : 1..MaxVisits, session : 0..MaxSessions, at : {"load", "popup"}]
Report == [generation : Generations, token : 0..MaxSessions]

TypeOK ==
  /\ session \in [generation : 0..MaxSessions, signedIn : BOOLEAN]
  /\ store.token \in 0..MaxSessions \cup {NULL} /\ store.bound \in 0..MaxSessions \cup {NULL}
  /\ store.status \in {"disconnected", "connected", "expired"}
  /\ store.generation \in Generations /\ timers \subseteq 0..MaxClock
  /\ (store.status = "connected") = (store.token # NULL)
  /\ store.expiresAt # NULL => store.expiresAt \in timers
  /\ screen \in 1..visits \cup {NULL} /\ asks \subseteq Ask
  /\ loader \in {NULL, "waiting"} /\ script \in {"absent", "loading", "failed", "ready"}
  /\ fetches \subseteq Report /\ cache \subseteq Report

-----------------------------------------------------------------------------
(* The store.                                                              *)

(* Mutant: a transition lets the timer of the grant before run on. *)
transitionLeaving(token, status, expiresAt) ==
  /\ store' = [token |-> token, bound |-> IF token = NULL THEN NULL ELSE session'.generation,
               status |-> status, expiresAt |-> expiresAt,
               generation |-> store.generation + 1]
  /\ timers' = timers \cup (IF expiresAt = NULL THEN {} ELSE {expiresAt})

(* Mutant: no timer is set. *)
transitionUntimed(token, status, expiresAt) ==
  /\ store' = [token |-> token, bound |-> IF token = NULL THEN NULL ELSE session'.generation,
               status |-> status, expiresAt |-> expiresAt,
               generation |-> store.generation + 1]
  /\ timers' = {}

(* Every set and clear: the timer is cancelled, then perhaps set again.    *)
transition(token, status, expiresAt) ==
  /\ store' = [token |-> token, bound |-> IF token = NULL THEN NULL ELSE session'.generation,
               status |-> status, expiresAt |-> expiresAt,
               generation |-> store.generation + 1]
  /\ timers' = IF expiresAt = NULL THEN {} ELSE {expiresAt}

setAnalyticsAccessToken(token) == transition(token, "connected", clock + Life)
clearAnalyticsAccessToken(reason) == transition(NULL, reason, NULL)

adminSessionChanged == store.bound # NULL /\ store.bound # session'.generation

(* Mutant: the snapshot is read as it stands. *)
readSnapshot == UNCHANGED tokenVars

(* Every read, and the first subscription, compare the sessions first.     *)
reconcileAdminSession ==
  IF adminSessionChanged THEN clearAnalyticsAccessToken("disconnected")
  ELSE UNCHANGED tokenVars

(* A screen that sees the grant gone cancels and removes every report.     *)
Purge ==
  IF screen' # NULL /\ store'.status # "connected" THEN fetches' = {} /\ cache' = {}
  ELSE UNCHANGED queryVars

-----------------------------------------------------------------------------
(* The admin session.  The store listens to it while a screen is mounted;  *)
(* the guards unmount the screen when nobody is signed in.                 *)
SignIn ==
  /\ ~session.signedIn /\ session.generation < MaxSessions
  /\ session' = [generation |-> session.generation + 1, signedIn |-> TRUE]
  /\ UNCHANGED <<tokenVars, clock, screen, visits, asks, gisVars, queryVars>>

SignOut ==
  /\ session.signedIn /\ session.generation < MaxSessions
  /\ session' = [generation |-> session.generation + 1, signedIn |-> FALSE]
  /\ IF screen # NULL THEN reconcileAdminSession ELSE UNCHANGED tokenVars
  /\ screen' = NULL /\ fetches' = {} /\ cache' = {}
  /\ UNCHANGED <<clock, visits, asks, gisVars>>

Tick ==
  /\ clock < MaxClock /\ clock' = clock + 1
  /\ UNCHANGED <<session, tokenVars, screen, visits, asks, gisVars, queryVars>>

TimerFires ==
  /\ \E t \in timers : t <= clock /\ timers' = timers \ {t}
  /\ store' = [store EXCEPT !.token = NULL, !.status = "expired", !.expiresAt = NULL,
                            !.generation = @ + 1]
  /\ UNCHANGED <<session, clock, screen, visits, asks, gisVars>>
  /\ Purge

-----------------------------------------------------------------------------
(* The loader of the script.  A script that failed stays in the document   *)
(* and raises no second error: only the timeout ends a wait for it.        *)
Load(calls) ==
  IF script = "ready" THEN /\ UNCHANGED gisVars
                           /\ asks' = asks \cup {[c EXCEPT !.at = "popup"] : c \in calls}
  ELSE /\ loader' = "waiting" /\ script' = (IF script = "absent" THEN "loading" ELSE script)
       /\ asks' = asks \cup calls

ScriptReady ==
  /\ script = "loading" /\ script' = "ready" /\ loader' = NULL
  /\ asks' = {IF a.at = "load" THEN [a EXCEPT !.at = "popup"] ELSE a : a \in asks}
  /\ UNCHANGED <<session, tokenVars, clock, screen, visits, queryVars>>

(* The calls that wait are refused, and the next one loads again.          *)
Unavailable == loader' = NULL /\ asks' = {a \in asks : a.at # "load"}

ScriptFails ==
  /\ script = "loading" /\ script' = "failed" /\ Unavailable
  /\ UNCHANGED <<session, tokenVars, clock, screen, visits, queryVars>>

(* Mutant: a failed script is waited for no longer than it has failed. *)
TimesOutLoading ==
  /\ loader = "waiting" /\ script = "loading" /\ Unavailable /\ UNCHANGED script
  /\ UNCHANGED <<session, tokenVars, clock, screen, visits, queryVars>>

LoaderTimesOut ==
  /\ loader = "waiting" /\ Unavailable /\ UNCHANGED script
  /\ UNCHANGED <<session, tokenVars, clock, screen, visits, queryVars>>

-----------------------------------------------------------------------------
(* The screens.                                                            *)

(* The mount reads the snapshot, and has the script loaded in advance.     *)
Mount ==
  /\ session.signedIn /\ screen = NULL /\ visits < MaxVisits
  /\ visits' = visits + 1 /\ screen' = visits + 1
  /\ UNCHANGED <<session, clock>>
  /\ reconcileAdminSession /\ Purge /\ Load({})

Unmount ==
  /\ screen # NULL /\ screen' = NULL
  /\ UNCHANGED <<session, tokenVars, clock, visits, asks, gisVars, queryVars>>

Connecting(v) == \E a \in asks : a.visit = v
connecting == Connecting(screen)

connect ==
  /\ screen # NULL /\ store.status # "connected" /\ ~connecting
  /\ Load({[visit |-> screen, session |-> session.generation, at |-> "load"]})
  /\ UNCHANGED <<session, tokenVars, clock, screen, visits, queryVars>>

(* Mutant: the grant is kept whoever is there. *)
Keeps(a) == TRUE

(* A grant that comes after its screen is gone is not kept.                *)
mounted(a) == screen = a.visit

Granted(a) ==
  /\ store.generation <= 2 * MaxGrants /\ clock + Life <= MaxClock \* bounds
  /\ a.at = "popup" /\ asks' = asks \ {a}
  /\ UNCHANGED <<session, clock, screen, visits, gisVars, queryVars>>
  /\ IF mounted(a) THEN setAnalyticsAccessToken(a.session) ELSE UNCHANGED tokenVars

(* The popup is closed or blocked, access denied, the scope not granted.   *)
Denied(a) ==
  /\ a.at = "popup" /\ asks' = asks \ {a}
  /\ UNCHANGED <<session, tokenVars, clock, screen, visits, gisVars, queryVars>>

disconnect ==
  /\ screen # NULL /\ store.status = "connected"
  /\ UNCHANGED <<session, clock, screen, visits, asks, gisVars>>
  /\ clearAnalyticsAccessToken("disconnected") /\ Purge

-----------------------------------------------------------------------------
(* A report is asked for: the token is read, and not when it is too old.   *)
Fetch ==
  /\ screen # NULL /\ store.status = "connected"
  /\ UNCHANGED <<session, clock, screen, visits, asks, gisVars>>
  /\ IF store.expiresAt <= clock THEN clearAnalyticsAccessToken("expired") /\ Purge
     ELSE /\ reconcileAdminSession
          /\ fetches' = fetches \cup {[generation |-> store.generation, token |-> store.token]}
          /\ UNCHANGED cache

FetchAnswered(f) ==
  /\ fetches' = fetches \ {f} /\ cache' = cache \cup {f}
  /\ UNCHANGED <<session, tokenVars, clock, screen, visits, asks, gisVars>>

(* Google refuses the token: the screen of that generation clears it.      *)
FetchRefused(f) ==
  /\ UNCHANGED <<session, clock, screen, visits, asks, gisVars>>
  /\ IF screen # NULL /\ store.status = "connected" /\ store.generation = f.generation
     THEN clearAnalyticsAccessToken("expired") /\ Purge
     ELSE fetches' = fetches \ {f} /\ UNCHANGED <<tokenVars, cache>>

Init ==
  /\ session = [generation |-> 0, signedIn |-> FALSE]
  /\ store = [token |-> NULL, bound |-> NULL, status |-> "disconnected",
              expiresAt |-> NULL, generation |-> 0]
  /\ timers = {} /\ clock = 0 /\ screen = NULL /\ visits = 0 /\ asks = {}
  /\ loader = NULL /\ script = "absent" /\ fetches = {} /\ cache = {}

Answer(v) == \E a \in asks : a.visit = v /\ (Granted(a) \/ Denied(a))

Next ==
  \/ SignIn \/ SignOut \/ Tick \/ TimerFires
  \/ ScriptReady \/ ScriptFails \/ LoaderTimesOut
  \/ Mount \/ Unmount \/ connect \/ (\E v \in 1..MaxVisits : Answer(v)) \/ disconnect
  \/ Fetch \/ (\E f \in fetches : FetchAnswered(f) \/ FetchRefused(f))

Spec == Init /\ [][Next]_vars

-----------------------------------------------------------------------------
(* Nobody works with a grant somebody else asked for                       *)
(* (analytics-token-store.ts:33): when a screen says it is connected, the  *)
(* token was asked for in this very session, and so were the reports that  *)
(* it can show.                                                            *)
ConnectedIsOwn ==
  (screen # NULL /\ store.status = "connected") =>
    /\ store.token = session.generation
    /\ \A r \in cache : r.generation = store.generation => r.token = session.generation

(* A grant lasts as long as it was given for: it is called expired only    *)
(* when its time is over or Google has refused it, whatever the timers of  *)
(* the grants before it.                                                   *)
LastsItsTime ==
  (store.status = "connected" /\ store'.status = "expired") =>
     \/ clock >= store.expiresAt
     \/ \E f \in fetches : f.generation = store.generation

(* The memory of the tab holds a token; it may not for ever.               *)
TokenIsHeld == store.status = "connected"
=============================================================================
