---------------------------- MODULE AdminSession ----------------------------
(***************************************************************************)
(* One browser tab of the admin client: the in-memory session store        *)
(* (admin-auth.store.ts), the single-flight refresh                        *)
(* (refresh-single-flight.ts), the authenticated fetch with one retry      *)
(* (admin-http.ts) and the provider that boots, adopts, logs out and       *)
(* reacts to the store (AdminAuthProvider.tsx), all under src/src/auth.    *)
(*                                                                         *)
(* JavaScript runs to completion, so an action is everything that happens  *)
(* between two awaits: the handler, the store's listeners it fires and the *)
(* promise continuations drained before the next task.  Interleaving       *)
(* happens at the awaits: between sending a request and its headers,       *)
(* between headers and body, and while the refresh is in flight.           *)
(***************************************************************************)
EXTENDS Naturals

CONSTANTS Admins,     \* principals (id, role, businessId) with a supported role
          Outsiders,  \* principals whose role the admin web does not support
          Requests,   \* identities of concurrent application requests
          MaxTokens,  \* bound: access tokens the server issues in a run
          NULL        \* no token, no principal, no cookie

Everyone == Admins \cup Outsiders
Tokens == [owner : Everyone, serial : Nat]
Flows == Requests \cup {"me", "login", "logout"}

ASSUME RequestsAssumption == Requests \cap {"me", "login", "logout"} = {}
ASSUME NullAssumption == NULL \notin Everyone \cup Tokens
ASSUME RolesAssumption == Admins \cap Outsiders = {}
ASSUME MaxTokensAssumption == MaxTokens \in Nat

VARIABLES
  app,      \* the tab: store (token, principal, generation), provider
            \* (status, admin) and the owners of the data in the query cache
  flight,   \* refreshPromise: the generation it captured, the cookie it carries
  http,     \* adminFetchJson calls by flow: application requests, the boot's
            \* /me, the login and the logout
  boot,     \* where the provider's boot() awaits, and the token it captured
  cookie,   \* owner of the refresh cookie in the jar all tabs share
  issued    \* tokens issued so far

vars == <<app, flight, http, boot, cookie, issued>>

(* How a call can fail, as its caller tells failures apart.                *)
(* A refresh: "rejected", the cookie was refused (401, 403, or a 4xx that  *)
(* names no code, which refreshSession reports as UNAUTHORIZED);           *)
(* "serverBare", a 5xx that names no code, reported the same way;          *)
(* "server", a 5xx with a code; "refused", another 4xx with a code;        *)
(* "unsupported", a foreign role; "changed", another principal.            *)
(* Any other call: "unauthorized", 401; "refused", another 4xx; "server".  *)
(* Both: "network", no response; "broken", the body of a good response     *)
(* could not be read; "stale", the session generation moved.               *)
RefreshFailures == {"rejected", "serverBare", "server", "refused", "network", "broken"}
HttpStatuses == {"ok", "unauthorized", "refused", "server"}
Unauthorized == {"rejected", "serverBare", "unsupported", "changed"}

-----------------------------------------------------------------------------
(* The store, with the provider's listener: clearing a session that exists *)
(* commits the unauthenticated state in the same turn.                     *)

(* Mutant: committing without queryClient.clear(). *)
CommitKeepingCache(a) == [a EXCEPT !.status = "unauthenticated", !.admin = NULL]

CommitUnauthenticated(a) ==
  [a EXCEPT !.cache = {}, !.status = "unauthenticated", !.admin = NULL]

(* Mutant: the store is cleared and no listener is told. *)
ClearSilently(a) ==
  IF a.token = NULL /\ a.principal = NULL
  THEN a
  ELSE [a EXCEPT !.token = NULL, !.principal = NULL, !.generation = @ + 1]

(* Mutant: clearing forgets the token and not its principal. *)
ClearTokenOnly(a) ==
  IF a.token = NULL /\ a.principal = NULL
  THEN a
  ELSE CommitUnauthenticated([a EXCEPT !.token = NULL, !.generation = @ + 1])

ClearAccessToken(a) ==
  IF a.token = NULL /\ a.principal = NULL
  THEN a
  ELSE CommitUnauthenticated(
         [a EXCEPT !.token = NULL, !.principal = NULL, !.generation = @ + 1])

SetAuthenticatedAdminSession(a, t, p) ==
  [a EXCEPT !.token = t, !.principal = p,
            !.generation = IF a.token = t /\ a.principal = p THEN @ ELSE @ + 1]

SetRefreshedAdminSession(a, t, p) ==
  IF a.principal = p
  THEN [a EXCEPT !.token = t]
  ELSE SetAuthenticatedAdminSession(a, t, p)

(* The provider. *)

ApplyAuthenticated(a, t, p) ==
  [SetAuthenticatedAdminSession(a, t, p) EXCEPT !.status = "authenticated", !.admin = p]

ApplyUnauthenticated(a) == CommitUnauthenticated(ClearAccessToken(a))

(* Mutant: a login is adopted whatever its role. *)
AdoptAnyRole(a, t) == ApplyAuthenticated([a EXCEPT !.cache = {}], t, t.owner)

AdoptLoginResponse(a, t) ==
  IF t.owner \in Admins
  THEN ApplyAuthenticated([a EXCEPT !.cache = {}], t, t.owner)
  ELSE ClearAccessToken(a)

(* Mutant: a boot that cannot reach the server gives no verdict. *)
BootFailedQuietly(a, failure) ==
  IF failure \in {"network", "server"} THEN a ELSE ApplyUnauthenticated(a)

BootFailed(a, failure) ==
  IF failure \in {"network", "server"}
  THEN [a EXCEPT !.status = "degraded", !.admin = NULL]
  ELSE ApplyUnauthenticated(a)

-----------------------------------------------------------------------------
NoFlight == [phase |-> "none", generation |-> 0, cookie |-> NULL]
IdleFlow == [phase |-> "idle", generation |-> 0, token |-> NULL,
             outcome |-> "none", orphan |-> FALSE]
NoBoot == [at |-> "idle", existing |-> NULL]

Sent == [phase |-> "sent", generation |-> app.generation, token |-> app.token,
         outcome |-> "none", orphan |-> FALSE]

Fresh(f) == http[f].generation = app.generation

Init ==
  /\ app = [token |-> NULL, principal |-> NULL, generation |-> 0,
            status |-> "booting", admin |-> NULL, cache |-> {}]
  /\ flight = NoFlight
  /\ http = [f \in Flows |-> IdleFlow]
  /\ boot = [NoBoot EXCEPT !.at = "queued"]
  /\ cookie \in Everyone \cup {NULL}
  /\ issued = 0

(* refreshAdminSession: join the flight under way, or start one. *)
JoinRefresh ==
  flight' = IF flight.phase = "none"
            THEN [phase |-> "probing", generation |-> app.generation, cookie |-> NULL]
            ELSE flight

-----------------------------------------------------------------------------
(* boot(), from the mount's timer or the retry button of a degraded screen. *)

Boot ==
  /\ app' = [app EXCEPT !.status = "booting"]
  /\ IF app.token = NULL
     THEN /\ boot' = [at |-> "refresh", existing |-> NULL]
          /\ JoinRefresh
          /\ UNCHANGED http
     ELSE /\ boot' = [at |-> "me", existing |-> app.token]
          /\ http' = [http EXCEPT !["me"] = Sent]
          /\ UNCHANGED flight
  /\ UNCHANGED <<cookie, issued>>

BootOnMount == boot.at = "queued" /\ Boot

RetryBoot == app.status = "degraded" /\ Boot

(* The root error boundary resets: a new provider and query client, while  *)
(* the module-level store, the refresh flight and the requests live on.    *)
(* Taken when no boot, login or logout of the old provider is under way.   *)
Remount ==
  /\ boot.at = "idle"
  /\ \A f \in {"login", "logout"} : http[f].phase = "idle"
  /\ app' = [app EXCEPT !.status = "booting", !.admin = NULL, !.cache = {}]
  /\ boot' = [NoBoot EXCEPT !.at = "queued"]
  /\ http' = [f \in Flows |->
                IF http[f].phase = "idle" THEN http[f]
                ELSE [http[f] EXCEPT !.orphan = TRUE]]
  /\ UNCHANGED <<flight, cookie, issued>>

-----------------------------------------------------------------------------
(* The refresh.  The browser attaches the cookie when the fetch is sent,   *)
(* after the origin probe; the answer is compared with the generation      *)
(* captured before it, stored, and every caller waiting on the promise     *)
(* goes on in the same turn.                                               *)

RefreshSend ==
  /\ flight.phase = "probing"
  /\ flight' = [flight EXCEPT !.phase = "sent", !.cookie = cookie]
  /\ UNCHANGED <<app, http, boot, cookie, issued>>

NewToken(p) == [owner |-> p, serial |-> issued + 1]

(* Mutant: a settled refresh is not compared with the generation. *)
RefreshVerdictUnchecked(answer) ==
  IF answer # "issued" THEN answer
  ELSE IF flight.cookie \notin Admins THEN "unsupported"
  ELSE IF app.principal \notin {NULL, flight.cookie} THEN "changed"
  ELSE "issued"

RefreshVerdict(answer) ==
  IF flight.generation # app.generation THEN "stale"
  ELSE IF answer # "issued" THEN answer
  ELSE IF flight.cookie \notin Admins THEN "unsupported"
  ELSE IF app.principal \notin {NULL, flight.cookie} THEN "changed"
  ELSE "issued"

RefreshStored(verdict) ==
  IF verdict = "issued"
  THEN SetRefreshedAdminSession(app, NewToken(flight.cookie), flight.cookie)
  ELSE IF verdict \in Unauthorized THEN ClearAccessToken(app)
  ELSE app

SettleRefresh(answer) ==
  LET verdict == RefreshVerdict(answer)
      stored == RefreshStored(verdict)
      token == NewToken(flight.cookie)
      waiting(f) == http[f].phase = "refreshing"
      resumes(f) == verdict = "issued" /\ http[f].generation = stored.generation
      meFails == waiting("me") /\ ~resumes("me")
      failure == IF verdict = "issued" THEN "stale" ELSE verdict
  IN
  /\ flight.phase \in (IF answer = "network" THEN {"probing", "sent"} ELSE {"sent"})
  /\ answer = "issued" => flight.cookie # NULL /\ issued < MaxTokens
  /\ app' = IF boot.at = "refresh" /\ verdict = "issued"
            THEN ApplyAuthenticated(stored, token, token.owner)
            ELSE IF boot.at = "refresh" \/ meFails
            THEN BootFailed(stored, failure)
            ELSE stored
  /\ boot' = IF boot.at = "refresh" \/ meFails THEN NoBoot ELSE boot
  /\ http' = [f \in Flows |->
                IF ~waiting(f) THEN http[f]
                ELSE IF resumes(f)
                THEN [http[f] EXCEPT !.phase = "resent", !.token = token]
                ELSE IdleFlow]
  /\ flight' = NoFlight
  /\ cookie' = IF answer = "issued" THEN flight.cookie ELSE cookie
  /\ issued' = IF answer = "issued" THEN issued + 1 ELSE issued

-----------------------------------------------------------------------------
(* adminFetchJson *)

(* Screens behind the guard start requests; they are unmounted otherwise. *)
IssueRequest(f) ==
  /\ app.status = "authenticated"
  /\ http[f].phase = "idle"
  /\ http' = [http EXCEPT ![f] = Sent]
  /\ UNCHANGED <<app, flight, boot, cookie, issued>>

(* The login form is shown when signed out or degraded; login first awaits *)
(* the origin probe, then sends.  Issued sessions (signup, invitation)     *)
(* are adopted the same way.                                               *)
SubmitLogin ==
  /\ app.status \in {"unauthenticated", "degraded"}
  /\ http["login"].phase = "idle"
  /\ http' = [http EXCEPT !["login"] = [IdleFlow EXCEPT !.phase = "probing"]]
  /\ UNCHANGED <<app, flight, boot, cookie, issued>>

SendLogin ==
  /\ http["login"].phase = "probing"
  /\ http' = [http EXCEPT !["login"] = Sent]
  /\ UNCHANGED <<app, flight, boot, cookie, issued>>

Logout ==
  /\ app.status = "authenticated"
  /\ http["logout"].phase = "idle"
  /\ http' = [http EXCEPT !["logout"] = Sent]
  /\ UNCHANGED <<app, flight, boot, cookie, issued>>

(* What the caller of a failed call does: boot's catch, logout's finally;  *)
(* a failed request or login leaves the session alone.                     *)
(* Mutant: logout clears the session on success only (no finally). *)
AfterFailureLoggedIn(f, failure) ==
  IF f = "me" THEN BootFailed(app, failure) ELSE app

AfterFailure(f, failure) ==
  CASE f = "me" -> BootFailed(app, failure)
    [] f = "logout" -> ApplyUnauthenticated(app)
    [] OTHER -> app

AfterSuccess(f) ==
  CASE f = "me" -> ApplyAuthenticated(app, boot.existing, http[f].token.owner)
    [] f = "login" -> AdoptLoginResponse(app, http[f].token)
    [] f = "logout" -> ApplyUnauthenticated(app)
    [] OTHER -> IF http[f].orphan THEN app
                ELSE [app EXCEPT !.cache = @ \cup {http[f].token.owner}]

Finish(f, app1) ==
  /\ app' = app1
  /\ http' = [http EXCEPT ![f] = IdleFlow]
  /\ boot' = IF f = "me" THEN NoBoot ELSE boot

OnTheWire(f) == http[f].phase \in {"sent", "resent"}

(* Mutant: only the origin probe has a timeout. *)
ProbeTimeout(f) ==
  /\ http[f].phase = "probing"
  /\ Finish(f, AfterFailure(f, IF Fresh(f) THEN "network" ELSE "stale"))
  /\ UNCHANGED <<flight, cookie, issued>>

(* Timeout, abort or network error (for a login, also of the probe). *)
NoResponse(f) ==
  /\ OnTheWire(f) \/ http[f].phase = "probing"
  /\ Finish(f, AfterFailure(f, IF Fresh(f) THEN "network" ELSE "stale"))
  /\ UNCHANGED <<flight, cookie, issued>>

ToBody(f, outcome, token) ==
  /\ http' = [http EXCEPT ![f] = [@ EXCEPT !.phase = "body", !.outcome = outcome,
                                           !.token = token]]
  /\ UNCHANGED <<app, boot>>

MayRefresh(f) == http[f].phase = "sent" /\ f \notin {"login", "logout"}

(* The headers of an answer arrive.  A first 401 of a flow that may        *)
(* refresh joins the refresh; any other status goes on to the body.        *)
Headers(f, status) ==
  /\ OnTheWire(f)
  /\ status = "ok" => f \notin {"login", "logout"}
  /\ \/ /\ ~Fresh(f)
        /\ Finish(f, AfterFailure(f, "stale"))
        /\ UNCHANGED flight
     \/ /\ Fresh(f) /\ status = "unauthorized" /\ MayRefresh(f)
        /\ http' = [http EXCEPT ![f].phase = "refreshing"]
        /\ JoinRefresh
        /\ UNCHANGED <<app, boot>>
     \/ /\ Fresh(f) /\ ~(status = "unauthorized" /\ MayRefresh(f))
        /\ ToBody(f, status, http[f].token)
        /\ UNCHANGED flight
  /\ UNCHANGED <<cookie, issued>>

(* A successful login or logout answer also sets or clears the cookie,     *)
(* whatever the tab then makes of it.                                      *)
LoginHeaders(p) ==
  /\ http["login"].phase = "sent"
  /\ issued < MaxTokens
  /\ issued' = issued + 1
  /\ cookie' = p
  /\ IF Fresh("login")
     THEN ToBody("login", "ok", NewToken(p))
     ELSE Finish("login", app)
  /\ UNCHANGED flight

LogoutHeaders ==
  /\ http["logout"].phase = "sent"
  /\ cookie' = NULL
  /\ IF Fresh("logout")
     THEN ToBody("logout", "ok", http["logout"].token)
     ELSE Finish("logout", AfterFailure("logout", "stale"))
  /\ UNCHANGED <<flight, issued>>

(* Mutant: no generation check after the body was read. *)
BodyUnchecked(f) ==
  /\ http[f].phase = "body"
  /\ Finish(f, IF http[f].outcome # "ok" THEN AfterFailure(f, http[f].outcome)
               ELSE AfterSuccess(f))
  /\ UNCHANGED <<flight, cookie, issued>>

Body(f) ==
  /\ http[f].phase = "body"
  /\ Finish(f, IF ~Fresh(f) THEN AfterFailure(f, "stale")
               ELSE IF http[f].outcome # "ok" THEN AfterFailure(f, http[f].outcome)
               ELSE AfterSuccess(f))
  /\ UNCHANGED <<flight, cookie, issued>>

(* Reading the body of a good response fails, before any generation check. *)
BodyBroken(f) ==
  /\ http[f].phase = "body"
  /\ http[f].outcome = "ok"
  /\ Finish(f, AfterFailure(f, "broken"))
  /\ UNCHANGED <<flight, cookie, issued>>

(* /me answers with a role the admin web no longer supports. *)
MeUnsupported ==
  /\ http["me"].phase = "body"
  /\ http["me"].outcome = "ok"
  /\ Finish("me", IF Fresh("me") THEN ApplyUnauthenticated(app)
                  ELSE BootFailed(app, "stale"))
  /\ UNCHANGED <<flight, cookie, issued>>

(* Another tab of this browser logs in or out. *)
OtherTab ==
  /\ cookie' \in Everyone \cup {NULL}
  /\ UNCHANGED <<app, flight, http, boot, issued>>

-----------------------------------------------------------------------------
SettleAnyRefresh == \E answer \in RefreshFailures \cup {"issued"} : SettleRefresh(answer)

BodyRead(f) == Body(f) \/ BodyBroken(f)

Answered(f) ==
  \/ NoResponse(f)
  \/ \E status \in HttpStatuses : Headers(f, status)
  \/ BodyRead(f)

Next ==
  \/ BootOnMount \/ RetryBoot \/ Remount
  \/ RefreshSend \/ SettleAnyRefresh
  \/ \E f \in Requests : IssueRequest(f)
  \/ SubmitLogin \/ SendLogin \/ Logout
  \/ \E f \in Flows : Answered(f)
  \/ \E p \in Everyone : LoginHeaders(p)
  \/ LogoutHeaders \/ MeUnsupported \/ OtherTab

Spec == Init /\ [][Next]_vars

(* Timers fire: the mount's setTimeout, the 12 s timeout of a fetch that   *)
(* got no headers (the probe's is 4 s), and the same signal, or the end of *)
(* the stream, for a body.  Servers, users and other tabs owe nothing.     *)
Fairness ==
  /\ WF_vars(BootOnMount)
  /\ WF_vars(SettleRefresh("network"))
  /\ \A f \in Flows : WF_vars(NoResponse(f)) /\ WF_vars(BodyRead(f))

FairSpec == Spec /\ Fairness
-----------------------------------------------------------------------------
SessionTokens == [owner : Admins, serial : Nat]

AppType ==
  [token : SessionTokens \cup {NULL}, principal : Admins \cup {NULL},
   generation : Nat, admin : Admins \cup {NULL}, cache : SUBSET Admins,
   status : {"booting", "authenticated", "unauthenticated", "degraded"}]
FlightType ==
  [phase : {"none", "probing", "sent"}, generation : Nat, cookie : Everyone \cup {NULL}]
HttpType ==
  [phase : {"idle", "probing", "sent", "refreshing", "resent", "body"},
   generation : Nat, token : Tokens \cup {NULL},
   outcome : HttpStatuses \cup {"none"}, orphan : BOOLEAN]
BootType ==
  [at : {"idle", "queued", "refresh", "me"}, existing : SessionTokens \cup {NULL}]

(* Type invariant: every variable stays in its range; the store holds only *)
(* tokens and principals of supported administrators.                      *)
TypeOK ==
  /\ app \in AppType
  /\ flight \in FlightType
  /\ http \in [Flows -> HttpType]
  /\ boot \in BootType
  /\ cookie \in Everyone \cup {NULL}
  /\ issued \in 0 .. MaxTokens

(* The screen and the store agree: a tab that shows itself signed in holds *)
(* a token, for the administrator it shows; one that shows itself signed   *)
(* out holds neither token nor principal.                                  *)
ProviderMatchesStore ==
  /\ app.status = "authenticated" =>
       app.token # NULL /\ app.principal = app.admin
  /\ app.status = "unauthenticated" =>
       app.token = NULL /\ app.principal = NULL /\ app.admin = NULL

(* The token sent with requests was issued to the store's principal. *)
TokenMatchesPrincipal ==
  /\ app.token = NULL <=> app.principal = NULL
  /\ app.token # NULL => app.token.owner = app.principal

(* The comment at AdminAuthProvider.tsx:90: another operator never inherits*)
(* data.  Whatever the query cache holds was served to the principal the   *)
(* store names now.                                                        *)
NoInheritedData == app.cache \subseteq ({app.principal} \ {NULL})

(* No caller waits for a refresh that is not under way, and a tab that     *)
(* shows the boot spinner has a boot to end it; only one boot runs, since  *)
(* the retry button is shown only between boots.                           *)
WaitersHaveAFlight ==
  /\ (\E f \in Flows : http[f].phase = "refreshing") \/ boot.at = "refresh"
       => flight.phase # "none"
  /\ boot.at = "me" <=> http["me"].phase # "idle"
  /\ app.status = "booting" => boot.at # "idle"
  /\ app.status = "degraded" => boot.at = "idle"

(* The generation counter implements instantaneous revocation: requests    *)
(* tagged with the current generation are the live work of the scope.      *)
RequestScope ==
  [f \in Requests |-> IF http[f].phase = "idle" THEN "idle"
                      ELSE IF Fresh(f) /\ ~http[f].orphan THEN "live"
                      ELSE "revoked"]

Scope == INSTANCE SessionScope WITH
  People <- Admins, Work <- Requests, Nobody <- NULL,
  scope <- app.principal, work <- RequestScope, data <- app.cache

(* The tab implements SessionScope: an answer to a request made under a    *)
(* replaced session never reaches the cache, whatever crossed it.          *)
ImplementsScope == Scope!Spec

(* refresh-single-flight.test.ts:189 and :240: a refresh that settles after*)
(* the session it was started for was replaced neither overwrites nor ends *)
(* the newer session (when no boot is waiting for it; see the finding).    *)
BootAwaitsRefresh == boot.at = "refresh" \/ http["me"].phase = "refreshing"

OldRefreshIsInert ==
  [][flight.phase # "none" /\ flight'.phase = "none"
     /\ flight.generation # app.generation /\ ~BootAwaitsRefresh
       => UNCHANGED app]_vars

(* The spinner ends: a boot comes to a verdict, even if a login, another   *)
(* tab or a clearing refresh crosses it.                                   *)
BootEnds == app.status = "booting" ~> app.status # "booting"

(* A request settles, including through a 401, a shared refresh and the    *)
(* one retry; it neither loops on 401s nor waits for a lost refresh.       *)
RequestsSettle == \A f \in Requests : http[f].phase # "idle" ~> http[f].phase = "idle"

(* A logout ends the session in this tab even when the server cannot be    *)
(* reached or the session was replaced meanwhile (finally, :218).          *)
LogoutSignsOut == http["logout"].phase # "idle" ~> app.status = "unauthenticated"

-----------------------------------------------------------------------------
(* Statements of the repository that the code does not keep.               *)

(* refresh-single-flight.ts:48: network and 5xx failures of a refresh must *)
(* remain retryable without erasing state.                                 *)
RetryableRefreshKeepsSession ==
  [][\A answer \in {"network", "server", "serverBare"} :
       SettleRefresh(answer) => app'.token = app.token \/ flight.generation # app.generation]_vars

(* The same promise for the boot's /me: its connection failing while the   *)
(* body is read is no session expiry (AdminAuthProvider.tsx:141).          *)
BrokenBootKeepsSession == [][BodyBroken("me") => app'.token = app.token]_vars

(* refresh-single-flight.test.ts:240: a newly adopted administrator is not *)
(* cleared when an older refresh is rejected, here with a boot waiting.    *)
OldRefreshSparesNewSession ==
  [][flight.phase # "none" /\ flight'.phase = "none"
     /\ flight.generation # app.generation
       => app'.token = app.token]_vars

(* admin-auth.store.ts:63: a refresh rotates a token without replacing the *)
(* authorization boundary; only an adopted login replaces the session of   *)
(* an administrator by another of the same administrator.                  *)
RotationKeepsBoundary ==
  [][app.principal # NULL /\ app'.principal = app.principal
     /\ http'["login"] = http["login"]
       => app'.generation = app.generation]_vars
=============================================================================
