------------------------- MODULE AdminSession_proofs -------------------------
(***************************************************************************)
(* Proofs about AdminSession, for any sets of administrators and requests  *)
(* and any number of tokens.                                               *)
(*                                                                         *)
(* The argument: a change of principal always advances the generation      *)
(* (Advances), and no tag is ever ahead of the generation; so whatever is  *)
(* still tagged with the current generation was started by the current     *)
(* principal and carries its token (LiveWork).                             *)
(***************************************************************************)
EXTENDS AdminSession, TLAPS

(* The screen, the store and the cache agree. *)
Coherent(a) ==
  /\ a \in AppType
  /\ a.token = NULL <=> a.principal = NULL
  /\ a.token # NULL => a.token.owner = a.principal
  /\ a.cache \subseteq ({a.principal} \ {NULL})
  /\ a.status = "authenticated" => a.token # NULL /\ a.principal = a.admin
  /\ a.status = "unauthenticated" => a.token = NULL /\ a.admin = NULL

(* From a to b the generation grew, strictly if the principal changed. *)
Advances(a, b) ==
  /\ a.generation <= b.generation
  /\ b.principal # a.principal => a.generation < b.generation

(* From a to b the cache was emptied, or it and its owner stayed. *)
Handover(a, b) ==
  b.cache # {} => b.principal = a.principal /\ b.cache = a.cache

AuthFlows == Requests \cup {"me"}

(* No tag is ahead; a tag at the current generation is the principal's.    *)
LiveWork ==
  /\ flight.generation <= app.generation
  /\ \A f \in Flows : http[f].generation <= app.generation
  /\ \A f \in AuthFlows :
       http[f].phase # "idle" /\ Fresh(f) =>
         http[f].token # NULL /\ http[f].token.owner = app.principal
  /\ flight.phase # "none" /\ flight.generation = app.generation /\ boot.at # "refresh"
       => app.principal # NULL

(* The flows other than requests, and the boot that runs one of them. *)
Flow ==
  /\ http["login"].phase = "body" /\ http["login"].outcome = "ok" => http["login"].token # NULL
  /\ \A f \in {"login", "logout"} : http[f].phase # "refreshing"
  /\ boot.at = "me" => boot.existing # NULL
  /\ boot.at = "me" /\ Fresh("me") => boot.existing.owner = app.principal

IInv ==
  /\ TypeOK
  /\ Coherent(app)
  /\ LiveWork
  /\ Flow
  /\ WaitersHaveAFlight

-----------------------------------------------------------------------------
(* The store's operations keep screen, store and cache together.           *)

LEMMA CommitCoherent ==
  ASSUME NEW a \in AppType, a.token = NULL, a.principal = NULL
  PROVE  /\ Coherent(CommitUnauthenticated(a))
         /\ CommitUnauthenticated(a).generation = a.generation
         /\ CommitUnauthenticated(a).principal = NULL
         /\ CommitUnauthenticated(a).cache = {}
         /\ CommitUnauthenticated(a).status = "unauthenticated"
BY NullAssumption DEF Coherent, CommitUnauthenticated, AppType

LEMMA ClearCoherent ==
  ASSUME NEW a, Coherent(a)
  PROVE  /\ Coherent(ClearAccessToken(a))
         /\ Advances(a, ClearAccessToken(a))
         /\ Handover(a, ClearAccessToken(a))
         /\ ClearAccessToken(a).token = NULL
         /\ ClearAccessToken(a).principal = NULL
         /\ ClearAccessToken(a).cache = {}
         /\ ClearAccessToken(a).status \in {a.status, "unauthenticated"}
<1>1. CASE a.token = NULL /\ a.principal = NULL
  <2>1. a.cache = {} /\ a.generation \in Nat
    BY <1>1 DEF Coherent, AppType
  <2> QED
    BY <1>1, <2>1 DEF ClearAccessToken, Advances, Handover
<1>2. CASE ~(a.token = NULL /\ a.principal = NULL)
  <2> DEFINE g == a.generation + 1
             c == [a EXCEPT !.token = NULL, !.principal = NULL, !.generation = g]
  <2>1. a \in AppType /\ g \in Nat /\ a.generation < g
    BY DEF Coherent, AppType
  <2>2. ClearAccessToken(a) = CommitUnauthenticated(c)
    BY <1>2 DEF ClearAccessToken
  <2> HIDE DEF g
  <2>3. c \in AppType /\ c.token = NULL /\ c.principal = NULL /\ c.generation = g
    BY <2>1 DEF AppType
  <2> HIDE DEF c
  <2>4. CommitUnauthenticated(c).token = NULL
    BY <2>3 DEF CommitUnauthenticated, AppType
  <2>5. a.generation \in Nat
    BY <2>1 DEF AppType
  <2> QED
    BY <2>1, <2>2, <2>3, <2>4, <2>5, CommitCoherent DEF Advances, Handover
<1> QED
  BY <1>1, <1>2

LEMMA UnauthenticatedCoherent ==
  ASSUME NEW a, Coherent(a)
  PROVE  /\ Coherent(ApplyUnauthenticated(a))
         /\ Advances(a, ApplyUnauthenticated(a))
         /\ Handover(a, ApplyUnauthenticated(a))
         /\ ApplyUnauthenticated(a).principal = NULL
         /\ ApplyUnauthenticated(a).cache = {}
         /\ ApplyUnauthenticated(a).status = "unauthenticated"
<1>1. ClearAccessToken(a) \in AppType
  BY ClearCoherent DEF Coherent
<1> QED
  BY <1>1, ClearCoherent, CommitCoherent DEF ApplyUnauthenticated, Advances, Handover

LEMMA BootFailedCoherent ==
  ASSUME NEW a, Coherent(a), NEW failure
  PROVE  /\ Coherent(BootFailed(a, failure))
         /\ Advances(a, BootFailed(a, failure))
         /\ Handover(a, BootFailed(a, failure))
         /\ BootFailed(a, failure).principal \in {a.principal, NULL}
         /\ BootFailed(a, failure).status \in {"degraded", "unauthenticated"}
<1>1. CASE failure \in {"network", "server"}
  <2> DEFINE c == [a EXCEPT !.status = "degraded", !.admin = NULL]
  <2>1. a \in AppType
    BY DEF Coherent
  <2>2. /\ c \in AppType /\ c.token = a.token /\ c.principal = a.principal
        /\ c.generation = a.generation /\ c.cache = a.cache /\ c.status = "degraded"
    BY <2>1 DEF AppType
  <2>3. BootFailed(a, failure) = c
    BY <1>1 DEF BootFailed
  <2>4. a.generation \in Nat
    BY <2>1 DEF AppType
  <2> HIDE DEF c
  <2> QED
    BY <2>2, <2>3, <2>4 DEF Coherent, Advances, Handover
<1>2. CASE failure \notin {"network", "server"}
  BY <1>2, UnauthenticatedCoherent DEF BootFailed
<1> QED
  BY <1>1, <1>2

(* Installing an administrator over the same administrator, or over no     *)
(* session, or over an emptied cache.                                      *)
LEMMA AuthenticatedCoherent ==
  ASSUME NEW a, Coherent(a), NEW t \in SessionTokens, NEW p \in Admins, t.owner = p,
         a.principal = p \/ a.cache = {}
  PROVE  /\ Coherent(ApplyAuthenticated(a, t, p))
         /\ Advances(a, ApplyAuthenticated(a, t, p))
         /\ Handover(a, ApplyAuthenticated(a, t, p))
         /\ ApplyAuthenticated(a, t, p).principal = p
         /\ ApplyAuthenticated(a, t, p).status = "authenticated"
<1>1. t # NULL /\ p # NULL /\ a \in AppType
  BY NullAssumption DEF SessionTokens, Tokens, Everyone, Coherent
<1> DEFINE g == IF a.token = t /\ a.principal = p THEN a.generation ELSE a.generation + 1
           c == [[a EXCEPT !.token = t, !.principal = p, !.generation = g]
                  EXCEPT !.status = "authenticated", !.admin = p]
<1>2. g \in Nat /\ a.generation <= g /\ (a.principal # p => a.generation < g)
  BY <1>1 DEF AppType
<1> HIDE DEF g
<1>3. /\ c \in AppType /\ c.token = t /\ c.principal = p /\ c.generation = g
      /\ c.cache = a.cache /\ c.status = "authenticated" /\ c.admin = p
  BY <1>1, <1>2 DEF AppType
<1>4. ApplyAuthenticated(a, t, p) = c
  BY DEF g, ApplyAuthenticated, SetAuthenticatedAdminSession
<1> HIDE DEF c
<1> QED
  BY <1>1, <1>2, <1>3, <1>4 DEF Coherent, Advances, Handover

LEMMA RefreshedCoherent ==
  ASSUME NEW a, Coherent(a), NEW t \in SessionTokens, NEW p \in Admins, t.owner = p,
         a.principal \in {NULL, p}, a.status = "unauthenticated" => a.principal # NULL
  PROVE  /\ Coherent(SetRefreshedAdminSession(a, t, p))
         /\ Advances(a, SetRefreshedAdminSession(a, t, p))
         /\ Handover(a, SetRefreshedAdminSession(a, t, p))
         /\ SetRefreshedAdminSession(a, t, p).principal = p
         /\ SetRefreshedAdminSession(a, t, p).token = t
         /\ SetRefreshedAdminSession(a, t, p).status = a.status
<1>1. t # NULL /\ p # NULL /\ a \in AppType
  BY NullAssumption DEF SessionTokens, Tokens, Everyone, Coherent
<1> DEFINE g == IF a.principal = p THEN a.generation ELSE a.generation + 1
           c == [a EXCEPT !.token = t, !.principal = p, !.generation = g]
<1>2. g \in Nat /\ a.generation <= g /\ (a.principal # p => a.generation < g)
  BY <1>1 DEF AppType
<1> HIDE DEF g
<1>3. /\ c \in AppType /\ c.token = t /\ c.principal = p /\ c.generation = g
      /\ c.cache = a.cache /\ c.status = a.status /\ c.admin = a.admin
  BY <1>1, <1>2 DEF AppType
<1>4. SetRefreshedAdminSession(a, t, p) = c
  BY <1>1 DEF g, SetRefreshedAdminSession, SetAuthenticatedAdminSession, AppType
<1> HIDE DEF c
<1> QED
  BY <1>1, <1>2, <1>3, <1>4 DEF Coherent, Advances, Handover

(* The boot installs what the refresh it waited for has just stored. *)
LEMMA RefreshedBootCoherent ==
  ASSUME NEW a, Coherent(a), NEW t \in SessionTokens, NEW p \in Admins, t.owner = p,
         a.principal \in {NULL, p}
  PROVE  LET b == SetRefreshedAdminSession(a, t, p)
             c == ApplyAuthenticated(b, t, p)
         IN  /\ Coherent(c) /\ Advances(a, c) /\ Advances(b, c) /\ Handover(a, c)
             /\ b.principal = p /\ b.generation \in Nat
             /\ c.status = "authenticated"
<1>1. t # NULL /\ p # NULL /\ a \in AppType
  BY NullAssumption DEF SessionTokens, Tokens, Everyone, Coherent
<1> DEFINE g == IF a.principal = p THEN a.generation ELSE a.generation + 1
           b == [a EXCEPT !.token = t, !.principal = p, !.generation = g]
           c == [b EXCEPT !.status = "authenticated", !.admin = p]
<1>2. g \in Nat /\ a.generation <= g /\ (a.principal # p => a.generation < g)
  BY <1>1 DEF AppType
<1>3. SetRefreshedAdminSession(a, t, p) = b
  BY <1>1 DEF g, SetRefreshedAdminSession, SetAuthenticatedAdminSession, AppType
<1> HIDE DEF g
<1>4. b \in AppType /\ b.token = t /\ b.principal = p /\ b.generation = g /\ b.cache = a.cache
  BY <1>1, <1>2 DEF AppType
<1> HIDE DEF b
<1>5. SetAuthenticatedAdminSession(b, t, p) = b
  BY <1>4 DEF SetAuthenticatedAdminSession, AppType
<1>6. ApplyAuthenticated(b, t, p) = c
  BY <1>5 DEF ApplyAuthenticated
<1>7. /\ c \in AppType /\ c.token = t /\ c.principal = p /\ c.generation = g
      /\ c.cache = a.cache /\ c.status = "authenticated" /\ c.admin = p
  BY <1>4 DEF AppType
<1> HIDE DEF c
<1> QED
  BY <1>1, <1>2, <1>3, <1>4, <1>6, <1>7 DEF Coherent, Advances, Handover

LEMMA AdoptCoherent ==
  ASSUME NEW a, Coherent(a), NEW t \in Tokens
  PROVE  /\ Coherent(AdoptLoginResponse(a, t))
         /\ Advances(a, AdoptLoginResponse(a, t))
         /\ Handover(a, AdoptLoginResponse(a, t))
         /\ AdoptLoginResponse(a, t).status \in {a.status, "authenticated", "unauthenticated"}
<1>1. CASE t.owner \in Admins
  <2> DEFINE c == [a EXCEPT !.cache = {}]
  <2>1. Coherent(c) /\ c.cache = {} /\ c.generation = a.generation /\ c.principal = a.principal
    BY DEF Coherent, AppType
  <2>2. t \in SessionTokens
    BY <1>1 DEF Tokens, SessionTokens
  <2>3. AdoptLoginResponse(a, t) = ApplyAuthenticated(c, t, t.owner)
    BY <1>1 DEF AdoptLoginResponse
  <2> HIDE DEF c
  <2> DEFINE b == ApplyAuthenticated(c, t, t.owner)
  <2>4. Coherent(b) /\ Advances(c, b) /\ Handover(c, b) /\ b.status = "authenticated"
    BY <1>1, <2>1, <2>2, AuthenticatedCoherent
  <2> HIDE DEF b
  <2>5. Advances(a, b) /\ Handover(a, b)
    BY <2>1, <2>4 DEF Advances, Handover
  <2> QED
    BY <2>3, <2>4, <2>5 DEF b
<1>2. CASE t.owner \notin Admins
  BY <1>2, ClearCoherent DEF AdoptLoginResponse
<1> QED
  BY <1>1, <1>2
-----------------------------------------------------------------------------
(* Steps of a flow.                                                        *)

(* A flow that ends, leaving the tab in app1. *)
LEMMA FinishPreserves ==
  ASSUME IInv, NEW f \in Flows, NEW STATE app1, Finish(f, app1),
         http[f].phase \notin {"idle", "refreshing"},
         Coherent(app1), Advances(app, app1),
         f = "me" => app1.status # "booting",
         f # "me" => app1.status \in {app.status, "authenticated", "unauthenticated"},
         UNCHANGED flight, cookie' \in Everyone \cup {NULL}, issued' \in 0 .. MaxTokens
  PROVE  IInv'
<1> USE DEF IInv
<1>1. /\ app' = app1 /\ app' \in AppType /\ app \in AppType
      /\ http' = [http EXCEPT ![f] = IdleFlow]
      /\ boot' = IF f = "me" THEN NoBoot ELSE boot
  BY DEF Finish, Coherent
<1>2. IdleFlow \in HttpType /\ NoBoot \in BootType
  BY DEF IdleFlow, HttpType, NoBoot, BootType
<1>3. TypeOK'
  BY <1>1, <1>2 DEF TypeOK
<1>4. \A g \in Flows : g # f => http'[g] = http[g]
  BY <1>1 DEF TypeOK
<1>5. http'[f] = IdleFlow
  BY <1>1 DEF TypeOK
<1>6. /\ app.generation \in Nat /\ app'.generation \in Nat /\ flight.generation \in Nat
      /\ \A g \in Flows : http[g].generation \in Nat
  BY <1>1 DEF TypeOK, AppType, FlightType, HttpType
<1>7. http["me"].phase # "idle" => boot.at = "me"
  BY DEF WaitersHaveAFlight
<1>8. LiveWork'
  <2>1. (flight.generation <= app.generation)' /\ (\A g \in Flows : http[g].generation <= app.generation)'
    BY <1>1, <1>4, <1>5, <1>6 DEF LiveWork, Advances, IdleFlow
  <2>2. ASSUME NEW g \in AuthFlows, http'[g].phase # "idle", Fresh(g)'
        PROVE  http'[g].token # NULL /\ http'[g].token.owner = app'.principal
    <3>1. g \in Flows /\ g # f
      BY <2>2, <1>5 DEF AuthFlows, Flows, IdleFlow
    <3>2. http[g].generation = app.generation /\ app'.principal = app.principal
      BY <2>2, <3>1, <1>1, <1>4, <1>6 DEF Fresh, LiveWork, Advances
    <3> QED
      BY <2>2, <3>1, <3>2, <1>4 DEF LiveWork, Fresh
  <2>3. (flight.phase # "none" /\ flight.generation = app.generation /\ boot.at # "refresh"
          => app.principal # NULL)'
    <3> SUFFICES ASSUME flight.phase # "none", flight.generation = app'.generation,
                        boot'.at # "refresh"
                 PROVE  app'.principal # NULL
      OBVIOUS
    <3>1. flight.generation = app.generation /\ app'.principal = app.principal
      BY <1>1, <1>6 DEF LiveWork, Advances
    <3>2. boot.at # "refresh"
      BY <1>1, <1>7
    <3> QED
      BY <3>1, <3>2 DEF LiveWork
  <2> QED
    BY <2>1, <2>2, <2>3 DEF LiveWork
<1>9. Flow'
  <2>1. (http["login"].phase = "body" /\ http["login"].outcome = "ok" => http["login"].token # NULL)'
        /\ (\A g \in {"login", "logout"} : http[g].phase # "refreshing")'
    BY <1>4, <1>5 DEF Flow, Flows, IdleFlow
  <2>2. (boot.at = "me" => boot.existing # NULL)'
    BY <1>1 DEF Flow, NoBoot
  <2>3. (boot.at = "me" /\ Fresh("me") => boot.existing.owner = app.principal)'
    <3> SUFFICES ASSUME boot'.at = "me", http'["me"].generation = app'.generation
                 PROVE  boot'.existing.owner = app'.principal
      BY DEF Fresh
    <3>1. f # "me" /\ boot' = boot
      BY <1>1 DEF NoBoot
    <3>2. http["me"].generation = app.generation /\ app'.principal = app.principal
      BY <3>1, <1>1, <1>4, <1>6 DEF LiveWork, Advances, Flows
    <3> QED
      BY <3>1, <3>2 DEF Flow, Fresh
  <2> QED
    BY <2>1, <2>2, <2>3 DEF Flow
<1>10. WaitersHaveAFlight'
  BY <1>1, <1>4, <1>5, <1>7 DEF WaitersHaveAFlight, Flows, IdleFlow, NoBoot
<1> QED
  BY <1>1, <1>3, <1>8, <1>9, <1>10
(* What a settled flow does to the tab keeps it coherent. *)
LEMMA AfterFailureCoherent ==
  ASSUME IInv, NEW f \in Flows, NEW failure
  PROVE  /\ Coherent(AfterFailure(f, failure))
         /\ Advances(app, AfterFailure(f, failure))
         /\ Handover(app, AfterFailure(f, failure))
         /\ f = "me" => AfterFailure(f, failure).status # "booting"
         /\ f # "me" => AfterFailure(f, failure).status \in {app.status, "unauthenticated"}
<1>1. Coherent(app) /\ app.generation \in Nat
  BY DEF IInv, Coherent, AppType
<1>2. CASE f = "me"
  BY <1>1, <1>2, BootFailedCoherent DEF AfterFailure
<1>3. CASE f = "logout"
  BY <1>1, <1>3, UnauthenticatedCoherent DEF AfterFailure
<1>4. CASE f \notin {"me", "logout"}
  BY <1>1, <1>4 DEF AfterFailure, Advances, Handover
<1> QED
  BY <1>2, <1>3, <1>4

LEMMA AfterSuccessCoherent ==
  ASSUME IInv, NEW f \in Flows, http[f].phase = "body", http[f].outcome = "ok", Fresh(f)
  PROVE  /\ Coherent(AfterSuccess(f))
         /\ Advances(app, AfterSuccess(f))
         /\ f \in {"me", "login", "logout"} => Handover(app, AfterSuccess(f))
         /\ f = "me" => AfterSuccess(f).status # "booting"
         /\ f # "me" => AfterSuccess(f).status \in {app.status, "authenticated", "unauthenticated"}
<1>1. Coherent(app) /\ app \in AppType /\ app.generation \in Nat /\ http[f] \in HttpType
  BY DEF IInv, Coherent, AppType, TypeOK
<1>2. CASE f = "me"
  <2>1. boot.at = "me" /\ boot.existing # NULL /\ boot.existing \in SessionTokens \cup {NULL}
    BY <1>2 DEF IInv, WaitersHaveAFlight, Flow, TypeOK, BootType
  <2>2. http[f].token.owner = app.principal /\ boot.existing.owner = app.principal
    BY <1>2, <2>1 DEF IInv, LiveWork, AuthFlows, Flow
  <2>3. boot.existing.owner \in Admins
    BY <2>1 DEF SessionTokens
  <2> QED
    BY <1>1, <1>2, <2>1, <2>2, <2>3, AuthenticatedCoherent DEF AfterSuccess
<1>3. CASE f = "login"
  <2>1. http[f].token \in Tokens
    BY <1>1, <1>3 DEF IInv, Flow, HttpType
  <2> QED
    BY <1>1, <1>3, <2>1, AdoptCoherent DEF AfterSuccess
<1>4. CASE f = "logout"
  BY <1>1, <1>4, UnauthenticatedCoherent DEF AfterSuccess
<1>5. CASE f \notin {"me", "login", "logout"}
  <2>1. CASE http[f].orphan
    BY <1>1, <1>5, <2>1 DEF AfterSuccess, Advances
  <2>2. CASE ~http[f].orphan
    <3> DEFINE p == app.principal
               c == [app EXCEPT !.cache = @ \cup {p}]
    <3>1. http[f].token.owner = p /\ http[f].token # NULL
      BY <1>5 DEF IInv, LiveWork, AuthFlows, Flows
    <3>2. p # NULL
      <4>1. http[f].token \in Tokens
        BY <1>1, <3>1 DEF HttpType
      <4> QED
        BY <3>1, <4>1, NullAssumption DEF Tokens
    <3>3. p \in Admins
      BY <1>1, <3>2 DEF AppType
    <3>4. AfterSuccess(f) = c
      BY <1>5, <2>2, <3>1 DEF AfterSuccess
    <3>5. /\ c \in AppType /\ c.token = app.token /\ c.principal = p
          /\ c.generation = app.generation /\ c.cache = app.cache \cup {p}
          /\ c.status = app.status /\ c.admin = app.admin
      BY <1>1, <3>3 DEF AppType
    <3>6. p = app.principal
      OBVIOUS
    <3> HIDE DEF c, p
    <3> QED
      BY <1>1, <1>5, <3>2, <3>4, <3>5, <3>6 DEF Coherent, Advances
  <2> QED
    BY <2>1, <2>2
<1> QED
  BY <1>2, <1>3, <1>4, <1>5 DEF Flows

(* A flow that only moves on, with the tab unchanged. *)
LEMMA MovePreserves ==
  ASSUME IInv, NEW f \in Flows, NEW STATE h, h \in HttpType,
         http' = [http EXCEPT ![f] = h],
         UNCHANGED <<app, boot>>,
         h.phase # "idle",
         f = "me" => http[f].phase # "idle",
         h.generation <= app.generation,
         f \in AuthFlows /\ h.generation = app.generation =>
           h.token # NULL /\ h.token.owner = app.principal,
         f = "login" /\ h.phase = "body" /\ h.outcome = "ok" => h.token # NULL,
         h.phase = "refreshing" =>
           f \in AuthFlows /\ Fresh(f) /\ h.generation = app.generation /\ JoinRefresh,
         h.phase # "refreshing" => UNCHANGED flight,
         f = "me" /\ h.generation = app.generation => Fresh(f),
         cookie' \in Everyone \cup {NULL}, issued' \in 0 .. MaxTokens
  PROVE  IInv'
<1> USE DEF IInv
<1>1. /\ app \in AppType /\ flight \in FlightType /\ http \in [Flows -> HttpType]
      /\ app.generation \in Nat
  BY DEF TypeOK, AppType
<1>2. /\ flight' \in FlightType
      /\ flight.phase # "none" => flight' = flight
      /\ flight.phase = "none" /\ flight' # flight =>
           flight'.generation = app.generation /\ flight'.phase = "probing"
                /\ f \in AuthFlows /\ h.generation = app.generation
      /\ h.phase = "refreshing" => flight'.phase # "none"
  BY <1>1 DEF JoinRefresh, FlightType
<1>3. (\A g \in Flows : g # f => http'[g] = http[g]) /\ http'[f] = h
  BY <1>1
<1>4. TypeOK'
  BY <1>1, <1>2 DEF TypeOK
<1>5. h.token # NULL /\ h.token \in Tokens => h.token.owner # NULL
  BY NullAssumption DEF Tokens
<1>6. LiveWork'
  <2>1. flight'.generation <= app'.generation
    BY <1>1, <1>2 DEF LiveWork
  <2>2. \A g \in Flows : http'[g].generation <= app'.generation
    BY <1>3 DEF LiveWork
  <2>3. \A g \in AuthFlows :
          http'[g].phase # "idle" /\ Fresh(g)' =>
            http'[g].token # NULL /\ http'[g].token.owner = app'.principal
    BY <1>3 DEF LiveWork, Fresh, AuthFlows, Flows
  <2>4. flight'.phase # "none" /\ flight'.generation = app'.generation /\ boot'.at # "refresh"
          => app'.principal # NULL
    <3>1. CASE flight' = flight
      BY <3>1 DEF LiveWork
    <3>2. CASE flight' # flight
      BY <3>2, <1>2, <1>5 DEF HttpType
    <3> QED
      BY <3>1, <3>2
  <2> QED
    BY <2>1, <2>2, <2>3, <2>4 DEF LiveWork
<1>7. Flow'
  BY <1>3, RequestsAssumption DEF Flow, Fresh, Flows, AuthFlows
<1>8. WaitersHaveAFlight'
  BY <1>2, <1>3 DEF WaitersHaveAFlight, Flows
<1> QED
  BY <1>4, <1>6, <1>7, <1>8
-----------------------------------------------------------------------------
(* The actions of adminFetchJson and of its callers.                       *)

LEMMA AnsweredPreserves ==
  ASSUME IInv, NEW f \in Flows, Answered(f)
  PROVE  IInv'
<1> USE DEF IInv
<1>1. /\ http[f] \in HttpType /\ issued \in 0 .. MaxTokens
      /\ cookie \in Everyone \cup {NULL} /\ Coherent(app) /\ app.generation \in Nat
  BY DEF TypeOK, AppType
<1>2. ASSUME NEW failure, Finish(f, AfterFailure(f, failure)),
             http[f].phase \notin {"idle", "refreshing"}, UNCHANGED <<flight, cookie, issued>>
      PROVE  IInv'
  BY <1>1, <1>2, AfterFailureCoherent, FinishPreserves
<1>3. ASSUME NoResponse(f) PROVE IInv'
  BY <1>2, <1>3 DEF NoResponse, OnTheWire
<1>4. ASSUME NEW status \in HttpStatuses, Headers(f, status) PROVE IInv'
  <2>1. UNCHANGED <<cookie, issued>> /\ http[f].phase \in {"sent", "resent"}
    BY <1>4 DEF Headers, OnTheWire
  <2>2. CASE Finish(f, AfterFailure(f, "stale")) /\ UNCHANGED flight
    BY <1>2, <2>1, <2>2
  <2>3. CASE /\ Fresh(f) /\ status = "unauthorized" /\ MayRefresh(f)
             /\ http' = [http EXCEPT ![f].phase = "refreshing"]
             /\ JoinRefresh
             /\ UNCHANGED <<app, boot>>
    <3> DEFINE h == [http[f] EXCEPT !.phase = "refreshing"]
    <3>1. f \in AuthFlows
      BY <2>3 DEF MayRefresh, AuthFlows, Flows
    <3>2. http[f].token # NULL /\ http[f].token.owner = app.principal
      BY <2>1, <2>3, <3>1 DEF LiveWork
    <3>3. /\ h \in HttpType /\ h.phase = "refreshing" /\ h.token = http[f].token
          /\ h.generation = http[f].generation
      BY <1>1 DEF HttpType
    <3>4. http' = [http EXCEPT ![f] = h]
      BY <2>3
    <3>5. h.generation <= app.generation
      BY <3>3 DEF LiveWork
    <3> HIDE DEF h
    <3> QED
      BY <1>1, <2>1, <2>3, <3>1, <3>2, <3>3, <3>4, <3>5, MovePreserves, RequestsAssumption
      DEF Fresh, AuthFlows
  <2>4. CASE /\ Fresh(f) /\ ToBody(f, status, http[f].token) /\ UNCHANGED flight
    <3> DEFINE h == [http[f] EXCEPT !.phase = "body", !.outcome = status,
                                    !.token = http[f].token]
    <3>1. /\ h \in HttpType /\ h.phase = "body" /\ h.token = http[f].token
          /\ h.generation = http[f].generation /\ h.outcome = status
      BY <1>1 DEF HttpType
    <3>2. f \in AuthFlows => http[f].token # NULL /\ http[f].token.owner = app.principal
      BY <2>1, <2>4 DEF LiveWork
    <3>3. http' = [http EXCEPT ![f] = h] /\ UNCHANGED <<app, boot, flight>>
      BY <2>4 DEF ToBody
    <3>4. h.generation <= app.generation
      BY <3>1 DEF LiveWork
    <3>5. f = "login" => status # "ok"
      BY <1>4 DEF Headers
    <3> HIDE DEF h
    <3> QED
      BY <1>1, <2>1, <2>4, <3>1, <3>2, <3>3, <3>4, <3>5, MovePreserves
  <2> QED
    BY <1>4, <2>2, <2>3, <2>4 DEF Headers
<1>5. ASSUME Body(f) PROVE IInv'
  <2>1. http[f].phase = "body" /\ UNCHANGED <<flight, cookie, issued>>
    BY <1>5 DEF Body
  <2>2. CASE ~Fresh(f)
    BY <1>2, <1>5, <2>1, <2>2 DEF Body
  <2>3. CASE Fresh(f) /\ http[f].outcome # "ok"
    BY <1>2, <1>5, <2>1, <2>3 DEF Body
  <2>4. CASE Fresh(f) /\ http[f].outcome = "ok"
    <3>1. Finish(f, AfterSuccess(f))
      BY <1>5, <2>4 DEF Body
    <3> QED
      BY <1>1, <2>1, <2>4, <3>1, AfterSuccessCoherent, FinishPreserves
  <2> QED
    BY <2>2, <2>3, <2>4
<1>6. ASSUME BodyBroken(f) PROVE IInv'
  BY <1>2, <1>6 DEF BodyBroken
<1> QED
  BY <1>3, <1>4, <1>5, <1>6 DEF Answered, BodyRead

LEMMA LoginHeadersPreserves ==
  ASSUME IInv, NEW p \in Everyone, LoginHeaders(p)
  PROVE  IInv'
<1> DEFINE t == NewToken(p)
           h == [http["login"] EXCEPT !.phase = "body", !.outcome = "ok", !.token = t]
<1>1. /\ "login" \in Flows /\ "login" \notin AuthFlows
      /\ http["login"] \in HttpType /\ issued \in Nat /\ MaxTokens \in Nat
      /\ Coherent(app) /\ app.generation \in Nat
  BY RequestsAssumption, MaxTokensAssumption DEF IInv, TypeOK, AppType, Flows, AuthFlows
<1>2. /\ http["login"].phase = "sent" /\ UNCHANGED flight
      /\ cookie' \in Everyone \cup {NULL} /\ issued' \in 0 .. MaxTokens
  BY <1>1 DEF LoginHeaders, IInv, TypeOK
<1>3. t \in Tokens /\ t # NULL
  BY <1>1, NullAssumption DEF Tokens, NewToken
<1> HIDE DEF t
<1>4. CASE ~Fresh("login")
  <2>1. Finish("login", app)
    BY <1>4 DEF LoginHeaders
  <2>2. Advances(app, app)
    BY <1>1 DEF Advances
  <2> QED
    BY <1>1, <1>2, <2>1, <2>2, FinishPreserves
<1>5. CASE Fresh("login")
  <2>1. http' = [http EXCEPT !["login"] = h] /\ UNCHANGED <<app, boot, flight>>
    BY <1>5, <1>2 DEF LoginHeaders, ToBody, t
  <2>2. /\ h \in HttpType /\ h.phase = "body" /\ h.token = t
        /\ h.generation = http["login"].generation
    BY <1>1, <1>3 DEF HttpType, HttpStatuses
  <2>3. h.generation <= app.generation
    BY <1>1, <2>2 DEF IInv, LiveWork
  <2> HIDE DEF h
  <2> QED
    BY <1>1, <1>2, <1>3, <2>1, <2>2, <2>3, MovePreserves
<1> QED
  BY <1>4, <1>5

LEMMA LogoutHeadersPreserves ==
  ASSUME IInv, LogoutHeaders
  PROVE  IInv'
<1> DEFINE h == [http["logout"] EXCEPT !.phase = "body", !.outcome = "ok",
                                       !.token = http["logout"].token]
<1>1. /\ "logout" \in Flows /\ "logout" \notin AuthFlows
      /\ http["logout"] \in HttpType /\ app.generation \in Nat
  BY RequestsAssumption DEF IInv, TypeOK, AppType, Flows, AuthFlows
<1>2. /\ http["logout"].phase = "sent" /\ UNCHANGED flight
      /\ cookie' \in Everyone \cup {NULL} /\ issued' \in 0 .. MaxTokens
  BY DEF LogoutHeaders, IInv, TypeOK
<1>3. CASE ~Fresh("logout")
  BY <1>1, <1>2, <1>3, AfterFailureCoherent, FinishPreserves DEF LogoutHeaders
<1>4. CASE Fresh("logout")
  <2>1. http' = [http EXCEPT !["logout"] = h] /\ UNCHANGED <<app, boot, flight>>
    BY <1>4, <1>2 DEF LogoutHeaders, ToBody
  <2>2. /\ h \in HttpType /\ h.phase = "body"
        /\ h.generation = http["logout"].generation
    BY <1>1 DEF HttpType, HttpStatuses
  <2>3. h.generation <= app.generation
    BY <1>1, <2>2 DEF IInv, LiveWork
  <2> HIDE DEF h
  <2> QED
    BY <1>1, <1>2, <2>1, <2>2, <2>3, MovePreserves
<1> QED
  BY <1>3, <1>4

LEMMA MeUnsupportedPreserves ==
  ASSUME IInv, MeUnsupported
  PROVE  IInv'
<1>1. /\ "me" \in Flows /\ Coherent(app) /\ http["me"].phase = "body"
      /\ UNCHANGED <<flight, cookie, issued>>
      /\ cookie \in Everyone \cup {NULL} /\ issued \in 0 .. MaxTokens
  BY DEF IInv, TypeOK, Flows, MeUnsupported
<1>2. CASE Fresh("me")
  BY <1>1, <1>2, UnauthenticatedCoherent, FinishPreserves DEF MeUnsupported
<1>3. CASE ~Fresh("me")
  BY <1>1, <1>3, BootFailedCoherent, FinishPreserves DEF MeUnsupported
<1> QED
  BY <1>2, <1>3

(* Starting a flow: request, login or logout. *)
LEMMA SendPreserves ==
  ASSUME IInv, NEW f \in Flows \ {"me"}, http' = [http EXCEPT ![f] = Sent],
         f \in Requests => app.status = "authenticated",
         UNCHANGED <<app, flight, boot, cookie, issued>>
  PROVE  IInv'
<1>1. /\ Sent \in HttpType /\ Sent.phase = "sent" /\ Sent.generation = app.generation
      /\ Sent.token = app.token
  BY DEF IInv, TypeOK, AppType, Sent, HttpType, SessionTokens, Tokens, Everyone
<1>2. app.generation \in Nat /\ Coherent(app)
  BY DEF IInv, TypeOK, AppType
<1>3. f \in AuthFlows => Sent.token # NULL /\ Sent.token.owner = app.principal
  BY <1>1, <1>2 DEF AuthFlows, Coherent
<1>4. cookie' \in Everyone \cup {NULL} /\ issued' \in 0 .. MaxTokens
  BY DEF IInv, TypeOK
<1>5. Sent.generation <= app.generation
  BY <1>1, <1>2
<1> QED
  BY <1>1, <1>2, <1>3, <1>4, <1>5, MovePreserves

LEMMA SubmitLoginPreserves ==
  ASSUME IInv, SubmitLogin
  PROVE  IInv'
<1> DEFINE h == [IdleFlow EXCEPT !.phase = "probing"]
<1>1. h \in HttpType /\ h.phase = "probing" /\ h.generation = 0
  BY DEF IdleFlow, HttpType
<1>2. /\ app.generation \in Nat /\ "login" \in Flows /\ "login" \notin AuthFlows
      /\ cookie' \in Everyone \cup {NULL} /\ issued' \in 0 .. MaxTokens
  BY RequestsAssumption DEF IInv, TypeOK, AppType, Flows, AuthFlows, SubmitLogin
<1>3. http' = [http EXCEPT !["login"] = h] /\ UNCHANGED <<app, flight, boot>>
  BY DEF SubmitLogin
<1>4. h.generation <= app.generation
  BY <1>1, <1>2
<1> HIDE DEF h
<1> QED
  BY <1>1, <1>2, <1>3, <1>4, MovePreserves

-----------------------------------------------------------------------------
(* boot and the refresh.                                                   *)

LEMMA BootPreserves ==
  ASSUME IInv, Boot, boot.at \in {"queued", "idle"}
  PROVE  IInv'
<1> DEFINE c == [app EXCEPT !.status = "booting"]
<1>1. /\ app \in AppType /\ flight \in FlightType /\ http \in [Flows -> HttpType]
      /\ app.generation \in Nat /\ "me" \in Flows
  BY DEF IInv, TypeOK, AppType, Flows
<1>2. /\ c \in AppType /\ c.status = "booting" /\ c.token = app.token
      /\ c.principal = app.principal /\ c.generation = app.generation /\ c.cache = app.cache
  BY <1>1 DEF AppType
<1>3. app' = c /\ UNCHANGED <<cookie, issued>>
  BY DEF Boot
<1> HIDE DEF c
<1>4. Coherent(app')
  BY <1>2, <1>3 DEF IInv, Coherent
<1>5. CASE app.token = NULL
  <2>1. /\ boot' = [at |-> "refresh", existing |-> NULL] /\ boot' \in BootType
        /\ boot'.at = "refresh" /\ JoinRefresh /\ http' = http
    BY <1>5 DEF Boot, BootType
  <2>2. /\ flight' \in FlightType /\ flight'.phase # "none"
        /\ flight'.generation <= app'.generation
    BY <1>1, <1>2, <1>3, <2>1 DEF JoinRefresh, FlightType, IInv, LiveWork
  <2>3. http["me"].phase = "idle"
    BY DEF IInv, WaitersHaveAFlight
  <2>4. TypeOK'
    BY <1>2, <1>3, <2>1, <2>2 DEF IInv, TypeOK
  <2>5. LiveWork'
    BY <1>2, <1>3, <2>1, <2>2 DEF IInv, LiveWork, Fresh
  <2>6. Flow'
    BY <1>2, <1>3, <2>1 DEF IInv, Flow
  <2>7. WaitersHaveAFlight'
    BY <1>2, <1>3, <2>1, <2>2, <2>3 DEF IInv, WaitersHaveAFlight
  <2> QED
    BY <1>4, <2>4, <2>5, <2>6, <2>7 DEF IInv
<1>6. CASE app.token # NULL
  <2>1. /\ boot' = [at |-> "me", existing |-> app.token] /\ boot' \in BootType
        /\ boot'.at = "me" /\ boot'.existing = app.token
        /\ http' = [http EXCEPT !["me"] = Sent] /\ flight' = flight
    BY <1>1, <1>6 DEF Boot, BootType, AppType
  <2>2. /\ Sent \in HttpType /\ Sent.phase = "sent" /\ Sent.generation = app.generation
        /\ Sent.token = app.token
    BY <1>1 DEF AppType, Sent, HttpType, SessionTokens, Tokens, Everyone
  <2>3. (\A g \in Flows : g # "me" => http'[g] = http[g]) /\ http'["me"] = Sent
    BY <1>1, <2>1
  <2>4. app.token.owner = app.principal /\ app.principal # NULL
    BY <1>6 DEF IInv, Coherent
  <2>5. TypeOK'
    BY <1>1, <1>2, <1>3, <2>1, <2>2 DEF IInv, TypeOK
  <2>6. LiveWork'
    BY <1>1, <1>2, <1>3, <1>6, <2>1, <2>2, <2>3, <2>4
    DEF IInv, LiveWork, Fresh, AuthFlows, Flows
  <2>7. Flow'
    BY <1>2, <1>3, <1>6, <2>1, <2>2, <2>3, <2>4 DEF IInv, Flow, Flows
  <2>8. WaitersHaveAFlight'
    BY <1>2, <1>3, <2>1, <2>2, <2>3 DEF IInv, WaitersHaveAFlight
  <2> QED
    BY <1>4, <2>5, <2>6, <2>7, <2>8 DEF IInv
<1> QED
  BY <1>5, <1>6

LEMMA RemountPreserves ==
  ASSUME IInv, Remount
  PROVE  IInv'
<1> DEFINE c == [app EXCEPT !.status = "booting", !.admin = NULL, !.cache = {}]
<1>1. app \in AppType /\ http \in [Flows -> HttpType] /\ app.generation \in Nat
  BY DEF IInv, TypeOK, AppType
<1>2. /\ c \in AppType /\ c.status = "booting" /\ c.token = app.token
      /\ c.principal = app.principal /\ c.generation = app.generation /\ c.cache = {}
  BY <1>1 DEF AppType
<1>3. /\ app' = c /\ boot.at = "idle" /\ UNCHANGED <<flight, cookie, issued>>
      /\ boot' = [NoBoot EXCEPT !.at = "queued"]
  BY DEF Remount
<1> HIDE DEF c
<1>4. boot' \in BootType /\ boot'.at = "queued"
  BY <1>3 DEF NoBoot, BootType
<1>5. ASSUME NEW f \in Flows
      PROVE  /\ http'[f] \in HttpType /\ http'[f].phase = http[f].phase
             /\ http'[f].generation = http[f].generation /\ http'[f].token = http[f].token
             /\ http'[f].outcome = http[f].outcome
  <2>1. http'[f] = IF http[f].phase = "idle" THEN http[f] ELSE [http[f] EXCEPT !.orphan = TRUE]
    BY DEF Remount
  <2>2. http[f] \in HttpType
    BY <1>1
  <2> QED
    BY <2>1, <2>2 DEF HttpType
<1>6. TypeOK'
  <2>1. http' \in [Flows -> HttpType]
    BY <1>5 DEF Remount
  <2> QED
    BY <1>2, <1>3, <1>4, <2>1 DEF IInv, TypeOK
<1>7. Coherent(app')
  BY <1>2, <1>3 DEF IInv, Coherent
<1>8. LiveWork'
  BY <1>2, <1>3, <1>4, <1>5 DEF IInv, LiveWork, Fresh, AuthFlows, Flows
<1>9. Flow'
  BY <1>2, <1>3, <1>4, <1>5 DEF IInv, Flow, Flows
<1>10. WaitersHaveAFlight'
  BY <1>2, <1>3, <1>4, <1>5 DEF IInv, WaitersHaveAFlight, Flows
<1> QED
  BY <1>6, <1>7, <1>8, <1>9, <1>10 DEF IInv

LEMMA RefreshSendPreserves ==
  ASSUME IInv, RefreshSend
  PROVE  IInv'
<1>1. /\ flight' \in FlightType /\ flight'.phase = "sent" /\ flight.phase = "probing"
      /\ flight'.generation = flight.generation
  BY DEF RefreshSend, IInv, TypeOK, FlightType
<1>2. UNCHANGED <<app, http, boot, cookie, issued>>
  BY DEF RefreshSend
<1> QED
  BY <1>1, <1>2
  DEF IInv, TypeOK, LiveWork, Flow, WaitersHaveAFlight, Fresh

(* What a settled refresh leaves in the tab, whatever waited for it. *)
LEMMA SettledApp ==
  ASSUME IInv, NEW answer \in RefreshFailures \cup {"issued"}, SettleRefresh(answer)
  PROVE  /\ Coherent(app') /\ Advances(app, app') /\ Handover(app, app')
         /\ app'.status \in {app.status, "authenticated", "degraded", "unauthenticated"}
         /\ app'.status = "degraded" => boot' = NoBoot \/ app.status = "degraded"
         /\ boot' # boot => boot' = NoBoot /\ app'.status # "booting"
         /\ boot.at = "refresh" => boot' = NoBoot
         /\ boot' # boot => boot.at = "refresh" \/ http'["me"] = IdleFlow
         /\ \A f \in Flows :
              \/ http[f].phase # "refreshing" /\ http'[f] = http[f]
              \/ http'[f] = IdleFlow /\ (f = "me" => boot' = NoBoot)
              \/ /\ http[f].phase = "refreshing"
                 /\ http'[f] \in HttpType /\ http'[f].phase = "resent"
                 /\ http'[f].generation = http[f].generation
                 /\ http'[f].orphan = http[f].orphan
                 /\ http[f].generation = app'.generation =>
                      http'[f].token # NULL /\ http'[f].token.owner = app'.principal
<1> DEFINE verdict == RefreshVerdict(answer)
           stored == RefreshStored(verdict)
           token == NewToken(flight.cookie)
           waiting(f) == http[f].phase = "refreshing"
           resumes(f) == verdict = "issued" /\ http[f].generation = stored.generation
           meFails == waiting("me") /\ ~resumes("me")
           failure == IF verdict = "issued" THEN "stale" ELSE verdict
<1>1. /\ Coherent(app) /\ app \in AppType /\ app.generation \in Nat /\ issued \in Nat
      /\ \A f \in Flows : http[f] \in HttpType
  BY MaxTokensAssumption DEF IInv, TypeOK, AppType
<1>10. flight.phase # "none"
  BY DEF SettleRefresh
<1>2. /\ app' = IF boot.at = "refresh" /\ verdict = "issued"
                THEN ApplyAuthenticated(stored, token, token.owner)
                ELSE IF boot.at = "refresh" \/ meFails
                THEN BootFailed(stored, failure)
                ELSE stored
      /\ boot' = IF boot.at = "refresh" \/ meFails THEN NoBoot ELSE boot
  BY DEF SettleRefresh
<1>11. ASSUME NEW f \in Flows
       PROVE  http'[f] = IF ~waiting(f) THEN http[f]
                         ELSE IF resumes(f)
                         THEN [http[f] EXCEPT !.phase = "resent", !.token = token]
                         ELSE IdleFlow
  BY DEF SettleRefresh
<1>3. "me" \in Flows /\ (waiting("me") => boot.at = "me")
  BY DEF Flows, IInv, WaitersHaveAFlight
<1>4. CASE verdict = "issued"
  <2> DEFINE p == flight.cookie
  <2>1. p \in Admins /\ app.principal \in {NULL, p} /\ flight.generation = app.generation
    BY <1>4 DEF RefreshVerdict
  <2>2. token \in SessionTokens /\ token.owner = p /\ token \in Tokens /\ token # NULL
    BY <1>1, <2>1, NullAssumption DEF NewToken, SessionTokens, Tokens, Everyone
  <2>3. stored = SetRefreshedAdminSession(app, token, p)
    BY <1>4 DEF RefreshStored
  <2> HIDE DEF verdict, stored, token
  <2> HIDE DEF failure
  <2>4. /\ Coherent(app') /\ Advances(app, app') /\ Advances(stored, app') /\ Handover(app, app')
        /\ stored.principal = p /\ stored.generation \in Nat
        /\ app'.status \in {app.status, "authenticated", "degraded", "unauthenticated"}
        /\ app'.status = "degraded" => boot' = NoBoot \/ app.status = "degraded"
        /\ boot' # boot => boot' = NoBoot /\ app'.status # "booting"
    <3>1. CASE boot.at = "refresh"
      <4>1. app' = ApplyAuthenticated(stored, token, p) /\ boot' = NoBoot
        BY <1>2, <1>4, <2>2, <3>1
      <4> QED
        BY <1>1, <2>1, <2>2, <2>3, <3>1, <4>1, RefreshedBootCoherent
    <3>2. CASE boot.at # "refresh"
      <4>1. app.principal # NULL /\ app.principal = p
        BY <1>1, <1>10, <2>1, <3>2 DEF IInv, LiveWork
      <4>2. /\ Coherent(stored) /\ Advances(app, stored) /\ Handover(app, stored)
            /\ stored.principal = p
            /\ stored.status = app.status /\ stored.generation \in Nat
        BY <1>1, <2>1, <2>2, <2>3, <4>1, RefreshedCoherent DEF Coherent, AppType
      <4>3. CASE meFails
        <5>1. app' = BootFailed(stored, failure) /\ boot' = NoBoot
          BY <1>2, <3>2, <4>3
        <5>2. Coherent(app') /\ Advances(stored, app') /\ Handover(stored, app')
              /\ app'.generation \in Nat
              /\ app'.principal \in {p, NULL} /\ app'.status \in {"degraded", "unauthenticated"}
          BY <4>2, <5>1, BootFailedCoherent DEF Coherent, AppType
        <5>3. Advances(app, app') /\ Handover(app, app')
          BY <1>1, <4>1, <4>2, <5>2 DEF Advances, Handover
        <5> QED
          BY <4>2, <5>1, <5>2, <5>3
      <4>4. CASE ~meFails
        <5>1. app' = stored /\ boot' = boot
          BY <1>2, <3>2, <4>4
        <5>2. Advances(stored, app')
          BY <4>2, <5>1 DEF Advances
        <5> QED
          BY <4>2, <5>1, <5>2
      <4> QED
        BY <4>3, <4>4
    <3> QED
      BY <3>1, <3>2
  <2>5. ASSUME NEW f \in Flows
        PROVE  \/ ~waiting(f) /\ http'[f] = http[f]
               \/ http'[f] = IdleFlow /\ (f = "me" => boot' = NoBoot)
               \/ /\ waiting(f)
                  /\ http'[f] \in HttpType /\ http'[f].phase = "resent"
                  /\ http'[f].generation = http[f].generation
                  /\ http'[f].orphan = http[f].orphan
                  /\ http[f].generation = app'.generation =>
                       http'[f].token # NULL /\ http'[f].token.owner = app'.principal
    <3>1. CASE ~waiting(f)
      BY <1>11, <3>1
    <3>2. CASE waiting(f) /\ ~resumes(f)
      BY <1>2, <1>11, <3>2
    <3>3. CASE waiting(f) /\ resumes(f)
      <4>1. http'[f] = [http[f] EXCEPT !.phase = "resent", !.token = token]
        BY <1>11, <3>3
      <4>2. /\ http'[f] \in HttpType /\ http'[f].phase = "resent"
            /\ http'[f].generation = http[f].generation /\ http'[f].token = token
            /\ http'[f].orphan = http[f].orphan
        BY <1>1, <2>2, <4>1 DEF HttpType
      <4>3. http[f].generation = app'.generation => app'.principal = p
        BY <2>4, <3>3 DEF Advances
      <4> QED
        BY <2>2, <3>3, <4>2, <4>3
    <3> QED
      BY <3>1, <3>2, <3>3
  <2>6. /\ boot.at = "refresh" => boot' = NoBoot
        /\ boot' # boot => boot.at = "refresh" \/ http'["me"] = IdleFlow
    BY <1>2, <1>3, <1>11
  <2> QED
    BY <2>4, <2>5, <2>6
<1>5. CASE verdict # "issued"
  <2> HIDE DEF verdict
  <2>1. /\ Coherent(stored) /\ Advances(app, stored) /\ Handover(app, stored)
        /\ stored.status \in {app.status, "unauthenticated"}
        /\ stored.principal \in {app.principal, NULL}
    BY <1>1, <1>5, ClearCoherent DEF RefreshStored, Advances, Handover
  <2> HIDE DEF stored, failure
  <2>2. /\ Coherent(app') /\ Advances(app, app') /\ Handover(app, app')
        /\ app'.status \in {app.status, "degraded", "unauthenticated"}
        /\ app'.status = "degraded" => boot' = NoBoot \/ app.status = "degraded"
        /\ boot' # boot => boot' = NoBoot /\ app'.status # "booting"
    <3>1. CASE boot.at = "refresh" \/ meFails
      <4>1. app' = BootFailed(stored, failure) /\ boot' = NoBoot
        BY <1>2, <1>5, <3>1
      <4>2. /\ Coherent(app') /\ Advances(stored, app') /\ Handover(stored, app')
            /\ app'.principal \in {stored.principal, NULL}
            /\ app'.status \in {"degraded", "unauthenticated"}
        BY <2>1, <4>1, BootFailedCoherent
      <4>3. stored.generation \in Nat /\ app'.generation \in Nat
        BY <2>1, <4>2 DEF Coherent, AppType
      <4>4. Advances(app, app') /\ Handover(app, app')
        BY <1>1, <2>1, <4>2, <4>3 DEF Advances, Handover
      <4> QED
        BY <4>1, <4>2, <4>4
    <3>2. CASE ~(boot.at = "refresh" \/ meFails)
      BY <1>2, <2>1, <3>2
    <3> QED
      BY <3>1, <3>2
  <2>3. ASSUME NEW f \in Flows
        PROVE  \/ http[f].phase # "refreshing" /\ http'[f] = http[f]
               \/ http'[f] = IdleFlow /\ (f = "me" => boot' = NoBoot)
    BY <1>2, <1>5, <1>11
  <2>4. /\ boot.at = "refresh" => boot' = NoBoot
        /\ boot' # boot => boot.at = "refresh" \/ http'["me"] = IdleFlow
    BY <1>2, <1>3, <1>5, <1>11
  <2> HIDE DEF meFails, waiting, resumes, token
  <2> QED
    BY <2>2, <2>3, <2>4
<1> QED
  BY <1>4, <1>5

LEMMA SettleRefreshPreserves ==
  ASSUME IInv, NEW answer \in RefreshFailures \cup {"issued"}, SettleRefresh(answer)
  PROVE  IInv'
<1>1. /\ app \in AppType /\ http \in [Flows -> HttpType] /\ boot \in BootType
      /\ app.generation \in Nat /\ issued \in 0 .. MaxTokens /\ MaxTokens \in Nat
      /\ "me" \in Flows /\ \A f \in Flows : http[f].generation \in Nat
  BY MaxTokensAssumption DEF IInv, TypeOK, AppType, HttpType, Flows
<1>2. /\ flight' = NoFlight /\ cookie' \in Everyone \cup {NULL} /\ issued' \in 0 .. MaxTokens
  <2>1. flight' = NoFlight /\ cookie' \in {cookie, flight.cookie}
    BY DEF SettleRefresh
  <2>2. cookie \in Everyone \cup {NULL} /\ flight.cookie \in Everyone \cup {NULL}
    BY DEF IInv, TypeOK, FlightType
  <2>3. answer = "issued" => issued < MaxTokens
    BY DEF SettleRefresh
  <2>4. issued' = IF answer = "issued" THEN issued + 1 ELSE issued
    BY DEF SettleRefresh
  <2>5. issued' \in 0 .. MaxTokens
    BY <1>1, <2>3, <2>4
  <2> QED
    BY <2>1, <2>2, <2>5
<1>3. /\ NoFlight \in FlightType /\ NoFlight.phase = "none" /\ NoFlight.generation = 0
      /\ IdleFlow \in HttpType /\ IdleFlow.phase = "idle" /\ IdleFlow.generation = 0
      /\ NoBoot \in BootType /\ NoBoot.at = "idle"
  BY DEF NoFlight, FlightType, IdleFlow, HttpType, NoBoot, BootType
<1>4. /\ app' \in AppType /\ app'.generation \in Nat /\ Coherent(app') /\ Advances(app, app')
      /\ boot' \in BootType /\ (boot' = boot \/ boot' = NoBoot)
  BY <1>1, <1>3, SettledApp DEF Coherent, AppType
<1>5. ASSUME NEW f \in Flows
      PROVE  \/ http[f].phase # "refreshing" /\ http'[f] = http[f]
             \/ http'[f] = IdleFlow /\ (f = "me" => boot' = NoBoot)
             \/ /\ http[f].phase = "refreshing"
                /\ http'[f] \in HttpType /\ http'[f].phase = "resent"
                /\ http'[f].generation = http[f].generation
                /\ http[f].generation = app'.generation =>
                     http'[f].token # NULL /\ http'[f].token.owner = app'.principal
  BY SettledApp
<1>6. TypeOK'
  <2>1. http' \in [Flows -> HttpType]
    <3>1. \A f \in Flows : http'[f] \in HttpType
      BY <1>1, <1>3, <1>5
    <3>2. \E T : http' = [f \in Flows |-> T[f]]
      <4>1. http' = [f \in Flows |-> http'[f]]
        BY DEF SettleRefresh
      <4> QED
        BY <4>1
    <3> QED
      BY <3>1, <3>2
  <2> QED
    BY <1>2, <1>3, <1>4, <2>1 DEF TypeOK
<1>7. LiveWork'
  <2>1. \A f \in Flows : http'[f].generation <= app'.generation
    BY <1>1, <1>3, <1>4, <1>5 DEF IInv, LiveWork, Advances
  <2>2. ASSUME NEW f \in AuthFlows, http'[f].phase # "idle",
               http'[f].generation = app'.generation
        PROVE  http'[f].token # NULL /\ http'[f].token.owner = app'.principal
    <3>1. f \in Flows
      BY DEF AuthFlows, Flows
    <3>2. CASE http'[f] = http[f]
      <4>1. http[f].generation = app.generation /\ app'.principal = app.principal
        BY <1>1, <1>4, <2>2, <3>1, <3>2 DEF IInv, LiveWork, Advances
      <4> QED
        BY <2>2, <3>1, <3>2, <4>1 DEF IInv, LiveWork, Fresh
    <3>3. CASE http'[f] # http[f]
      BY <1>3, <1>5, <2>2, <3>1, <3>3
    <3> QED
      BY <3>2, <3>3
  <2> QED
    BY <1>2, <1>3, <1>4, <2>1, <2>2 DEF LiveWork, Fresh
<1>8. Flow'
  <2>1. (http["login"].phase = "body" /\ http["login"].outcome = "ok" => http["login"].token # NULL)'
        /\ (\A f \in {"login", "logout"} : http[f].phase # "refreshing")'
    BY <1>3, <1>5 DEF IInv, Flow, Flows
  <2>2. (boot.at = "me" => boot.existing # NULL)'
    BY <1>3, <1>4 DEF IInv, Flow
  <2>3. ASSUME boot'.at = "me", http'["me"].generation = app'.generation
        PROVE  boot'.existing.owner = app'.principal
    <3>1. boot' = boot /\ http'["me"].generation = http["me"].generation
      BY <1>1, <1>3, <1>4, <1>5, <2>3
    <3>2. http["me"].generation = app.generation /\ app'.principal = app.principal
      BY <1>1, <1>4, <2>3, <3>1 DEF IInv, LiveWork, Advances
    <3> QED
      BY <2>3, <3>1, <3>2 DEF IInv, Flow, Fresh
  <2> QED
    BY <2>1, <2>2, <2>3 DEF Flow, Fresh
<1>9. WaitersHaveAFlight'
  <2>1. \A f \in Flows : http'[f].phase # "refreshing"
    BY <1>3, <1>5
  <2>2. boot'.at # "refresh"
    BY <1>3, SettledApp
  <2>3. boot'.at = "me" <=> http'["me"].phase # "idle"
    <3>1. CASE boot' = boot
      BY <1>1, <1>3, <1>4, <1>5, <3>1 DEF IInv, WaitersHaveAFlight
    <3>2. CASE boot' # boot
      <4>1. boot'.at = "idle"
        BY <1>3, <1>4, <3>2
      <4>2. http'["me"] = IdleFlow \/ http["me"].phase = "idle"
        BY <3>2, SettledApp DEF IInv, WaitersHaveAFlight
      <4> QED
        BY <1>1, <1>3, <1>5, <4>1, <4>2
    <3> QED
      BY <3>1, <3>2
  <2>4. app'.status = "booting" => boot'.at # "idle"
    BY SettledApp DEF IInv, WaitersHaveAFlight
  <2>5. app'.status = "degraded" => boot'.at = "idle"
    BY <1>3, <1>4, SettledApp DEF IInv, WaitersHaveAFlight
  <2> QED
    BY <2>1, <2>2, <2>3, <2>4, <2>5 DEF WaitersHaveAFlight
<1> QED
  BY <1>4, <1>6, <1>7, <1>8, <1>9 DEF IInv

-----------------------------------------------------------------------------
(* The inductive invariant.                                                *)

LEMMA InitIInv == Init => IInv
<1> SUFFICES ASSUME Init PROVE IInv
  OBVIOUS
<1>1. /\ app \in AppType /\ app.token = NULL /\ app.principal = NULL /\ app.generation = 0
      /\ app.status = "booting" /\ app.admin = NULL /\ app.cache = {}
  BY DEF Init, AppType
<1>2. /\ flight \in FlightType /\ flight.phase = "none" /\ flight.generation = 0
  BY DEF Init, NoFlight, FlightType
<1>3. IdleFlow \in HttpType /\ IdleFlow.phase = "idle" /\ IdleFlow.generation = 0
  BY DEF IdleFlow, HttpType
<1>4. http = [f \in Flows |-> IdleFlow] /\ "me" \in Flows
  BY DEF Init, Flows
<1>5. boot \in BootType /\ boot.at = "queued"
  BY DEF Init, NoBoot, BootType
<1>6. TypeOK
  BY <1>1, <1>2, <1>3, <1>4, <1>5, MaxTokensAssumption DEF Init, TypeOK
<1>7. Coherent(app) /\ LiveWork
  BY <1>1, <1>2, <1>3, <1>4 DEF Coherent, LiveWork, AuthFlows, Flows
<1>8. Flow /\ WaitersHaveAFlight
  BY <1>1, <1>3, <1>4, <1>5 DEF Flow, WaitersHaveAFlight, Flows
<1> QED
  BY <1>6, <1>7, <1>8 DEF IInv

LEMMA NextPreserves == IInv /\ [Next]_vars => IInv'
<1> SUFFICES ASSUME IInv, [Next]_vars PROVE IInv'
  OBVIOUS
<1>1. CASE BootOnMount
  BY <1>1, BootPreserves DEF BootOnMount
<1>2. CASE RetryBoot
  <2>1. boot.at = "idle"
    BY <1>2 DEF RetryBoot, IInv, WaitersHaveAFlight
  <2> QED
    BY <1>2, <2>1, BootPreserves DEF RetryBoot
<1>3. CASE Remount
  BY <1>3, RemountPreserves
<1>4. CASE RefreshSend
  BY <1>4, RefreshSendPreserves
<1>5. CASE SettleAnyRefresh
  BY <1>5, SettleRefreshPreserves DEF SettleAnyRefresh
<1>6. ASSUME NEW f \in Requests, IssueRequest(f) PROVE IInv'
  <2>1. f \in Flows \ {"me"}
    BY RequestsAssumption DEF Flows
  <2> QED
    BY <1>6, <2>1, SendPreserves DEF IssueRequest
<1>7. CASE SubmitLogin
  BY <1>7, SubmitLoginPreserves
<1>8. CASE SendLogin
  <2>1. "login" \in Flows \ {"me"} /\ "login" \notin Requests
    BY RequestsAssumption DEF Flows
  <2> QED
    BY <1>8, <2>1, SendPreserves DEF SendLogin
<1>9. CASE Logout
  <2>1. "logout" \in Flows \ {"me"} /\ "logout" \notin Requests
    BY RequestsAssumption DEF Flows
  <2> QED
    BY <1>9, <2>1, SendPreserves DEF Logout
<1>10. ASSUME NEW f \in Flows, Answered(f) PROVE IInv'
  BY <1>10, AnsweredPreserves
<1>11. ASSUME NEW p \in Everyone, LoginHeaders(p) PROVE IInv'
  BY <1>11, LoginHeadersPreserves
<1>12. CASE LogoutHeaders
  BY <1>12, LogoutHeadersPreserves
<1>13. CASE MeUnsupported
  BY <1>13, MeUnsupportedPreserves
<1>14. CASE OtherTab
  BY <1>14 DEF OtherTab, IInv, TypeOK, LiveWork, Flow, WaitersHaveAFlight, Fresh
<1>15. CASE UNCHANGED vars
  BY <1>15 DEF vars, IInv, TypeOK, LiveWork, Flow, WaitersHaveAFlight, Fresh
<1> QED
  BY <1>1, <1>2, <1>3, <1>4, <1>5, <1>6, <1>7, <1>8, <1>9, <1>10, <1>11, <1>12, <1>13,
     <1>14, <1>15 DEF Next

THEOREM Invariance == Spec => []IInv
BY InitIInv, NextPreserves, PTL DEF Spec

(* The variables of the tab keep their types, whatever interleaves: no     *)
(* path installs a token or a principal of an unsupported role.            *)
THEOREM TypeCorrect == Spec => []TypeOK
<1>1. IInv => TypeOK
  BY DEF IInv
<1> QED
  BY <1>1, Invariance, PTL

(* A screen shown signed in always has its administrator's token in the    *)
(* store; one shown signed out has nothing there.                          *)
THEOREM ScreenMatchesStore == Spec => []ProviderMatchesStore
<1>1. IInv => ProviderMatchesStore
  BY DEF IInv, Coherent, ProviderMatchesStore
<1> QED
  BY <1>1, Invariance, PTL

(* Requests are sent with a token of the administrator in the store. *)
THEOREM TokenOwnership == Spec => []TokenMatchesPrincipal
<1>1. IInv => TokenMatchesPrincipal
  BY DEF IInv, Coherent, TokenMatchesPrincipal
<1> QED
  BY <1>1, Invariance, PTL

(* No operator is ever shown data that was served to another one. *)
THEOREM NoInheritance == Spec => []NoInheritedData
<1>1. IInv => NoInheritedData
  BY DEF IInv, Coherent, NoInheritedData
<1> QED
  BY <1>1, Invariance, PTL

(* Nobody waits for a refresh or a boot that is not under way. *)
THEOREM NoLostWaiter == Spec => []WaitersHaveAFlight
<1>1. IInv => WaitersHaveAFlight
  BY DEF IInv
<1> QED
  BY <1>1, Invariance, PTL

-----------------------------------------------------------------------------
(* A refresh that outlived its session.                                    *)

LEMMA FlightCleared ==
  ASSUME IInv, [Next]_vars, flight.phase # "none", flight'.phase = "none"
  PROVE  SettleAnyRefresh
<1> USE DEF JoinRefresh
<1>1. CASE BootOnMount \/ RetryBoot
  BY <1>1 DEF BootOnMount, RetryBoot, Boot
<1>2. CASE Remount \/ SubmitLogin \/ SendLogin \/ Logout
  BY <1>2 DEF Remount, SubmitLogin, SendLogin, Logout
<1>7. CASE RefreshSend
  BY <1>7 DEF RefreshSend, IInv, TypeOK, FlightType
<1>3. CASE LogoutHeaders \/ MeUnsupported \/ OtherTab \/ UNCHANGED vars
  BY <1>3 DEF LogoutHeaders, MeUnsupported, OtherTab, vars
<1>4. ASSUME NEW f \in Requests, IssueRequest(f) PROVE FALSE
  BY <1>4 DEF IssueRequest
<1>5. ASSUME NEW p \in Everyone, LoginHeaders(p) PROVE FALSE
  BY <1>5 DEF LoginHeaders
<1>6. ASSUME NEW f \in Flows, Answered(f) PROVE FALSE
  BY <1>6 DEF Answered, NoResponse, Headers, BodyRead, Body, BodyBroken
<1> QED
  BY <1>1, <1>2, <1>3, <1>4, <1>5, <1>6, <1>7 DEF Next

(* A refresh answered after its session was replaced changes nothing in    *)
(* the tab, whatever it says, unless a boot waits for it.                  *)
THEOREM StaleRefreshInert == Spec => OldRefreshIsInert
<1> DEFINE P == flight.phase # "none" /\ flight'.phase = "none"
                /\ flight.generation # app.generation /\ ~BootAwaitsRefresh
                  => UNCHANGED app
<1>1. IInv /\ [Next]_vars => P
  <2> SUFFICES ASSUME IInv, [Next]_vars, flight.phase # "none", flight'.phase = "none",
                      flight.generation # app.generation, ~BootAwaitsRefresh
               PROVE  UNCHANGED app
    OBVIOUS
  <2>1. PICK answer \in RefreshFailures \cup {"issued"} : SettleRefresh(answer)
    BY FlightCleared DEF SettleAnyRefresh
  <2>2. RefreshVerdict(answer) = "stale"
    BY DEF RefreshVerdict
  <2>3. RefreshStored("stale") = app
    BY DEF RefreshStored, Unauthorized
  <2>4. boot.at # "refresh" /\ http["me"].phase # "refreshing"
    BY DEF BootAwaitsRefresh
  <2> QED
    BY <2>1, <2>2, <2>3, <2>4 DEF SettleRefresh
<1> QED
  BY <1>1, Invariance, PTL DEF Spec, OldRefreshIsInert

-----------------------------------------------------------------------------
(* The tab implements SessionScope.                                        *)

(* Steps that start no request and deliver no data: at an unchanged        *)
(* generation they drop work, at a new one they replace the scope.         *)
LEMMA ScopeStep ==
  ASSUME IInv, TypeOK', Advances(app, app'), Handover(app, app'),
         \A f \in Requests :
           \/ http'[f] = http[f]
           \/ http[f].phase # "idle" /\ http'[f].phase = "idle"
           \/ /\ http[f].phase # "idle" /\ http'[f].phase # "idle"
              /\ http'[f].generation = http[f].generation
              /\ http'[f].orphan = http[f].orphan
  PROVE  Scope!Next
<1> DEFINE W == {f \in Requests : http[f].phase # "idle" /\ http'[f].phase = "idle"}
<1>1. /\ app.generation \in Nat /\ app'.generation \in Nat
      /\ app'.principal \in Admins \cup {NULL}
  BY DEF IInv, TypeOK, AppType
<1>2. \A f \in Requests : http[f].generation \in Nat /\ http[f].generation <= app.generation
  BY DEF IInv, TypeOK, HttpType, LiveWork, Flows
<1>3. W \in SUBSET Scope!Underway
  BY DEF Scope!Underway, RequestScope
<1>4. CASE app'.generation = app.generation
  <2>1. app'.principal = app.principal /\ app'.cache \in {app.cache, {}}
    BY <1>1, <1>4 DEF Advances, Handover
  <2>2. ASSUME NEW f \in Requests
        PROVE  RequestScope'[f] = IF f \in W THEN "idle" ELSE RequestScope[f]
    BY <1>4 DEF RequestScope, Fresh
  <2>3. RequestScope' = [f \in Requests |-> IF f \in W THEN "idle" ELSE RequestScope[f]]
    BY <2>2 DEF RequestScope
  <2>4. Scope!Drop(W)
    BY <2>1, <2>3 DEF Scope!Drop
  <2> QED
    BY <1>3, <2>4 DEF Scope!Next
<1>5. CASE app'.generation # app.generation
  <2>1. app.generation < app'.generation
    BY <1>1, <1>5 DEF Advances
  <2>2. \A f \in Requests : http[f].generation # app'.generation
    BY <1>1, <1>2, <2>1
  <2>3. ASSUME NEW f \in Requests
        PROVE  RequestScope'[f] = IF RequestScope[f] = "idle" \/ f \in W THEN "idle" ELSE "revoked"
    BY <2>2 DEF RequestScope, Fresh
  <2>4. RequestScope' = [f \in Requests |-> IF RequestScope[f] = "idle" \/ f \in W
                                            THEN "idle" ELSE "revoked"]
    BY <2>3 DEF RequestScope
  <2>5. Scope!Replace(app'.principal, W)
    BY <2>4 DEF Scope!Replace, Handover
  <2> QED
    BY <1>1, <1>3, <2>5 DEF Scope!Next
<1> QED
  BY <1>4, <1>5

LEMMA FinishScope ==
  ASSUME IInv, IInv', NEW f \in Flows, NEW STATE app1, Finish(f, app1),
         http[f].phase # "idle", Advances(app, app1), Handover(app, app1)
  PROVE  Scope!Next
<1>1. app' = app1 /\ http' = [http EXCEPT ![f] = IdleFlow]
  BY DEF Finish
<1>2. http \in [Flows -> HttpType] /\ TypeOK'
  BY DEF IInv, TypeOK
<1>3. \A g \in Flows : http'[g] = IF g = f THEN IdleFlow ELSE http[g]
  BY <1>1, <1>2
<1>4. IdleFlow.phase = "idle"
  BY DEF IdleFlow
<1> QED
  BY <1>1, <1>2, <1>3, <1>4, ScopeStep DEF Flows

LEMMA MoveScope ==
  ASSUME IInv, IInv', UNCHANGED app, NEW f \in Flows, NEW STATE h,
         http' = [http EXCEPT ![f] = h],
         f \in Requests =>
           /\ http[f].phase # "idle" /\ h.phase # "idle"
           /\ h.generation = http[f].generation /\ h.orphan = http[f].orphan
  PROVE  Scope!Next
<1>1. http \in [Flows -> HttpType] /\ TypeOK' /\ app.generation \in Nat
  BY DEF IInv, TypeOK, AppType
<1>2. \A g \in Flows : http'[g] = IF g = f THEN h ELSE http[g]
  BY <1>1
<1>3. Advances(app, app') /\ Handover(app, app')
  BY <1>1 DEF Advances, Handover
<1> QED
  BY <1>1, <1>2, <1>3, ScopeStep DEF Flows

(* The two steps that are more than dropping and replacing. *)
LEMMA IssueBegins ==
  ASSUME IInv, NEW f \in Requests, IssueRequest(f)
  PROVE  Scope!Next
<1>1. http \in [Flows -> HttpType] /\ f \in Flows
  BY DEF IInv, TypeOK, Flows
<1>2. app.principal # NULL
  BY DEF IssueRequest, IInv, Coherent
<1>3. /\ Sent.phase = "sent" /\ Sent.generation = app.generation /\ Sent.orphan = FALSE
      /\ app' = app /\ \A g \in Requests : http'[g] = IF g = f THEN Sent ELSE http[g]
  BY <1>1 DEF Sent, IssueRequest, Flows
<1>4. RequestScope[f] = "idle"
  BY DEF RequestScope, IssueRequest
<1>5. \A g \in Requests : RequestScope'[g] = IF g = f THEN "live" ELSE RequestScope[g]
  BY <1>3 DEF RequestScope, Fresh
<1>6. RequestScope' = [RequestScope EXCEPT ![f] = "live"]
  BY <1>5 DEF RequestScope
<1>7. Scope!Begin(f)
  BY <1>2, <1>3, <1>4, <1>6 DEF Scope!Begin
<1> QED
  BY <1>7 DEF Scope!Next

LEMMA SuccessDelivers ==
  ASSUME IInv, NEW f \in Requests, Finish(f, AfterSuccess(f)), http[f].phase = "body",
         Fresh(f), ~http[f].orphan
  PROVE  Scope!Next
<1>1. http \in [Flows -> HttpType] /\ f \in Flows /\ app \in AppType
  BY DEF IInv, TypeOK, Flows
<1>2. http[f].token.owner = app.principal
  BY DEF IInv, LiveWork, AuthFlows
<1>3. AfterSuccess(f) = [app EXCEPT !.cache = @ \cup {http[f].token.owner}]
  <2>1. f \notin {"me", "login", "logout"}
    BY RequestsAssumption
  <2> QED
    BY <2>1 DEF AfterSuccess
<1>4. /\ app'.generation = app.generation /\ app'.principal = app.principal
      /\ app'.cache = app.cache \cup {app.principal}
  BY <1>1, <1>2, <1>3 DEF Finish, AppType
<1>5. \A g \in Requests : http'[g] = IF g = f THEN IdleFlow ELSE http[g]
  BY <1>1 DEF Finish, Flows
<1>6. IdleFlow.phase = "idle" /\ RequestScope[f] = "live"
  BY DEF IdleFlow, RequestScope
<1>7. \A g \in Requests : RequestScope'[g] = IF g = f THEN "idle" ELSE RequestScope[g]
  BY <1>4, <1>5, <1>6 DEF RequestScope, Fresh
<1>8. RequestScope' = [RequestScope EXCEPT ![f] = "idle"]
  BY <1>7 DEF RequestScope
<1>9. Scope!Deliver(f)
  BY <1>4, <1>6, <1>8 DEF Scope!Deliver
<1> QED
  BY <1>9 DEF Scope!Next

LEMMA AnsweredScope ==
  ASSUME IInv, IInv', NEW f \in Flows, Answered(f)
  PROVE  Scope!Next
<1>1. ASSUME NEW failure, Finish(f, AfterFailure(f, failure)), http[f].phase # "idle"
      PROVE  Scope!Next
  BY <1>1, AfterFailureCoherent, FinishScope
<1>2. ASSUME NoResponse(f) PROVE Scope!Next
  BY <1>1, <1>2 DEF NoResponse, OnTheWire
<1>3. ASSUME NEW status \in HttpStatuses, Headers(f, status) PROVE Scope!Next
  <2>1. http[f].phase \in {"sent", "resent"} /\ http[f] \in HttpType
    BY <1>3 DEF Headers, OnTheWire, IInv, TypeOK
  <2>2. CASE ~Fresh(f)
    BY <1>1, <1>3, <2>1, <2>2 DEF Headers
  <2>3. CASE Fresh(f) /\ status = "unauthorized" /\ MayRefresh(f)
    <3> DEFINE h == [http[f] EXCEPT !.phase = "refreshing"]
    <3>1. app' = app /\ http' = [http EXCEPT ![f] = h]
      BY <1>3, <2>3 DEF Headers
    <3>2. /\ h.phase = "refreshing" /\ h.generation = http[f].generation
          /\ h.orphan = http[f].orphan
      BY <2>1 DEF HttpType
    <3> HIDE DEF h
    <3> QED
      BY <2>1, <3>1, <3>2, MoveScope
  <2>4. CASE Fresh(f) /\ ~(status = "unauthorized" /\ MayRefresh(f))
    <3> DEFINE h == [http[f] EXCEPT !.phase = "body", !.outcome = status,
                                    !.token = http[f].token]
    <3>1. app' = app /\ http' = [http EXCEPT ![f] = h]
      BY <1>3, <2>4 DEF Headers, ToBody
    <3>2. /\ h.phase = "body" /\ h.generation = http[f].generation
          /\ h.orphan = http[f].orphan
      BY <2>1 DEF HttpType
    <3> HIDE DEF h
    <3> QED
      BY <2>1, <3>1, <3>2, MoveScope
  <2> QED
    BY <2>2, <2>3, <2>4
<1>4. ASSUME Body(f) PROVE Scope!Next
  <2>1. http[f].phase = "body"
    BY <1>4 DEF Body
  <2>2. CASE ~Fresh(f) \/ http[f].outcome # "ok"
    BY <1>1, <1>4, <2>1, <2>2 DEF Body
  <2>3. CASE Fresh(f) /\ http[f].outcome = "ok"
    <3>1. Finish(f, AfterSuccess(f))
      BY <1>4, <2>3 DEF Body
    <3>2. CASE f \in Requests /\ ~http[f].orphan
      BY <2>1, <2>3, <3>1, <3>2, SuccessDelivers
    <3>3. CASE f \in Requests /\ http[f].orphan
      <4>1. AfterSuccess(f) = app
        <5>1. f \notin {"me", "login", "logout"}
          BY <3>3, RequestsAssumption
        <5> QED
          BY <3>3, <5>1 DEF AfterSuccess
      <4>2. app.generation \in Nat
        BY DEF IInv, TypeOK, AppType
      <4>3. Advances(app, app) /\ Handover(app, app)
        BY <4>2 DEF Advances, Handover
      <4> QED
        BY <2>1, <3>1, <4>1, <4>3, FinishScope
    <3>4. CASE f \in {"me", "login", "logout"}
      <4>1. Advances(app, AfterSuccess(f)) /\ Handover(app, AfterSuccess(f))
        BY <2>1, <2>3, <3>4, AfterSuccessCoherent
      <4> QED
        BY <2>1, <3>1, <4>1, FinishScope
    <3> QED
      BY <3>2, <3>3, <3>4 DEF Flows
  <2> QED
    BY <2>2, <2>3
<1>5. ASSUME BodyBroken(f) PROVE Scope!Next
  BY <1>1, <1>5 DEF BodyBroken
<1> QED
  BY <1>2, <1>3, <1>4, <1>5 DEF Answered, BodyRead

LEMMA BootScope ==
  ASSUME IInv, IInv', Boot
  PROVE  Scope!Next
<1>1. app \in AppType /\ app.generation \in Nat /\ http \in [Flows -> HttpType] /\ TypeOK'
  BY DEF IInv, TypeOK, AppType
<1>2. /\ app'.principal = app.principal /\ app'.generation = app.generation
      /\ app'.cache = app.cache
  BY <1>1 DEF Boot, AppType
<1>3. Advances(app, app') /\ Handover(app, app')
  BY <1>1, <1>2 DEF Advances, Handover
<1>4. \A f \in Requests : http'[f] = http[f]
  <2>1. http' = http \/ http' = [http EXCEPT !["me"] = Sent]
    BY DEF Boot
  <2> QED
    BY <1>1, <2>1, RequestsAssumption DEF Flows
<1> QED
  BY <1>1, <1>3, <1>4, ScopeStep

(* A remount revokes every request although the generation stays. *)
LEMMA RemountScope ==
  ASSUME IInv, Remount
  PROVE  Scope!Next
<1>1. app \in AppType /\ app.principal \in Admins \cup {NULL}
  BY DEF IInv, TypeOK, AppType
<1>2. /\ app'.principal = app.principal /\ app'.generation = app.generation /\ app'.cache = {}
  BY <1>1 DEF Remount, AppType
<1>3. ASSUME NEW f \in Requests
      PROVE  RequestScope'[f] = IF RequestScope[f] = "idle" THEN "idle" ELSE "revoked"
  <2>1. http[f] \in HttpType /\ f \in Flows
    BY DEF IInv, TypeOK, Flows
  <2>2. http'[f] = IF http[f].phase = "idle" THEN http[f] ELSE [http[f] EXCEPT !.orphan = TRUE]
    BY <2>1 DEF Remount
  <2>3. CASE http[f].phase = "idle"
    BY <2>2, <2>3 DEF RequestScope
  <2>4. CASE http[f].phase # "idle"
    <3>1. http'[f].phase # "idle" /\ http'[f].orphan
      BY <2>1, <2>2, <2>4 DEF HttpType
    <3> QED
      BY <2>4, <3>1 DEF RequestScope
  <2> QED
    BY <2>3, <2>4
<1>4. RequestScope' = [f \in Requests |-> IF RequestScope[f] = "idle" \/ f \in {}
                                          THEN "idle" ELSE "revoked"]
  BY <1>3 DEF RequestScope
<1>5. Scope!Replace(app.principal, {})
  BY <1>2, <1>4 DEF Scope!Replace
<1>6. {} \in SUBSET Scope!Underway
  OBVIOUS
<1> QED
  BY <1>1, <1>5, <1>6 DEF Scope!Next

LEMMA SettleScope ==
  ASSUME IInv, IInv', NEW answer \in RefreshFailures \cup {"issued"}, SettleRefresh(answer)
  PROVE  Scope!Next
<1>1. Advances(app, app') /\ Handover(app, app') /\ TypeOK'
  BY SettledApp DEF IInv
<1>2. IdleFlow.phase = "idle"
  BY DEF IdleFlow
<1>3. ASSUME NEW f \in Requests
      PROVE  \/ http'[f] = http[f]
             \/ http[f].phase # "idle" /\ http'[f].phase = "idle"
             \/ /\ http[f].phase # "idle" /\ http'[f].phase # "idle"
                /\ http'[f].generation = http[f].generation
                /\ http'[f].orphan = http[f].orphan
  <2>1. f \in Flows
    BY DEF Flows
  <2>2. http[f].phase = "refreshing" \/ http'[f] = http[f]
    BY <2>1 DEF SettleRefresh
  <2> QED
    BY <1>2, <2>1, <2>2, SettledApp
<1> QED
  BY <1>1, <1>3, ScopeStep

LEMMA LoginLogoutMeScope ==
  ASSUME IInv, IInv',
         LogoutHeaders \/ MeUnsupported \/ \E p \in Everyone : LoginHeaders(p)
  PROVE  Scope!Next
<1>1. /\ {"login", "logout", "me"} \subseteq Flows
      /\ \A f \in {"login", "logout", "me"} : f \notin Requests
      /\ Coherent(app) /\ app.generation \in Nat
  BY RequestsAssumption DEF Flows, IInv, TypeOK, AppType
<1>2. Advances(app, app) /\ Handover(app, app)
  BY <1>1 DEF Advances, Handover
<1>3. CASE LogoutHeaders
  <2>1. http["logout"].phase # "idle"
    BY <1>3 DEF LogoutHeaders
  <2>2. CASE Fresh("logout")
    BY <1>1, <1>3, <2>2, MoveScope DEF LogoutHeaders, ToBody
  <2>3. CASE ~Fresh("logout")
    BY <1>1, <1>3, <2>1, <2>3, AfterFailureCoherent, FinishScope DEF LogoutHeaders
  <2> QED
    BY <2>2, <2>3
<1>4. CASE MeUnsupported
  <2>1. http["me"].phase # "idle"
    BY <1>4 DEF MeUnsupported
  <2>2. CASE Fresh("me")
    BY <1>1, <1>4, <2>1, <2>2, UnauthenticatedCoherent, FinishScope DEF MeUnsupported
  <2>3. CASE ~Fresh("me")
    BY <1>1, <1>4, <2>1, <2>3, BootFailedCoherent, FinishScope DEF MeUnsupported
  <2> QED
    BY <2>2, <2>3
<1>5. ASSUME NEW p \in Everyone, LoginHeaders(p) PROVE Scope!Next
  <2>1. http["login"].phase # "idle"
    BY <1>5 DEF LoginHeaders
  <2>2. CASE Fresh("login")
    BY <1>1, <1>5, <2>2, MoveScope DEF LoginHeaders, ToBody
  <2>3. CASE ~Fresh("login")
    BY <1>1, <1>2, <1>5, <2>1, <2>3, FinishScope DEF LoginHeaders
  <2> QED
    BY <2>2, <2>3
<1> QED
  BY <1>3, <1>4, <1>5

LEMMA StepRefines == IInv /\ IInv' /\ [Next]_vars => [Scope!Next]_Scope!vars
<1> SUFFICES ASSUME IInv, IInv', [Next]_vars, ~UNCHANGED Scope!vars PROVE Scope!Next
  OBVIOUS
<1>1. CASE BootOnMount \/ RetryBoot
  BY <1>1, BootScope DEF BootOnMount, RetryBoot
<1>2. CASE Remount
  BY <1>2, RemountScope
<1>3. CASE RefreshSend \/ OtherTab \/ UNCHANGED vars
  BY <1>3 DEF RefreshSend, OtherTab, vars, Scope!vars, RequestScope, Fresh
<1>4. CASE SettleAnyRefresh
  BY <1>4, SettleScope DEF SettleAnyRefresh
<1>5. ASSUME NEW f \in Requests, IssueRequest(f) PROVE Scope!Next
  BY <1>5, IssueBegins
<1>6. CASE SubmitLogin \/ SendLogin \/ Logout
  <2>1. /\ {"login", "logout"} \subseteq Flows
        /\ "login" \notin Requests /\ "logout" \notin Requests
    BY RequestsAssumption DEF Flows
  <2>2. CASE SubmitLogin
    BY <2>1, <2>2, MoveScope DEF SubmitLogin
  <2>3. CASE SendLogin
    BY <2>1, <2>3, MoveScope DEF SendLogin
  <2>4. CASE Logout
    BY <2>1, <2>4, MoveScope DEF Logout
  <2> QED
    BY <1>6, <2>2, <2>3, <2>4
<1>7. ASSUME NEW f \in Flows, Answered(f) PROVE Scope!Next
  BY <1>7, AnsweredScope
<1>8. CASE LogoutHeaders \/ MeUnsupported \/ \E p \in Everyone : LoginHeaders(p)
  BY <1>8, LoginLogoutMeScope
<1> QED
  BY <1>1, <1>2, <1>3, <1>4, <1>5, <1>6, <1>7, <1>8 DEF Next

(* Comparing generation tags on arrival implements revoking every request  *)
(* the moment the session is replaced.                                     *)
THEOREM Refinement == Spec => ImplementsScope
<1>1. Init => Scope!Init
  BY DEF Init, Scope!Init, RequestScope, IdleFlow, Flows
<1>2. IInv /\ IInv' /\ [Next]_vars => [Scope!Next]_Scope!vars
  BY StepRefines
<1> QED
  BY <1>1, <1>2, Invariance, PTL DEF Spec, Scope!Spec, ImplementsScope

(* What SessionScope promises holds of what the tab shows of it: its cache *)
(* is that of the administrator it is signed in as, by the abstract steps  *)
(* alone (AdminAuthProvider.tsx:90).                                       *)
THEOREM ScopeIsolation == Spec => []Scope!DataBelongsToScope
<1> USE DEF Scope!Inv, Scope!TypeOK, Scope!DataBelongsToScope, Scope!LiveWorkHasScope
<1>1. Scope!Init => Scope!Inv
  BY DEF Scope!Init
<1>2. Scope!Inv /\ [Scope!Next]_Scope!vars => Scope!Inv'
  <2> SUFFICES ASSUME Scope!Inv, [Scope!Next]_Scope!vars PROVE Scope!Inv'
    OBVIOUS
  <2>1. ASSUME NEW f \in Requests, Scope!Begin(f) PROVE Scope!Inv'
    BY <2>1 DEF Scope!Begin
  <2>2. ASSUME NEW f \in Requests, Scope!Deliver(f) PROVE Scope!Inv'
    BY <2>2 DEF Scope!Deliver
  <2>3. ASSUME NEW W \in SUBSET Scope!Underway, Scope!Drop(W) PROVE Scope!Inv'
    BY <2>3 DEF Scope!Drop
  <2>4. ASSUME NEW W \in SUBSET Scope!Underway, NEW s \in Admins \cup {NULL},
               Scope!Replace(s, W)
        PROVE Scope!Inv'
    BY <2>4 DEF Scope!Replace
  <2>5. CASE UNCHANGED Scope!vars
    BY <2>5 DEF Scope!vars
  <2> QED
    BY <2>1, <2>2, <2>3, <2>4, <2>5 DEF Scope!Next
<1>3. Scope!Inv => Scope!DataBelongsToScope
  OBVIOUS
<1> QED
  BY <1>1, <1>2, <1>3, Refinement, PTL DEF Scope!Spec, ImplementsScope
=============================================================================
