----------------------------- MODULE Navigation -----------------------------
(***************************************************************************)
(* Where the administrator ends up: the edge middleware                    *)
(* (src/src/middleware.ts), the guards (src/src/auth/guards), the root,    *)
(* /app and sign-in pages, and the provider's verdict they read.           *)
(*                                                                         *)
(* Two layers decide on different evidence.  The middleware sees that      *)
(* there is a session cookie, not whether the API still accepts it; the    *)
(* pages see the verdict of the provider, not the cookie.  Each redirects  *)
(* to where the other takes over, so the question is whether a navigation  *)
(* comes to rest, and on which screen.                                     *)
(*                                                                         *)
(* A page redirects in a React effect: once when it is mounted and again   *)
(* when the provider's status or administrator changes, never because a    *)
(* navigation has ended where it began.                                    *)
(***************************************************************************)
EXTENDS Integers, TLAPS

CONSTANTS SUPER_ADMIN, BUSINESS_ADMIN, \* the roles of the admin web
          MaxEvents,                   \* bound: what the user and others do
          NULL                         \* no page, no role, no cookie

Roles == {SUPER_ADMIN, BUSINESS_ADMIN}

(* One page stands for all with the same guard; the homes are their own.   *)
HomePathForRole(role) ==
  IF role = SUPER_ADMIN THEN "superDashboard" ELSE "parties"

Allow == [superDashboard |-> {SUPER_ADMIN},  \* SuperAdminShell, /app/businesses
          parties        |-> Roles,          \* /app/parties
          myParty        |-> {BUSINESS_ADMIN}] \* /app/parties/[id], chat, mail, ...

GuardedPages == DOMAIN Allow
EntryPages == {"login", "signup", "invite", "resetPassword"}
Pages == GuardedPages \cup EntryPages \cup {"root", "app"}

(* What the constants have to be.                                          *)
Parameters ==
  /\ SUPER_ADMIN # BUSINESS_ADMIN
  /\ NULL \notin Roles \cup Pages
  /\ MaxEvents \in Nat

Urls == [page : Pages, signedOut : BOOLEAN]
Url(p) == [page |-> p, signedOut |-> FALSE]
SIGNED_OUT_LOGIN_PATH == [page |-> "login", signedOut |-> TRUE]
Nowhere == [page |-> NULL, signedOut |-> FALSE]

(* A cookie the API still accepts is known by its owner's role.            *)
Cookies == Roles \cup {"refused", NULL}

VARIABLES
  shown,   \* the page on the screen
  target,  \* the navigation under way, on its way to the middleware
  due,     \* whether the redirecting effect of the page has to run
  status, role, \* the provider's state
  cookie,  \* spot_admin_rt or spot_admin_sid, shared by the tabs
  hops,    \* history: redirects since the last event
  events   \* bound: events so far

vars == <<shown, target, due, status, role, cookie, hops, events>>

TypeOK ==
  /\ shown \in Pages \cup {NULL}
  /\ target \in Urls \cup {Nowhere}
  /\ due \in BOOLEAN
  /\ status \in {"booting", "authenticated", "unauthenticated", "degraded"}
  /\ role \in Roles \cup {NULL}
  /\ status = "authenticated" <=> role # NULL
  /\ cookie \in Cookies
  /\ hops \in Nat
  /\ events \in 0..MaxEvents

(* A typed address, in a browser with any cookie. *)
Init ==
  /\ shown = NULL
  /\ target \in {Url(p) : p \in Pages} \cup {SIGNED_OUT_LOGIN_PATH}
  /\ due = FALSE
  /\ status = "booting" /\ role = NULL
  /\ cookie \in Cookies
  /\ hops = 0 /\ events = 0

-----------------------------------------------------------------------------
(* The middleware: the address it answers with, the requested one if it    *)
(* lets the request pass.                                                  *)

(* Mutant: the marker is not read. *)
MiddlewareByCookieOnly(url) ==
  IF url.page \in {"login", "signup"} /\ cookie # NULL THEN Url("app")
  ELSE IF url.page \in GuardedPages \cup {"app"} /\ cookie = NULL THEN Url("login")
  ELSE url

Middleware(url) ==
  IF url.page \in {"login", "signup"} /\ cookie # NULL /\ ~url.signedOut THEN Url("app")
  ELSE IF url.page \in GuardedPages \cup {"app"} /\ cookie = NULL THEN Url("login")
  ELSE url

(* Mutant: an effect without its dependencies, which runs on every arrival. *)
AnyArrival(p) == TRUE

(* Arriving on the page that is shown keeps its component mounted. *)
Mounts(p) == shown # p

Edge ==
  LET answer == Middleware(target)
  IN /\ target # Nowhere
     /\ IF answer = target
        THEN /\ shown' = target.page
             /\ target' = Nowhere
             /\ due' = (due \/ Mounts(target.page))
             /\ UNCHANGED hops
        ELSE /\ target' = answer
             /\ hops' = hops + 1
             /\ UNCHANGED <<shown, due>>
     /\ UNCHANGED <<status, role, cookie, events>>

-----------------------------------------------------------------------------
(* The effects: where the page on the screen replaces the address to.      *)

(* Login, signup, invitation, password reset and /app send whoever is      *)
(* signed in home.                                                         *)
HomeEffect ==
  IF status = "authenticated" THEN Url(HomePathForRole(role)) ELSE Nowhere

RootEffect ==
  IF status = "unauthenticated" THEN SIGNED_OUT_LOGIN_PATH ELSE HomeEffect

AuthGuardEffect ==
  IF status = "unauthenticated" THEN SIGNED_OUT_LOGIN_PATH ELSE Nowhere

RoleGuardEffect(p) ==
  IF status = "authenticated" /\ role \notin Allow[p]
  THEN Url(HomePathForRole(role)) ELSE Nowhere

(* /app and the guarded pages are rendered inside AuthGuard, which renders *)
(* what it guards in the authenticated state only.                         *)
Redirect(p) ==
  CASE p \in EntryPages -> HomeEffect
    [] p = "root" -> RootEffect
    [] p = "app" -> IF status = "authenticated" THEN HomeEffect ELSE AuthGuardEffect
    [] p \in GuardedPages ->
         IF status = "authenticated" THEN RoleGuardEffect(p) ELSE AuthGuardEffect

Effect ==
  /\ due /\ shown # NULL
  /\ due' = FALSE
  /\ IF Redirect(shown) = Nowhere
     THEN UNCHANGED <<target, hops>>
     ELSE target' = Redirect(shown) /\ hops' = hops + 1
  /\ UNCHANGED <<shown, status, role, cookie, events>>

(* Mutant: the end of a session leaves the administrator in the state. *)
SetStatusOnly(s, r) ==
  /\ status' = s /\ role' = (IF r = NULL THEN role ELSE r)
  /\ due' = (shown # NULL)

(* The provider's state changes, and with it what the effects depend on.   *)
SetState(s, r) ==
  /\ status' = s /\ role' = r
  /\ due' = (shown # NULL)

(* boot: a cookie the API refuses is cleared by the answer or lingers. *)
BootVerdict ==
  /\ status = "booting"
  /\ \/ cookie \in Roles /\ SetState("authenticated", cookie) /\ UNCHANGED cookie
     \/ cookie \notin Roles /\ SetState("unauthenticated", NULL) /\ cookie' \in {cookie, NULL}
     \/ SetState("degraded", NULL) /\ UNCHANGED cookie
  /\ UNCHANGED <<shown, target, hops, events>>

-----------------------------------------------------------------------------
(* What the user, the server and other tabs do. *)

Event == events < MaxEvents /\ events' = events + 1 /\ hops' = 0

(* A form of an entry page is on the screen, not its spinner. *)
FormShown(p) == shown = p /\ p \in EntryPages /\ status \in {"unauthenticated", "degraded"}

(* A guarded page shows its contents. *)
ContentShown ==
  shown \in GuardedPages /\ status = "authenticated" /\ role \in Allow[shown]

(* An address is typed, or the page reloaded: a new provider boots. *)
Load(p) ==
  /\ Event
  /\ shown' = NULL /\ target' = Url(p) /\ due' = FALSE
  /\ status' = "booting" /\ role' = NULL
  /\ UNCHANGED cookie

(* A link of a screen in use. *)
Follow(p) ==
  /\ Event
  /\ \/ ContentShown /\ p \in GuardedPages
     \/ FormShown("login") /\ p \in {"signup", "resetPassword"}
     \/ FormShown("signup") /\ p = "login"
  /\ target' = Url(p)
  /\ UNCHANGED <<shown, due, status, role, cookie>>

(* A login, an accepted invitation or a signup: the session is adopted and *)
(* the handler replaces the address itself.                                *)
SignIn(r) ==
  /\ Event
  /\ FormShown("login") \/ FormShown("invite") \/ FormShown("signup")
  /\ cookie' = r
  /\ SetState("authenticated", r)
  /\ target' = Url(HomePathForRole(r))
  /\ UNCHANGED shown

(* An invitation that activates the account without a session. *)
Activate ==
  /\ Event
  /\ FormShown("invite")
  /\ target' = Url("login")
  /\ UNCHANGED <<shown, due, status, role, cookie>>

(* A logout; the call that removes the cookie may fail. *)
Logout ==
  /\ Event
  /\ ContentShown
  /\ SetState("unauthenticated", NULL)
  /\ cookie' \in {cookie, NULL}
  /\ UNCHANGED <<shown, target>>

(* A refresh is refused while the tab is in use. *)
SessionRefused ==
  /\ Event
  /\ status = "authenticated"
  /\ SetState("unauthenticated", NULL)
  /\ cookie' \in {"refused", NULL}
  /\ UNCHANGED <<shown, target>>

(* The button of a degraded screen. *)
RetryBoot ==
  /\ Event
  /\ status = "degraded" /\ shown \in GuardedPages \cup {"root", "app"}
  /\ SetState("booting", NULL)
  /\ UNCHANGED <<shown, target, cookie>>

(* Another tab signs in or out, or the API revokes the session. *)
CookieChanges(c) ==
  /\ Event
  /\ c # cookie
  /\ cookie' = c
  /\ UNCHANGED <<shown, target, due, status, role>>

System == Edge \/ Effect \/ BootVerdict

Next ==
  \/ System
  \/ \E p \in Pages : Load(p) \/ Follow(p)
  \/ \E r \in Roles : SignIn(r)
  \/ Activate \/ Logout \/ SessionRefused \/ RetryBoot
  \/ \E c \in Cookies : CookieChanges(c)

Spec == Init /\ [][Next]_vars

-----------------------------------------------------------------------------
(* The two layers never bounce an administrator: between two events there  *)
(* are at most MaxHops redirects, whatever the cookie and the verdict say. *)
MaxHops == 5

FewRedirects == hops <= MaxHops

(* A screen one can use: a form, the contents of a page for its role, or   *)
(* an error with a button to retry.                                        *)
UsableScreen ==
  /\ target = Nowhere /\ shown # NULL
  /\ \/ \E p \in EntryPages : FormShown(p)
     \/ ContentShown
     \/ status = "degraded"

(* The cookie is gone and the tab does not know yet: it still has its      *)
(* access token, and no screen has asked the API since.                    *)
CookieGoneUnnoticed == status = "authenticated" /\ cookie = NULL

-----------------------------------------------------------------------------
(* Lemmas, for every number of events: the types, and that no              *)
(* administrator is bounced more than MaxHops times in a row.              *)
(*                                                                         *)
(* The argument is a count of the redirects that the state can still set   *)
(* off.  The middleware answers an address with one it lets pass, so it    *)
(* redirects a navigation at most once.  What the effect of a page sets    *)
(* off depends on whether the two layers agree: where they do, one         *)
(* redirect leads to a page that both accept; where the provider has an    *)
(* administrator and the cookie is gone, the page sends home, the          *)
(* middleware to the login, whose effect sends home once more.  Every      *)
(* redirect is taken off this count, and only an event adds to it.         *)

(* Redirects that the middleware owes to the navigation under way.         *)
EdgeHops ==
  IF target # Nowhere /\ Middleware(target) # target THEN 1 ELSE 0

(* The redirects a run of the effect of p sets off, until the tab rests.   *)
EffectHops(p) ==
  IF Redirect(p) = Nowhere THEN 0
  ELSE IF ~CookieGoneUnnoticed THEN 1
  ELSE IF p = "login" THEN 2 ELSE 4

(* The page the navigation under way arrives on, and whether its effect    *)
(* will run there.                                                         *)
Landing == Middleware(target).page
LandingHops ==
  IF target # Nowhere /\ (due \/ Landing # shown) THEN EffectHops(Landing) ELSE 0

(* A due effect may run before the navigation arrives and replaces it.     *)
ShownHops == IF due /\ shown # NULL THEN EffectHops(shown) ELSE 0

(* While the provider boots no effect redirects.                           *)
HopsInv ==
  /\ hops + EdgeHops + LandingHops <= MaxHops
  /\ hops + EdgeHops + ShownHops <= MaxHops
  /\ status = "booting" => hops + EdgeHops <= 1

IInv == TypeOK /\ HopsInv

-----------------------------------------------------------------------------
(* The types.                                                              *)

LEMMA HomeIsUrl == ASSUME NEW r PROVE Url(HomePathForRole(r)) \in Urls
  BY DEF Url, HomePathForRole, Urls, Pages, GuardedPages, Allow

LEMMA MiddlewareType == ASSUME NEW u \in Urls PROVE Middleware(u) \in Urls
  BY DEF Middleware, Url, Urls, Pages, EntryPages

LEMMA RedirectType ==
  ASSUME NEW p \in Pages PROVE Redirect(p) \in Urls \cup {Nowhere}
<1>1. HomeEffect \in Urls \cup {Nowhere}
  BY HomeIsUrl DEF HomeEffect
<1>2. SIGNED_OUT_LOGIN_PATH \in Urls
  BY DEF SIGNED_OUT_LOGIN_PATH, Urls, Pages, EntryPages
<1>3. p \in EntryPages \/ p = "root" \/ p = "app" \/ p \in GuardedPages
  BY DEF Pages
<1> QED
  BY <1>1, <1>2, <1>3, HomeIsUrl
  DEF Redirect, RootEffect, AuthGuardEffect, RoleGuardEffect

LEMMA NextKeepsTypeOK == Parameters /\ TypeOK /\ [Next]_vars => TypeOK'
<1> SUFFICES ASSUME Parameters, TypeOK, [Next]_vars PROVE TypeOK'
  OBVIOUS
<1>0. MaxEvents \in Nat /\ NULL \notin Roles
  BY DEF Parameters
<1> USE DEF TypeOK
<1>1. CASE Edge
  <2>1. target \in Urls
    BY <1>1 DEF Edge
  <2>2. Middleware(target) \in Urls
    BY <2>1, MiddlewareType
  <2>3. target.page \in Pages
    BY <2>1 DEF Urls
  <2>4. /\ target' \in Urls \cup {Nowhere} /\ hops' \in Nat
        /\ shown' \in Pages \cup {NULL} /\ due' \in BOOLEAN
    <3>1. CASE Middleware(target) = target
      BY <1>1, <2>3, <3>1 DEF Edge
    <3>2. CASE Middleware(target) # target
      BY <1>1, <2>2, <3>2 DEF Edge
    <3> QED BY <3>1, <3>2
  <2> QED BY <1>1, <2>4 DEF Edge
<1>2. CASE Effect
  <2>1. Redirect(shown) \in Urls \cup {Nowhere}
    BY <1>2, RedirectType DEF Effect
  <2>2. target' \in Urls \cup {Nowhere} /\ hops' \in Nat
    BY <1>2, <2>1 DEF Effect
  <2> QED BY <1>2, <2>2 DEF Effect
<1>3. CASE BootVerdict
  BY <1>3, <1>0 DEF BootVerdict, SetState, Cookies
<1>4. ASSUME NEW p \in Pages, Load(p) PROVE TypeOK'
  <2>1. Url(p) \in Urls
    BY DEF Url, Urls
  <2>2. status' = "booting" /\ role' = NULL
    BY <1>4 DEF Load
  <2>3. status' = "authenticated" <=> role' # NULL
    BY <2>2
  <2>4. due' \in BOOLEAN
    BY <1>4 DEF Load
  <2> QED BY <1>4, <2>1, <2>2, <2>3, <2>4, <1>0 DEF Load, Event
<1>5. ASSUME NEW p \in Pages, Follow(p) PROVE TypeOK'
  BY <1>5, <1>0 DEF Follow, Event, Url, Urls
<1>6. ASSUME NEW r \in Roles, SignIn(r) PROVE TypeOK'
  BY <1>6, <1>0, HomeIsUrl
  DEF SignIn, Event, SetState, Cookies
<1>7. CASE Activate
  BY <1>7, <1>0 DEF Activate, Event, Url, Urls, Pages, EntryPages
<1>8. CASE Logout
  BY <1>8, <1>0 DEF Logout, Event, SetState, Cookies
<1>9. CASE SessionRefused
  BY <1>9, <1>0 DEF SessionRefused, Event, SetState, Cookies
<1>10. CASE RetryBoot
  BY <1>10, <1>0 DEF RetryBoot, Event, SetState
<1>11. ASSUME NEW c \in Cookies, CookieChanges(c) PROVE TypeOK'
  BY <1>11, <1>0 DEF CookieChanges, Event
<1>12. CASE UNCHANGED vars
  BY <1>12 DEF vars
<1> QED
  BY <1>1, <1>2, <1>3, <1>4, <1>5, <1>6, <1>7, <1>8, <1>9, <1>10, <1>11, <1>12
  DEF Next, System

LEMMA InitTypeOK == Parameters /\ Init => TypeOK
<1> SUFFICES ASSUME Parameters, Init PROVE TypeOK
  OBVIOUS
<1>1. target \in Urls
  <2>1. SIGNED_OUT_LOGIN_PATH \in Urls
    BY DEF Urls, SIGNED_OUT_LOGIN_PATH, Pages, EntryPages
  <2>2. \A p \in Pages : Url(p) \in Urls
    BY DEF Urls, Url
  <2> QED BY <2>1, <2>2 DEF Init
<1>2. status = "authenticated" <=> role # NULL
  BY DEF Init
<1>3. due \in BOOLEAN
  BY DEF Init
<1> QED BY <1>1, <1>2, <1>3 DEF Init, TypeOK, Parameters

-----------------------------------------------------------------------------
(* The count.                                                              *)

(* What the middleware answers with it lets pass.                          *)
LEMMA MiddlewareSettles ==
  ASSUME NEW u PROVE Middleware(Middleware(u)) = Middleware(u)
  BY DEF Middleware, Url, GuardedPages, Allow

CountTypes ==
  /\ EdgeHops \in 0..1 /\ LandingHops \in 0..4 /\ ShownHops \in 0..4
  /\ ~CookieGoneUnnoticed => LandingHops \in 0..1 /\ ShownHops \in 0..1

LEMMA CountsAreSmall == CountTypes
  BY DEF CountTypes, EdgeHops, EffectHops, LandingHops, ShownHops

(* The counts of the next state, named.                                    *)
LEMMA NextCounts ==
  \E e \in 0..1, l \in 0..4, s \in 0..4 :
    /\ EdgeHops' = e /\ LandingHops' = l /\ ShownHops' = s
    /\ ~CookieGoneUnnoticed' => l <= 1 /\ s <= 1
<1>1. CountTypes'
  BY CountsAreSmall, PTL
<1> QED BY <1>1 DEF CountTypes

(* No page is of two kinds.                                                *)
LEMMA RedirectByKind ==
  /\ \A p \in EntryPages : Redirect(p) = HomeEffect
  /\ Redirect("root") = RootEffect
  /\ Redirect("app") =
       IF status = "authenticated" THEN HomeEffect ELSE AuthGuardEffect
  /\ \A p \in GuardedPages : Redirect(p) =
       IF status = "authenticated" THEN RoleGuardEffect(p) ELSE AuthGuardEffect
  BY DEF Redirect, EntryPages, GuardedPages, Allow

(* While the provider boots, every page waits for its verdict.             *)
LEMMA BootingWaits ==
  ASSUME TypeOK, status = "booting" PROVE \A p \in Pages : Redirect(p) = Nowhere
<1> SUFFICES ASSUME NEW p \in Pages PROVE Redirect(p) = Nowhere
  OBVIOUS
<1>1. HomeEffect = Nowhere /\ RootEffect = Nowhere /\ AuthGuardEffect = Nowhere
  BY DEF HomeEffect, RootEffect, AuthGuardEffect
<1>2. p \in EntryPages \/ p = "root" \/ p = "app" \/ p \in GuardedPages
  BY DEF Pages
<1>3. ASSUME p \in GuardedPages PROVE Redirect(p) = AuthGuardEffect
  BY <1>3, RedirectByKind
<1> QED BY <1>1, <1>2, <1>3, RedirectByKind

(* The two layers agree: a redirect leads to a page that both accept.      *)
LEMMA OneRedirectSettles ==
  ASSUME TypeOK, ~CookieGoneUnnoticed, NEW p \in Pages, Redirect(p) # Nowhere
  PROVE  /\ Middleware(Redirect(p)) = Redirect(p)
         /\ EffectHops(Redirect(p).page) = 0
<1>1. \/ Redirect(p) = SIGNED_OUT_LOGIN_PATH /\ status = "unauthenticated"
      \/ Redirect(p) = Url(HomePathForRole(role)) /\ status = "authenticated"
  <2>1. p \in EntryPages \/ p = "root" \/ p = "app" \/ p \in GuardedPages
    BY DEF Pages
  <2> QED BY <2>1, RedirectByKind
    DEF HomeEffect, RootEffect, AuthGuardEffect, RoleGuardEffect
<1>2. CASE Redirect(p) = SIGNED_OUT_LOGIN_PATH /\ status = "unauthenticated"
  <2>1. Middleware(SIGNED_OUT_LOGIN_PATH) = SIGNED_OUT_LOGIN_PATH
    BY DEF Middleware, SIGNED_OUT_LOGIN_PATH, GuardedPages, Allow
  <2>2. Redirect("login") = Nowhere
    BY <1>2, RedirectByKind DEF HomeEffect, EntryPages
  <2> QED BY <1>2, <2>1, <2>2 DEF EffectHops, SIGNED_OUT_LOGIN_PATH
<1>3. CASE Redirect(p) = Url(HomePathForRole(role)) /\ status = "authenticated"
  <2>1. role \in Roles /\ cookie # NULL
    BY <1>3 DEF TypeOK, CookieGoneUnnoticed
  <2>2. HomePathForRole(role) \in {"superDashboard", "parties"}
    BY DEF HomePathForRole
  <2>3. role \in Allow[HomePathForRole(role)]
    BY <2>1 DEF HomePathForRole, Allow, Roles
  <2>4. Redirect(HomePathForRole(role)) = Nowhere
    BY <1>3, <2>2, <2>3, RedirectByKind
    DEF RoleGuardEffect, GuardedPages, EntryPages, Allow
  <2>5. Middleware(Url(HomePathForRole(role))) = Url(HomePathForRole(role))
    BY <2>1, <2>2 DEF Middleware, Url
  <2> QED BY <1>3, <2>4, <2>5 DEF EffectHops, Url
<1> QED BY <1>1, <1>2, <1>3

(* They disagree: a redirect leads home and from there to the login.       *)
LEMMA RedirectOfStranded ==
  ASSUME TypeOK, CookieGoneUnnoticed, NEW p \in Pages, Redirect(p) # Nowhere
  PROVE  Middleware(Redirect(p)) = Url("login")
<1>1. Redirect(p) = Url(HomePathForRole(role))
  <2>1. p \in EntryPages \/ p = "root" \/ p = "app" \/ p \in GuardedPages
    BY DEF Pages
  <2> QED BY <2>1, RedirectByKind
    DEF HomeEffect, RootEffect, RoleGuardEffect, CookieGoneUnnoticed
<1>2. HomePathForRole(role) \in {"superDashboard", "parties"}
  BY DEF HomePathForRole
<1> QED BY <1>1, <1>2 DEF Middleware, Url, CookieGoneUnnoticed, GuardedPages, Allow

LEMMA NextKeepsHopsInv == Parameters /\ IInv /\ [Next]_vars => HopsInv'
<1> SUFFICES ASSUME Parameters, TypeOK, HopsInv, [Next]_vars PROVE HopsInv'
  BY DEF IInv
<1>0. TypeOK'
  BY NextKeepsTypeOK
<1>c. PICK e \in 0..1, l \in 0..4, s \in 0..4 :
        /\ EdgeHops' = e /\ LandingHops' = l /\ ShownHops' = s
        /\ ~CookieGoneUnnoticed' => l <= 1 /\ s <= 1
  BY NextCounts
<1>e. ASSUME hops' = 0 PROVE HopsInv'
  (* After an event the count starts anew. *)
  BY <1>c, <1>e DEF HopsInv, MaxHops
<1>1. CASE Edge
  <2>1. target \in Urls /\ Landing \in Pages
    BY <1>1, MiddlewareType DEF Edge, TypeOK, Landing, Urls
  <2>2. CASE Middleware(target) = target
    (* Arrival: the page is shown, its effect due if it was just mounted. *)
    <3>1. /\ target' = Nowhere /\ hops' = hops /\ shown' = Landing
          /\ due' = (due \/ Landing # shown)
          /\ UNCHANGED <<status, role, cookie>>
      BY <1>1, <2>2 DEF Edge, Landing, Mounts
    <3>2. EdgeHops = 0 /\ EdgeHops' = 0 /\ LandingHops' = 0
      BY <2>2, <3>1 DEF EdgeHops, LandingHops
    <3>3. \A p : EffectHops(p)' = EffectHops(p)
      BY <3>1 DEF EffectHops, Redirect, HomeEffect, RootEffect, AuthGuardEffect,
         RoleGuardEffect, CookieGoneUnnoticed
    <3>4. ShownHops' = LandingHops
      BY <1>1, <2>1, <3>1, <3>3 DEF ShownHops, LandingHops, Edge, Parameters
    <3> QED
      BY <3>1, <3>2, <3>4, <1>c, CountsAreSmall
       DEF CountTypes, HopsInv, MaxHops, TypeOK
  <2>3. CASE Middleware(target) # target
    (* The middleware redirects, once. *)
    <3>1. /\ target' = Middleware(target) /\ hops' = hops + 1
          /\ UNCHANGED <<shown, due, status, role, cookie>>
      BY <1>1, <2>3 DEF Edge
    <3>2. Middleware(target)' = target' /\ Landing' = Landing
      BY <3>1, MiddlewareSettles DEF Landing, Middleware
    <3>3. EdgeHops = 1 /\ EdgeHops' = 0
      BY <1>1, <2>3, <3>2 DEF EdgeHops, Edge
    <3>4. \A p : EffectHops(p)' = EffectHops(p)
      BY <3>1 DEF EffectHops, Redirect, HomeEffect, RootEffect, AuthGuardEffect,
         RoleGuardEffect, CookieGoneUnnoticed
    <3>5. ShownHops' = ShownHops /\ LandingHops' <= LandingHops
      BY <1>1, <3>1, <3>2, <3>4, <1>c, CountsAreSmall DEF CountTypes, ShownHops, LandingHops, Edge
    <3> QED BY <3>1, <3>3, <3>5, <1>c, CountsAreSmall
       DEF CountTypes, HopsInv, MaxHops, TypeOK
  <2> QED BY <2>2, <2>3
<1>2. CASE Effect
  <2>1. shown \in Pages /\ due /\ shown # NULL /\ due' = FALSE
        /\ UNCHANGED <<shown, status, role, cookie>>
    BY <1>2 DEF Effect, TypeOK
  <2>2. ShownHops = EffectHops(shown) /\ ShownHops' = 0
    BY <2>1 DEF ShownHops
  <2>3. \A p : EffectHops(p)' = EffectHops(p)
    BY <2>1 DEF EffectHops, Redirect, HomeEffect, RootEffect, AuthGuardEffect,
       RoleGuardEffect, CookieGoneUnnoticed
  <2>4. CASE Redirect(shown) = Nowhere
    <3>1. UNCHANGED <<target, hops>>
      BY <1>2, <2>4 DEF Effect
    <3>2. EdgeHops' = EdgeHops /\ LandingHops' <= LandingHops
      BY <1>c, <2>1, <2>3, <3>1, CountsAreSmall
      DEF CountTypes, EdgeHops, LandingHops, Landing, Middleware
    <3> QED BY <2>1, <2>2, <3>1, <3>2, <1>c, CountsAreSmall
       DEF CountTypes, HopsInv, MaxHops, TypeOK
  <2>5. CASE Redirect(shown) # Nowhere
    <3>1. target' = Redirect(shown) /\ hops' = hops + 1
      BY <1>2, <2>5 DEF Effect
    <3>2. status # "booting"
      BY <2>1, <2>5, BootingWaits
    <3>3. CASE ~CookieGoneUnnoticed
      <4>1. EdgeHops' = 0 /\ LandingHops' = 0
        BY <2>1, <2>3, <2>5, <3>1, <3>3, OneRedirectSettles
        DEF EdgeHops, LandingHops, Landing, Middleware
      <4>2. ShownHops = 1
        BY <2>2, <2>5, <3>3 DEF EffectHops
      <4> QED BY <2>1, <2>2, <3>1, <3>2, <4>1, <4>2, <1>c, CountsAreSmall
       DEF CountTypes, HopsInv, MaxHops, TypeOK
    <3>4. CASE CookieGoneUnnoticed
      <4>1. Landing' = "login" /\ EdgeHops' <= 1
        BY <2>1, <2>5, <3>1, <3>4, RedirectOfStranded
        DEF EdgeHops, Landing, Middleware, Url
      <4>2. EffectHops("login") <= 2
        BY <3>4 DEF EffectHops
      <4>3. CASE shown = "login"
        <5>1. LandingHops' = 0 /\ ShownHops = 2
          BY <2>1, <2>2, <2>5, <3>4, <4>1, <4>3 DEF LandingHops, EffectHops
        <5> QED BY <2>1, <2>2, <3>1, <3>2, <4>1, <5>1, <1>c, CountsAreSmall
       DEF CountTypes, HopsInv, MaxHops, TypeOK
      <4>4. CASE shown # "login"
        <5>1. LandingHops' <= 2 /\ ShownHops = 4
          BY <2>1, <2>2, <2>3, <2>5, <3>4, <4>1, <4>2, <4>4, CountsAreSmall DEF LandingHops, EffectHops
        <5> QED BY <2>1, <2>2, <3>1, <3>2, <4>1, <5>1, <1>c, CountsAreSmall
       DEF CountTypes, HopsInv, MaxHops, TypeOK
      <4> QED BY <4>3, <4>4
    <3> QED BY <3>3, <3>4
  <2> QED BY <2>4, <2>5
<1>3. CASE BootVerdict
  <2>1. hops' = hops /\ hops <= 1 /\ hops \in Nat
    BY <1>3, CountsAreSmall DEF CountTypes, BootVerdict, HopsInv, TypeOK
  <2>2. ~CookieGoneUnnoticed'
    BY <1>3 DEF BootVerdict, SetState, CookieGoneUnnoticed, Parameters
  <2>3. l <= 1 /\ s <= 1
    BY <1>c, <2>2
  <2>4. status' # "booting"
    BY <1>3 DEF BootVerdict, SetState
  <2> QED BY <1>c, <2>1, <2>3, <2>4 DEF HopsInv, MaxHops
<1>4. ASSUME NEW p \in Pages, Load(p) \/ Follow(p) PROVE HopsInv'
  BY <1>4, <1>e DEF Load, Follow, Event
<1>5. ASSUME NEW r \in Roles, SignIn(r) PROVE HopsInv'
  BY <1>5, <1>e DEF SignIn, Event
<1>6. CASE Activate \/ Logout \/ SessionRefused \/ RetryBoot
  BY <1>6, <1>e DEF Activate, Logout, SessionRefused, RetryBoot, Event
<1>7. ASSUME NEW c \in Cookies, CookieChanges(c) PROVE HopsInv'
  BY <1>7, <1>e DEF CookieChanges, Event
<1>8. CASE UNCHANGED vars
  BY <1>8 DEF vars, HopsInv, EdgeHops, LandingHops, ShownHops, Landing, Middleware,
     EffectHops, Redirect, HomeEffect, RootEffect, AuthGuardEffect, RoleGuardEffect,
     CookieGoneUnnoticed
<1> QED BY <1>1, <1>2, <1>3, <1>4, <1>5, <1>6, <1>7, <1>8 DEF Next, System

LEMMA InitIInv == Parameters /\ Init => IInv
<1> SUFFICES ASSUME Parameters, Init PROVE HopsInv
  BY InitTypeOK DEF IInv
<1> QED BY CountsAreSmall DEF Init, CountTypes, HopsInv, MaxHops

LEMMA NextKeepsIInv == Parameters /\ IInv /\ [Next]_vars => IInv'
  BY NextKeepsTypeOK, NextKeepsHopsInv DEF IInv

(* The count bounds the redirects.                                         *)
LEMMA HopsAreBounded == IInv => FewRedirects
  BY CountsAreSmall DEF CountTypes, IInv, TypeOK, HopsInv, FewRedirects, MaxHops
=============================================================================
