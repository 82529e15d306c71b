---------------------------- MODULE BehaviorPanel ----------------------------
(***************************************************************************)
(* The panel of a user's behaviour (src/src/features/analytics/            *)
(* UserBehaviorPanel.tsx, use-user-behavior-query.ts) on the screens of    *)
(* several users that are opened one after the other.  They share the      *)
(* grant of Google, its generation and the cache; a grant may end while no *)
(* screen is open.  A flow is named by whose it is, UserBehavior says what *)
(* is in it.                                                               *)
(***************************************************************************)
EXTENDS Integers, FiniteSets

CONSTANTS Users,
          Properties,   \* the configured GA4 properties
          First,        \* the one pickUserBehaviorProperty takes
          MaxGrants, MaxSteps, \* bounds: grants, screens opened and controls touched
          NULL

VARIABLES
  token,      \* its generation and its status
  usable,     \* does getAnalyticsAccessToken still hand it out
  screen,     \* the user, property and range of the open panel, or NULL
  cache,      \* the flows in the query cache
  failed,     \* the keys whose last request failed, and how
  fetching,   \* what the running request of the panel asks for, and whether
              \* there was a token to ask with; or NULL
  steps

vars == <<token, usable, screen, cache, failed, fetching, steps>>

Ranges == {"7d", "28d"}
Choice == [user : Users, property : Properties, range : Ranges]
Flow == [generation : 0..MaxGrants, choice : Choice]

TypeOK ==
  /\ token \in [generation : 0..MaxGrants, status : {"disconnected", "connected", "expired"}]
  /\ usable \in BOOLEAN /\ screen \in Choice \cup {NULL}
  /\ cache \subseteq Flow /\ steps \in 0..MaxSteps
  /\ failed \subseteq [key : Flow, kind : {"expired", "other"}]
  /\ fetching \in [flow : Flow, asked : BOOLEAN] \cup {NULL}
  /\ (fetching # NULL => (screen # NULL /\ token.status = "connected"))
-----------------------------------------------------------------------------
(* Mutant: the flows of a property and a range are everybody's. *)
keyAnyUser(generation, c) ==
  [generation |-> generation, choice |-> [c EXCEPT !.user = CHOOSE u \in Users : TRUE]]

(* analyticsQueryKeys.userBehavior                                         *)
userBehavior(generation, c) == [generation |-> generation, choice |-> c]

Key == userBehavior(token.generation, screen)
connected == token.status = "connected"

errors == {f \in failed : f.key = Key}
isError == screen # NULL /\ connected /\ errors # {}
refused == isError /\ \E f \in errors : f.kind = "expired"
isPending == screen # NULL /\ connected /\ errors = {} /\ \A f \in cache : userBehavior(f.generation, f.choice) # Key

(* The flow on screen: the one the cache holds under the key.              *)
Shown ==
  IF screen = NULL \/ ~connected \/ isError THEN {}
  ELSE {f \in cache : userBehavior(f.generation, f.choice) = Key}

Forget == cache' = {} /\ failed' = {} /\ fetching' = NULL

(* The operator acts on what is on screen; effects have run by then.       *)
Steps == ~refused /\ steps < MaxSteps /\ steps' = steps + 1

(* The request of a flow; queryFn finds a token or does not.               *)
Request(generation, c, token_) ==
  [flow |-> [generation |-> generation, choice |-> c], asked |-> token_]

-----------------------------------------------------------------------------
(* Mutant: a choice that was answered before for anybody is not asked. *)
ObserveOnce(c) ==
  LET k == userBehavior(token.generation, c)
      have == \E f \in cache : userBehavior(f.generation, f.choice) = k
  IN /\ screen' = c
     /\ fetching' = IF cache # {} THEN NULL ELSE Request(token.generation, c, usable)
     /\ failed' = {f \in failed : f.key # k \/ have}

(* The panel looks at the flow of a choice: it asks for one it does not    *)
(* have, or has for too long; an error without a flow is asked again.      *)
Observe(c) ==
  LET k == userBehavior(token.generation, c)
      have == \E f \in cache : userBehavior(f.generation, f.choice) = k
  IN /\ screen' = c
     /\ fetching' \in {Request(token.generation, c, usable)} \cup IF have THEN {NULL} ELSE {}
     /\ failed' = {f \in failed : f.key # k \/ have}

(* Mutant: a screen that opens on a dead grant keeps the cache. *)
OpenKeeps(u) ==
  /\ screen = NULL /\ Steps /\ UNCHANGED <<token, usable>>
  /\ LET c == [user |-> u, property |-> First, range |-> "7d"] IN
     IF connected THEN Observe(c) /\ UNCHANGED cache
     ELSE screen' = c /\ UNCHANGED <<cache, failed, fetching>>

(* The screen of a user opens; without a grant the cache is emptied.       *)
Open(u) ==
  /\ screen = NULL /\ Steps /\ UNCHANGED <<token, usable>>
  /\ LET c == [user |-> u, property |-> First, range |-> "7d"] IN
     IF connected THEN Observe(c) /\ UNCHANGED cache ELSE screen' = c /\ Forget

(* Mutant: the request of a closed screen goes on. *)
CloseLeaves ==
  /\ screen # NULL /\ Steps
  /\ screen' = NULL /\ UNCHANGED <<token, usable, cache, failed, fetching>>

(* It closes; its request is aborted, the grant stays.                     *)
Close ==
  /\ screen # NULL /\ Steps
  /\ screen' = NULL /\ fetching' = NULL /\ UNCHANGED <<token, usable, cache, failed>>

setPropertyId(p) ==
  /\ screen # NULL /\ connected /\ p # screen.property /\ Steps
  /\ Observe([screen EXCEPT !.property = p]) /\ UNCHANGED <<token, usable, cache>>

setRange(range) ==
  /\ screen # NULL /\ connected /\ range # screen.range /\ Steps
  /\ Observe([screen EXCEPT !.range = range]) /\ UNCHANGED <<token, usable, cache>>

(* The button of refreshing, and the one of an error.                      *)
refetch ==
  /\ screen # NULL /\ connected /\ fetching = NULL /\ ~isPending /\ Steps
  /\ fetching' = Request(token.generation, screen, usable)
  /\ failed' = {f \in failed : f.key # Key \/ \E x \in cache : userBehavior(x.generation, x.choice) = Key}
  /\ UNCHANGED <<token, usable, screen, cache>>

-----------------------------------------------------------------------------
(* Google answers.                                                         *)
fetchUserBehaviorFlow ==
  /\ fetching # NULL /\ fetching.asked
  /\ cache' = {f \in cache : userBehavior(f.generation, f.choice) # Key} \cup {fetching.flow}
  /\ failed' = {f \in failed : f.key # Key} /\ fetching' = NULL
  /\ UNCHANGED <<token, usable, screen, steps>>

FlowFails ==
  /\ fetching # NULL /\ fetching' = NULL
  /\ failed' = {f \in failed : f.key # Key} \cup {[key |-> Key, kind |-> "other"]}
  /\ UNCHANGED <<token, usable, screen, cache, steps>>

(* Google or the store says that the grant is over.                        *)
FlowExpired ==
  /\ fetching # NULL /\ fetching' = NULL
  /\ failed' = {f \in failed : f.key # Key} \cup {[key |-> Key, kind |-> "expired"]}
  /\ UNCHANGED <<token, usable, screen, cache, steps>>

(* Mutant: only the first refusal ends its grant. *)
clearOnce ==
  /\ refused /\ token.generation = 1 /\ token' = [token EXCEPT !.status = "expired"] /\ usable' = FALSE
  /\ Forget /\ UNCHANGED <<screen, steps>>

(* The effect that sees it ends the grant, and the panel offers to connect *)
(* again.                                                                  *)
clearAnalyticsAccessToken ==
  /\ refused /\ token' = [token EXCEPT !.status = "expired"] /\ usable' = FALSE
  /\ Forget /\ UNCHANGED <<screen, steps>>

(* The time of the grant is up.                                            *)
TimeIsUp == usable /\ usable' = FALSE /\ UNCHANGED <<token, screen, cache, failed, fetching, steps>>

(* Mutant: the timer leaves the cache to the next screen. *)
ExpireKeeps ==
  /\ connected /\ ~usable /\ token' = [token EXCEPT !.status = "expired"]
  /\ fetching' = NULL /\ UNCHANGED <<usable, screen, cache, failed, steps>>

(* The store's timer ends a grant; without a screen the cache stays.       *)
Expire ==
  /\ connected /\ ~usable /\ token' = [token EXCEPT !.status = "expired"]
  /\ IF screen # NULL THEN Forget ELSE UNCHANGED <<cache, failed, fetching>>
  /\ UNCHANGED <<usable, screen, steps>>

disconnect ==
  /\ connected /\ screen # NULL
  /\ token' = [token EXCEPT !.status = "disconnected"] /\ usable' = FALSE
  /\ Forget /\ UNCHANGED <<screen, steps>>

connect ==
  /\ screen # NULL /\ ~connected /\ token.generation < MaxGrants
  /\ token' = [generation |-> token.generation + 1, status |-> "connected"] /\ usable' = TRUE
  /\ LET k == userBehavior(token.generation + 1, screen)
         have == \E f \in cache : userBehavior(f.generation, f.choice) = k
     IN /\ fetching' = IF have THEN NULL ELSE Request(token.generation + 1, screen, TRUE)
        /\ failed' = {f \in failed : f.key # k}
  /\ UNCHANGED <<screen, cache, steps>>

Init ==
  /\ token = [generation |-> 0, status |-> "disconnected"] /\ usable = FALSE
  /\ screen = NULL /\ cache = {} /\ failed = {} /\ fetching = NULL /\ steps = 0

Answer == fetchUserBehaviorFlow \/ FlowFails \/ FlowExpired

Next ==
  \/ \E u \in Users : Open(u)
  \/ Close \/ refetch \/ Answer \/ clearAnalyticsAccessToken
  \/ TimeIsUp \/ Expire \/ disconnect \/ connect
  \/ \E p \in Properties : setPropertyId(p)
  \/ \E range \in Ranges : setRange(range)

Spec == Init /\ [][Next]_vars

-----------------------------------------------------------------------------
(* The flow on screen is the one of the user whose screen it is, of the    *)
(* property and range that are chosen, and was read under the grant that   *)
(* is connected (analytics-query-keys.ts:44).                              *)
OwnFlow ==
  \A f \in Shown : f.choice = screen /\ f.generation = token.generation

(* What Google answered is not kept beside a screen that has no grant: an  *)
(* open panel without one has an empty cache behind it                     *)
(* (use-analytics-connection.ts:55).                                       *)
NothingKept == (screen # NULL /\ ~connected) => cache = {} /\ failed = {}

=============================================================================
