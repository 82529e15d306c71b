------------------------------ MODULE ApiOrigin ------------------------------
(***************************************************************************)
(* Which API host the tab talks to (src/src/auth/api/admin-api-origin.ts). *)
(* A login or a refresh first selects a reachable host: the remembered one *)
(* is tried first, a health answer of the last 30 s is trusted, otherwise  *)
(* the host is probed for at most 4 s, and the next one follows.  Any      *)
(* other request goes to the remembered host without a probe.              *)
(*                                                                         *)
(* Several selections run at once in a tab (a boot's refresh beside a      *)
(* login).  They share the health cache, which lives in the module, and    *)
(* the remembered host, which lives in localStorage and is shared with     *)
(* other tabs and with earlier deployments.  A selection reads the clock   *)
(* once, when it begins, and uses that reading after every later await.    *)
(*                                                                         *)
(* Time is counted in ticks.  Instants are kept as ages, so that they stay *)
(* bounded: an entry written at `at` by a call that began at `now` is      *)
(* fresh when now - at = health[o] - call.age is below the time to live.   *)
(***************************************************************************)
EXTENDS Naturals, TLAPS

CONSTANTS Primary,      \* NEXT_PUBLIC_API_URL
          Fallback,     \* NEXT_PUBLIC_API_FALLBACK_URL, or NULL
          SameSite,     \* hosts of the site the app is served from
          Strangers,    \* hosts that earlier deployments have remembered
          Callers,      \* selections that may run at the same time
          TTL,          \* HEALTH_CACHE_TTL_MS in ticks
          ProbeTimeout, \* HEALTH_TIMEOUT_MS in ticks
          NULL

ASSUME PrimaryAssumption == Primary # NULL
ASSUME StrangersAssumption == Strangers \cap {Primary, Fallback, NULL} = {}
ASSUME TTLAssumption == TTL \in Nat \ {0}
ASSUME ProbeTimeoutAssumption == ProbeTimeout \in Nat \ {0}

ConfiguredOrigins == {Primary, Fallback} \ {NULL}

(* No call lasts longer than two probes, so an entry of this age is fresh  *)
(* for no call: ages stop here, and a missing entry has this age.          *)
Old == TTL + 2 * ProbeTimeout
Ages == 0..Old
Older(age) == IF age < Old THEN age + 1 ELSE Old

VARIABLES
  store,    \* localStorage: whether it can be used, and the origin in it
  health,   \* healthCache: age of the `at` of each origin's entry
  call,     \* one selectReachableAdminApiBaseUrl() per caller
  up,       \* origins that answer a probe with an ok status
  darkFor,  \* history: ticks since an origin was up
  steady    \* history: origins that were up ever since the call began

vars == <<store, health, call, up, darkFor, steady>>

-----------------------------------------------------------------------------
CookieCapableOrigins ==
  LET capable == ConfiguredOrigins \cap SameSite
  IN IF capable = {} THEN ConfiguredOrigins ELSE capable

(* Mutant: whatever is remembered is used. *)
StoredAnyOrigin(s) == s.value

StoredOrigin(s) == IF s.value \in CookieCapableOrigins THEN s.value ELSE NULL

ForgetOriginIfNotIn(s) ==
  IF s.value \in CookieCapableOrigins THEN s ELSE [s EXCEPT !.value = NULL]

RememberOrigin(s, o) == IF s.works THEN [s EXCEPT !.value = o] ELSE s

(* The order of the candidates: the active one, the primary, the fallback. *)
FirstOf(candidates, active) ==
  IF active # NULL THEN active
  ELSE IF Primary \in candidates THEN Primary ELSE Fallback

GetAdminApiBaseUrl == FirstOf(CookieCapableOrigins, StoredOrigin(store))

Idle == [phase |-> "idle", origin |-> NULL, rest |-> {}, age |-> 0, waited |-> 0]

TypeOK ==
  /\ store \in [works : BOOLEAN, value : ConfiguredOrigins \cup Strangers \cup {NULL}]
  /\ health \in [ConfiguredOrigins -> Ages]
  /\ call \in [Callers -> [phase : {"idle", "probing", "chosen", "failed"},
                           origin : ConfiguredOrigins \cup {NULL},
                           rest : SUBSET ConfiguredOrigins,
                           age : Ages,
                           waited : 0..ProbeTimeout]]
  /\ up \in SUBSET ConfiguredOrigins
  /\ darkFor \in [ConfiguredOrigins -> Ages]
  /\ steady \in [Callers -> SUBSET ConfiguredOrigins]

(* A fresh module in a browser that may remember anything. *)
Init ==
  /\ store \in [works : BOOLEAN, value : ConfiguredOrigins \cup Strangers \cup {NULL}]
  /\ store.works \/ store.value = NULL
  /\ health = [o \in ConfiguredOrigins |-> Old]
  /\ call = [c \in Callers |-> Idle]
  /\ up \in SUBSET ConfiguredOrigins
  /\ darkFor = [o \in ConfiguredOrigins |-> IF o \in up THEN 0 ELSE Old]
  /\ steady = [c \in Callers |-> {}]

-----------------------------------------------------------------------------
(* The loop over the candidates, up to its next await or its end.          *)

Fresh(o, now, entries) == entries[o] < TTL + now

(* Mutant: the loop never moves past an origin. *)
ExamineAgain(k, o, entries) ==
  [k EXCEPT !.phase = IF Fresh(o, k.age, entries) THEN "chosen" ELSE "probing",
            !.origin = o, !.waited = 0]

Examine(k, o, entries) ==
  [k EXCEPT !.phase = IF Fresh(o, k.age, entries) THEN "chosen" ELSE "probing",
            !.origin = o, !.rest = @ \ {o}, !.waited = 0]

(* Mutant: one failed probe ends the selection. *)
VisitOnce(k, active, entries) ==
  IF k.phase = "probing"
  THEN [k EXCEPT !.phase = "failed", !.origin = NULL]
  ELSE Examine(k, FirstOf(k.rest, active), entries)

Visit(k, active, entries) ==
  IF k.rest = {}
  THEN [k EXCEPT !.phase = "failed", !.origin = NULL, !.waited = 0]
  ELSE Examine(k, FirstOf(k.rest, active), entries)

(* The call goes on as k; a chosen origin is remembered in the same turn. *)
Proceed(c, k, s) ==
  /\ call' = [call EXCEPT ![c] = k]
  /\ store' = IF k.phase = "chosen" THEN RememberOrigin(s, k.origin) ELSE s

Start(c) ==
  LET active == StoredOrigin(store)
  IN /\ call[c].phase = "idle"
     /\ Proceed(c, Visit([Idle EXCEPT !.rest = CookieCapableOrigins], active, health),
                IF active = NULL THEN ForgetOriginIfNotIn(store) ELSE store)
     /\ steady' = [steady EXCEPT ![c] = up]
     /\ UNCHANGED <<health, up, darkFor>>

(* Mutant: the entry is dated with the time the answer came. *)
AgeOfAnswer(k) == 0

(* An entry is dated with the clock reading of the call. *)
EntryAge(k) == k.age

(* An ok answer.  The origin may have gone dark since it sent it. *)
ProbeOk(c) ==
  LET o == call[c].origin
  IN /\ call[c].phase = "probing"
     /\ darkFor[o] <= call[c].waited
     /\ health' = [health EXCEPT ![o] = EntryAge(call[c])]
     /\ Proceed(c, [call[c] EXCEPT !.phase = "chosen", !.rest = {}, !.waited = 0], store)
     /\ UNCHANGED <<up, darkFor, steady>>

(* An answer that is not ok leaves the entry of another call alone. *)
ProbeNotOk(c) ==
  /\ call[c].phase = "probing"
  /\ call[c].origin \notin steady[c]
  /\ Proceed(c, Visit(call[c], NULL, health), store)
  /\ UNCHANGED <<health, up, darkFor, steady>>

(* No answer: the connection fails, or AbortSignal.timeout(4_000) fires. *)
ProbeFails(c) ==
  LET entries == [health EXCEPT ![call[c].origin] = Old]
  IN /\ call[c].phase = "probing"
     /\ call[c].origin \notin steady[c]
     /\ health' = entries
     /\ Proceed(c, Visit(call[c], NULL, entries), store)
     /\ UNCHANGED <<up, darkFor, steady>>

(* The caller has sent the credentials, or shown that it could not. *)
Finish(c) ==
  /\ call[c].phase \in {"chosen", "failed"}
  /\ call' = [call EXCEPT ![c] = Idle]
  /\ steady' = [steady EXCEPT ![c] = {}]
  /\ UNCHANGED <<store, health, up, darkFor>>

-----------------------------------------------------------------------------
(* The surroundings. *)

GoDark(o) ==
  /\ o \in up
  /\ up' = up \ {o}
  /\ steady' = [c \in Callers |-> steady[c] \ {o}]
  /\ UNCHANGED <<store, health, call, darkFor>>

ComeUp(o) ==
  /\ o \notin up
  /\ up' = up \cup {o}
  /\ darkFor' = [darkFor EXCEPT ![o] = 0]
  /\ UNCHANGED <<store, health, call, steady>>

(* Another tab selects an origin, or an older build in it remembers one. *)
OtherTabRemembers(o) ==
  /\ store.works
  /\ store' = [store EXCEPT !.value = o]
  /\ UNCHANGED <<health, call, up, darkFor, steady>>

(* Mutant: the probe has no time limit. *)
Unlimited(k) == k.phase \in {"idle", "probing"}

(* A probe does not outlast its timer, and what follows the last await of  *)
(* a selection takes no time.                                              *)
WithinTimeout(k) ==
  \/ k.phase = "idle"
  \/ k.phase = "probing" /\ k.waited < ProbeTimeout

Tick ==
  /\ \A c \in Callers : WithinTimeout(call[c])
  /\ health' = [o \in ConfiguredOrigins |-> Older(health[o])]
  /\ darkFor' = [o \in ConfiguredOrigins |-> IF o \in up THEN 0 ELSE Older(darkFor[o])]
  /\ call' = [c \in Callers |->
                IF call[c].phase = "probing"
                THEN [call[c] EXCEPT !.age = Older(@), !.waited = @ + 1]
                ELSE call[c]]
  /\ UNCHANGED <<store, up, steady>>

Next ==
  \/ \E c \in Callers : Start(c) \/ ProbeOk(c) \/ ProbeNotOk(c) \/ ProbeFails(c) \/ Finish(c)
  \/ \E o \in ConfiguredOrigins : GoDark(o) \/ ComeUp(o)
  \/ \E o \in ConfiguredOrigins \cup Strangers : OtherTabRemembers(o)
  \/ Tick

Spec == Init /\ [][Next]_vars

(* A probe is answered or given up after 4 s (AbortSignal.timeout). *)
Fairness == \A c \in Callers : WF_vars(ProbeOk(c) \/ ProbeNotOk(c) \/ ProbeFails(c))

FairSpec == Spec /\ Fairness

-----------------------------------------------------------------------------
(* When one of the configured hosts can carry the session cookie, logins,  *)
(* refreshes and every other request go to such a host, whatever this tab, *)
(* another tab or an earlier deployment has remembered: a login elsewhere  *)
(* would look done and be gone at the next reload.                         *)
CredentialsStayOnSite ==
  ConfiguredOrigins \cap SameSite # {} =>
    /\ GetAdminApiBaseUrl \in SameSite
    /\ \A c \in Callers : call[c].phase = "chosen" => call[c].origin \in SameSite

(* Credentials are sent only to a host that was up within the last 30 s,   *)
(* plus the one probe a selection may have awaited since it read the       *)
(* clock, however the selections that share the cache interleave.          *)
ChoosesRecentlyHealthy ==
  [][\A c \in Callers :
       call[c].phase # "chosen" /\ call'[c].phase = "chosen"
         => darkFor[call'[c].origin] < TTL + ProbeTimeout]_vars

(* A dead host does not lock the administrators out: a selection gives up  *)
(* only if no allowed host was up during the whole of it.                  *)
FailsOnlyWithoutOrigin ==
  [][\A c \in Callers :
       call[c].phase # "failed" /\ call'[c].phase = "failed"
         => steady[c] \cap CookieCapableOrigins = {}]_vars

(* A selection ends, one way or the other: boot and the login button never *)
(* hang on the probes.                                                     *)
SelectionEnds ==
  \A c \in Callers : call[c].phase = "probing" ~> call[c].phase # "probing"

-----------------------------------------------------------------------------
(* What follows is the proof of the invariants and of the action           *)
(* properties above, for every pair of hosts, every set of callers and     *)
(* every pair of durations.                                                *)

(* What is known of a selection at its await: which origins are left, and  *)
(* that only a second probe runs on a clock reading older than itself.     *)
CallOK(k) ==
  /\ k.phase \in {"probing", "chosen"} => k.origin \in CookieCapableOrigins
  /\ k.phase = "probing" =>
       /\ k.rest \subseteq CookieCapableOrigins \ {k.origin}
       /\ k.waited <= k.age
       /\ k.age <= k.waited + ProbeTimeout
       /\ k.rest # {} => k.age = k.waited

(* The origins that could still serve the call have not been passed over. *)
NothingMissed(c) ==
  call[c].phase = "probing" =>
    steady[c] \cap CookieCapableOrigins \subseteq call[c].rest \cup {call[c].origin}

(* The inductive invariant: beside the above, an entry of the health cache *)
(* is never younger than the last moment its origin was up.                *)
IInv ==
  /\ TypeOK
  /\ \A o \in ConfiguredOrigins : darkFor[o] <= health[o]
  /\ \A c \in Callers : CallOK(call[c]) /\ NothingMissed(c)

Calls == [phase : {"idle", "probing", "chosen", "failed"},
          origin : ConfiguredOrigins \cup {NULL},
          rest : SUBSET ConfiguredOrigins,
          age : Ages,
          waited : 0..ProbeTimeout]

-----------------------------------------------------------------------------
(* There is always a candidate, and all candidates are configured. *)
LEMMA CandidatesExist ==
  /\ CookieCapableOrigins # {}
  /\ CookieCapableOrigins \subseteq ConfiguredOrigins
BY PrimaryAssumption DEF CookieCapableOrigins, ConfiguredOrigins

(* The order of the candidates picks one of them. *)
LEMMA FirstIsCandidate ==
  ASSUME NEW S, S \subseteq ConfiguredOrigins, S # {},
         NEW active, active \in S \cup {NULL}
  PROVE  FirstOf(S, active) \in S
BY DEF FirstOf, ConfiguredOrigins

(* The remembered origin is used only if it is a candidate. *)
LEMMA StoredIsCandidate ==
  ASSUME NEW s PROVE StoredOrigin(s) \in CookieCapableOrigins \cup {NULL}
BY DEF StoredOrigin

(* Ages are naturals, and so are the bounds they are compared with. *)
LEMMA AgeArithmetic ==
  /\ Old \in Nat /\ Ages \subseteq Nat
  /\ TTL \in Nat /\ ProbeTimeout \in Nat /\ TTL > 0 /\ ProbeTimeout > 0
  /\ 0 \in Ages /\ Old \in Ages /\ 0 \in 0..ProbeTimeout
  /\ \A age \in Ages : Older(age) \in Ages /\ age <= Old /\ age \in Nat /\ 0 <= age
BY TTLAssumption, ProbeTimeoutAssumption DEF Old, Ages, Older

(* The clock of a call, and of its probe. *)
LEMMA CallClock ==
  ASSUME NEW k \in Calls
  PROVE  /\ k.age \in Ages /\ k.age \in Nat
         /\ k.waited \in 0..ProbeTimeout /\ k.waited \in Nat /\ k.waited <= ProbeTimeout
<1>1. k.age \in Ages /\ k.waited \in 0..ProbeTimeout
  BY DEF Calls
<1> HIDE DEF Calls
<1>2. \A w \in 0..ProbeTimeout : w \in Nat /\ w <= ProbeTimeout
  BY AgeArithmetic
<1> QED BY <1>1, <1>2, AgeArithmetic

(* One turn of the loop: it ends in failure exactly when no candidate is   *)
(* left; otherwise it takes one, trusting it only on a fresh entry.        *)
LEMMA VisitOneCandidate ==
  ASSUME NEW k \in Calls, NEW active, NEW entries,
         active \in k.rest \cup {NULL}
  PROVE  LET r == Visit(k, active, entries)
         IN /\ r \in Calls
            /\ r.phase \in {"probing", "chosen", "failed"}
            /\ r.phase = "failed" <=> k.rest = {}
            /\ r.phase # "failed" =>
                 /\ r.origin \in k.rest
                 /\ r.rest = k.rest \ {r.origin}
                 /\ r.age = k.age
                 /\ r.waited = 0
            /\ r.phase = "chosen" => entries[r.origin] < TTL + r.age
<1> DEFINE r == Visit(k, active, entries)
<1>0. k.rest \subseteq ConfiguredOrigins
  BY DEF Calls
<1>1. CASE k.rest = {}
  <2>1. r = [k EXCEPT !.phase = "failed", !.origin = NULL, !.waited = 0]
    BY <1>1 DEF Visit
  <2>2. r \in Calls /\ r.phase = "failed"
    BY <2>1, AgeArithmetic DEF Calls
  <2> QED BY <1>1, <2>2
<1>2. CASE k.rest # {}
  <2> DEFINE o == FirstOf(k.rest, active)
  <2>1. o \in k.rest
    BY <1>0, <1>2, FirstIsCandidate
  <2>2. r = [k EXCEPT !.phase = IF Fresh(o, k.age, entries) THEN "chosen" ELSE "probing",
                      !.origin = o, !.rest = k.rest \ {o}, !.waited = 0]
    BY <1>2 DEF Visit, Examine
  <2>3. /\ r.phase = IF Fresh(o, k.age, entries) THEN "chosen" ELSE "probing"
        /\ r.origin = o /\ r.rest = k.rest \ {o} /\ r.age = k.age /\ r.waited = 0
    BY <2>2 DEF Calls
  <2>4. r \in Calls
    <3> HIDE DEF o
    <3> QED BY <2>1, <2>2, <1>0, AgeArithmetic DEF Calls
  <2>5. r.phase = "chosen" => entries[r.origin] < TTL + r.age
    BY <2>3 DEF Fresh
  <2> QED BY <1>2, <2>1, <2>3, <2>4, <2>5
<1> QED BY <1>1, <1>2

(* Going on writes to localStorage at most a candidate. *)
LEMMA ProceedKeepsType ==
  ASSUME TypeOK, NEW c \in Callers, NEW k \in Calls, NEW s,
         s \in [works : BOOLEAN, value : ConfiguredOrigins \cup Strangers \cup {NULL}],
         Proceed(c, k, s)
  PROVE  /\ store' \in [works : BOOLEAN, value : ConfiguredOrigins \cup Strangers \cup {NULL}]
         /\ call' \in [Callers -> Calls]
         /\ call'[c] = k
         /\ \A d \in Callers \ {c} : call'[d] = call[d]
<1>1. call \in [Callers -> Calls]
  BY DEF TypeOK, Calls
<1>2. call' = [call EXCEPT ![c] = k]
  BY DEF Proceed
<1>3. store' \in [works : BOOLEAN, value : ConfiguredOrigins \cup Strangers \cup {NULL}]
  <2>1. k.origin \in ConfiguredOrigins \cup {NULL}
    BY DEF Calls
  <2> QED BY <2>1 DEF Proceed, RememberOrigin
<1> QED BY <1>1, <1>2, <1>3

-----------------------------------------------------------------------------
LEMMA Initially == Init => IInv
<1> SUFFICES ASSUME Init PROVE IInv
  OBVIOUS
<1>1. Idle \in Calls
  BY AgeArithmetic DEF Idle, Calls
<1>2. call \in [Callers -> Calls] /\ \A c \in Callers : call[c].phase = "idle"
  BY <1>1 DEF Init, Idle
<1>3. TypeOK
  BY <1>2, AgeArithmetic DEF Init, TypeOK, Calls
<1>4. \A o \in ConfiguredOrigins : darkFor[o] <= health[o]
  BY AgeArithmetic DEF Init
<1>5. \A c \in Callers : CallOK(call[c]) /\ NothingMissed(c)
  BY <1>2 DEF CallOK, NothingMissed
<1> QED BY <1>3, <1>4, <1>5 DEF IInv

(* What every start and every failed probe comes down to: the caller takes *)
(* one turn of the loop, with entries that are no younger than before.     *)
LEMMA StartStep ==
  ASSUME IInv, NEW c \in Callers, Start(c)
  PROVE  /\ IInv'
         /\ call'[c].phase # "failed"
         /\ call'[c].phase = "chosen" => health[call'[c].origin] < TTL
<1> DEFINE active == StoredOrigin(store)
           k == [Idle EXCEPT !.rest = CookieCapableOrigins]
           s == IF active = NULL THEN ForgetOriginIfNotIn(store) ELSE store
           r == Visit(k, active, health)
<1>1. k \in Calls /\ k.rest = CookieCapableOrigins /\ k.age = 0
  BY AgeArithmetic, CandidatesExist DEF Idle, Calls
<1>2. active \in k.rest \cup {NULL}
  BY <1>1, StoredIsCandidate
<1>3. s \in [works : BOOLEAN, value : ConfiguredOrigins \cup Strangers \cup {NULL}]
  BY DEF IInv, TypeOK, ForgetOriginIfNotIn
<1>4. Proceed(c, r, s) /\ steady' = [steady EXCEPT ![c] = up]
      /\ UNCHANGED <<health, up, darkFor>>
  BY DEF Start
<1>5. /\ r \in Calls
      /\ r.phase \in {"probing", "chosen", "failed"}
      /\ r.phase = "failed" <=> k.rest = {}
      /\ r.phase # "failed" =>
           r.origin \in k.rest /\ r.rest = k.rest \ {r.origin} /\ r.age = k.age /\ r.waited = 0
      /\ r.phase = "chosen" => health[r.origin] < TTL + r.age
  <2> HIDE DEF k, active
  <2> QED BY <1>1, <1>2, VisitOneCandidate
<1> HIDE DEF r, s, k, active
<1>6. /\ store' \in [works : BOOLEAN, value : ConfiguredOrigins \cup Strangers \cup {NULL}]
      /\ call' \in [Callers -> Calls] /\ call'[c] = r
      /\ \A d \in Callers \ {c} : call'[d] = call[d]
  BY <1>3, <1>4, <1>5, ProceedKeepsType DEF IInv
<1>7. r.phase # "failed" /\ r.age = 0 /\ r.origin \in CookieCapableOrigins
  BY <1>1, <1>5, CandidatesExist
<1>8. TypeOK'
  BY <1>4, <1>6 DEF IInv, TypeOK, Calls
<1>9. CallOK(r)
  BY <1>1, <1>5, <1>7, AgeArithmetic DEF CallOK
<1>10. NothingMissed(c)'
  BY <1>1, <1>4, <1>5, <1>6, <1>7 DEF NothingMissed
<1>11. \A d \in Callers \ {c} : CallOK(call[d])' /\ NothingMissed(d)'
  BY <1>4, <1>6 DEF IInv, TypeOK, CallOK, NothingMissed
<1>12. \A o \in ConfiguredOrigins : darkFor'[o] <= health'[o]
  BY <1>4 DEF IInv
<1>13. IInv'
  BY <1>6, <1>8, <1>9, <1>10, <1>11, <1>12 DEF IInv, CallOK
<1>14. call'[c].phase = "chosen" => health[call'[c].origin] < TTL
  BY <1>5, <1>6, <1>7, AgeArithmetic
<1> QED BY <1>6, <1>7, <1>13, <1>14

(* A probe that found nothing, on the entries it leaves.                   *)
LEMMA NextCandidate ==
  ASSUME IInv, NEW c \in Callers, NEW entries \in [ConfiguredOrigins -> Ages],
         \A o \in ConfiguredOrigins : darkFor[o] <= entries[o],
         call[c].phase = "probing",
         call[c].origin \notin steady[c],
         Proceed(c, Visit(call[c], NULL, entries), store),
         health' = entries,
         UNCHANGED <<up, darkFor, steady>>
  PROVE  /\ IInv'
         /\ call'[c].phase = "failed" => steady[c] \cap CookieCapableOrigins = {}
         /\ call'[c].phase = "chosen" => darkFor[call'[c].origin] < TTL + ProbeTimeout
<1> DEFINE k == call[c]
           r == Visit(k, NULL, entries)
<1>1. k \in Calls /\ CallOK(k) /\ NothingMissed(c) /\ k.phase = "probing"
  BY DEF IInv, TypeOK, Calls
<1>2. /\ r \in Calls
      /\ r.phase \in {"probing", "chosen", "failed"}
      /\ r.phase = "failed" <=> k.rest = {}
      /\ r.phase # "failed" =>
           r.origin \in k.rest /\ r.rest = k.rest \ {r.origin} /\ r.age = k.age /\ r.waited = 0
      /\ r.phase = "chosen" => entries[r.origin] < TTL + r.age
  <2> HIDE DEF k
  <2> QED BY <1>1, VisitOneCandidate
<1>3. /\ store' \in [works : BOOLEAN, value : ConfiguredOrigins \cup Strangers \cup {NULL}]
      /\ call' \in [Callers -> Calls] /\ call'[c] = r
      /\ \A d \in Callers \ {c} : call'[d] = call[d]
  <2>1. Proceed(c, r, store)
    OBVIOUS
  <2> HIDE DEF r, k
  <2> QED BY <1>2, <2>1, ProceedKeepsType DEF IInv, TypeOK
<1> HIDE DEF r
<1>4. /\ k.rest \subseteq CookieCapableOrigins \ {k.origin}
      /\ k.origin \in CookieCapableOrigins
      /\ k.waited <= k.age /\ k.age <= k.waited + ProbeTimeout
      /\ k.rest # {} => k.age = k.waited
      /\ k.age \in Nat /\ k.waited \in Nat /\ k.waited <= ProbeTimeout
  <2> HIDE DEF k
  <2> QED BY <1>1, CallClock DEF CallOK
<1>5. TypeOK'
  BY <1>3 DEF IInv, TypeOK, Calls
(* There are two hosts: after the second candidate none is left. *)
<1>6. r.phase # "failed" =>
         r.rest = {} /\ r.age <= ProbeTimeout /\ r.origin \in CookieCapableOrigins
  <2>1. r.phase # "failed" => k.age <= ProbeTimeout /\ r.origin \in CookieCapableOrigins
    BY <1>2, <1>4
  <2>2. r.phase # "failed" => k.rest \ {r.origin} = {}
    BY <1>2, <1>4, CandidatesExist DEF ConfiguredOrigins
  <2> QED BY <1>2, <2>1, <2>2
<1>7. CallOK(r)
  BY <1>2, <1>4, <1>6, AgeArithmetic DEF CallOK
<1>8. NothingMissed(c)'
  BY <1>1, <1>2, <1>3 DEF NothingMissed
<1>9. \A d \in Callers \ {c} : CallOK(call[d])' /\ NothingMissed(d)'
  BY <1>3 DEF IInv, CallOK, NothingMissed
<1>10. IInv'
  BY <1>3, <1>5, <1>7, <1>8, <1>9 DEF IInv, CallOK
<1>11. call'[c].phase = "failed" => steady[c] \cap CookieCapableOrigins = {}
  BY <1>1, <1>2, <1>3 DEF NothingMissed
<1>12. call'[c].phase = "chosen" => darkFor[call'[c].origin] < TTL + ProbeTimeout
  <2> SUFFICES ASSUME r.phase = "chosen"
               PROVE  darkFor[r.origin] < TTL + ProbeTimeout
    BY <1>3
  <2>1. r.origin \in ConfiguredOrigins /\ entries[r.origin] < TTL + r.age
    BY <1>2, <1>6, CandidatesExist
  <2>2. darkFor[r.origin] \in Nat /\ entries[r.origin] \in Nat /\ r.age \in Nat
    BY <1>2, <2>1, AgeArithmetic DEF IInv, TypeOK, Calls
  <2> QED BY <1>6, <2>1, <2>2, AgeArithmetic
<1> QED BY <1>10, <1>11, <1>12

LEMMA ProbeOkStep ==
  ASSUME IInv, NEW c \in Callers, ProbeOk(c)
  PROVE  /\ IInv'
         /\ call'[c].phase = "chosen"
         /\ darkFor[call'[c].origin] < TTL + ProbeTimeout
<1> DEFINE k == call[c]
           o == k.origin
           r == [k EXCEPT !.phase = "chosen", !.rest = {}, !.waited = 0]
<1>1. k \in Calls /\ CallOK(k) /\ k.phase = "probing" /\ darkFor[o] <= k.waited
  BY DEF IInv, TypeOK, Calls, ProbeOk
<1>2. /\ r \in Calls /\ r.phase = "chosen" /\ r.origin = o /\ o \in CookieCapableOrigins
      /\ o \in ConfiguredOrigins
  <2> HIDE DEF k
  <2>1. r \in Calls /\ r.phase = "chosen" /\ r.origin = o
    BY <1>1, AgeArithmetic DEF Calls
  <2> QED BY <1>1, <2>1, CandidatesExist DEF CallOK
<1>3. Proceed(c, r, store) /\ health' = [health EXCEPT ![o] = k.age]
      /\ UNCHANGED <<up, darkFor, steady>>
  BY DEF ProbeOk, EntryAge
<1>4. k.age \in Ages /\ k.age \in Nat /\ k.waited \in Nat /\ k.waited <= k.age
      /\ k.waited <= ProbeTimeout
  <2> HIDE DEF k
  <2> QED BY <1>1, CallClock DEF CallOK
<1> HIDE DEF r
<1>5. /\ store' \in [works : BOOLEAN, value : ConfiguredOrigins \cup Strangers \cup {NULL}]
      /\ call' \in [Callers -> Calls] /\ call'[c] = r
      /\ \A d \in Callers \ {c} : call'[d] = call[d]
  BY <1>2, <1>3, ProceedKeepsType DEF IInv, TypeOK
<1>6. TypeOK'
  <2>1. health' \in [ConfiguredOrigins -> Ages]
    BY <1>2, <1>3, <1>4 DEF IInv, TypeOK
  <2> QED BY <1>3, <1>5, <2>1 DEF IInv, TypeOK, Calls
<1>7. \A d \in ConfiguredOrigins : darkFor'[d] <= health'[d]
  <2>1. darkFor[o] \in Nat
    BY <1>2, AgeArithmetic DEF IInv, TypeOK
  <2>2. darkFor[o] <= k.age
    BY <1>1, <1>4, <2>1
  <2> QED BY <1>2, <1>3, <2>2 DEF IInv, TypeOK
<1>8. \A d \in Callers : CallOK(call[d])' /\ NothingMissed(d)'
  BY <1>2, <1>3, <1>5 DEF IInv, CallOK, NothingMissed
<1>9. IInv'
  BY <1>6, <1>7, <1>8 DEF IInv
<1>10. darkFor[o] < TTL + ProbeTimeout
  <2>1. darkFor[o] \in Nat
    BY <1>2, AgeArithmetic DEF IInv, TypeOK
  <2>2. darkFor[o] <= k.waited
    BY <1>1
  <2> HIDE DEF k, o
  <2> QED BY <1>4, <2>1, <2>2, AgeArithmetic
<1> QED BY <1>2, <1>5, <1>9, <1>10

LEMMA FinishStep == ASSUME IInv, NEW c \in Callers, Finish(c) PROVE IInv'
<1>1. Idle \in Calls
  BY AgeArithmetic DEF Idle, Calls
<1>2. call \in [Callers -> Calls]
  BY DEF IInv, TypeOK, Calls
<1>3. call' \in [Callers -> Calls] /\ call'[c] = Idle /\ \A d \in Callers \ {c} : call'[d] = call[d]
  BY <1>1, <1>2 DEF Finish
<1>4. TypeOK'
  BY <1>3 DEF Finish, IInv, TypeOK, Calls
<1>5. CallOK(call[c])' /\ NothingMissed(c)'
  BY <1>3 DEF Idle, CallOK, NothingMissed
<1>6. \A d \in Callers \ {c} : CallOK(call[d])' /\ NothingMissed(d)'
  BY <1>2, <1>3 DEF Finish, IInv, TypeOK, CallOK, NothingMissed
<1>7. \A o \in ConfiguredOrigins : darkFor'[o] <= health'[o]
  BY DEF Finish, IInv
<1> QED BY <1>4, <1>5, <1>6, <1>7 DEF IInv

(* Time passes for the entries, for the origins and for the probes alike.  *)
LEMMA TickStep ==
  ASSUME IInv, Tick
  PROVE  IInv' /\ \A c \in Callers : call'[c].phase = call[c].phase
<1>1. call \in [Callers -> Calls]
  BY DEF IInv, TypeOK, Calls
<1>2. health' \in [ConfiguredOrigins -> Ages] /\ darkFor' \in [ConfiguredOrigins -> Ages]
  BY AgeArithmetic DEF Tick, IInv, TypeOK
<1>3. ASSUME NEW c \in Callers
      PROVE  call'[c] \in Calls /\ CallOK(call'[c]) /\ NothingMissed(c)'
             /\ call'[c].phase = call[c].phase
  <2>1. CASE call[c].phase # "probing"
    <3>1. call'[c] = call[c] /\ call[c].phase = "idle"
      BY <1>1, <2>1 DEF Tick, WithinTimeout
    <3>2. CallOK(call[c]) /\ NothingMissed(c)
      BY DEF IInv
    <3>3. NothingMissed(c)'
      BY <3>1 DEF NothingMissed
    <3> QED BY <1>1, <3>1, <3>2, <3>3
  <2>2. CASE call[c].phase = "probing"
    <3> DEFINE k == call[c]
               age == Older(k.age)
               waited == k.waited + 1
               r == [k EXCEPT !.age = age, !.waited = waited]
    <3>1. k \in Calls /\ CallOK(k) /\ k.phase = "probing"
      BY <1>1, <2>2 DEF IInv
    <3>2. /\ k.age \in Ages /\ k.age \in Nat /\ k.waited \in Nat
          /\ k.waited < ProbeTimeout /\ k.waited <= k.age /\ k.age <= k.waited + ProbeTimeout
          /\ k.rest # {} => k.age = k.waited
      <4>1. k.waited < ProbeTimeout
        BY <2>2 DEF Tick, WithinTimeout
      <4> HIDE DEF k
      <4> QED BY <3>1, <4>1, CallClock DEF CallOK
    <3>3. age = k.age + 1 /\ age \in Ages
      <4>1. k.age < Old
        <5> HIDE DEF k
        <5> QED BY <3>2, AgeArithmetic DEF Old
      <4> HIDE DEF k
      <4> QED BY <3>2, <4>1, AgeArithmetic DEF Older
    <3>4. waited \in 0..ProbeTimeout /\ waited <= age /\ age <= waited + ProbeTimeout
          /\ (k.rest # {} => age = waited)
      <4> HIDE DEF k, age
      <4> QED BY <3>2, <3>3, AgeArithmetic
    <3>5. call'[c] = r
      BY <2>2 DEF Tick
    <3> HIDE DEF age, waited
    <3>6. r \in Calls /\ r.phase = k.phase /\ r.origin = k.origin /\ r.rest = k.rest
          /\ r.age = age /\ r.waited = waited
      <4>1. k \in Calls /\ age \in Ages /\ waited \in 0..ProbeTimeout
        BY <3>1, <3>3, <3>4
      <4> HIDE DEF k
      <4> QED BY <4>1, Zenon DEF Calls
    <3> HIDE DEF r
    <3>7. CallOK(r)
      <4> HIDE DEF k
      <4> QED BY <3>1, <3>4, <3>6 DEF CallOK
    <3>8. NothingMissed(c)'
      BY <3>5, <3>6 DEF Tick, IInv, NothingMissed
    <3> QED BY <3>5, <3>6, <3>7, <3>8
  <2> QED BY <2>1, <2>2
<1>4. call' \in [Callers -> Calls]
  BY <1>3 DEF Tick
<1>5. TypeOK'
  BY <1>2, <1>4 DEF Tick, IInv, TypeOK, Calls
<1>6. ASSUME NEW o \in ConfiguredOrigins PROVE darkFor'[o] <= health'[o]
  <2>1. health[o] \in Ages /\ darkFor[o] \in Ages /\ darkFor[o] <= health[o]
    BY DEF IInv, TypeOK
  <2>2. health'[o] = Older(health[o])
        /\ darkFor'[o] = IF o \in up THEN 0 ELSE Older(darkFor[o])
    BY DEF Tick
  <2>3. \A a, b \in Ages : a <= b => Older(a) <= Older(b) /\ 0 <= Older(b)
    BY AgeArithmetic DEF Older, Ages
  <2> QED BY <2>1, <2>2, <2>3
<1>7. \A c \in Callers : CallOK(call[c])' /\ NothingMissed(c)'
  BY <1>3 DEF CallOK
<1> QED BY <1>3, <1>5, <1>6, <1>7 DEF IInv

LEMMA SurroundingsStep ==
  ASSUME IInv,
         \/ \E o \in ConfiguredOrigins : GoDark(o) \/ ComeUp(o)
         \/ \E o \in ConfiguredOrigins \cup Strangers : OtherTabRemembers(o)
  PROVE  IInv' /\ UNCHANGED call
<1>1. ASSUME NEW o \in ConfiguredOrigins, GoDark(o) PROVE IInv' /\ UNCHANGED call
  <2>1. TypeOK' /\ UNCHANGED <<call, health, darkFor>>
    BY <1>1 DEF IInv, TypeOK, GoDark
  <2>2. \A c \in Callers : steady'[c] \subseteq steady[c]
    BY <1>1 DEF GoDark
  <2> QED BY <2>1, <2>2 DEF IInv, CallOK, NothingMissed
<1>2. ASSUME NEW o \in ConfiguredOrigins, ComeUp(o) PROVE IInv' /\ UNCHANGED call
  <2>1. TypeOK' /\ UNCHANGED <<call, health, steady>>
    BY <1>2, AgeArithmetic DEF IInv, TypeOK, ComeUp
  <2>2. \A d \in ConfiguredOrigins : darkFor'[d] <= health'[d]
    <3>1. \A d \in ConfiguredOrigins : health[d] \in Nat /\ 0 <= health[d]
      BY AgeArithmetic DEF IInv, TypeOK
    <3> QED BY <1>2, <3>1 DEF IInv, TypeOK, ComeUp
  <2> QED BY <2>1, <2>2 DEF IInv, CallOK, NothingMissed
<1>3. ASSUME NEW o \in ConfiguredOrigins \cup Strangers, OtherTabRemembers(o)
      PROVE  IInv' /\ UNCHANGED call
  <2>1. TypeOK' /\ UNCHANGED <<call, health, darkFor, steady>>
    BY <1>3 DEF IInv, TypeOK, OtherTabRemembers
  <2> QED BY <2>1 DEF IInv, CallOK, NothingMissed
<1> QED BY <1>1, <1>2, <1>3

(* What one step does to one caller, in the terms of the two properties.   *)
WellChosen(c) ==
  call[c].phase # "chosen" /\ call'[c].phase = "chosen"
    => darkFor[call'[c].origin] < TTL + ProbeTimeout

RightlyFailed(c) ==
  call[c].phase # "failed" /\ call'[c].phase = "failed"
    => steady[c] \cap CookieCapableOrigins = {}

LEMMA NextStep ==
  ASSUME IInv, [Next]_vars
  PROVE  /\ IInv'
         /\ \A c \in Callers : WellChosen(c) /\ RightlyFailed(c)
<1>1. ASSUME NEW c \in Callers, Start(c)
      PROVE  IInv' /\ \A d \in Callers : WellChosen(d) /\ RightlyFailed(d)
  <2>1. IInv' /\ call'[c].phase # "failed"
        /\ (call'[c].phase = "chosen" => health[call'[c].origin] < TTL)
    BY <1>1, StartStep
  <2>2. \A d \in Callers \ {c} : call'[d] = call[d]
    BY <1>1 DEF Start, Proceed, IInv, TypeOK
  <2>3. call'[c].phase = "chosen" => darkFor[call'[c].origin] < TTL + ProbeTimeout
    <3> SUFFICES ASSUME call'[c].phase = "chosen"
                 PROVE  darkFor[call'[c].origin] < TTL + ProbeTimeout
      OBVIOUS
    <3> DEFINE o == call'[c].origin
    <3>1. o \in ConfiguredOrigins
      BY <2>1, CandidatesExist DEF IInv, CallOK
    <3>2. darkFor[o] <= health[o] /\ health[o] < TTL
      BY <2>1, <3>1 DEF IInv
    <3>3. darkFor[o] \in Nat /\ health[o] \in Nat
      BY <3>1, AgeArithmetic DEF IInv, TypeOK
    <3> HIDE DEF o
    <3>4. darkFor[o] < TTL + ProbeTimeout
      BY <3>2, <3>3, AgeArithmetic
    <3> QED BY <3>4 DEF o
  <2> QED BY <2>1, <2>2, <2>3 DEF WellChosen, RightlyFailed
<1>2. ASSUME NEW c \in Callers, ProbeOk(c)
      PROVE  IInv' /\ \A d \in Callers : WellChosen(d) /\ RightlyFailed(d)
  <2>1. IInv' /\ call'[c].phase = "chosen"
        /\ darkFor[call'[c].origin] < TTL + ProbeTimeout
    BY <1>2, ProbeOkStep
  <2>2. \A d \in Callers \ {c} : call'[d] = call[d]
    BY <1>2 DEF ProbeOk, Proceed, IInv, TypeOK
  <2> QED BY <2>1, <2>2 DEF WellChosen, RightlyFailed
<1>3. ASSUME NEW c \in Callers, ProbeNotOk(c) \/ ProbeFails(c)
      PROVE  IInv' /\ \A d \in Callers : WellChosen(d) /\ RightlyFailed(d)
  <2>1. /\ call[c].phase = "probing" /\ call[c].origin \notin steady[c]
        /\ UNCHANGED <<up, darkFor, steady>>
    BY <1>3 DEF ProbeNotOk, ProbeFails
  <2>2. PICK entries \in [ConfiguredOrigins -> Ages] :
           /\ \A o \in ConfiguredOrigins : darkFor[o] <= entries[o]
           /\ Proceed(c, Visit(call[c], NULL, entries), store)
           /\ health' = entries
    <3>1. CASE ProbeNotOk(c)
      <4>1. /\ health \in [ConfiguredOrigins -> Ages]
            /\ \A o \in ConfiguredOrigins : darkFor[o] <= health[o]
        BY DEF IInv, TypeOK
      <4> QED BY <3>1, <4>1 DEF ProbeNotOk
    <3>2. CASE ProbeFails(c)
      <4> DEFINE entries == [health EXCEPT ![call[c].origin] = Old]
      <4>1. entries \in [ConfiguredOrigins -> Ages]
        BY AgeArithmetic DEF IInv, TypeOK
      <4>2. \A o \in ConfiguredOrigins : darkFor[o] <= entries[o]
        BY AgeArithmetic DEF IInv, TypeOK
      <4>3. Proceed(c, Visit(call[c], NULL, entries), store) /\ health' = entries
        BY <3>2 DEF ProbeFails
      <4> HIDE DEF entries
      <4> QED BY <4>1, <4>2, <4>3
    <3> QED BY <1>3, <3>1, <3>2
  <2>3. /\ IInv'
        /\ call'[c].phase = "failed" => steady[c] \cap CookieCapableOrigins = {}
        /\ call'[c].phase = "chosen" => darkFor[call'[c].origin] < TTL + ProbeTimeout
    BY <2>1, <2>2, NextCandidate
  <2>4. \A d \in Callers \ {c} : call'[d] = call[d]
    BY <2>2 DEF Proceed, IInv, TypeOK
  <2> QED BY <2>3, <2>4 DEF WellChosen, RightlyFailed
<1>4. ASSUME NEW c \in Callers, Finish(c)
      PROVE  IInv' /\ \A d \in Callers : WellChosen(d) /\ RightlyFailed(d)
  <2>1. call'[c] = Idle /\ \A d \in Callers \ {c} : call'[d] = call[d]
    BY <1>4 DEF Finish, IInv, TypeOK
  <2> QED BY <1>4, <2>1, FinishStep DEF Idle, WellChosen, RightlyFailed
<1>5. ASSUME Tick
      PROVE  IInv' /\ \A d \in Callers : WellChosen(d) /\ RightlyFailed(d)
  BY <1>5, TickStep DEF WellChosen, RightlyFailed
<1>6. ASSUME \/ \E o \in ConfiguredOrigins : GoDark(o) \/ ComeUp(o)
             \/ \E o \in ConfiguredOrigins \cup Strangers : OtherTabRemembers(o)
      PROVE  IInv' /\ \A d \in Callers : WellChosen(d) /\ RightlyFailed(d)
  BY <1>6, SurroundingsStep DEF WellChosen, RightlyFailed
<1>7. ASSUME UNCHANGED vars
      PROVE  IInv' /\ \A d \in Callers : WellChosen(d) /\ RightlyFailed(d)
  BY <1>7 DEF vars, IInv, TypeOK, CallOK, NothingMissed, WellChosen, RightlyFailed
<1> QED BY <1>1, <1>2, <1>3, <1>4, <1>5, <1>6, <1>7 DEF Next

(* The invariant holds of every behaviour of the specification. *)
THEOREM Invariance == Spec => []IInv
<1>1. IInv /\ [Next]_vars => IInv'
  BY NextStep
<1> QED BY Initially, <1>1, PTL DEF Spec

-----------------------------------------------------------------------------
(* Every variable keeps its type; in particular the host of a call under   *)
(* way is one of the configured ones and its probe is within its timer.    *)
THEOREM TypeCorrect == Spec => []TypeOK
<1>1. IInv => TypeOK
  BY DEF IInv
<1> QED BY Invariance, <1>1, PTL

(* Neither credentials nor other requests leave the site while a host of   *)
(* the site is configured, whatever localStorage holds.                    *)
THEOREM OnSite == Spec => []CredentialsStayOnSite
<1>1. IInv => CredentialsStayOnSite
  <2> SUFFICES ASSUME IInv, ConfiguredOrigins \cap SameSite # {}
               PROVE  /\ GetAdminApiBaseUrl \in SameSite
                      /\ \A c \in Callers : call[c].phase = "chosen" => call[c].origin \in SameSite
    BY DEF CredentialsStayOnSite
  <2>1. CookieCapableOrigins \subseteq SameSite
    BY DEF CookieCapableOrigins
  <2>2. GetAdminApiBaseUrl \in CookieCapableOrigins
    BY CandidatesExist, StoredIsCandidate, FirstIsCandidate DEF GetAdminApiBaseUrl
  <2>3. \A c \in Callers : call[c].phase = "chosen" => call[c].origin \in CookieCapableOrigins
    BY DEF IInv, CallOK
  <2> QED BY <2>1, <2>2, <2>3
<1> QED BY Invariance, <1>1, PTL

(* A chosen host was up within the time to live and one probe. *)
THEOREM RecentlyHealthy == Spec => ChoosesRecentlyHealthy
<1>1. IInv /\ [Next]_vars =>
        [\A c \in Callers :
           call[c].phase # "chosen" /\ call'[c].phase = "chosen"
             => darkFor[call'[c].origin] < TTL + ProbeTimeout]_vars
  BY NextStep DEF WellChosen
<1> QED BY Invariance, <1>1, PTL DEF Spec, ChoosesRecentlyHealthy

(* A selection fails only if no allowed host was up throughout. *)
THEOREM FailoverWorks == Spec => FailsOnlyWithoutOrigin
<1>1. IInv /\ [Next]_vars =>
        [\A c \in Callers :
           call[c].phase # "failed" /\ call'[c].phase = "failed"
             => steady[c] \cap CookieCapableOrigins = {}]_vars
  BY NextStep DEF RightlyFailed
<1> QED BY Invariance, <1>1, PTL DEF Spec, FailsOnlyWithoutOrigin
=============================================================================
