-------------------------- MODULE MCAnalytics_proofs --------------------------
(***************************************************************************)
(* What is proved of the analytics screens: what is shown is of the grant, *)
(* the user and the choice on screen, and whole (ReportIsOwn), and Google  *)
(* is asked with care (AsksWithCare).                                      *)
(*                                                                         *)
(* Each part has an invariant of its own; Inv is that of the part that     *)
(* takes the steps.  The store of the grant: a grant that is held is bound *)
(* to its session, has exactly one timer, and the reports of the present   *)
(* state of the store are its own.  Its session is that of the screen      *)
(* whenever there is one, and every call of the screen under way was made  *)
(* in that session, so an answer that is still wanted is one of it.  A     *)
(* report on its way is proved for every set of requests and of waits that *)
(* Google may name, and applied to the two sizes that are checked: once    *)
(* the signal has gone no request waits, so none is sent again.  The       *)
(* dashboard and the panel look only at answers whose key is the choice on *)
(* screen; a banner is of the property and the pool of the choice.  Of the *)
(* timeline it is enough that pages are counted: a warning of coverage is  *)
(* lost only with the pages that carried it, and a refresh that has fewer  *)
(* pages than the list has not ended.                                      *)
(***************************************************************************)
EXTENDS MCAnalytics, SequenceTheorems, TLAPS

-----------------------------------------------------------------------------
(* A grant is held.                                                        *)
TokenConnected == x2.status = "connected"

(* What the parts of the store, the loader and the screen range over.      *)
TokenTypes ==
  /\ x1 \in [generation : 0..3, signedIn : BOOLEAN]
  /\ x2 \in [token : 0..3 \cup {NULL}, bound : 0..3 \cup {NULL},
             status : {"disconnected", "connected", "expired"},
             expiresAt : 0..2 \cup {NULL}, generation : Nat]
  /\ x4 \in 0..2 /\ x6 \in 0..3 /\ x5 \in 1..x6 \cup {NULL}
  /\ x8 \in {NULL, "waiting"} /\ x9 \in {"absent", "loading", "failed", "ready"}

(* A grant is bound to its session, and its timer is the only one.  The    *)
(* store changes state a bounded number of times.                          *)
TokenStore ==
  /\ IF TokenConnected THEN /\ x2.token \in 0..3 /\ x2.bound = x2.token
                            /\ x2.expiresAt \in 0..2 /\ x3 = {x2.expiresAt}
     ELSE x2.token = NULL /\ x2.expiresAt = NULL /\ x3 = {}
  /\ TokenConnected => x2.generation <= 5
  /\ x2.bound # NULL => x2.generation <= 6
  /\ x2.generation <= 7

(* A screen is there only in a session; its calls and the grant are of it. *)
TokenAsks ==
  /\ x7 \subseteq Token!Ask
  /\ \A a \in x7 : a.visit <= x6
  /\ x5 # NULL =>
       /\ x1.signedIn /\ \A a \in x7 : a.visit = x5 => a.session = x1.generation
       /\ TokenConnected => x2.bound = x1.generation

(* A report of the present state of the store is one of its grant.         *)
TokenReports ==
  \A r \in x10 \cup x11 :
    /\ r \in Token!Report /\ r.generation <= x2.generation
    /\ TokenConnected /\ r.generation = x2.generation => r.token = x2.token

(* The invariant of the store of the grant.                                *)
TokenInv == TokenTypes /\ TokenStore /\ TokenAsks /\ TokenReports

(* It says what the run checks.                                            *)
LEMMA TokenShows == TokenInv => Token!TypeOK /\ Token!ConnectedIsOwn
<1> SUFFICES ASSUME TokenInv PROVE Token!TypeOK /\ Token!ConnectedIsOwn
  OBVIOUS
<1> USE NullAssumption
<1>1. Token!TypeOK
  <2>1. x2.generation \in Token!Generations
    BY DEF TokenInv, TokenTypes, TokenStore, Token!Generations
  <2>2. x3 \subseteq 0..2 /\ (x2.status = "connected") = (x2.token # NULL)
        /\ (x2.expiresAt # NULL => x2.expiresAt \in x3)
    BY DEF TokenInv, TokenStore, TokenConnected
  <2>3. x7 \subseteq Token!Ask /\ x10 \subseteq Token!Report /\ x11 \subseteq Token!Report
    BY DEF TokenInv, TokenAsks, TokenReports
  <2> QED BY <2>1, <2>2, <2>3 DEF TokenInv, TokenTypes, Token!TypeOK
<1>2. Token!ConnectedIsOwn
  BY DEF TokenInv, TokenTypes, TokenStore, TokenAsks, TokenReports, TokenConnected,
         Token!ConnectedIsOwn
<1> QED BY <1>1, <1>2

(* It holds at the start.                                                  *)
LEMMA TokenStarts == Token!Init => TokenInv
<1> SUFFICES ASSUME Token!Init PROVE TokenInv
  OBVIOUS
<1> USE NullAssumption
<1>1. TokenTypes
  BY DEF Token!Init, TokenTypes
<1>2. TokenStore
  BY DEF Token!Init, TokenStore, TokenConnected
<1>3. TokenAsks
  BY DEF Token!Init, TokenAsks
<1>4. TokenReports
  BY DEF Token!Init, TokenReports
<1> QED BY <1>1, <1>2, <1>3, <1>4 DEF TokenInv

(* Whatever clears the grant keeps the invariant of the store. *)
LEMMA TokenCleared ==
  ASSUME TokenInv, NEW reason \in {"disconnected", "expired"},
         x2.bound # NULL \/ TokenConnected, Token!clearAnalyticsAccessToken(reason)
  PROVE  /\ x2' \in [token : 0..3 \cup {NULL}, bound : 0..3 \cup {NULL},
                     status : {"disconnected", "connected", "expired"},
                     expiresAt : 0..2 \cup {NULL}, generation : Nat]
         /\ TokenStore' /\ ~TokenConnected' /\ x2'.generation = x2.generation + 1
         /\ x2'.status = reason
<1>1. x2' = [token |-> NULL, bound |-> NULL, status |-> reason, expiresAt |-> NULL,
             generation |-> x2.generation + 1] /\ x3' = {}
  BY DEF Token!clearAnalyticsAccessToken, Token!transition
<1>2. x2.generation \in Nat /\ x2.generation <= 6
  BY NullAssumption DEF TokenInv, TokenTypes, TokenStore
<1> QED BY <1>1, <1>2 DEF TokenStore, TokenConnected

(* A change of the session ends a grant of the session before.             *)
LEMMA TokenReconciled ==
  ASSUME TokenInv, Token!reconcileAdminSession, x1'.generation \in 0..3
  PROVE  /\ x2' \in [token : 0..3 \cup {NULL}, bound : 0..3 \cup {NULL},
                     status : {"disconnected", "connected", "expired"},
                     expiresAt : 0..2 \cup {NULL}, generation : Nat]
         /\ TokenStore'
         /\ TokenConnected' => x2' = x2 /\ x2.bound = x1'.generation
         /\ x2'.generation >= x2.generation
         /\ x2'.status # "expired" \/ x2'.status = x2.status
<1> USE NullAssumption
<1>0. x2.generation \in Nat
  BY DEF TokenInv, TokenTypes
<1>1. CASE Token!adminSessionChanged
  BY <1>0, <1>1, TokenCleared DEF Token!reconcileAdminSession, Token!adminSessionChanged
<1>2. CASE ~Token!adminSessionChanged
  <2>1. x2' = x2 /\ x3' = x3
    BY <1>2 DEF Token!reconcileAdminSession, Token!tokenVars
  <2>2. TokenConnected => x2.bound = x1'.generation
    BY <1>2 DEF Token!adminSessionChanged, TokenInv, TokenStore
  <2> QED BY <1>0, <2>1, <2>2 DEF TokenInv, TokenTypes, TokenStore, TokenConnected
<1> QED BY <1>1, <1>2

(* What a change of the store keeps of the reports is not of a grant that  *)
(* has gone.                                                               *)
LEMMA TokenPurged ==
  ASSUME TokenInv, Token!Purge, x2'.generation >= x2.generation, x2'.generation \in Nat,
         TokenConnected' => x2' = x2
  PROVE  TokenReports'
<1>1. x10' \subseteq x10 /\ x11' \subseteq x11
  BY DEF Token!Purge, Token!queryVars
<1>2. ASSUME NEW r \in x10' \cup x11'
      PROVE  /\ r \in Token!Report /\ r.generation <= x2'.generation
             /\ TokenConnected' /\ r.generation = x2'.generation => r.token = x2'.token
  BY <1>1, <1>2
     DEF TokenInv, TokenTypes, TokenReports, TokenConnected, Token!Report, Token!Generations
<1> QED BY <1>2 DEF TokenReports

(* A step of the session, the clock, the loader or a call of connect. *)
LEMMA TokenStoreStays ==
  ASSUME TokenInv, UNCHANGED <<x2, x3>>
  PROVE  TokenStore' /\ Token!LastsItsTime
<1>1. Token!LastsItsTime
  BY DEF Token!LastsItsTime
<1>2. TokenStore'
  BY DEF TokenInv, TokenStore, TokenConnected
<1> QED BY <1>1, <1>2

(* Reports that do not change stay those of the grant.                     *)
LEMMA TokenReportsStay ==
  ASSUME TokenInv, UNCHANGED x2, x10' \subseteq x10, x11' \subseteq x10 \cup x11
  PROVE  TokenReports'
  BY DEF TokenInv, TokenReports, TokenConnected

(* A session begins.                                                       *)
LEMMA TokenSignIn == TokenInv /\ Token!SignIn => TokenInv' /\ Token!LastsItsTime
<1> SUFFICES ASSUME TokenInv, Token!SignIn PROVE TokenInv' /\ Token!LastsItsTime
  OBVIOUS
<1> USE DEF Token!SignIn, Token!tokenVars, Token!gisVars, Token!queryVars
<1>1. x5 = NULL
  BY DEF TokenInv, TokenAsks
<1>2. TokenTypes'
  BY DEF TokenInv, TokenTypes
<1>3. TokenAsks'
  BY <1>1 DEF TokenInv, TokenAsks
<1> QED BY <1>2, <1>3, TokenStoreStays, TokenReportsStay DEF TokenInv

(* A session ends, and with it the grant.                                  *)
LEMMA TokenSignOut == TokenInv /\ Token!SignOut => TokenInv' /\ Token!LastsItsTime
<1> SUFFICES ASSUME TokenInv, Token!SignOut PROVE TokenInv' /\ Token!LastsItsTime
  OBVIOUS
<1> USE DEF Token!SignOut
<1>1. x1' \in [generation : 0..3, signedIn : BOOLEAN] /\ x1'.generation \in 0..3
  BY DEF TokenInv, TokenTypes
<1>2. TokenReports' /\ TokenAsks'
  BY DEF TokenInv, TokenReports, TokenAsks
<1>3. CASE x5 # NULL
  <2>1. Token!reconcileAdminSession
    BY <1>3
  <2>2. TokenTypes'
    BY <1>1, <2>1, TokenReconciled, NullAssumption DEF TokenInv, TokenTypes, Token!gisVars
  <2>3. TokenStore' /\ Token!LastsItsTime
    BY <1>1, <2>1, TokenReconciled DEF Token!LastsItsTime
  <2> QED BY <1>2, <2>2, <2>3 DEF TokenInv
<1>4. CASE x5 = NULL
  <2>1. UNCHANGED <<x2, x3>>
    BY <1>4 DEF Token!tokenVars
  <2>2. TokenTypes'
    BY <1>1, <2>1 DEF TokenInv, TokenTypes, Token!gisVars
  <2> QED BY <1>2, <2>1, <2>2, TokenStoreStays DEF TokenInv
<1> QED BY <1>3, <1>4

(* Time passes, up to the next timer.                                      *)
LEMMA TokenTick == TokenInv /\ Token!Tick => TokenInv' /\ Token!LastsItsTime
<1> SUFFICES ASSUME TokenInv, Token!Tick PROVE TokenInv' /\ Token!LastsItsTime
  OBVIOUS
<1> USE DEF Token!Tick, Token!tokenVars, Token!gisVars, Token!queryVars
<1>1. TokenTypes'
  BY DEF TokenInv, TokenTypes
<1>2. TokenAsks'
  BY DEF TokenInv, TokenAsks, TokenConnected
<1> QED BY <1>1, <1>2, TokenStoreStays, TokenReportsStay DEF TokenInv

(* The grant has expired, and not before its time.                         *)
LEMMA TokenTimerFires == TokenInv /\ Token!TimerFires => TokenInv' /\ Token!LastsItsTime
<1> SUFFICES ASSUME TokenInv, Token!TimerFires PROVE TokenInv' /\ Token!LastsItsTime
  OBVIOUS
<1> USE NullAssumption
<1>1. PICK t \in x3 : t <= x4 /\ x3' = x3 \ {t}
  BY DEF Token!TimerFires
<1>2. TokenConnected /\ x3 = {x2.expiresAt} /\ t = x2.expiresAt /\ x3' = {} /\ x2.generation \in Nat
  BY <1>1 DEF TokenInv, TokenStore, TokenTypes
<1>3. x2' = [token |-> NULL, bound |-> x2.bound, status |-> "expired", expiresAt |-> NULL,
             generation |-> x2.generation + 1]
  BY DEF Token!TimerFires, TokenInv, TokenTypes
<1>4. TokenTypes'
  BY <1>3 DEF Token!TimerFires, Token!gisVars, TokenInv, TokenTypes
<1>5. TokenStore' /\ ~TokenConnected'
  BY <1>2, <1>3 DEF TokenInv, TokenStore, TokenConnected
<1>6. TokenReports'
  BY <1>2, <1>3, <1>5, TokenPurged DEF Token!TimerFires
<1>7. TokenAsks'
  BY <1>5 DEF Token!TimerFires, TokenInv, TokenAsks
<1>8. Token!LastsItsTime
  BY <1>1, <1>2 DEF Token!LastsItsTime, TokenInv, TokenTypes, TokenStore
<1> QED BY <1>4, <1>5, <1>6, <1>7, <1>8 DEF TokenInv

(* The script of Google is loaded, or is not.                              *)
LEMMA TokenLoader ==
  TokenInv /\ (Token!ScriptReady \/ Token!ScriptFails \/ Token!LoaderTimesOut)
    => TokenInv' /\ Token!LastsItsTime
<1> SUFFICES ASSUME TokenInv, Token!ScriptReady \/ Token!ScriptFails \/ Token!LoaderTimesOut
             PROVE  TokenInv' /\ Token!LastsItsTime
  OBVIOUS
<1> USE DEF Token!ScriptReady, Token!ScriptFails, Token!LoaderTimesOut, Token!Unavailable,
            Token!tokenVars, Token!queryVars
<1>1. UNCHANGED <<x1, x2, x3, x4, x5, x6, x10, x11>>
  OBVIOUS
<1>2. TokenTypes'
  BY <1>1 DEF TokenInv, TokenTypes
<1>3. \A a \in x7' : /\ a \in Token!Ask
                     /\ \E b \in x7 : a.visit = b.visit /\ a.session = b.session
  BY DEF TokenInv, TokenAsks, Token!Ask
<1>4. TokenAsks'
  BY <1>1, <1>3 DEF TokenInv, TokenAsks, TokenConnected
<1> QED BY <1>1, <1>2, <1>4, TokenStoreStays, TokenReportsStay DEF TokenInv

(* A screen opens under the session of the moment.                         *)
LEMMA TokenMount == TokenInv /\ Token!Mount => TokenInv' /\ Token!LastsItsTime
<1> SUFFICES ASSUME TokenInv, Token!Mount PROVE TokenInv' /\ Token!LastsItsTime
  OBVIOUS
<1> USE NullAssumption
<1>1. x1' = x1 /\ x1.signedIn /\ x4' = x4 /\ x6' = x6 + 1 /\ x6 < 3 /\ x5' = x6 + 1
      /\ x1.generation \in 0..3 /\ x6 \in 0..3
  BY DEF Token!Mount, TokenInv, TokenTypes
<1>2. /\ x2' \in [token : 0..3 \cup {NULL}, bound : 0..3 \cup {NULL},
                  status : {"disconnected", "connected", "expired"},
                  expiresAt : 0..2 \cup {NULL}, generation : Nat]
      /\ TokenStore'
      /\ TokenConnected' => x2' = x2 /\ x2.bound = x1'.generation
      /\ x2'.generation >= x2.generation
      /\ x2'.status # "expired" \/ x2'.status = x2.status
  BY <1>1, TokenReconciled DEF Token!Mount
<1>3. x7' = x7 /\ x8' \in {NULL, "waiting"} /\ x9' \in {"absent", "loading", "failed", "ready"}
  <2>1. Token!Load({})
    BY DEF Token!Mount
  <2> QED BY <2>1 DEF Token!Load, Token!gisVars, TokenInv, TokenTypes
<1>4. TokenTypes'
  BY <1>1, <1>2, <1>3 DEF TokenInv, TokenTypes
<1>5. TokenReports'
  BY <1>2, TokenPurged DEF Token!Mount
<1>6. TokenAsks'
  <2>1. \A a \in x7' : a.visit <= x6' /\ a.visit # x5' /\ a \in Token!Ask
    BY <1>1, <1>3 DEF TokenInv, TokenAsks, Token!Ask
  <2> QED BY <1>1, <1>2, <2>1 DEF TokenAsks, TokenConnected
<1>7. Token!LastsItsTime
  BY <1>2 DEF Token!LastsItsTime
<1> QED BY <1>2, <1>4, <1>5, <1>6, <1>7 DEF TokenInv

(* The screen goes, and what it has asked for stays under way.             *)
LEMMA TokenUnmount == TokenInv /\ Token!Unmount => TokenInv' /\ Token!LastsItsTime
<1> SUFFICES ASSUME TokenInv, Token!Unmount PROVE TokenInv' /\ Token!LastsItsTime
  OBVIOUS
<1> USE DEF Token!Unmount, Token!tokenVars, Token!gisVars, Token!queryVars
<1>1. TokenTypes'
  BY DEF TokenInv, TokenTypes
<1>2. TokenAsks'
  BY DEF TokenInv, TokenAsks, TokenConnected
<1> QED BY <1>1, <1>2, TokenStoreStays, TokenReportsStay DEF TokenInv

(* The screen asks for a grant.                                            *)
LEMMA TokenConnect == TokenInv /\ Token!connect => TokenInv' /\ Token!LastsItsTime
<1> SUFFICES ASSUME TokenInv, Token!connect PROVE TokenInv' /\ Token!LastsItsTime
  OBVIOUS
<1> USE NullAssumption DEF Token!tokenVars, Token!queryVars
<1>1. UNCHANGED <<x1, x2, x3, x4, x5, x6, x10, x11>> /\ x5 # NULL
  BY DEF Token!connect
<1>2. PICK ask : ask = [visit |-> x5, session |-> x1.generation, at |-> "load"]
  OBVIOUS
<1>3. Token!Load({ask})
  BY <1>2 DEF Token!connect
<1>4. x8' \in {NULL, "waiting"} /\ x9' \in {"absent", "loading", "failed", "ready"}
  BY <1>3 DEF Token!Load, Token!gisVars, TokenInv, TokenTypes
<1>5. \A a \in x7' : a \in x7 \/ a = ask \/ a = [ask EXCEPT !.at = "popup"]
  BY <1>3 DEF Token!Load
<1>6. x5 \in 1..3 /\ x5 <= x6 /\ x1.generation \in 0..3
  BY <1>1 DEF TokenInv, TokenTypes
<1>7. \A a \in x7' : /\ a \in Token!Ask /\ a.visit <= x6
                     /\ a.visit = x5 => a.session = x1.generation
  <2>1. /\ ask \in Token!Ask /\ [ask EXCEPT !.at = "popup"] \in Token!Ask
        /\ ask.visit = x5 /\ ask.session = x1.generation
        /\ [ask EXCEPT !.at = "popup"].visit = x5
        /\ [ask EXCEPT !.at = "popup"].session = x1.generation
    BY <1>2, <1>6 DEF Token!Ask
  <2> QED BY <1>1, <1>5, <1>6, <2>1 DEF TokenInv, TokenAsks
<1>8. TokenAsks'
  BY <1>1, <1>7 DEF TokenInv, TokenAsks, TokenConnected
<1>9. TokenTypes'
  BY <1>1, <1>4 DEF TokenInv, TokenTypes
<1> QED BY <1>1, <1>8, <1>9, TokenStoreStays, TokenReportsStay DEF TokenInv

(* A grant arrives: for the screen and the session that asked, or for      *)
(* nobody.                                                                 *)
LEMMA TokenAnswered ==
  ASSUME TokenInv, NEW a \in x7, Token!Granted(a) \/ Token!Denied(a)
  PROVE  TokenInv' /\ Token!LastsItsTime
<1> USE NullAssumption
<1>1. /\ x7' = x7 \ {a} /\ UNCHANGED <<x1, x4, x5, x6, x8, x9, x10, x11>>
      /\ a \in Token!Ask /\ a.session \in 0..3
  BY DEF Token!Granted, Token!Denied, Token!gisVars, Token!queryVars, TokenInv, TokenAsks, Token!Ask
<1>2. CASE UNCHANGED <<x2, x3>>
  <2>1. TokenTypes'
    BY <1>1, <1>2 DEF TokenInv, TokenTypes
  <2>2. TokenAsks'
    BY <1>1, <1>2 DEF TokenInv, TokenAsks, TokenConnected
  <2> QED BY <1>1, <1>2, <2>1, <2>2, TokenStoreStays, TokenReportsStay DEF TokenInv
<1>3. CASE ~UNCHANGED <<x2, x3>>
  <2>1. /\ Token!setAnalyticsAccessToken(a.session) /\ x5 = a.visit
        /\ x2.generation <= 4 /\ x4 + 1 <= 2
    BY <1>3 DEF Token!Granted, Token!Denied, Token!mounted, Token!tokenVars
  <2>2. x5 # NULL /\ a.session = x1.generation /\ x2.generation \in Nat /\ x4 + 1 \in 0..2
    BY <2>1, <1>1 DEF TokenInv, TokenTypes, TokenAsks, Token!Ask
  <2>3. /\ x2' = [token |-> a.session, bound |-> a.session, status |-> "connected",
                  expiresAt |-> x4 + 1, generation |-> x2.generation + 1]
        /\ x3' = {x4 + 1}
    BY <1>1, <2>1, <2>2 DEF Token!setAnalyticsAccessToken, Token!transition
  <2>4. TokenTypes'
    BY <1>1, <2>2, <2>3 DEF TokenInv, TokenTypes
  <2>5. TokenStore'
    BY <1>1, <2>1, <2>2, <2>3 DEF TokenStore, TokenConnected
  <2>6. TokenAsks'
    BY <1>1, <2>2, <2>3 DEF TokenInv, TokenAsks, TokenConnected
  <2>7. TokenReports'
    BY <1>1, <2>2, <2>3 DEF TokenInv, TokenReports, TokenConnected, Token!Report, Token!Generations
  <2>8. Token!LastsItsTime
    BY <2>3 DEF Token!LastsItsTime
  <2> QED BY <2>4, <2>5, <2>6, <2>7, <2>8 DEF TokenInv
<1> QED BY <1>2, <1>3

(* What ends the grant of a screen that is connected. *)
LEMMA TokenEnded ==
  ASSUME TokenInv, UNCHANGED <<x1, x4, x5, x6, x7, x8, x9>>, TokenConnected,
         NEW reason \in {"disconnected", "expired"},
         Token!clearAnalyticsAccessToken(reason), Token!Purge,
         reason = "expired" => x4 >= x2.expiresAt \/ \E f \in x10 : f.generation = x2.generation
  PROVE  TokenInv' /\ Token!LastsItsTime
<1>1. /\ x2' \in [token : 0..3 \cup {NULL}, bound : 0..3 \cup {NULL},
                  status : {"disconnected", "connected", "expired"},
                  expiresAt : 0..2 \cup {NULL}, generation : Nat]
      /\ TokenStore' /\ ~TokenConnected' /\ x2'.generation = x2.generation + 1
      /\ x2'.status = reason
  BY TokenCleared
<1>2. TokenTypes'
  BY <1>1 DEF TokenInv, TokenTypes
<1>3. TokenAsks'
  BY <1>1 DEF TokenInv, TokenAsks
<1>4. TokenReports'
  <2>1. x2.generation \in Nat
    BY DEF TokenInv, TokenTypes
  <2> QED BY <1>1, <2>1, TokenPurged
<1>5. Token!LastsItsTime
  BY <1>1 DEF Token!LastsItsTime
<1> QED BY <1>1, <1>2, <1>3, <1>4, <1>5 DEF TokenInv

(* The operator ends the grant.                                            *)
LEMMA TokenDisconnect == TokenInv /\ Token!disconnect => TokenInv' /\ Token!LastsItsTime
  BY TokenEnded DEF Token!disconnect, TokenConnected, Token!gisVars

(* A report is asked for under the grant.                                  *)
LEMMA TokenFetch == TokenInv /\ Token!Fetch => TokenInv' /\ Token!LastsItsTime
<1> SUFFICES ASSUME TokenInv, Token!Fetch PROVE TokenInv' /\ Token!LastsItsTime
  OBVIOUS
<1>1. UNCHANGED <<x1, x4, x5, x6, x7, x8, x9>> /\ TokenConnected /\ x5 # NULL
  BY DEF Token!Fetch, TokenConnected, Token!gisVars
<1>2. CASE x2.expiresAt <= x4
  <2>1. x4 >= x2.expiresAt
    BY <1>1, <1>2 DEF TokenInv, TokenTypes, TokenStore
  <2> QED BY <1>1, <1>2, <2>1, TokenEnded DEF Token!Fetch
<1>3. CASE ~(x2.expiresAt <= x4)
  <2>1. UNCHANGED <<x2, x3>>
    <3>1. x2.bound = x1'.generation
      BY <1>1 DEF TokenInv, TokenAsks
    <3> QED BY <1>3, <3>1 DEF Token!Fetch, Token!reconcileAdminSession, Token!adminSessionChanged,
                              Token!tokenVars
  <2>2. /\ x10' = x10 \cup {[generation |-> x2.generation, token |-> x2.token]}
        /\ x11' = x11
    BY <1>3 DEF Token!Fetch
  <2>3. x2.generation \in Token!Generations /\ x2.token \in 0..3
    BY <1>1 DEF TokenInv, TokenTypes, TokenStore, Token!Generations
  <2>4. TokenReports'
    <3>1. PICK r : r = [generation |-> x2.generation, token |-> x2.token]
      OBVIOUS
    <3>2. r \in Token!Report /\ r.generation <= x2.generation /\ r.token = x2.token
      BY <2>3, <3>1 DEF Token!Report, Token!Generations
    <3> QED BY <2>1, <2>2, <3>1, <3>2 DEF TokenInv, TokenReports, TokenConnected
  <2>5. TokenTypes'
    BY <1>1, <2>1 DEF TokenInv, TokenTypes
  <2>6. TokenAsks'
    BY <1>1, <2>1 DEF TokenInv, TokenAsks, TokenConnected
  <2> QED BY <2>1, <2>4, <2>5, <2>6, TokenStoreStays DEF TokenInv
<1> QED BY <1>2, <1>3

(* A report arrives, or the grant is refused: that of the report, if it is *)
(* still the one held.                                                     *)
LEMMA TokenFetchEnds ==
  ASSUME TokenInv, NEW f \in x10, Token!FetchAnswered(f) \/ Token!FetchRefused(f)
  PROVE  TokenInv' /\ Token!LastsItsTime
<1>1. UNCHANGED <<x1, x4, x5, x6, x7, x8, x9>>
  BY DEF Token!FetchAnswered, Token!FetchRefused, Token!gisVars
<1>2. CASE UNCHANGED <<x2, x3>> /\ x10' \subseteq x10 /\ x11' \subseteq x10 \cup x11
  <2>1. TokenTypes'
    BY <1>1, <1>2 DEF TokenInv, TokenTypes
  <2>2. TokenAsks'
    BY <1>1, <1>2 DEF TokenInv, TokenAsks, TokenConnected
  <2> QED BY <1>2, <2>1, <2>2, TokenStoreStays, TokenReportsStay DEF TokenInv
<1>3. CASE ~(UNCHANGED <<x2, x3>> /\ x10' \subseteq x10 /\ x11' \subseteq x10 \cup x11)
  <2>1. /\ TokenConnected /\ x2.generation = f.generation
        /\ Token!clearAnalyticsAccessToken("expired") /\ Token!Purge
    BY <1>3 DEF Token!FetchAnswered, Token!FetchRefused, TokenConnected, Token!tokenVars
  <2> QED BY <1>1, <2>1, TokenEnded
<1> QED BY <1>2, <1>3

(* Every step of the store keeps the invariant, and expires no grant       *)
(* before its time.                                                        *)
LEMMA TokenKeeps == TokenInv /\ Token!Next => TokenInv' /\ Token!LastsItsTime
<1> SUFFICES ASSUME TokenInv, Token!Next PROVE TokenInv' /\ Token!LastsItsTime
  OBVIOUS
<1>1. CASE \E v \in 1..3 : Token!Answer(v)
  BY <1>1, TokenAnswered DEF Token!Answer
<1>2. CASE \E f \in x10 : Token!FetchAnswered(f) \/ Token!FetchRefused(f)
  BY <1>2, TokenFetchEnds
<1> QED BY <1>1, <1>2, TokenSignIn, TokenSignOut, TokenTick, TokenTimerFires, TokenLoader,
           TokenMount, TokenUnmount, TokenConnect, TokenDisconnect, TokenFetch DEF Token!Next


-----------------------------------------------------------------------------
(* A report of any requests, with any waits that Google may name.          *)
Asked(Parts, Told, MaxClock) == INSTANCE AnalyticsRequest WITH
  token <- x1, parts <- x2, aborted <- x3, clock <- x4, outcome <- x5

(* A request: while its answer is read there is one, the answer of one that *)
(* is done fits, and a wait is at least as long as Google wants it.        *)
AskedFits(P, T, M, q) ==
  /\ q \in Asked(P, T, M)!Part /\ (q.kind # NULL) = (q.at = "failed")
  /\ q.at = "reading" => q.answer \in Asked(P, T, M)!Answers
  /\ q.at = "ok" => q.answer.status = "200"
  /\ q.at = "waiting" => q.until \in Nat /\ q.told <= q.until /\ q.attempt < 2

(* All requests leave at once, and none waits once the signal has gone.    *)
AskedInv(P, T, M) ==
  /\ x1 \in BOOLEAN /\ x3 \in BOOLEAN /\ x4 \in 0..M
  /\ x5 \in Asked(P, T, M)!Kinds \cup {NULL, "ok"}
  /\ DOMAIN x2 = P /\ x2 = [p \in P |-> x2[p]]
  /\ \A p \in P : AskedFits(P, T, M, x2[p])
  /\ \A p \in P : x3 => x2[p].at \notin {"waiting", "unsent"}
  /\ \A p, q \in P : x2[p].at = "unsent" => x2[q].at = "unsent"
  /\ x5 = "ok" => \A p \in P : x2[p].at = "ok"

(* What a step of a report may never do.                                   *)
AskedCares(P, T, M) ==
  /\ Asked(P, T, M)!SilentAfterAbort /\ Asked(P, T, M)!Patient /\ Asked(P, T, M)!RefusalIsFinal

(* A step that keeps the invariant and takes this care.                    *)
AskedKept(P, T, M) == AskedInv(P, T, M)' /\ AskedCares(P, T, M)

(* The invariant says that the report is whole.                            *)
LEMMA AskedShows ==
  ASSUME NEW P, NEW T \in SUBSET Nat, NEW M \in Nat,
         AskedInv(P, T, M)
  PROVE  Asked(P, T, M)!TypeOK /\ Asked(P, T, M)!ReportIsWhole
<1>1. x2 \in [P -> Asked(P, T, M)!Part]
  BY DEF AskedInv, AskedFits
<1>2. Asked(P, T, M)!TypeOK
  BY <1>1 DEF AskedInv, AskedFits, Asked!TypeOK
<1>3. Asked(P, T, M)!ReportIsWhole
  BY DEF AskedInv, AskedFits, Asked!ReportIsWhole
<1> QED BY <1>2, <1>3

(* It holds before the first request.                                      *)
LEMMA AskedStarts ==
  ASSUME NEW P, NEW T \in SUBSET Nat, NEW M \in Nat, Asked(P, T, M)!Init
  PROVE  AskedInv(P, T, M)
<1>1. \A p \in P : AskedFits(P, T, M, x2[p]) /\ x2[p].at = "unsent"
  BY NullAssumption DEF Asked!Init, AskedFits, Asked!Part, Asked!MAX_RETRIES
<1>2. x5 # "ok"
  BY NullAssumption DEF Asked!Init
<1>3. /\ x1 \in BOOLEAN /\ x3 = FALSE /\ x4 \in 0..M /\ x5 = NULL
      /\ DOMAIN x2 = P /\ x2 = [p \in P |-> x2[p]]
  BY DEF Asked!Init
<1> QED BY <1>1, <1>2, <1>3 DEF AskedInv

(* A request that has failed. *)
LEMMA AskedFailed ==
  ASSUME NEW P, NEW T \in SUBSET Nat, NEW M \in Nat,
         NEW q, AskedFits(P, T, M, q), NEW kind \in Asked(P, T, M)!Kinds
  PROVE  /\ AskedFits(P, T, M, Asked(P, T, M)!Fail(q, kind))
         /\ Asked(P, T, M)!Fail(q, kind).at = "failed"
<1>1. kind # NULL
  BY NullAssumption DEF Asked!Kinds, Request!Kinds
<1>2. q \in Asked(P, T, M)!Part
  BY DEF AskedFits
<1>3. PICK r : r = Asked(P, T, M)!Fail(q, kind)
  OBVIOUS
<1>4. r = [at |-> "failed", attempt |-> q.attempt, answer |-> NULL, until |-> NULL,
           told |-> q.told, kind |-> kind]
  BY <1>2, <1>3 DEF Asked!Fail, Asked!Part
<1>5. r \in Asked(P, T, M)!Part
  BY <1>2, <1>4 DEF Asked!Part
<1> QED BY <1>1, <1>3, <1>4, <1>5 DEF AskedFits

(* The wait before a retry is a number, and at least what Google has       *)
(* named.                                                                  *)
LEMMA AskedBackoff ==
  ASSUME NEW P, NEW T \in SUBSET Nat, NEW M \in Nat,
         NEW k \in 0..2, NEW r \in T \cup {NULL}
  PROVE  /\ Asked(P, T, M)!backoff(k, r) \in Nat
         /\ r # NULL => Asked(P, T, M)!backoff(k, r) = r
<1>1. 2 ^ 0 = 1 /\ 2 ^ 1 = 2 /\ 2 ^ 2 = 4
  OBVIOUS
<1>2. k = 0 \/ k = 1 \/ k = 2
  OBVIOUS
<1>3. 2 ^ k \in Nat
  <2>1. CASE k = 0
    BY <1>1, <2>1
  <2>2. CASE k = 1
    BY <1>1, <2>2
  <2>3. CASE k = 2
    BY <1>1, <2>3
  <2> QED BY <1>2, <2>1, <2>2, <2>3
<1> QED BY <1>3 DEF Asked!backoff

(* An error ends it or has it wait. *)
LEMMA AskedRetried ==
  ASSUME NEW P, NEW T \in SUBSET Nat, NEW M \in Nat,
         NEW q, AskedFits(P, T, M, q), NEW kind \in Asked(P, T, M)!Kinds,
         NEW after \in T \cup {NULL},
         x4 \in 0..M, q.at # "failed"
  PROVE  /\ AskedFits(P, T, M, Asked(P, T, M)!Retry(q, kind, after))
         /\ Asked(P, T, M)!Retry(q, kind, after).at \in {"failed", "waiting"}
         /\ Asked(P, T, M)!Retry(q, kind, after).at = "waiting" =>
              ~x3 /\ Asked(P, T, M)!shouldRetry(kind)
<1>1. PICK r : r = Asked(P, T, M)!Retry(q, kind, after)
  OBVIOUS
<1>2. "aborted" \in Asked(P, T, M)!Kinds
  BY DEF Asked!Kinds
<1>3. CASE r = Asked(P, T, M)!Fail(q, kind) \/ r = Asked(P, T, M)!Fail(q, "aborted")
  BY <1>1, <1>2, <1>3, AskedFailed
<1>4. CASE ~(r = Asked(P, T, M)!Fail(q, kind) \/ r = Asked(P, T, M)!Fail(q, "aborted"))
  <2>1. /\ Asked(P, T, M)!shouldRetry(kind) /\ q.attempt < 2 /\ ~x3
        /\ r = [q EXCEPT !.at = "waiting", !.answer = NULL,
                         !.until = x4 + Asked(P, T, M)!backoff(q.attempt, after),
                         !.told = x4 + IF after = NULL THEN 0 ELSE after]
    BY <1>1, <1>4 DEF Asked!Retry, Asked!MAX_RETRIES
  <2>2. q \in Asked(P, T, M)!Part /\ q.attempt \in 0..2
    BY DEF AskedFits, Asked!Part, Asked!MAX_RETRIES
  <2>3. PICK wait \in Nat : /\ wait = Asked(P, T, M)!backoff(q.attempt, after)
                            /\ after # NULL => wait = after
    BY <2>2, AskedBackoff
  <2>4. PICK named \in Nat : named = (IF after = NULL THEN 0 ELSE after) /\ named <= wait
    BY <2>3
  <2>5. r = [at |-> "waiting", attempt |-> q.attempt, answer |-> NULL, until |-> x4 + wait,
             told |-> x4 + named, kind |-> q.kind]
    BY <2>1, <2>2, <2>3, <2>4 DEF Asked!Part
  <2>6. x4 + wait \in Nat /\ x4 + named \in Nat /\ x4 + named <= x4 + wait
    BY <2>3, <2>4
  <2>7. r \in Asked(P, T, M)!Part
    BY <2>2, <2>5, <2>6 DEF Asked!Part
  <2>8. q.kind = NULL
    BY DEF AskedFits
  <2>9. r.at = "waiting" /\ r.kind = NULL /\ r.until \in Nat /\ r.told <= r.until /\ r.attempt < 2
    <3>1. r.at = "waiting" /\ r.kind = NULL /\ r.attempt = q.attempt
          /\ r.until = x4 + wait /\ r.told = x4 + named
      BY <2>5, <2>8
    <3> QED BY <2>1, <2>6, <3>1
  <2>10. AskedFits(P, T, M, r)
    BY <2>7, <2>9 DEF AskedFits
  <2> QED BY <1>1, <2>1, <2>9, <2>10
<1> QED BY <1>3, <1>4

(* The error of the report is that of a request that has failed.           *)
LEMMA AskedSettles ==
  ASSUME NEW P, NEW T \in SUBSET Nat, NEW M \in Nat,
         AskedInv(P, T, M), Asked(P, T, M)!Settle, \A p \in P : AskedFits(P, T, M, x2'[p])
  PROVE  /\ x5' \in Asked(P, T, M)!Kinds \cup {NULL, "ok"}
         /\ x5' = "ok" => x5 = "ok" \/ \A p \in P : x2'[p].at = "ok"
<1> USE NullAssumption
<1>1. CASE x5 # NULL
  BY <1>1 DEF Asked!Settle, AskedInv
<1>2. CASE x5 = NULL /\ \E p \in P : x2'[p].at = "failed"
  <2>1. PICK q \in P : x2'[q].at = "failed" /\ x5' = x2'[q].kind
    BY <1>2 DEF Asked!Settle
  <2>2. x5' \in Asked(P, T, M)!Kinds
    BY <2>1 DEF AskedFits, Asked!Part
  <2>3. "ok" \notin Asked(P, T, M)!Kinds
    BY DEF Asked!Kinds
  <2> QED BY <2>2, <2>3
<1>3. CASE x5 = NULL /\ ~\E p \in P : x2'[p].at = "failed"
  BY <1>3 DEF Asked!Settle
<1> QED BY <1>1, <1>2, <1>3

(* One request goes on, the others stay.                                   *)
LEMMA AskedGoesOn ==
  ASSUME NEW P, NEW T \in SUBSET Nat, NEW M \in Nat,
         AskedInv(P, T, M), NEW p \in P, NEW r, AskedFits(P, T, M, r),
         r.at # "unsent", x2[p].at # "unsent",
         x2' = [x2 EXCEPT ![p] = r], UNCHANGED <<x1, x3, x4>>,
         Asked(P, T, M)!Settle \/ (x5' = x5 /\ x2[p].at # "ok"),
         x3 => r.at # "waiting" /\ (r.at = "sent" => x2[p].at = "sent"),
         x2[p].at # "ok",
         x2[p].at = "waiting" /\ r.at = "sent" => x4 >= x2[p].told,
         (/\ x2[p].at = "reading"
          /\ x2[p].answer.status \in {"401", "403", "400", "400 not a valid dimension"})
           => r.at \in {"reading", "failed"}
  PROVE  AskedKept(P, T, M)
<1>1. /\ DOMAIN x2' = P /\ x2' = [q \in P |-> x2'[q]] /\ x2'[p] = r
      /\ \A q \in P : q # p => x2'[q] = x2[q]
  BY DEF AskedInv
<1>2. \A q \in P : AskedFits(P, T, M, x2'[q])
  BY <1>1 DEF AskedInv
<1>3. /\ x5' \in Asked(P, T, M)!Kinds \cup {NULL, "ok"}
      /\ x5' = "ok" => \A q \in P : x2'[q].at = "ok"
  BY <1>1, <1>2, AskedSettles DEF AskedInv
<1>4. \A q \in P : x3' => x2'[q].at \notin {"waiting", "unsent"}
  BY <1>1 DEF AskedInv
<1>5. \A q, s \in P : x2'[q].at = "unsent" => x2'[s].at = "unsent"
  BY <1>1 DEF AskedInv
<1>6. AskedInv(P, T, M)'
  BY <1>1, <1>2, <1>3, <1>4, <1>5 DEF AskedInv
<1>7. AskedCares(P, T, M)
  BY <1>1 DEF AskedCares, Asked!SilentAfterAbort, Asked!Patient, Asked!RefusalIsFinal
<1> QED BY <1>6, <1>7 DEF AskedKept

(* All requests of the report leave.                                       *)
LEMMA AskedStart ==
  ASSUME NEW P, NEW T \in SUBSET Nat, NEW M \in Nat,
         AskedInv(P, T, M), Asked(P, T, M)!Start
  PROVE  AskedKept(P, T, M)
<1>1. /\ \A p \in P : x2[p].at = "unsent" /\ AskedFits(P, T, M, x2[p])
      /\ UNCHANGED <<x1, x3, x4>> /\ \A p \in P : ~x3
      /\ DOMAIN x2' = P /\ x2' = [p \in P |-> x2'[p]]
  BY DEF Asked!Start, AskedInv
<1>2. ASSUME NEW p \in P PROVE AskedFits(P, T, M, x2'[p]) /\ x2'[p].at \in {"sent", "failed"}
  <2>1. CASE x1
    <3>1. PICK q : q = x2[p]
      OBVIOUS
    <3>2. x2'[p] = [q EXCEPT !.at = "sent"] /\ AskedFits(P, T, M, q) /\ q.at = "unsent"
      BY <1>1, <2>1, <3>1 DEF Asked!Start
    <3> QED BY <3>2 DEF AskedFits, Asked!Part
  <2>2. CASE ~x1
    <3>1. x2'[p] = Asked(P, T, M)!Fail(x2[p], "expired") /\ "expired" \in Asked(P, T, M)!Kinds
      BY <2>2 DEF Asked!Start, Asked!Kinds
    <3> QED BY <1>1, <3>1, AskedFailed
  <2> QED BY <2>1, <2>2
<1>3. /\ x5' \in Asked(P, T, M)!Kinds \cup {NULL, "ok"}
      /\ x5' = "ok" => \A p \in P : x2'[p].at = "ok"
  BY <1>2, AskedSettles, NullAssumption DEF Asked!Start
<1>4. AskedInv(P, T, M)'
  BY <1>1, <1>2, <1>3 DEF AskedInv
<1>5. AskedCares(P, T, M)
  BY <1>1 DEF AskedCares, Asked!SilentAfterAbort, Asked!Patient, Asked!RefusalIsFinal
<1> QED BY <1>4, <1>5 DEF AskedKept

(* An answer arrives, and its body is read.                                *)
LEMMA AskedAnswered ==
  ASSUME NEW P, NEW T \in SUBSET Nat, NEW M \in Nat,
         AskedInv(P, T, M), NEW p \in P, Asked(P, T, M)!Answered(p)
  PROVE  AskedKept(P, T, M)
<1>1. PICK answer \in Asked(P, T, M)!Answers :
        x2' = [x2 EXCEPT ![p].at = "reading", ![p].answer = answer]
  BY DEF Asked!Answered
<1> PICK q : q = x2[p]
  OBVIOUS
<1>2. AskedFits(P, T, M, q) /\ q.at = "sent" /\ UNCHANGED <<x1, x3, x4, x5>>
  BY <1>1 DEF Asked!Answered, AskedInv
<1>3. PICK r : r = [at |-> "reading", attempt |-> q.attempt, answer |-> answer, until |-> q.until,
                    told |-> q.told, kind |-> q.kind]
  OBVIOUS
<1>4. x2' = [x2 EXCEPT ![p] = r]
  <2>1. q = [at |-> q.at, attempt |-> q.attempt, answer |-> q.answer, until |-> q.until,
             told |-> q.told, kind |-> q.kind]
    BY <1>2 DEF AskedFits, Asked!Part
  <2>2. p \in DOMAIN x2
    BY DEF AskedInv
  <2> DEFINE s == [x2 EXCEPT ![p].at = "reading"]
  <2>3. x2' = [s EXCEPT ![p].answer = answer]
    BY <1>1
  <2>4. s[p] = [q EXCEPT !.at = "reading"] /\ s = [x2 EXCEPT ![p] = s[p]]
    BY <2>2
  <2> HIDE DEF s
  <2>5. PICK t : t = s[p]
    OBVIOUS
  <2>6. t = [at |-> "reading", attempt |-> q.attempt, answer |-> q.answer, until |-> q.until,
             told |-> q.told, kind |-> q.kind]
    BY <2>1, <2>4, <2>5
  <2>7. r = [t EXCEPT !.answer = answer]
    BY <1>3, <2>6
  <2> QED BY <2>2, <2>3, <2>4, <2>5, <2>7
<1>5. AskedFits(P, T, M, r) /\ r.at = "reading"
  BY <1>2, <1>3 DEF AskedFits, Asked!Part
<1> QED BY <1>1, <1>2, <1>4, <1>5, AskedGoesOn

(* A request fails on its way.                                             *)
LEMMA AskedSendFails ==
  ASSUME NEW P, NEW T \in SUBSET Nat, NEW M \in Nat,
         AskedInv(P, T, M), NEW p \in P, Asked(P, T, M)!SendFails(p)
  PROVE  AskedKept(P, T, M)
<1>1. PICK q, r : /\ q = x2[p]
                  /\ r = IF x3 THEN Asked(P, T, M)!Fail(q, "aborted")
                         ELSE Asked(P, T, M)!Retry(q, "network", NULL)
  OBVIOUS
<1>2. /\ AskedFits(P, T, M, q) /\ q.at = "sent" /\ UNCHANGED <<x1, x3, x4>> /\ Asked(P, T, M)!Settle
      /\ x2' = [x2 EXCEPT ![p] = r] /\ x4 \in 0..M
  BY <1>1 DEF Asked!SendFails, AskedInv
<1>3. "aborted" \in Asked(P, T, M)!Kinds /\ "network" \in Asked(P, T, M)!Kinds
  BY DEF Asked!Kinds
<1>4. AskedFits(P, T, M, r) /\ r.at \in {"failed", "waiting"} /\ (r.at = "waiting" => ~x3)
  BY <1>1, <1>2, <1>3, AskedFailed, AskedRetried
<1> QED BY <1>1, <1>2, <1>4, AskedGoesOn

(* Which errors an answer can be, and which of them are final.             *)
LEMMA AskedErrors ==
  ASSUME NEW P, NEW T \in SUBSET Nat, NEW M \in Nat,
         NEW status, NEW readable \in BOOLEAN
  PROVE  /\ Asked(P, T, M)!classifyResponseError(status, readable) \in Asked(P, T, M)!Kinds
         /\ status \in {"401", "403", "400", "400 not a valid dimension"}
              => ~Asked(P, T, M)!shouldRetry(Asked(P, T, M)!classifyResponseError(status, readable))
<1>1. CASE status = "401"
  BY <1>1 DEF Asked!classifyResponseError, Asked!Kinds, Asked!shouldRetry
<1>2. CASE status = "429" \/ (status = "403 RESOURCE_EXHAUSTED" /\ readable)
  BY <1>2 DEF Asked!classifyResponseError, Asked!Kinds, Asked!shouldRetry
<1>3. CASE status = "403" \/ (status = "403 RESOURCE_EXHAUSTED" /\ ~readable)
  BY <1>3 DEF Asked!classifyResponseError, Asked!Kinds, Asked!shouldRetry
<1>4. CASE status = "500"
  BY <1>4 DEF Asked!classifyResponseError, Asked!Kinds, Asked!shouldRetry
<1>5. CASE status = "400 not a valid dimension"
  BY <1>5 DEF Asked!classifyResponseError, Asked!Kinds, Asked!shouldRetry
<1>6. CASE status \notin {"401", "429", "403 RESOURCE_EXHAUSTED", "403", "500",
                          "400 not a valid dimension"}
  BY <1>6 DEF Asked!classifyResponseError, Asked!Kinds, Asked!shouldRetry
<1> QED BY <1>1, <1>2, <1>3, <1>4, <1>5, <1>6

(* The body has been read.                                                 *)
LEMMA AskedRead ==
  ASSUME NEW P, NEW T \in SUBSET Nat, NEW M \in Nat,
         AskedInv(P, T, M), NEW p \in P, Asked(P, T, M)!Read(p)
  PROVE  AskedKept(P, T, M)
<1>1. PICK q : q = x2[p]
  OBVIOUS
<1>2. /\ AskedFits(P, T, M, q) /\ q.at = "reading" /\ UNCHANGED <<x1, x3, x4>>
      /\ Asked(P, T, M)!Settle /\ x4 \in 0..M /\ x3 \in BOOLEAN
      /\ q.answer \in Asked(P, T, M)!Answers
  BY <1>1 DEF Asked!Read, AskedInv, AskedFits
<1>3. CASE q.answer.status \in {"200", "200 of another shape"}
  <2>1. PICK r : r = IF q.answer.status = "200" /\ ~x3 THEN [q EXCEPT !.at = "ok"]
                     ELSE Asked(P, T, M)!Fail(q, "invalid-response")
    OBVIOUS
  <2>2. x2' = [x2 EXCEPT ![p] = r]
    BY <1>1, <1>3, <2>1 DEF Asked!Read, Asked!fits
  <2>3. "invalid-response" \in Asked(P, T, M)!Kinds
    BY DEF Asked!Kinds
  <2>4. AskedFits(P, T, M, r) /\ r.at \in {"ok", "failed"}
    <3>1. CASE q.answer.status = "200" /\ ~x3
      <4>1. r = [at |-> "ok", attempt |-> q.attempt, answer |-> q.answer, until |-> q.until,
                 told |-> q.told, kind |-> q.kind]
        BY <1>2, <2>1, <3>1 DEF AskedFits, Asked!Part
      <4> QED BY <1>2, <3>1, <4>1 DEF AskedFits, Asked!Part
    <3>2. CASE ~(q.answer.status = "200" /\ ~x3)
      BY <1>2, <2>1, <2>3, <3>2, AskedFailed
    <3> QED BY <3>1, <3>2
  <2> QED BY <1>1, <1>2, <1>3, <2>2, <2>4, AskedGoesOn
<1>4. CASE q.answer.status \notin {"200", "200 of another shape"}
  <2>1. PICK kind, after, r :
          /\ kind = Asked(P, T, M)!classifyResponseError(q.answer.status, ~x3)
          /\ after = q.answer.retryAfter /\ r = Asked(P, T, M)!Retry(q, kind, after)
    OBVIOUS
  <2>2. x2' = [x2 EXCEPT ![p] = r]
    BY <1>1, <1>4, <2>1 DEF Asked!Read
  <2>3. after \in T \cup {NULL}
    BY <1>2, <2>1 DEF Asked!Answers
  <2>4. /\ kind \in Asked(P, T, M)!Kinds
        /\ q.answer.status \in {"401", "403", "400", "400 not a valid dimension"}
             => ~Asked(P, T, M)!shouldRetry(kind)
    BY <1>2, <2>1, AskedErrors
  <2>5. /\ AskedFits(P, T, M, r) /\ r.at \in {"failed", "waiting"}
        /\ r.at = "waiting" => ~x3 /\ Asked(P, T, M)!shouldRetry(kind)
    BY <1>2, <2>1, <2>3, <2>4, AskedRetried
  <2> QED BY <1>1, <1>2, <2>2, <2>4, <2>5, AskedGoesOn
<1> QED BY <1>3, <1>4 DEF AskedKept

(* The wait is over.                                                       *)
LEMMA AskedResend ==
  ASSUME NEW P, NEW T \in SUBSET Nat, NEW M \in Nat,
         AskedInv(P, T, M), NEW p \in P, Asked(P, T, M)!Resend(p)
  PROVE  AskedKept(P, T, M)
<1>1. PICK q : q = x2[p]
  OBVIOUS
<1>2. /\ AskedFits(P, T, M, q) /\ q.at = "waiting" /\ UNCHANGED <<x1, x3, x4, x5>> /\ x4 \in 0..M
      /\ x4 >= q.until /\ ~x3
  BY <1>1 DEF Asked!Resend, AskedInv
<1>3. PICK r : r = [at |-> "sent", attempt |-> q.attempt + 1, answer |-> q.answer, until |-> NULL,
                    told |-> q.told, kind |-> q.kind]
  OBVIOUS
<1>4. x2' = [x2 EXCEPT ![p] = r]
  <2>1. q = [at |-> q.at, attempt |-> q.attempt, answer |-> q.answer, until |-> q.until,
             told |-> q.told, kind |-> q.kind]
    BY <1>2 DEF AskedFits, Asked!Part
  <2>2. p \in DOMAIN x2
    BY DEF AskedInv
  <2>3. x2' = [x2 EXCEPT ![p].at = "sent", ![p].attempt = @ + 1, ![p].until = NULL]
    BY DEF Asked!Resend
  <2> DEFINE s == [x2 EXCEPT ![p].at = "sent"]
  <2> DEFINE u == [s EXCEPT ![p].attempt = @ + 1]
  <2>4. x2' = [u EXCEPT ![p].until = NULL]
    BY <2>3
  <2>5. s[p] = [q EXCEPT !.at = "sent"] /\ s = [x2 EXCEPT ![p] = s[p]]
    BY <1>1, <2>2
  <2> HIDE DEF s
  <2>6. u[p] = [s[p] EXCEPT !.attempt = @ + 1] /\ u = [x2 EXCEPT ![p] = u[p]]
    BY <2>2, <2>5
  <2> HIDE DEF u
  <2>7. PICK t, v : t = s[p] /\ v = u[p]
    OBVIOUS
  <2>8. t = [at |-> "sent", attempt |-> q.attempt, answer |-> q.answer, until |-> q.until,
             told |-> q.told, kind |-> q.kind]
    BY <2>1, <2>5, <2>7
  <2>9. v = [t EXCEPT !.attempt = @ + 1]
    BY <2>6, <2>7
  <2>10. v = [at |-> "sent", attempt |-> q.attempt + 1, answer |-> q.answer, until |-> q.until,
              told |-> q.told, kind |-> q.kind]
    BY <2>8, <2>9
  <2>11. r = [v EXCEPT !.until = NULL]
    BY <1>3, <2>10
  <2> QED BY <2>2, <2>4, <2>6, <2>7, <2>11
<1>5. AskedFits(P, T, M, r) /\ r.at = "sent"
  BY <1>2, <1>3 DEF AskedFits, Asked!Part, Asked!MAX_RETRIES
<1>6. x4 >= q.told
  BY <1>2 DEF AskedFits, Asked!Part
<1> QED BY <1>1, <1>2, <1>4, <1>5, <1>6, AskedGoesOn

(* The signal goes: whatever waits has failed.                             *)
LEMMA AskedAbort ==
  ASSUME NEW P, NEW T \in SUBSET Nat, NEW M \in Nat,
         AskedInv(P, T, M), Asked(P, T, M)!Abort
  PROVE  AskedKept(P, T, M)
<1>1. /\ UNCHANGED <<x1, x4>> /\ x3 = FALSE /\ x3' = TRUE
      /\ DOMAIN x2' = P /\ x2' = [p \in P |-> x2'[p]]
      /\ \A p \in P : x2'[p] = IF x2[p].at = "waiting" THEN Asked(P, T, M)!Fail(x2[p], "aborted")
                                ELSE x2[p]
  BY DEF Asked!Abort, Asked!onAbort, AskedInv
<1>2. "aborted" \in Asked(P, T, M)!Kinds
  BY DEF Asked!Kinds
<1>3. ASSUME NEW p \in P
      PROVE  /\ AskedFits(P, T, M, x2'[p]) /\ x2'[p].at \notin {"waiting", "unsent"}
             /\ x2'[p].at # x2[p].at => x2'[p].at = "failed" /\ x2[p].at = "waiting"
  <2>1. AskedFits(P, T, M, x2[p]) /\ x2[p].at # "unsent"
    BY DEF Asked!Abort, AskedInv
  <2>2. CASE x2[p].at = "waiting"
    BY <1>1, <1>2, <2>1, <2>2, AskedFailed
  <2>3. CASE x2[p].at # "waiting"
    <3>1. PICK q : q = x2[p]
      OBVIOUS
    <3>2. x2'[p] = q
      BY <1>1, <2>3, <3>1
    <3> QED BY <2>1, <2>3, <3>1, <3>2
  <2> QED BY <2>2, <2>3
<1>4. /\ x5' \in Asked(P, T, M)!Kinds \cup {NULL, "ok"}
      /\ x5' = "ok" => x5 = "ok" \/ \A p \in P : x2'[p].at = "ok"
  <2>1. Asked(P, T, M)!Settle /\ \A p \in P : AskedFits(P, T, M, x2'[p])
    BY <1>3 DEF Asked!Abort
  <2> QED BY <2>1, AskedSettles
<1>5. AskedInv(P, T, M)'
  BY <1>1, <1>3, <1>4 DEF AskedInv
<1>6. AskedCares(P, T, M)
  BY <1>1, <1>3 DEF AskedCares, Asked!SilentAfterAbort, Asked!Patient, Asked!RefusalIsFinal
<1> QED BY <1>5, <1>6 DEF AskedKept

(* Every step of a report keeps the invariant and takes care.              *)
LEMMA AskedKeeps ==
  ASSUME NEW P, NEW T \in SUBSET Nat, NEW M \in Nat,
         AskedInv(P, T, M), Asked(P, T, M)!Next
  PROVE  AskedKept(P, T, M)
<1>1. CASE Asked(P, T, M)!Tick
  <2>1. AskedInv(P, T, M)'
    BY <1>1 DEF Asked!Tick, AskedInv
  <2>2. AskedCares(P, T, M)
    BY <1>1 DEF Asked!Tick, AskedCares, Asked!SilentAfterAbort, Asked!Patient,
                Asked!RefusalIsFinal
  <2> QED BY <2>1, <2>2 DEF AskedKept
<1> QED BY <1>1, AskedStart, AskedAbort, AskedAnswered, AskedSendFails, AskedRead,
           AskedResend DEF Asked!Next

(* The report of one request is such a report.                             *)
LEMMA RequestIsAsked ==
  /\ Request!Init <=> Asked({p1}, {0, 5}, 20)!Init
  /\ Request!Next <=> Asked({p1}, {0, 5}, 20)!Next
  /\ Request!TypeOK <=> Asked({p1}, {0, 5}, 20)!TypeOK
  /\ Request!ReportIsWhole <=> Asked({p1}, {0, 5}, 20)!ReportIsWhole
  /\ Request!SilentAfterAbort <=> Asked({p1}, {0, 5}, 20)!SilentAfterAbort
  /\ Request!Patient <=> Asked({p1}, {0, 5}, 20)!Patient
  /\ Request!RefusalIsFinal <=> Asked({p1}, {0, 5}, 20)!RefusalIsFinal
<1>1. Request!Init <=> Asked({p1}, {0, 5}, 20)!Init
  BY Zenon DEF Request!Init, Asked!Init
<1>2. Request!Next <=> Asked({p1}, {0, 5}, 20)!Next
  BY Zenon DEF
       Request!Next, Request!Start, Request!Abort, Request!Tick, Request!Answered,
       Request!SendFails, Request!Read, Request!Resend, Request!Settle, Request!Fail,
       Request!Retry, Request!onAbort, Request!fits, Request!shouldRetry, Request!backoff,
       Request!classifyResponseError, Request!MAX_RETRIES, Request!Answers, Asked!Next,
       Asked!Start, Asked!Abort, Asked!Tick, Asked!Answered, Asked!SendFails, Asked!Read,
       Asked!Resend, Asked!Settle, Asked!Fail, Asked!Retry, Asked!onAbort, Asked!fits,
       Asked!shouldRetry, Asked!backoff, Asked!classifyResponseError, Asked!MAX_RETRIES,
       Asked!Answers
<1>3. Request!TypeOK <=> Asked({p1}, {0, 5}, 20)!TypeOK
  BY Zenon DEF
       Request!TypeOK, Request!Part, Request!Kinds, Request!Answers, Request!MAX_RETRIES,
       Asked!TypeOK, Asked!Part, Asked!Kinds, Asked!Answers, Asked!MAX_RETRIES
<1>4. /\ Request!ReportIsWhole <=> Asked({p1}, {0, 5}, 20)!ReportIsWhole
      /\ Request!SilentAfterAbort <=> Asked({p1}, {0, 5}, 20)!SilentAfterAbort
      /\ Request!Patient <=> Asked({p1}, {0, 5}, 20)!Patient
      /\ Request!RefusalIsFinal <=> Asked({p1}, {0, 5}, 20)!RefusalIsFinal
  BY Zenon DEF
       Request!ReportIsWhole, Request!SilentAfterAbort, Request!Patient,
       Request!RefusalIsFinal, Asked!ReportIsWhole, Asked!SilentAfterAbort, Asked!Patient,
       Asked!RefusalIsFinal
<1> QED BY <1>1, <1>2, <1>3, <1>4

(* So is the report of two.                                                *)
LEMMA RealtimeIsAsked ==
  /\ Realtime!Init <=> Asked({p1, p2}, {3}, 5)!Init
  /\ Realtime!Next <=> Asked({p1, p2}, {3}, 5)!Next
  /\ Realtime!TypeOK <=> Asked({p1, p2}, {3}, 5)!TypeOK
  /\ Realtime!ReportIsWhole <=> Asked({p1, p2}, {3}, 5)!ReportIsWhole
  /\ Realtime!SilentAfterAbort <=> Asked({p1, p2}, {3}, 5)!SilentAfterAbort
  /\ Realtime!Patient <=> Asked({p1, p2}, {3}, 5)!Patient
  /\ Realtime!RefusalIsFinal <=> Asked({p1, p2}, {3}, 5)!RefusalIsFinal
<1>1. Realtime!Init <=> Asked({p1, p2}, {3}, 5)!Init
  BY Zenon DEF Realtime!Init, Asked!Init
<1>2. Realtime!Next <=> Asked({p1, p2}, {3}, 5)!Next
  BY Zenon DEF
       Realtime!Next, Realtime!Start, Realtime!Abort, Realtime!Tick, Realtime!Answered,
       Realtime!SendFails, Realtime!Read, Realtime!Resend, Realtime!Settle, Realtime!Fail,
       Realtime!Retry, Realtime!onAbort, Realtime!fits, Realtime!shouldRetry,
       Realtime!backoff, Realtime!classifyResponseError, Realtime!MAX_RETRIES,
       Realtime!Answers, Asked!Next, Asked!Start, Asked!Abort, Asked!Tick, Asked!Answered,
       Asked!SendFails, Asked!Read, Asked!Resend, Asked!Settle, Asked!Fail, Asked!Retry,
       Asked!onAbort, Asked!fits, Asked!shouldRetry, Asked!backoff,
       Asked!classifyResponseError, Asked!MAX_RETRIES, Asked!Answers
<1>3. Realtime!TypeOK <=> Asked({p1, p2}, {3}, 5)!TypeOK
  BY Zenon DEF
       Realtime!TypeOK, Realtime!Part, Realtime!Kinds, Realtime!Answers, Realtime!MAX_RETRIES,
       Asked!TypeOK, Asked!Part, Asked!Kinds, Asked!Answers, Asked!MAX_RETRIES
<1>4. /\ Realtime!ReportIsWhole <=> Asked({p1, p2}, {3}, 5)!ReportIsWhole
      /\ Realtime!SilentAfterAbort <=> Asked({p1, p2}, {3}, 5)!SilentAfterAbort
      /\ Realtime!Patient <=> Asked({p1, p2}, {3}, 5)!Patient
      /\ Realtime!RefusalIsFinal <=> Asked({p1, p2}, {3}, 5)!RefusalIsFinal
  BY Zenon DEF
       Realtime!ReportIsWhole, Realtime!SilentAfterAbort, Realtime!Patient,
       Realtime!RefusalIsFinal, Asked!ReportIsWhole, Asked!SilentAfterAbort, Asked!Patient,
       Asked!RefusalIsFinal
<1> QED BY <1>1, <1>2, <1>3, <1>4

(* The invariant of the report of one request.                             *)
RequestInv == AskedInv({p1}, {0, 5}, 20)

(* The invariant of the report of two.                                     *)
RealtimeInv == AskedInv({p1, p2}, {3}, 5)

(* What a report does holds of the report of one request.                  *)
LEMMA RequestHolds ==
  /\ Request!Init => RequestInv
  /\ RequestInv /\ Request!Next =>
       RequestInv' /\ Request!SilentAfterAbort /\ Request!Patient /\ Request!RefusalIsFinal
  /\ RequestInv => Request!TypeOK /\ Request!ReportIsWhole
<1> {0, 5} \in SUBSET Nat /\ 20 \in Nat
  OBVIOUS
<1> USE RequestIsAsked DEF RequestInv
<1>1. Request!Init => RequestInv
  BY AskedStarts
<1>2. RequestInv /\ Request!Next =>
       RequestInv' /\ Request!SilentAfterAbort /\ Request!Patient /\ Request!RefusalIsFinal
  BY AskedKeeps DEF AskedKept, AskedCares
<1>3. RequestInv => Request!TypeOK /\ Request!ReportIsWhole
  BY AskedShows
<1> QED BY <1>1, <1>2, <1>3

(* And of that of two.                                                     *)
LEMMA RealtimeHolds ==
  /\ Realtime!Init => RealtimeInv
  /\ RealtimeInv /\ Realtime!Next => RealtimeInv' /\ Realtime!SilentAfterAbort
  /\ RealtimeInv => Realtime!TypeOK /\ Realtime!ReportIsWhole
<1> {3} \in SUBSET Nat /\ 5 \in Nat
  OBVIOUS
<1> USE RealtimeIsAsked DEF RealtimeInv
<1>1. Realtime!Init => RealtimeInv
  BY AskedStarts
<1>2. RealtimeInv /\ Realtime!Next => RealtimeInv' /\ Realtime!SilentAfterAbort
  BY AskedKeeps DEF AskedKept, AskedCares
<1>3. RealtimeInv => Realtime!TypeOK /\ Realtime!ReportIsWhole
  BY AskedShows
<1> QED BY <1>1, <1>2, <1>3


-----------------------------------------------------------------------------
(* The banner q speaks of the property and the pool of the choice c.       *)
DashboardQuota(q, c) ==
  q # NULL => /\ q.property = c.property
              /\ Dashboard!VIEW_POOLS[q.view] = Dashboard!VIEW_POOLS[c.view]

(* Filters are set only where their dimensions are registered.             *)
DashboardFilters(c) ==
  (c.platforms => c.property = app) /\ (c.accountType # "all" => c.property = app)

(* What a choice of the operator disturbs. *)
DashboardShows ==
  /\ x1 \in [generation : 0..1, connected : BOOLEAN]
  /\ x2 \in Dashboard!Choice /\ DashboardFilters(x2)
  /\ x3 \in Dashboard!Choice \cup {NULL} /\ DashboardQuota(x3, x2)
  /\ x4 \subseteq {Dashboard!VIEW_POOLS[v] : v \in Dashboard!Views}
  /\ \A pool \in x4 : <<x2.property, pool>> \in x10
  /\ x6 \subseteq Dashboard!Choice
  /\ x7 \subseteq [key : Dashboard!Choice, kind : {"quota", "other"}]
  /\ \A f \in x7 : f.kind = "quota" =>
       <<f.key.property, Dashboard!VIEW_POOLS[f.key.view]>> \in x10
  /\ x8 \in BOOLEAN /\ (x8 => x1.connected)
  /\ x9 \in Dashboard!Choice \cup {NULL}
  /\ x9 # NULL => Dashboard!SameView(x9, x2)

(* What is known of the capabilities of each property.                     *)
DashboardCaps ==
  /\ x5 \in [{app, web} -> {"pending", "available", "unavailable", "unknown"}]
  /\ \A p \in {app, web} : x5[p] = "available" => p = app

(* The invariant of the dashboard.                                         *)
DashboardInv ==
  DashboardShows /\ DashboardCaps /\ x11 \in 0..2 /\ x12 \in 0..1

(* The key of a report is of the property, view and range that are chosen. *)
LEMMA DashboardKey ==
  ASSUME NEW c \in Dashboard!Choice
  PROVE  /\ Dashboard!report(c) \in Dashboard!Choice
         /\ Dashboard!report(c).property = c.property
         /\ Dashboard!report(c).view = c.view
         /\ Dashboard!report(c).range = c.range
<1>1. PICK b \in BOOLEAN : b <=> ((c.view = "funnel") /\ c.variant)
  OBVIOUS
<1>2. b = ((c.view = "funnel") /\ c.variant)
  BY <1>1
<1>3. PICK k : k = Dashboard!report(c)
  OBVIOUS
<1>4. k = [c EXCEPT !.variant = b]
  BY <1>2, <1>3, Zenon DEF Dashboard!report
<1>5. /\ k \in Dashboard!Choice /\ k.property = c.property /\ k.view = c.view
      /\ k.range = c.range
  BY <1>4 DEF Dashboard!Choice
<1> QED BY <1>3, <1>5

(* It says what the run checks.                                            *)
LEMMA DashboardIsOwn ==
  DashboardInv =>
    /\ Dashboard!TypeOK /\ Dashboard!ShownIsChosen /\ Dashboard!BannerIsOfItsPool
    /\ Dashboard!ClosedByRefusal /\ Dashboard!FiltersFit
<1> SUFFICES ASSUME DashboardInv
             PROVE  /\ Dashboard!TypeOK /\ Dashboard!ShownIsChosen /\ Dashboard!BannerIsOfItsPool
                    /\ Dashboard!ClosedByRefusal /\ Dashboard!FiltersFit
  OBVIOUS
<1>1. Dashboard!TypeOK
  BY DEF DashboardInv, DashboardShows, DashboardCaps, Dashboard!TypeOK
<1>2. Dashboard!ShownIsChosen
  <2> SUFFICES ASSUME Dashboard!Shown # NULL
               PROVE  /\ Dashboard!Shown.property = x2.property /\ Dashboard!Shown.view = x2.view
                      /\ Dashboard!Shown.range = x2.range
    BY DEF Dashboard!ShownIsChosen
  <2>1. Dashboard!Shown = Dashboard!Key \/ Dashboard!Shown = x9
    BY DEF Dashboard!Shown
  <2>2. CASE Dashboard!Shown = Dashboard!Key
    BY <2>2, DashboardKey DEF Dashboard!Key, DashboardInv, DashboardShows
  <2>3. CASE Dashboard!Shown = x9
    BY <2>3 DEF DashboardInv, DashboardShows, Dashboard!SameView
  <2> QED BY <2>1, <2>2, <2>3
<1>3. Dashboard!BannerIsOfItsPool
  BY DEF DashboardInv, DashboardShows, DashboardQuota, Dashboard!BannerIsOfItsPool
<1>4. Dashboard!ClosedByRefusal
  BY DEF DashboardInv, DashboardShows, Dashboard!ClosedByRefusal
<1>5. Dashboard!FiltersFit
  BY DEF DashboardInv, DashboardShows, DashboardFilters, Dashboard!FiltersFit
<1> QED BY <1>1, <1>2, <1>3, <1>4, <1>5

(* It holds at the start.                                                  *)
LEMMA DashboardStarts == Dashboard!Init => DashboardInv
<1> SUFFICES ASSUME Dashboard!Init PROVE DashboardInv
  OBVIOUS
<1>1. x2 \in Dashboard!Choice /\ DashboardFilters(x2)
  <2>1. FALSE \in BOOLEAN
    OBVIOUS
  <2> QED BY <2>1 DEF Dashboard!Init, Dashboard!Choice, Dashboard!Views, Dashboard!Ranges,
                      DashboardFilters
<1>2. DashboardShows
  <2>1. x1.connected \in BOOLEAN /\ x1 \in [generation : 0..1, connected : BOOLEAN]
    <3>1. FALSE \in BOOLEAN
      OBVIOUS
    <3> QED BY <3>1 DEF Dashboard!Init
  <2>2. x3 = NULL /\ x4 = {} /\ x6 = {} /\ x7 = {} /\ x8 = FALSE /\ x9 = NULL
    BY DEF Dashboard!Init
  <2> QED BY <1>1, <2>1, <2>2 DEF DashboardShows, DashboardQuota
<1>3. DashboardCaps /\ x11 \in 0..2 /\ x12 \in 0..1
  BY DEF Dashboard!Init, DashboardCaps
<1> QED BY <1>2, <1>3 DEF DashboardInv

(* The screen looks at another report. *)
LEMMA DashboardObserves ==
  ASSUME DashboardShows, NEW c \in Dashboard!Choice, NEW q \in Dashboard!Choice \cup {NULL},
         NEW pools \in SUBSET {Dashboard!VIEW_POOLS[v] : v \in Dashboard!Views},
         Dashboard!Observe(c, q, pools), UNCHANGED <<x1, x6, x10>>, x1.connected,
         DashboardFilters(c), DashboardQuota(q, c),
         \A pool \in pools : <<c.property, pool>> \in x10
  PROVE  DashboardShows'
<1>1. PICK k \in Dashboard!Choice :
        /\ k = Dashboard!report(c)
        /\ k.property = c.property /\ k.view = c.view /\ k.range = c.range
  BY DashboardKey
<1>2. /\ x2' = c /\ x8' \in BOOLEAN
      /\ x7' = {f \in x7 : f.key # k \/ k \in x6}
      /\ x3' = (IF k \in x6 THEN k ELSE q)
      /\ x4' = pools \cup {Dashboard!VIEW_POOLS[k.view] :
                             f \in {g \in x7' : g.key = k /\ g.kind = "quota"}}
      /\ x9' = IF k \in x6 THEN k ELSE IF Dashboard!SameView(c, x2) THEN x9 ELSE NULL
  <2>1. x8' \in (IF k \in x6 THEN BOOLEAN ELSE {TRUE})
    BY <1>1 DEF Dashboard!Observe
  <2>2. x8' \in BOOLEAN
    BY <2>1
  <2> QED BY <1>1, <2>2, Zenon DEF Dashboard!Observe
<1>3. /\ x3' \in Dashboard!Choice \cup {NULL} /\ DashboardQuota(x3', x2')
  BY <1>1, <1>2 DEF DashboardQuota
<1>4. \A f \in x7' : f \in x7
  BY <1>2
<1>5. /\ x4' \subseteq {Dashboard!VIEW_POOLS[v] : v \in Dashboard!Views}
      /\ \A pool \in x4' : <<x2'.property, pool>> \in x10'
  <2>1. k.view \in Dashboard!Views
    BY DEF Dashboard!Choice
  <2>2. ASSUME NEW f \in x7', f.key = k, f.kind = "quota"
        PROVE  <<c.property, Dashboard!VIEW_POOLS[k.view]>> \in x10
    BY <1>1, <1>4, <2>2 DEF DashboardShows
  <2> QED BY <1>2, <2>1, <2>2
<1>6. x9' \in Dashboard!Choice \cup {NULL} /\ (x9' # NULL => Dashboard!SameView(x9', x2'))
  BY <1>1, <1>2 DEF DashboardShows, Dashboard!SameView
<1>7. \A f \in x7' : f.kind = "quota" =>
        <<f.key.property, Dashboard!VIEW_POOLS[f.key.view]>> \in x10'
  BY <1>4 DEF DashboardShows
<1>8. x7' \subseteq [key : Dashboard!Choice, kind : {"quota", "other"}]
  BY <1>4 DEF DashboardShows
<1> QED BY <1>2, <1>3, <1>5, <1>6, <1>7, <1>8 DEF DashboardShows

(* A choice c of the operator with what Observe is given for it. *)
LEMMA DashboardChosen ==
  ASSUME DashboardInv, NEW c \in Dashboard!Choice, NEW q \in Dashboard!Choice \cup {NULL},
         NEW pools \in SUBSET {Dashboard!VIEW_POOLS[v] : v \in Dashboard!Views},
         Dashboard!Observe(c, q, pools), UNCHANGED <<x1, x6, x10, x12>>, Dashboard!Chooses,
         DashboardFilters(c), DashboardQuota(q, c),
         \A pool \in pools : <<c.property, pool>> \in x10,
         DashboardCaps'
  PROVE  DashboardInv'
<1>1. DashboardShows'
  BY DashboardObserves DEF DashboardInv, Dashboard!Chooses
<1>2. x11' \in 0..2 /\ x12' \in 0..1
  BY DEF DashboardInv, Dashboard!Chooses
<1> QED BY <1>1, <1>2 DEF DashboardInv

(* Capabilities that do not change stay known.                             *)
LEMMA DashboardCapsStay == ASSUME DashboardInv, x5' = x5 PROVE DashboardCaps'
  BY DEF DashboardInv, DashboardCaps

(* Another property: its own pools, and the filters it has.                *)
LEMMA DashboardProperty ==
  ASSUME DashboardInv, NEW p \in {app, web}, Dashboard!selectProperty(p) PROVE DashboardInv'
<1>1. PICK c : c = [x2 EXCEPT !.property = p, !.platforms = FALSE, !.accountType = "all",
                              !.variant = FALSE]
  OBVIOUS
<1>2. x2 \in Dashboard!Choice
  BY DEF DashboardInv, DashboardShows
<1>3. c = [property |-> p, view |-> x2.view, range |-> x2.range, platforms |-> FALSE,
           accountType |-> "all", variant |-> FALSE]
  BY <1>1, <1>2 DEF Dashboard!Choice
<1>4. c \in Dashboard!Choice /\ DashboardFilters(c)
  <2>1. FALSE \in BOOLEAN
    OBVIOUS
  <2> QED BY <1>2, <1>3, <2>1 DEF Dashboard!Choice, DashboardFilters
<1>5. DashboardCaps'
  BY DEF Dashboard!selectProperty, DashboardInv, DashboardCaps
<1>6. Dashboard!Observe(c, NULL, {}) /\ Dashboard!Chooses /\ UNCHANGED <<x1, x6, x10, x12>>
  BY <1>1 DEF Dashboard!selectProperty
<1>7. DashboardQuota(NULL, c)
  BY DEF DashboardQuota
<1> QED BY <1>4, <1>5, <1>6, <1>7, DashboardChosen

(* Another view.                                                           *)
LEMMA DashboardView ==
  ASSUME DashboardInv, NEW v \in Dashboard!Views, Dashboard!selectView(v) PROVE DashboardInv'
<1>1. PICK c : c = [x2 EXCEPT !.view = v]
  OBVIOUS
<1>2. c \in Dashboard!Choice /\ DashboardFilters(c) /\ c.property = x2.property
  BY <1>1 DEF DashboardInv, DashboardShows, Dashboard!Choice, DashboardFilters
<1>3. /\ Dashboard!Observe(c, NULL, x4) /\ Dashboard!Chooses
      /\ UNCHANGED <<x1, x5, x6, x10, x12>>
  BY <1>1 DEF Dashboard!selectView
<1>4. DashboardQuota(NULL, c)
  BY DEF DashboardQuota
<1>5. /\ x4 \in SUBSET {Dashboard!VIEW_POOLS[w] : w \in Dashboard!Views}
      /\ \A pool \in x4 : <<c.property, pool>> \in x10
  BY <1>2 DEF DashboardInv, DashboardShows
<1> QED BY <1>2, <1>3, <1>4, <1>5, DashboardCapsStay, DashboardChosen

(* A choice within the property and the view keeps reading and closed tabs. *)
LEMMA DashboardWithin ==
  ASSUME DashboardInv, NEW c \in Dashboard!Choice, DashboardFilters(c),
         c.property = x2.property, c.view = x2.view, Dashboard!Observe(c, x3, x4),
         Dashboard!Chooses, UNCHANGED <<x1, x5, x6, x10, x12>>
  PROVE  DashboardInv'
<1>1. /\ x4 \in SUBSET {Dashboard!VIEW_POOLS[w] : w \in Dashboard!Views}
      /\ \A pool \in x4 : <<c.property, pool>> \in x10
      /\ x3 \in Dashboard!Choice \cup {NULL} /\ DashboardQuota(x3, c)
  BY DEF DashboardInv, DashboardShows, DashboardQuota
<1> QED BY <1>1, DashboardCapsStay, DashboardChosen

(* Another range of days.                                                  *)
LEMMA DashboardRange ==
  ASSUME DashboardInv, NEW r \in Dashboard!Ranges, Dashboard!setRange(r) PROVE DashboardInv'
<1>1. PICK c : c = [x2 EXCEPT !.range = r]
  OBVIOUS
<1>2. /\ c \in Dashboard!Choice /\ DashboardFilters(c) /\ c.property = x2.property
      /\ c.view = x2.view
  BY <1>1 DEF DashboardInv, DashboardShows, Dashboard!Choice, DashboardFilters
<1>3. /\ Dashboard!Observe(c, x3, x4) /\ Dashboard!Chooses
      /\ UNCHANGED <<x1, x5, x6, x10, x12>>
  BY <1>1 DEF Dashboard!setRange
<1> QED BY <1>2, <1>3, DashboardWithin

(* The filters.                                                            *)
LEMMA DashboardFilterBar ==
  ASSUME DashboardInv, Dashboard!setFilters PROVE DashboardInv'
<1>1. /\ Dashboard!Chooses /\ UNCHANGED <<x1, x5, x6, x10, x12>>
      /\ x2 \in Dashboard!Choice /\ DashboardFilters(x2)
  BY DEF Dashboard!setFilters, DashboardInv, DashboardShows
<1>2. CASE x2.property = app /\ Dashboard!Observe([x2 EXCEPT !.platforms = ~@], x3, x4)
  <2>1. PICK b \in BOOLEAN : b <=> ~x2.platforms
    OBVIOUS
  <2>2. b = ~x2.platforms
    <3>1. x2.platforms \in BOOLEAN
      BY <1>1 DEF Dashboard!Choice
    <3> QED BY <2>1, <3>1
  <2>3. PICK c : c = [x2 EXCEPT !.platforms = b]
    OBVIOUS
  <2>4. c = [x2 EXCEPT !.platforms = ~@]
    BY <2>2, <2>3
  <2>5. /\ c \in Dashboard!Choice /\ DashboardFilters(c) /\ c.property = x2.property
        /\ c.view = x2.view
    BY <1>1, <1>2, <2>1, <2>3 DEF Dashboard!Choice, DashboardFilters
  <2> QED BY <1>1, <1>2, <2>4, <2>5, DashboardWithin
<1>3. CASE /\ x5[x2.property] = "available"
           /\ Dashboard!Observe([x2 EXCEPT !.accountType = IF @ = "all" THEN "consumer" ELSE "all"],
                                x3, x4)
  <2>1. PICK a \in {"all", "consumer"} :
          a = IF x2.accountType = "all" THEN "consumer" ELSE "all"
    OBVIOUS
  <2>2. PICK c : c = [x2 EXCEPT !.accountType = a]
    OBVIOUS
  <2>3. Dashboard!Observe(c, x3, x4)
    BY <1>3, <2>1, <2>2
  <2>4. x2.property = app
    BY <1>1, <1>3 DEF DashboardInv, DashboardCaps, Dashboard!Choice
  <2>5. /\ c \in Dashboard!Choice /\ DashboardFilters(c) /\ c.property = x2.property
        /\ c.view = x2.view
    BY <1>1, <2>1, <2>2, <2>4 DEF Dashboard!Choice, DashboardFilters
  <2> QED BY <1>1, <2>3, <2>5, DashboardWithin
<1>4. CASE Dashboard!Observe([x2 EXCEPT !.platforms = FALSE, !.accountType = "all"], x3, x4)
  <2>1. PICK c : c = [x2 EXCEPT !.platforms = FALSE, !.accountType = "all"]
    OBVIOUS
  <2>2. c = [property |-> x2.property, view |-> x2.view, range |-> x2.range, platforms |-> FALSE,
             accountType |-> "all", variant |-> x2.variant]
    BY <1>1, <2>1 DEF Dashboard!Choice
  <2>3. FALSE \in BOOLEAN
    OBVIOUS
  <2>4. /\ c \in Dashboard!Choice /\ DashboardFilters(c) /\ c.property = x2.property
        /\ c.view = x2.view
    BY <1>1, <2>2, <2>3 DEF Dashboard!Choice, DashboardFilters
  <2> QED BY <1>1, <1>4, <2>1, <2>4, DashboardWithin
<1> QED BY <1>2, <1>3, <1>4 DEF Dashboard!setFilters

(* The funnel and its variant.                                             *)
LEMMA DashboardFunnel ==
  ASSUME DashboardInv, Dashboard!setFunnel PROVE DashboardInv'
<1>1. /\ Dashboard!Chooses /\ UNCHANGED <<x1, x5, x6, x10, x12>>
      /\ x2 \in Dashboard!Choice /\ DashboardFilters(x2)
      /\ Dashboard!Observe([x2 EXCEPT !.variant = ~@], x3, x4)
  BY DEF Dashboard!setFunnel, DashboardInv, DashboardShows
<1>2. PICK b \in BOOLEAN : b <=> ~x2.variant
  OBVIOUS
<1>3. b = ~x2.variant
  <2>1. x2.variant \in BOOLEAN
    BY <1>1 DEF Dashboard!Choice
  <2> QED BY <1>2, <2>1
<1>4. PICK c : c = [x2 EXCEPT !.variant = b]
  OBVIOUS
<1>5. c = [x2 EXCEPT !.variant = ~@]
  BY <1>3, <1>4
<1>6. /\ c \in Dashboard!Choice /\ DashboardFilters(c) /\ c.property = x2.property
      /\ c.view = x2.view
  BY <1>1, <1>4 DEF Dashboard!Choice, DashboardFilters
<1> QED BY <1>1, <1>5, <1>6, DashboardWithin

(* What Google answers, and a report that is asked for again. *)
LEMMA DashboardAnswered ==
  ASSUME DashboardInv, Dashboard!Refetch \/ Dashboard!Answer PROVE DashboardInv'
<1>1. PICK k \in Dashboard!Choice :
        /\ k = Dashboard!Key
        /\ k.property = x2.property /\ k.view = x2.view /\ k.range = x2.range
  BY DashboardKey DEF Dashboard!Key, DashboardInv, DashboardShows
<1>2. CASE Dashboard!Refetch
  <2>1. DashboardShows'
    BY <1>2 DEF Dashboard!Refetch, DashboardInv, DashboardShows
  <2> QED BY <1>2, <2>1, DashboardCapsStay DEF Dashboard!Refetch, DashboardInv
<1>3. CASE Dashboard!fetchAnalyticsReport
  <2>1. /\ UNCHANGED <<x1, x2, x4, x5, x10, x11, x12>> /\ x8' = FALSE
        /\ x6' = x6 \cup {k} /\ x7' = {f \in x7 : f.key # k} /\ x3' = k /\ x9' = k
    BY <1>1, <1>3 DEF Dashboard!fetchAnalyticsReport
  <2>2. DashboardQuota(x3', x2') /\ Dashboard!SameView(x9', x2')
    BY <1>1, <2>1 DEF DashboardQuota, Dashboard!SameView
  <2>3. DashboardShows'
    BY <1>1, <2>1, <2>2 DEF DashboardInv, DashboardShows
  <2> QED BY <2>1, <2>3, DashboardCapsStay DEF DashboardInv
<1>4. CASE Dashboard!handleQuotaError
  <2>1. /\ UNCHANGED <<x1, x2, x3, x5, x6, x9, x11, x12>> /\ x8' = FALSE
        /\ x7' = {f \in x7 : f.key # k} \cup {[key |-> k, kind |-> "quota"]}
        /\ x4' = x4 \cup {Dashboard!VIEW_POOLS[x2.view]}
        /\ x10' = x10 \cup {<<x2.property, Dashboard!VIEW_POOLS[x2.view]>>}
    BY <1>1, <1>4 DEF Dashboard!handleQuotaError
  <2>2. /\ x4' \subseteq {Dashboard!VIEW_POOLS[v] : v \in Dashboard!Views}
        /\ \A pool \in x4' : <<x2'.property, pool>> \in x10'
    <3>1. x2.view \in Dashboard!Views
      BY DEF DashboardInv, DashboardShows, Dashboard!Choice
    <3> QED BY <2>1, <3>1 DEF DashboardInv, DashboardShows
  <2>3. \A f \in x7' : /\ f \in [key : Dashboard!Choice, kind : {"quota", "other"}]
                       /\ f.kind = "quota" =>
                            <<f.key.property, Dashboard!VIEW_POOLS[f.key.view]>> \in x10'
    BY <1>1, <2>1 DEF DashboardInv, DashboardShows
  <2>4. DashboardShows'
    BY <2>1, <2>2, <2>3 DEF DashboardInv, DashboardShows
  <2> QED BY <2>1, <2>4, DashboardCapsStay DEF DashboardInv
<1>5. CASE Dashboard!ReportFails
  <2>1. /\ UNCHANGED <<x1, x2, x3, x4, x5, x6, x9, x10, x11, x12>> /\ x8' = FALSE
        /\ x7' = {f \in x7 : f.key # k} \cup {[key |-> k, kind |-> "other"]}
    BY <1>1, <1>5 DEF Dashboard!ReportFails
  <2>2. \A f \in x7' : /\ f \in [key : Dashboard!Choice, kind : {"quota", "other"}]
                       /\ f.kind = "quota" =>
                            <<f.key.property, Dashboard!VIEW_POOLS[f.key.view]>> \in x10'
    BY <1>1, <2>1 DEF DashboardInv, DashboardShows
  <2>3. DashboardShows'
    BY <2>1, <2>2 DEF DashboardInv, DashboardShows
  <2> QED BY <2>1, <2>3, DashboardCapsStay DEF DashboardInv
<1> QED BY <1>2, <1>3, <1>4, <1>5 DEF Dashboard!Answer

(* The capabilities, the cache and the grant. *)
LEMMA DashboardRest ==
  ASSUME DashboardInv, \/ Dashboard!fetchAnalyticsCapabilities \/ Dashboard!CacheForgets
                       \/ Dashboard!Disconnect \/ Dashboard!Connect
  PROVE  DashboardInv'
<1>1. CASE Dashboard!fetchAnalyticsCapabilities
  <2>1. UNCHANGED <<x1, x2, x3, x4, x6, x7, x8, x9, x10, x11, x12>>
    BY <1>1 DEF Dashboard!fetchAnalyticsCapabilities, Dashboard!queryVars
  <2>2. DashboardCaps'
    BY <1>1 DEF Dashboard!fetchAnalyticsCapabilities, DashboardInv, DashboardCaps
  <2>3. DashboardShows'
    BY <2>1 DEF DashboardInv, DashboardShows
  <2> QED BY <2>1, <2>2, <2>3 DEF DashboardInv
<1>2. CASE Dashboard!CacheForgets
  <2>1. /\ UNCHANGED <<x1, x2, x3, x4, x5, x8, x9, x10, x11, x12>>
        /\ x6' \subseteq x6 /\ x7' \subseteq x7
    BY <1>2 DEF Dashboard!CacheForgets
  <2>2. DashboardShows'
    BY <2>1 DEF DashboardInv, DashboardShows
  <2> QED BY <2>1, <2>2, DashboardCapsStay DEF DashboardInv
<1>3. CASE Dashboard!Disconnect
  <2>1. /\ UNCHANGED <<x2, x3, x4, x10, x11, x12>>
        /\ x6' = {} /\ x7' = {} /\ x8' = FALSE /\ x9' = NULL
        /\ x5' = [p \in {app, web} |-> "pending"]
    BY <1>3 DEF Dashboard!Disconnect
  <2>2. x1' \in [generation : 0..1, connected : BOOLEAN]
    <3>1. FALSE \in BOOLEAN
      OBVIOUS
    <3> QED BY <1>3, <3>1 DEF Dashboard!Disconnect, DashboardInv, DashboardShows
  <2>3. DashboardShows'
    BY <2>1, <2>2 DEF DashboardInv, DashboardShows
  <2>4. DashboardCaps'
    BY <2>1 DEF DashboardCaps
  <2> QED BY <2>1, <2>3, <2>4 DEF DashboardInv
<1>4. CASE Dashboard!Connect
  <2>1. UNCHANGED <<x2, x3, x4, x5, x6, x7, x9, x10, x11, x12>> /\ x8' = TRUE
    BY <1>4 DEF Dashboard!Connect
  <2>2. x1' \in [generation : 0..1, connected : BOOLEAN] /\ x1'.connected
    <3>1. TRUE \in BOOLEAN
      OBVIOUS
    <3> QED BY <1>4, <3>1 DEF Dashboard!Connect, DashboardInv, DashboardShows
  <2>3. DashboardShows'
    BY <2>1, <2>2 DEF DashboardInv, DashboardShows
  <2> QED BY <2>1, <2>3, DashboardCapsStay DEF DashboardInv
<1> QED BY <1>1, <1>2, <1>3, <1>4

(* Every step of the dashboard keeps the invariant.                        *)
LEMMA DashboardKeeps == DashboardInv /\ Dashboard!Next => DashboardInv'
  BY DashboardProperty, DashboardView, DashboardRange, DashboardFilterBar, DashboardFunnel,
     DashboardAnswered, DashboardRest DEF Dashboard!Next


-----------------------------------------------------------------------------
(* The grant of the panel, and whether it may be used.                     *)
PanelGrant == x1 \in [generation : 0..2, status : {"disconnected", "connected", "expired"}]
                /\ x2 \in BOOLEAN

(* A request is under way only on a screen that has a grant. *)
PanelScreen ==
  /\ x3 \in Panel!Choice \cup {NULL}
  /\ x4 \subseteq Panel!Flow /\ x5 \subseteq [key : Panel!Flow, kind : {"expired", "other"}]
  /\ x6 \in [flow : Panel!Flow, asked : BOOLEAN] \cup {NULL}
  /\ (x6 # NULL => (x3 # NULL /\ x1.status = "connected"))
  /\ x3 # NULL /\ x1.status # "connected" => x4 = {} /\ x5 = {}

(* The invariant of the panel of behaviour.                                *)
PanelInv == PanelGrant /\ PanelScreen /\ x7 \in 0..5

(* It says what the run checks.                                            *)
LEMMA PanelIsOwn == PanelInv => Panel!TypeOK /\ Panel!OwnFlow /\ Panel!NothingKept
<1> SUFFICES ASSUME PanelInv PROVE Panel!TypeOK /\ Panel!OwnFlow /\ Panel!NothingKept
  OBVIOUS
<1>1. Panel!TypeOK
  BY DEF PanelInv, PanelGrant, PanelScreen, Panel!TypeOK
<1>2. Panel!OwnFlow
  <2> SUFFICES ASSUME NEW f \in Panel!Shown
               PROVE  f.choice = x3 /\ f.generation = x1.generation
    BY DEF Panel!OwnFlow
  <2>1. [generation |-> f.generation, choice |-> f.choice]
          = [generation |-> x1.generation, choice |-> x3]
    BY DEF Panel!Shown, Panel!Key, Panel!userBehavior
  <2> QED BY <2>1
<1>3. Panel!NothingKept
  BY DEF PanelInv, PanelScreen, Panel!NothingKept, Panel!connected
<1> QED BY <1>1, <1>2, <1>3

(* It holds at the start.                                                  *)
LEMMA PanelStarts == Panel!Init => PanelInv
<1> SUFFICES ASSUME Panel!Init PROVE PanelInv
  OBVIOUS
<1>1. PanelGrant
  <2>1. x2 \in BOOLEAN
    BY DEF Panel!Init
  <2>2. x1 \in [generation : 0..2, status : {"disconnected", "connected", "expired"}]
    BY DEF Panel!Init
  <2> QED BY <2>1, <2>2 DEF PanelGrant
<1>2. PanelScreen /\ x7 \in 0..5
  BY DEF Panel!Init, PanelScreen
<1> QED BY <1>1, <1>2 DEF PanelInv

(* The flow of a choice, and the request for it. *)
LEMMA PanelFlow ==
  ASSUME NEW n \in 0..2, NEW c \in Panel!Choice, NEW t \in BOOLEAN
  PROVE  /\ Panel!userBehavior(n, c) \in Panel!Flow
         /\ Panel!Request(n, c, t) \in [flow : Panel!Flow, asked : BOOLEAN]
<1>1. PICK f : f = [generation |-> n, choice |-> c]
  OBVIOUS
<1>2. f \in Panel!Flow
  BY <1>1 DEF Panel!Flow
<1>3. Panel!userBehavior(n, c) = f
  BY <1>1 DEF Panel!userBehavior
<1>4. Panel!Request(n, c, t) = [flow |-> f, asked |-> t]
  BY <1>1 DEF Panel!Request
<1> QED BY <1>2, <1>3, <1>4

(* A panel with a grant looks at a choice. *)
LEMMA PanelObserves ==
  ASSUME PanelInv, NEW c \in Panel!Choice, Panel!connected, Panel!Observe(c), Panel!Steps,
         UNCHANGED <<x1, x2, x4>>
  PROVE  PanelInv'
<1>1. Panel!Request(x1.generation, c, x2) \in [flow : Panel!Flow, asked : BOOLEAN]
  BY PanelFlow DEF PanelInv, PanelGrant
<1>2. x6' = Panel!Request(x1.generation, c, x2) \/ x6' = NULL
  BY DEF Panel!Observe
<1>3. x3' = c /\ x5' \subseteq x5
  BY DEF Panel!Observe
<1>4. c # NULL
  BY NullAssumption
<1>5. PanelScreen'
  BY <1>1, <1>2, <1>3, <1>4 DEF PanelInv, PanelScreen, Panel!connected
<1>6. PanelGrant' /\ x7' \in 0..5
  BY DEF PanelInv, PanelGrant, Panel!Steps
<1> QED BY <1>5, <1>6 DEF PanelInv

(* The panel opens, for a user.                                            *)
LEMMA PanelOpens ==
  ASSUME PanelInv, NEW u \in {u1, u2}, Panel!Open(u) PROVE PanelInv'
<1>1. PICK c : c = [user |-> u, property |-> app, range |-> "7d"]
  OBVIOUS
<1>2. c \in Panel!Choice
  BY <1>1 DEF Panel!Choice, Panel!Ranges
<1>3. /\ UNCHANGED <<x1, x2>> /\ Panel!Steps
      /\ IF Panel!connected THEN Panel!Observe(c) /\ UNCHANGED x4 ELSE x3' = c /\ Panel!Forget
  BY <1>1 DEF Panel!Open
<1>4. CASE Panel!connected
  BY <1>2, <1>3, <1>4, PanelObserves
<1>5. CASE ~Panel!connected
  <2>1. x3' = c /\ x4' = {} /\ x5' = {} /\ x6' = NULL
    BY <1>3, <1>5 DEF Panel!Forget
  <2>2. PanelScreen'
    BY <1>2, <2>1 DEF PanelScreen
  <2>3. PanelGrant' /\ x7' \in 0..5
    BY <1>3 DEF PanelInv, PanelGrant, Panel!Steps
  <2> QED BY <2>2, <2>3 DEF PanelInv
<1> QED BY <1>4, <1>5

(* Another property or range.                                              *)
LEMMA PanelTurns ==
  ASSUME PanelInv, \/ \E p \in {app, web} : Panel!setPropertyId(p)
                   \/ \E r \in Panel!Ranges : Panel!setRange(r)
  PROVE  PanelInv'
<1>1. x3 \in Panel!Choice
  BY DEF Panel!setPropertyId, Panel!setRange, PanelInv, PanelScreen
<1>2. ASSUME NEW p \in {app, web}, Panel!setPropertyId(p) PROVE PanelInv'
  <2>1. PICK c : c = [x3 EXCEPT !.property = p]
    OBVIOUS
  <2>2. c \in Panel!Choice
    BY <1>1, <2>1 DEF Panel!Choice
  <2>3. Panel!Observe(c) /\ Panel!connected /\ Panel!Steps /\ UNCHANGED <<x1, x2, x4>>
    BY <1>2, <2>1 DEF Panel!setPropertyId
  <2> QED BY <2>2, <2>3, PanelObserves
<1>3. ASSUME NEW r \in Panel!Ranges, Panel!setRange(r) PROVE PanelInv'
  <2>1. PICK c : c = [x3 EXCEPT !.range = r]
    OBVIOUS
  <2>2. c \in Panel!Choice
    BY <1>1, <2>1 DEF Panel!Choice
  <2>3. Panel!Observe(c) /\ Panel!connected /\ Panel!Steps /\ UNCHANGED <<x1, x2, x4>>
    BY <1>3, <2>1 DEF Panel!setRange
  <2> QED BY <2>2, <2>3, PanelObserves
<1> QED BY <1>2, <1>3

(* The operator asks again.                                                *)
LEMMA PanelRefetches == PanelInv /\ Panel!refetch => PanelInv'
<1> SUFFICES ASSUME PanelInv, Panel!refetch PROVE PanelInv'
  OBVIOUS
<1>1. /\ UNCHANGED <<x1, x2, x3, x4>> /\ x3 # NULL /\ x1.status = "connected" /\ x5' \subseteq x5
      /\ x6' = Panel!Request(x1.generation, x3, x2) /\ Panel!Steps
  BY DEF Panel!refetch, Panel!connected
<1>2. x6' \in [flow : Panel!Flow, asked : BOOLEAN]
  BY <1>1, PanelFlow DEF PanelInv, PanelGrant, PanelScreen
<1>3. PanelScreen'
  BY <1>1, <1>2 DEF PanelInv, PanelScreen
<1>4. PanelGrant' /\ x7' \in 0..5
  BY <1>1 DEF PanelInv, PanelGrant, Panel!Steps
<1> QED BY <1>3, <1>4 DEF PanelInv

(* Google answers or refuses.                                              *)
LEMMA PanelAnswered == PanelInv /\ Panel!Answer => PanelInv'
<1> SUFFICES ASSUME PanelInv, Panel!Answer PROVE PanelInv'
  OBVIOUS
<1>1. /\ UNCHANGED <<x1, x2, x3, x7>> /\ x6' = NULL /\ x6 # NULL
      /\ x3 # NULL /\ x1.status = "connected" /\ x6.flow \in Panel!Flow
  BY DEF Panel!Answer, Panel!fetchUserBehaviorFlow, Panel!FlowFails, Panel!FlowExpired,
         PanelInv, PanelScreen
<1>2. PICK k \in Panel!Flow : k = Panel!Key
  BY <1>1, PanelFlow DEF Panel!Key, PanelInv, PanelGrant, PanelScreen
<1>3. x4' \subseteq x4 \cup {x6.flow}
  BY DEF Panel!Answer, Panel!fetchUserBehaviorFlow, Panel!FlowFails, Panel!FlowExpired
<1>4. x5' \subseteq x5 \cup {[key |-> k, kind |-> "other"], [key |-> k, kind |-> "expired"]}
  BY <1>2 DEF Panel!Answer, Panel!fetchUserBehaviorFlow, Panel!FlowFails, Panel!FlowExpired
<1>5. x5' \subseteq [key : Panel!Flow, kind : {"expired", "other"}]
  BY <1>2, <1>4 DEF PanelInv, PanelScreen
<1>6. PanelScreen'
  BY <1>1, <1>3, <1>5 DEF PanelInv, PanelScreen
<1> QED BY <1>1, <1>6 DEF PanelInv, PanelGrant

(* A grant that ends, on a screen or without one, and the next one. *)
LEMMA PanelGrants ==
  ASSUME PanelInv, \/ Panel!clearAnalyticsAccessToken \/ Panel!TimeIsUp \/ Panel!Expire
                   \/ Panel!disconnect \/ Panel!connect \/ Panel!Close
  PROVE  PanelInv'
<1>1. CASE Panel!TimeIsUp
  <2>1. UNCHANGED <<x1, x3, x4, x5, x6, x7>> /\ x2' \in BOOLEAN
    BY <1>1 DEF Panel!TimeIsUp
  <2> QED BY <2>1 DEF PanelInv, PanelGrant, PanelScreen
<1>2. CASE Panel!Close
  <2>1. x3' = NULL /\ x6' = NULL /\ UNCHANGED <<x1, x2, x4, x5>> /\ x7' \in 0..5
    BY <1>2 DEF Panel!Close, Panel!Steps, PanelInv
  <2> QED BY <2>1 DEF PanelInv, PanelGrant, PanelScreen
<1>3. CASE Panel!Expire /\ x3 = NULL
  <2>1. /\ UNCHANGED <<x2, x3, x4, x5, x6, x7>> /\ x1' = [x1 EXCEPT !.status = "expired"]
        /\ x3 = NULL
    BY <1>3 DEF Panel!Expire
  <2> QED BY <2>1 DEF PanelInv, PanelGrant, PanelScreen
<1>4. CASE Panel!clearAnalyticsAccessToken \/ Panel!disconnect \/ (Panel!Expire /\ x3 # NULL)
  <2>1. /\ x1' = [x1 EXCEPT !.status = "expired"] \/ x1' = [x1 EXCEPT !.status = "disconnected"]
        /\ x2' \in BOOLEAN /\ x4' = {} /\ x5' = {} /\ x6' = NULL /\ UNCHANGED <<x3, x7>>
    BY <1>4 DEF Panel!clearAnalyticsAccessToken, Panel!disconnect, Panel!Expire, Panel!Forget,
                PanelInv, PanelGrant
  <2>2. PanelGrant'
    BY <2>1 DEF PanelInv, PanelGrant
  <2>3. PanelScreen'
    BY <2>1 DEF PanelInv, PanelScreen
  <2> QED BY <2>1, <2>2, <2>3 DEF PanelInv
<1>5. CASE Panel!connect
  <2>1. /\ x3 # NULL /\ x3' = x3 /\ x4' = x4 /\ x7' = x7 /\ x5' \subseteq x5
        /\ x1' = [generation |-> x1.generation + 1, status |-> "connected"] /\ x2' = TRUE
        /\ x6' = NULL \/ x6' = Panel!Request(x1.generation + 1, x3, TRUE)
        /\ x1.generation < 2
    BY <1>5 DEF Panel!connect
  <2>2. x1.generation + 1 \in 0..2 /\ x3 \in Panel!Choice
    BY <2>1 DEF PanelInv, PanelGrant, PanelScreen
  <2>3. x6' \in [flow : Panel!Flow, asked : BOOLEAN] \cup {NULL}
    BY <2>1, <2>2, PanelFlow
  <2>4. PanelScreen'
    BY <2>1, <2>3 DEF PanelInv, PanelScreen
  <2>5. PanelGrant'
    BY <2>1, <2>2 DEF PanelGrant
  <2> QED BY <2>1, <2>4, <2>5 DEF PanelInv
<1> QED BY <1>1, <1>2, <1>3, <1>4, <1>5

(* Every step of the panel keeps the invariant.                            *)
LEMMA PanelKeeps == PanelInv /\ Panel!Next => PanelInv'
  BY PanelOpens, PanelTurns, PanelRefetches, PanelAnswered, PanelGrants DEF Panel!Next


-----------------------------------------------------------------------------
(* A list of pages, of which only the number and the places matter here.   *)
IsList(s) == \E S : s \in Seq(S)

(* A page more is a list of one page more, with the same pages before.     *)
LEMMA ListAppend ==
  ASSUME NEW s, IsList(s), NEW e
  PROVE  /\ IsList(Append(s, e)) /\ Len(s) \in Nat /\ Len(Append(s, e)) = Len(s) + 1
         /\ DOMAIN s = 1..Len(s) /\ DOMAIN Append(s, e) = 1..Len(Append(s, e))
         /\ \A n \in DOMAIN s : n \in DOMAIN Append(s, e) /\ Append(s, e)[n] = s[n]
<1>1. PICK S : s \in Seq(S)
  BY DEF IsList
<1>2. PICK R : R = S \cup {e}
  OBVIOUS
<1>3. s \in Seq(R)
  <2>1. s \in [1..Len(s) -> S] /\ Len(s) \in Nat
    BY <1>1
  <2>2. s \in [1..Len(s) -> R]
    BY <1>2, <2>1
  <2> QED BY <2>1, <2>2, IsASeq
<1>4. e \in R
  BY <1>2
<1>5. Append(s, e) \in Seq(R) /\ Len(Append(s, e)) = Len(s) + 1 /\ Len(s) \in Nat
      /\ DOMAIN s = 1..Len(s) /\ DOMAIN Append(s, e) = 1..Len(Append(s, e))
      /\ \A n \in 1..Len(s) : Append(s, e)[n] = s[n]
  BY <1>3, <1>4
<1> QED BY <1>5 DEF IsList

(* No pages are a list.                                                    *)
LEMMA ListEmpty == IsList(<<>>) /\ Len(<<>>) = 0
<1>1. <<>> \in Seq({})
  OBVIOUS
<1> QED BY <1>1 DEF IsList

(* A list of no pages has none.                                            *)
LEMMA ListOfNone == ASSUME NEW s, IsList(s), Len(s) = 0 PROVE s = <<>>
<1>1. PICK S : s \in Seq(S)
  BY DEF IsList
<1> QED BY <1>1

(* A refresh has read fewer pages than there are, or none. *)
TimelineRun(f) ==
  \/ x4[f] = NULL
  \/ /\ x4[f] = [mode |-> x4[f].mode, pages |-> x4[f].pages] /\ IsList(x4[f].pages)
     /\ x4[f].mode = "all" => Len(x4[f].pages) = 0 \/ Len(x4[f].pages) < Len(x3[f])

(* The invariant of the pages of the timeline.                             *)
TimelineInv ==
  /\ x2 \in Timeline!Filter
  /\ DOMAIN x3 = Timeline!Filter /\ DOMAIN x4 = Timeline!Filter
  /\ \A f \in Timeline!Filter : IsList(x3[f]) /\ TimelineRun(f)

(* It holds at the start.                                                  *)
LEMMA TimelineStarts == Timeline!Init => TimelineInv
<1> SUFFICES ASSUME Timeline!Init PROVE TimelineInv
  OBVIOUS
<1>1. x2 \in Timeline!Filter /\ DOMAIN x3 = Timeline!Filter /\ DOMAIN x4 = Timeline!Filter
  BY DEF Timeline!Init, Timeline!Filter
<1>2. ASSUME NEW f \in Timeline!Filter PROVE IsList(x3[f]) /\ TimelineRun(f)
  <2>1. x3[f] = <<>> /\ (x4[f] = NULL \/ x4[f] = [mode |-> "all", pages |-> <<>>])
    BY DEF Timeline!Init
  <2> QED BY <2>1, ListEmpty DEF TimelineRun
<1> QED BY <1>1, <1>2 DEF TimelineInv

(* The pages of every filter stay: one is looked at, or asked for. *)
LEMMA TimelineAsks ==
  ASSUME TimelineInv, x2' \in Timeline!Filter, x3' = x3, NEW g \in Timeline!Filter,
         x4' = x4 \/ (\E m : x4' = [x4 EXCEPT ![g] = [mode |-> m, pages |-> <<>>]])
                  \/ x4' = [x4 EXCEPT ![g] = NULL]
  PROVE  TimelineInv' /\ Timeline!WarningsStay
<1>1. Timeline!WarningsStay
  BY DEF Timeline!WarningsStay, Timeline!pages, Timeline!coverage, TimelineInv
<1>2. DOMAIN x4' = Timeline!Filter
  BY DEF TimelineInv
<1>3. ASSUME NEW f \in Timeline!Filter PROVE TimelineRun(f)'
  <2>1. \/ x4'[f] = x4[f] \/ x4'[f] = NULL
        \/ \E m : x4'[f] = [mode |-> m, pages |-> <<>>]
    BY DEF TimelineInv
  <2>2. CASE x4'[f] = x4[f]
    BY <2>2 DEF TimelineInv, TimelineRun
  <2>3. CASE x4'[f] = NULL
    BY <2>3 DEF TimelineRun
  <2>4. CASE \E m : x4'[f] = [mode |-> m, pages |-> <<>>]
    BY <2>4, ListEmpty DEF TimelineRun
  <2> QED BY <2>1, <2>2, <2>3, <2>4
<1> QED BY <1>1, <1>2, <1>3 DEF TimelineInv

(* What the operator does, and a row that comes in.                        *)
LEMMA TimelineTouched ==
  ASSUME TimelineInv, \/ \E c \in {pay, acc} : Timeline!toggleCategory(c)
                      \/ \E period \in {"28d", "all"} : Timeline!setPeriod(period)
                      \/ Timeline!refetch \/ Timeline!loadNextPage \/ Timeline!Happens
                      \/ \E f \in Timeline!Filter : Timeline!Fails(f)
  PROVE  TimelineInv' /\ Timeline!WarningsStay
<1>1. ASSUME NEW f \in Timeline!Filter, Timeline!Observe(f), x3' = x3
      PROVE  TimelineInv' /\ Timeline!WarningsStay
  <2>1. x2' = f
    BY <1>1 DEF Timeline!Observe
  <2>2. x4' = x4 \/ (\E m : x4' = [x4 EXCEPT ![f] = [mode |-> m, pages |-> <<>>]])
    BY <1>1 DEF Timeline!Observe
  <2> QED BY <1>1, <2>1, <2>2, TimelineAsks
<1>2. ASSUME NEW c \in {pay, acc}, Timeline!toggleCategory(c)
      PROVE  TimelineInv' /\ Timeline!WarningsStay
  <2>1. PICK categories : categories = IF c \in x2.categories THEN x2.categories \ {c}
                                       ELSE x2.categories \cup {c}
    OBVIOUS
  <2>2. PICK f : f = [x2 EXCEPT !.categories = categories]
    OBVIOUS
  <2>3. categories \in SUBSET {pay, acc}
    BY <2>1 DEF TimelineInv, Timeline!Filter
  <2>4. f \in Timeline!Filter
    BY <2>2, <2>3 DEF TimelineInv, Timeline!Filter
  <2>5. Timeline!Observe(f) /\ x3' = x3
    BY <1>2, <2>1, <2>2 DEF Timeline!toggleCategory
  <2> QED BY <1>1, <2>4, <2>5
<1>3. ASSUME NEW period \in {"28d", "all"}, Timeline!setPeriod(period)
      PROVE  TimelineInv' /\ Timeline!WarningsStay
  <2>1. PICK f : f = [x2 EXCEPT !.period = period]
    OBVIOUS
  <2>2. f \in Timeline!Filter
    BY <2>1 DEF TimelineInv, Timeline!Filter
  <2>3. Timeline!Observe(f) /\ x3' = x3
    BY <1>3, <2>1 DEF Timeline!setPeriod
  <2> QED BY <1>1, <2>2, <2>3
<1>4. CASE Timeline!refetch \/ Timeline!loadNextPage
  <2>1. /\ x2' = x2 /\ x3' = x3
        /\ \E m : x4' = [x4 EXCEPT ![x2] = [mode |-> m, pages |-> <<>>]]
    BY <1>4 DEF Timeline!refetch, Timeline!loadNextPage
  <2> QED BY <2>1, TimelineAsks DEF TimelineInv
<1>5. CASE Timeline!Happens
  BY <1>5, TimelineAsks DEF Timeline!Happens, TimelineInv
<1>6. ASSUME NEW f \in Timeline!Filter, Timeline!Fails(f)
      PROVE  TimelineInv' /\ Timeline!WarningsStay
  BY <1>6, TimelineAsks DEF Timeline!Fails, TimelineInv
<1> QED BY <1>2, <1>3, <1>4, <1>5, <1>6

(* The next page is asked for, and arrives.                                *)
LEMMA TimelineNextPage ==
  ASSUME TimelineInv, NEW f \in Timeline!Filter, Timeline!NextPageAnswered(f)
  PROVE  TimelineInv' /\ Timeline!WarningsStay
<1>1. PICK e : x3' = [x3 EXCEPT ![f] = Append(@, e)]
  BY DEF Timeline!NextPageAnswered
<1>2. x2' = x2 /\ x4' = [x4 EXCEPT ![f] = NULL]
  BY DEF Timeline!NextPageAnswered
<1>3. PICK s : s = x3[f] /\ IsList(s)
  BY DEF TimelineInv
<1>4. /\ x3'[f] = Append(s, e) /\ DOMAIN x3' = Timeline!Filter
      /\ \A g \in Timeline!Filter : g # f => x3'[g] = x3[g]
  BY <1>1, <1>3 DEF TimelineInv
<1>5. ASSUME NEW g \in Timeline!Filter PROVE IsList(x3'[g]) /\ TimelineRun(g)'
  <2>1. CASE g = f
    <3>1. IsList(x3'[f])
      BY <1>3, <1>4, ListAppend
    <3>2. x4'[f] = NULL
      BY <1>2 DEF TimelineInv
    <3> QED BY <2>1, <3>1, <3>2 DEF TimelineRun
  <2>2. CASE g # f
    <3>1. x3'[g] = x3[g] /\ x4'[g] = x4[g]
      BY <1>2, <1>4, <2>2 DEF TimelineInv
    <3> QED BY <3>1 DEF TimelineInv, TimelineRun
  <2> QED BY <2>1, <2>2
<1>6. TimelineInv'
  BY <1>2, <1>4, <1>5 DEF TimelineInv
<1>7. Timeline!WarningsStay
  <2> SUFFICES ASSUME Len(x3'[x2]) > Len(x3[x2])
               PROVE  Timeline!coverage \subseteq Timeline!coverage'
    BY <1>2 DEF Timeline!WarningsStay, Timeline!pages
  <2>1. CASE x2 # f
    BY <1>2, <1>4, <2>1 DEF TimelineInv, Timeline!coverage, Timeline!pages,
                           Timeline!mergeTimelineCoverage
  <2>2. CASE x2 = f
    <3>1. PICK t : t = Append(s, e)
      OBVIOUS
    <3>2. \A n \in DOMAIN s : n \in DOMAIN t /\ t[n] = s[n]
      BY <1>3, <3>1, ListAppend
    <3>3. Timeline!pages = s /\ Timeline!pages' = t
      BY <1>2, <1>3, <1>4, <2>2, <3>1 DEF Timeline!pages
    <3>4. t # <<>>
      <4>1. Len(t) = Len(s) + 1 /\ Len(s) \in Nat
        BY <1>3, <3>1, ListAppend
      <4> QED BY <4>1, ListEmpty
    <3>5. /\ Timeline!coverage \subseteq UNION {s[n].coverage : n \in DOMAIN s}
          /\ Timeline!coverage' = UNION {t[n].coverage : n \in DOMAIN t}
      BY <3>3, <3>4 DEF Timeline!coverage, Timeline!mergeTimelineCoverage
    <3> QED BY <3>2, <3>5
  <2> QED BY <2>1, <2>2
<1> QED BY <1>6, <1>7

(* A refresh that gives more pages than there were was one of an empty list. *)
LEMMA TimelinePage ==
  ASSUME TimelineInv, NEW f \in Timeline!Filter, Timeline!PageAnswered(f)
  PROVE  TimelineInv' /\ Timeline!WarningsStay
<1>1. PICK r, s : r = x4[f] /\ s = x3[f]
  OBVIOUS
<1>2. /\ r = [mode |-> r.mode, pages |-> r.pages] /\ IsList(r.pages) /\ IsList(s)
      /\ Len(r.pages) = 0 \/ Len(r.pages) < Len(s)
  BY <1>1 DEF Timeline!PageAnswered, TimelineInv, TimelineRun
<1>3. PICK e, read :
        /\ read = Append(r.pages, e)
        /\ \/ Len(read) < Len(s) /\ x4' = [x4 EXCEPT ![f].pages = read] /\ x3' = x3
           \/ x3' = [x3 EXCEPT ![f] = read] /\ x4' = [x4 EXCEPT ![f] = NULL]
  BY <1>1 DEF Timeline!PageAnswered
<1>4. IsList(read) /\ Len(read) = Len(r.pages) + 1 /\ Len(r.pages) \in Nat /\ Len(s) \in Nat
  BY <1>2, <1>3, ListAppend
<1>5. x2' = x2
  BY DEF Timeline!PageAnswered
<1>6. CASE Len(read) < Len(s) /\ x4' = [x4 EXCEPT ![f].pages = read] /\ x3' = x3
  <2>1. x4'[f] = [mode |-> r.mode, pages |-> read] /\ DOMAIN x4' = Timeline!Filter
    <3>1. x4'[f] = [r EXCEPT !.pages = read] /\ DOMAIN x4' = Timeline!Filter
      BY <1>1, <1>6 DEF TimelineInv
    <3> QED BY <1>2, <3>1
  <2>2. ASSUME NEW g \in Timeline!Filter PROVE IsList(x3'[g]) /\ TimelineRun(g)'
    <3>1. CASE g = f
      BY <1>1, <1>4, <1>6, <2>1, <3>1 DEF TimelineInv, TimelineRun
    <3>2. CASE g # f
      <4>1. x4'[g] = x4[g]
        BY <1>6, <3>2 DEF TimelineInv
      <4> QED BY <1>6, <4>1 DEF TimelineInv, TimelineRun
    <3> QED BY <3>1, <3>2
  <2>3. TimelineInv'
    BY <1>5, <1>6, <2>1, <2>2 DEF TimelineInv
  <2>4. Timeline!WarningsStay
    BY <1>4, <1>5, <1>6 DEF Timeline!WarningsStay, Timeline!pages, Timeline!coverage, TimelineInv
  <2> QED BY <2>3, <2>4
<1>7. CASE x3' = [x3 EXCEPT ![f] = read] /\ x4' = [x4 EXCEPT ![f] = NULL]
  <2>1. /\ x3'[f] = read /\ x4'[f] = NULL
        /\ DOMAIN x3' = Timeline!Filter /\ DOMAIN x4' = Timeline!Filter
        /\ \A g \in Timeline!Filter : g # f => x3'[g] = x3[g] /\ x4'[g] = x4[g]
    BY <1>7 DEF TimelineInv
  <2>2. ASSUME NEW g \in Timeline!Filter PROVE IsList(x3'[g]) /\ TimelineRun(g)'
    <3>1. CASE g = f
      BY <1>4, <2>1, <3>1 DEF TimelineRun
    <3>2. CASE g # f
      BY <2>1, <3>2 DEF TimelineInv, TimelineRun
    <3> QED BY <3>1, <3>2
  <2>3. TimelineInv'
    BY <1>5, <2>1, <2>2 DEF TimelineInv
  <2>4. Timeline!WarningsStay
    <3> SUFFICES ASSUME Len(x3'[x2]) > Len(x3[x2])
                 PROVE  Timeline!coverage \subseteq Timeline!coverage'
      BY <1>5 DEF Timeline!WarningsStay, Timeline!pages
    <3>1. CASE x2 # f
      BY <1>5, <2>1, <3>1 DEF TimelineInv, Timeline!coverage, Timeline!pages,
                             Timeline!mergeTimelineCoverage
    <3>2. CASE x2 = f
      <4>1. Len(s) = 0
        BY <1>1, <1>2, <1>4, <2>1, <3>2
      <4>2. Timeline!pages = <<>>
        BY <1>1, <1>2, <3>2, <4>1, ListOfNone DEF Timeline!pages
      <4> QED BY <4>2 DEF Timeline!coverage
    <3> QED BY <3>1, <3>2
  <2> QED BY <2>3, <2>4
<1> QED BY <1>3, <1>6, <1>7

(* Every step of the timeline keeps the invariant, and no warning is lost. *)
LEMMA TimelineKeeps ==
  TimelineInv /\ Timeline!Next => TimelineInv' /\ Timeline!WarningsStay
  BY TimelineTouched, TimelineNextPage, TimelinePage DEF Timeline!Next

-----------------------------------------------------------------------------
(* The inductive invariant: that of the part which takes the steps.        *)
Inv ==
  /\ screen = "token" => TokenInv
  /\ screen = "dashboard" => DashboardInv
  /\ screen = "request" => RequestInv
  /\ screen = "realtime" => RealtimeInv
  /\ screen = "panel" => PanelInv
  /\ screen = "timeline" => TimelineInv

(* What a step of the part that takes it may never do.                     *)
Cares ==
  /\ screen = "token" => Token!LastsItsTime
  /\ screen = "request" =>
       Request!SilentAfterAbort /\ Request!Patient /\ Request!RefusalIsFinal
  /\ screen = "realtime" => Realtime!SilentAfterAbort
  /\ screen = "timeline" => Timeline!WarningsStay

(* Every part begins in its invariant.                                     *)
LEMMA InitEstablishesInv == Init => Inv
<1> SUFFICES ASSUME Init PROVE Inv
  OBVIOUS
<1>1. /\ screen = "token" => Token!Init
      /\ screen = "dashboard" => Dashboard!Init
      /\ screen = "request" => Request!Init
      /\ screen = "realtime" => Realtime!Init
      /\ screen = "panel" => Panel!Init
      /\ screen = "timeline" => Timeline!Init
  BY DEF Init
<1> QED BY <1>1, TokenStarts, DashboardStarts, RequestHolds, RealtimeHolds, PanelStarts,
           TimelineStarts DEF Inv

(* A step of a part keeps its invariant and takes care; the others rest.   *)
LEMMA NextKeepsInv == Inv /\ Next => Inv' /\ Cares
<1> SUFFICES ASSUME Inv, Next PROVE Inv' /\ Cares
  OBVIOUS
<1>1. CASE OnToken(Token!Next)
  <2>1. screen = "token" /\ screen' = screen /\ Token!Next /\ TokenInv
    BY <1>1 DEF OnToken, Inv
  <2> QED BY <2>1, TokenKeeps DEF Inv, Cares
<1>2. CASE OnDashboard(Dashboard!Next)
  <2>1. screen = "dashboard" /\ screen' = screen /\ Dashboard!Next /\ DashboardInv
    BY <1>2 DEF OnDashboard, Inv
  <2> QED BY <2>1, DashboardKeeps DEF Inv, Cares
<1>3. CASE OnRequest(Request!Next)
  <2>1. screen = "request" /\ screen' = screen /\ Request!Next /\ RequestInv
    BY <1>3 DEF OnRequest, Inv
  <2> QED BY <2>1, RequestHolds DEF Inv, Cares
<1>4. CASE OnRealtime(Realtime!Next)
  <2>1. screen = "realtime" /\ screen' = screen /\ Realtime!Next /\ RealtimeInv
    BY <1>4 DEF OnRealtime, Inv
  <2> QED BY <2>1, RealtimeHolds DEF Inv, Cares
<1>5. CASE OnPanel(Panel!Next)
  <2>1. screen = "panel" /\ screen' = screen /\ Panel!Next /\ PanelInv
    BY <1>5 DEF OnPanel, Inv
  <2> QED BY <2>1, PanelKeeps DEF Inv, Cares
<1>6. CASE OnTimeline(Timeline!Next)
  <2>1. screen = "timeline" /\ screen' = screen /\ Timeline!Next /\ TimelineInv
    BY <1>6 DEF OnTimeline, Inv
  <2> QED BY <2>1, TimelineKeeps DEF Inv, Cares
<1>7. CASE \/ OnHistory(History!Next) \/ OnTrend(Trend!Next) \/ OnRetention(Retention!Next)
           \/ OnFunnel(Funnel!Next) \/ OnFindings(Findings!Next)
           \/ OnBehavior(Behavior!Next) \/ OnCut(Cut!Next)
  <2>1. /\ screen \in {"history", "trend", "retention", "funnel", "insights", "behavior", "cut"}
        /\ screen' = screen
    BY <1>7 DEF OnHistory, OnTrend, OnRetention, OnFunnel, OnFindings, OnBehavior, OnCut
  <2> QED BY <2>1 DEF Inv, Cares
<1> QED BY <1>1, <1>2, <1>3, <1>4, <1>5, <1>6, <1>7 DEF Next

(* A step that changes nothing keeps it too.                               *)
LEMMA StayKeepsInv == Inv /\ UNCHANGED vars => Inv'
<1> SUFFICES ASSUME Inv, UNCHANGED vars PROVE Inv'
  OBVIOUS
<1> USE DEF vars
<1>1. TokenInv => TokenInv'
  BY DEF TokenInv, TokenTypes, TokenStore, TokenAsks, TokenReports, TokenConnected
<1>2. DashboardInv => DashboardInv'
  BY DEF DashboardInv, DashboardShows, DashboardCaps
<1>3. RequestInv => RequestInv'
  BY DEF RequestInv, AskedInv
<1>4. RealtimeInv => RealtimeInv'
  BY DEF RealtimeInv, AskedInv
<1>5. PanelInv => PanelInv'
  BY DEF PanelInv, PanelGrant, PanelScreen
<1>6. TimelineInv => TimelineInv'
  BY DEF TimelineInv, TimelineRun
<1> QED BY <1>1, <1>2, <1>3, <1>4, <1>5, <1>6 DEF Inv

(* The inductive invariant holds of the grant, the dashboard, the reports, *)
(* the panel and the timeline, in every order of answers, timers, aborts   *)
(* and choices (features/analytics, UserFlowTimeline.tsx).                 *)
THEOREM Invariance == Spec => []Inv
BY InitEstablishesInv, NextKeepsInv, StayKeepsInv, PTL DEF Spec

(* A screen is connected only under a grant of its own session, and a      *)
(* dashboard and a panel show only what was asked for by the choice on     *)
(* screen; a report is whole or an error (analytics-token-store.ts,        *)
(* AnalyticsDashboard.tsx, analytics-data-api.ts, UserBehaviorPanel.tsx).  *)
THEOREM ReportsAreOwn == Spec => []ReportIsOwn
<1>1. Inv => ReportIsOwn
  BY TokenShows, DashboardIsOwn, RequestHolds, RealtimeHolds, PanelIsOwn
     DEF Inv, ReportIsOwn
<1> QED BY <1>1, Invariance, PTL

(* Google is asked neither after an abort, nor before the moment it named, *)
(* nor after it has refused; a grant expires no earlier than it said; a    *)
(* warning of coverage stays as long as the pages it is about              *)
(* (analytics-data-api.ts, analytics-token-store.ts,                       *)
(* user-timeline-model.ts).                                                *)
THEOREM CareIsTaken == Spec => AsksWithCare
<1>1. Inv /\ [Next]_vars => [Cares]_vars
  BY NextKeepsInv
<1> QED BY <1>1, Invariance, PTL DEF Spec, AsksWithCare, Cares
=============================================================================
