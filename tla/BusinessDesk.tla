----------------------------- MODULE BusinessDesk -----------------------------
(***************************************************************************)
(* One business as a super administrator sees it                           *)
(* (src/src/app/(auth-v2)/app/businesses/[businessId]/page.tsx): its state *)
(* with the lifecycle actions (BusinessLifecycleActions.tsx) and, beside   *)
(* it, the console of its payments (BusinessCommerceConsole.tsx).  Two     *)
(* queries read the business; an action on its state has both read again,  *)
(* an action on its payments writes what the server answers over the       *)
(* second one.                                                             *)
(*                                                                         *)
(* The server is external: a serial number stands for the time of its last *)
(* change.  So are the queries: an invalidation starts those on screen     *)
(* again, an error hides what was read, and what is written over a query   *)
(* leaves a read that is under way alone.                                  *)
(***************************************************************************)
EXTENDS Integers, FiniteSets

CONSTANTS Values,    \* of a field of the commerce form
          MaxMoves,  \* bound: what operators do
          MaxFaults, \* bound: requests that fail
          NULL

Fields == {"paymentMode", "maxAmount"}
Queries == {"detail", "commerce"}

VARIABLES
  server,   \* the business, its commerce profile, and when they last changed
  queries,  \* what is known of them, the read under way, the last one's error
  form,     \* the draft: its key, what it started from, what was typed; or NULL
  runs,     \* lifecycle actions under way, with the page they were made in
  mount,    \* which time the page has been put on screen
  mutations, \* changes of the commerce profile under way, likewise
  told,     \* of each half of the page: when the last change was made that the
            \* operator was told of
  moves, faults

vars == <<server, queries, form, runs, mount, mutations, told, moves, faults>>

detail == queries["detail"]
commerce == queries["commerce"]
pageShown(q) == q["detail"].data # NULL /\ ~q["detail"].error
consoleShown(q) == pageShown(q) /\ q["commerce"].data # NULL /\ ~q["commerce"].error
business == detail.data.business
profile == IF commerce.data = NULL THEN NULL ELSE commerce.data.profile

(* Mutant: the buttons are free before the business has been read again. *)
pendingSent == \E r \in runs : r.mount = mount /\ r.state = "sent"

pending == \E r \in runs : r.mount = mount

isPending == \E m \in mutations : m.mount = mount

activationBlockers ==
  IF profile = NULL THEN {"COMMERCE_PROFILE_MISSING"}
  ELSE IF commerce.data.business # "ACTIVE" THEN {"BUSINESS_NOT_ACTIVE"} ELSE {}

emptyDraft == [f \in Fields |-> CHOOSE v \in Values : TRUE]
draft(p) == IF p = NULL THEN emptyDraft ELSE p.values

Overview == [business : {"ACTIVE", "DISABLED", "DELETED"},
             profile : {NULL} \cup [status : {"DRAFT", "ACTIVE", "PAUSED"},
                                   values : [Fields -> Values], updatedAt : Nat],
             serial : Nat]
Form == [key : Nat, base : [Fields -> Values],
         edits : UNION {[D -> Values] : D \in SUBSET Fields}]

TypeOK ==
  /\ server \in Overview /\ form \in Form \cup {NULL}
  /\ \A q \in Queries : queries[q].data # NULL => queries[q].data.serial <= server.serial
  /\ (form # NULL) = consoleShown(queries)
  /\ \A q \in Queries : told[q] <= server.serial
  /\ Cardinality({r \in runs : r.mount = mount}) <= 1 /\ Cardinality({m \in mutations : m.mount = mount}) <= 1

-----------------------------------------------------------------------------
Moves == moves < MaxMoves /\ moves' = moves + 1 /\ UNCHANGED faults
Steady == UNCHANGED <<moves, faults>>
Fault == faults < MaxFaults /\ faults' = faults + 1 /\ UNCHANGED moves
Ask(q) == [q EXCEPT !.fetch = "asked", !.read = NULL, !.error = q.error /\ q.data # NULL]

(* Mutant: one form for the business. *)
oneKey(p) == 0

formKey(p) == IF p = NULL THEN 0 ELSE p.updatedAt

(* What is known changes: the form is kept, or put on screen anew when the *)
(* profile is another one; a page that is left is another one next time.   *)
Render(new) ==
  LET p == new["commerce"].data.profile IN
  /\ form' = IF ~consoleShown(new) THEN NULL
             ELSE IF form # NULL /\ form.key = formKey(p) THEN form
             ELSE [key |-> formKey(p), base |-> draft(p), edits |-> <<>>]
  /\ mount' = IF pageShown(queries) /\ ~pageShown(new) THEN mount + 1 ELSE mount
  /\ IF pageShown(new) /\ ~pageShown(queries)
     THEN \E old \in BOOLEAN : queries' =
            IF new["commerce"].fetch = NULL
               /\ (old \/ new["commerce"].data = NULL \/ new["commerce"].invalidated)
            THEN [new EXCEPT !["commerce"] = Ask(@)] ELSE new
     ELSE queries' = new

Read(q) ==
  /\ queries[q].fetch = "asked" /\ Steady
  /\ queries' = [queries EXCEPT ![q] = [@ EXCEPT !.fetch = "read", !.read = server]]
  /\ UNCHANGED <<server, form, runs, mount, mutations, told>>

Answered(q) ==
  /\ queries[q].fetch = "read" /\ Steady
  /\ Render([queries EXCEPT ![q] = [data |-> @.read, fetch |-> NULL, read |-> NULL,
                                    error |-> FALSE, invalidated |-> FALSE]])
  /\ UNCHANGED <<server, runs, mutations, told>>

Fails(q) ==
  /\ queries[q].fetch # NULL /\ Fault
  /\ Render([queries EXCEPT ![q] = [data |-> @.data, fetch |-> NULL, read |-> NULL,
                                    error |-> TRUE, invalidated |-> TRUE]])
  /\ UNCHANGED <<server, runs, mutations, told>>

(* "try again", of the page or of the console.                             *)
refetch(q) ==
  /\ queries[q].error /\ queries[q].fetch = NULL /\ (q = "detail" \/ pageShown(queries)) /\ Steady
  /\ queries' = [queries EXCEPT ![q] = Ask(@)]
  /\ UNCHANGED <<server, form, runs, mount, mutations, told>>

-----------------------------------------------------------------------------
(* The lifecycle.                                                          *)
offered == CASE business = "ACTIVE" -> {"disable", "softDelete"}
             [] business = "DISABLED" -> {"enable", "softDelete"}
             [] business = "DELETED" -> {"restore"}
Outcome == [disable |-> "DISABLED", enable |-> "ACTIVE", softDelete |-> "DELETED", restore |-> "ACTIVE"]

run(key) ==
  /\ pageShown(queries) /\ ~pending /\ key \in offered /\ Moves
  /\ runs' = runs \cup {[key |-> key, mount |-> mount, state |-> "sent", serial |-> 0, id |-> moves]}
  /\ UNCHANGED <<server, queries, form, mount, mutations, told>>

Now == server.serial + 1

LifecycleServed(r) ==
  /\ r.state = "sent" /\ Steady
  /\ \/ /\ server' = [server EXCEPT !.business = Outcome[r.key], !.serial = Now]
        /\ runs' = (runs \ {r}) \cup {[r EXCEPT !.state = "ok", !.serial = Now]}
     \/ server' = server /\ runs' = (runs \ {r}) \cup {[r EXCEPT !.state = "refused"]}
  /\ UNCHANGED <<queries, form, mount, mutations, told>>

(* Mutant: the lists of businesses are read again, this one is not. *)
invalidateLists == UNCHANGED queries

(* Everything below businessQueryKeys.all, which is what is on screen.     *)
invalidate ==
  queries' = [q \in Queries |->
    IF q = "commerce" /\ ~pageShown(queries) THEN [queries[q] EXCEPT !.invalidated = TRUE]
    ELSE IF queries[q].data = NULL /\ queries[q].fetch # NULL THEN queries[q]
    ELSE Ask(queries[q])]

LifecycleDone(r) ==
  /\ r.state = "ok" /\ Steady
  /\ runs' = (runs \ {r}) \cup {[r EXCEPT !.state = "refreshing"]}
  /\ told' = [told EXCEPT !["detail"] = r.serial] /\ invalidate
  /\ UNCHANGED <<server, form, mount, mutations>>

(* Mutant: an action that was refused never ends. *)
EndedWell(r) ==
  /\ r.state = "refreshing" /\ (\A q \in Queries : queries[q].fetch = NULL) /\ Steady
  /\ runs' = runs \ {r}
  /\ UNCHANGED <<server, queries, form, mount, mutations, told>>

(* finally: refused, or what was invalidated has been read.                *)
Ended(r) ==
  /\ r.state = "refused" \/ (r.state = "refreshing" /\ \A q \in Queries : queries[q].fetch = NULL)
  /\ runs' = runs \ {r} /\ Steady
  /\ UNCHANGED <<server, queries, form, mount, mutations, told>>

LifecycleLost(r) ==
  /\ r.state \in {"sent", "ok"} /\ Fault /\ runs' = runs \ {r}
  /\ UNCHANGED <<server, queries, form, mount, mutations, told>>

-----------------------------------------------------------------------------
(* The commerce profile.                                                   *)
type(f, v) ==
  /\ form # NULL /\ Moves
  /\ form' = [form EXCEPT !.edits = [g \in DOMAIN @ \cup {f} |-> IF g = f THEN v ELSE @[g]]]
  /\ UNCHANGED <<server, queries, runs, mount, mutations, told>>

Send(kind, values) ==
  /\ consoleShown(queries) /\ ~isPending /\ Moves
  /\ mutations' = mutations \cup
       {[kind |-> kind, values |-> values, mount |-> mount, state |-> "sent", overview |-> NULL, id |-> moves]}
  /\ UNCHANGED <<server, queries, form, runs, mount, told>>

(* What is sent: what was typed, and the rest as it was.                   *)
filled(d) == [f \in Fields |-> IF f \in DOMAIN d.edits THEN d.edits[f] ELSE d.base[f]]

saveDraft == form # NULL /\ Send("save", filled(form))
activate == activationBlockers = {} /\ profile.status # "ACTIVE" /\ Send("activate", NULL)
pause == profile # NULL /\ profile.status # "PAUSED" /\ Send("pause", NULL)

Profile(status, values) == [status |-> status, values |-> values, updatedAt |-> Now]

(* The server changes the profile and answers with all it knows.           *)
CommerceServed(m) ==
  /\ m.state = "sent" /\ Steady
  /\ LET p == server.profile
         ok == CASE m.kind = "save" -> TRUE
                 [] m.kind = "activate" -> p # NULL /\ server.business = "ACTIVE"
                 [] m.kind = "pause" -> p # NULL
         new == CASE m.kind = "save" -> Profile("DRAFT", m.values)
                  [] m.kind = "activate" -> Profile("ACTIVE", p.values)
                  [] m.kind = "pause" -> Profile("PAUSED", p.values)
     IN /\ server' = IF ok THEN [server EXCEPT !.profile = new, !.serial = Now] ELSE server
        /\ mutations' = (mutations \ {m}) \cup
             {IF ok THEN [m EXCEPT !.state = "ok", !.overview = server'] ELSE [m EXCEPT !.state = "refused"]}
  /\ UNCHANGED <<queries, form, runs, mount, told>>

(* applyOverview: setQueryData.                                            *)
CommerceDone(m) ==
  /\ m.state = "ok" /\ mutations' = mutations \ {m} /\ Steady
  /\ told' = [told EXCEPT !["commerce"] = m.overview.serial]
  /\ Render([queries EXCEPT !["commerce"] =
       [data |-> m.overview, fetch |-> @.fetch, read |-> @.read, error |-> FALSE, invalidated |-> FALSE]])
  /\ UNCHANGED <<server, runs>>

CommerceFails(m) ==
  /\ mutations' = mutations \ {m}
  /\ IF m.state = "refused" THEN Steady ELSE Fault
  /\ UNCHANGED <<server, queries, form, runs, mount, told>>

-----------------------------------------------------------------------------
OthersAct ==
  /\ Moves
  /\ \/ \E b \in {"ACTIVE", "DISABLED", "DELETED"} \ {server.business} : 
          server' = [server EXCEPT !.business = b, !.serial = Now]
     \/ \E f \in Fields, v \in Values :
          /\ server.profile # NULL /\ v # server.profile.values[f]
          /\ server' = [server EXCEPT !.serial = Now,
               !.profile = Profile("DRAFT", [@.values EXCEPT ![f] = v])]
  /\ UNCHANGED <<queries, form, runs, mount, mutations, told>>

(* The page is opened with what an earlier visit has left, or nothing.     *)
Init ==
  /\ server \in {[business |-> "ACTIVE", profile |-> p, serial |-> 1] :
       p \in {NULL, [status |-> "DRAFT", values |-> emptyDraft, updatedAt |-> 1]}}
  /\ \E kept \in BOOLEAN : queries = [q \in Queries |->
       [data |-> IF kept THEN server ELSE NULL, fetch |-> "asked", read |-> NULL,
        error |-> FALSE, invalidated |-> FALSE]]
  /\ form = IF consoleShown(queries)
            THEN [key |-> formKey(server.profile), base |-> draft(server.profile), edits |-> <<>>]
            ELSE NULL
  /\ runs = {} /\ mount = 0 /\ mutations = {} /\ told = [q \in Queries |-> 0] /\ moves = 0 /\ faults = 0

Next ==
  \/ \E q \in Queries : Read(q) \/ Answered(q) \/ Fails(q) \/ refetch(q)
  \/ \E key \in DOMAIN Outcome : run(key)
  \/ \E r \in runs : LifecycleServed(r) \/ LifecycleDone(r) \/ Ended(r) \/ LifecycleLost(r)
  \/ \E f \in Fields, v \in Values : type(f, v)
  \/ saveDraft \/ activate \/ pause
  \/ \E m \in mutations : CommerceServed(m) \/ CommerceDone(m) \/ CommerceFails(m)
  \/ OthersAct

Spec == Init /\ [][Next]_vars

(* What the server and the page do without an operator.                    *)
CommerceServer == \E m \in mutations : CommerceServed(m) \/ CommerceDone(m) \/ CommerceFails(m)
LifecycleServer == \E r \in runs : LifecycleServed(r) \/ LifecycleDone(r) \/ Ended(r)
Retries == \E q \in Queries : refetch(q)

-----------------------------------------------------------------------------
(* The lifecycle actions are never offered for the business as it was      *)
(* before one that this operator was told of: when the buttons are free,   *)
(* the page has read it again, is doing so, or shows its error instead.    *)
OwnActionIsSeen ==
  (pageShown(queries) /\ ~pending) => detail.data.serial >= told["detail"] \/ detail.fetch # NULL

(* A draft that is saved changes what its operator has typed and nothing   *)
(* else of the profile that was on screen, whoever saved that one          *)
(* meanwhile: a form is never of an older profile than the one above it.   *)
UntouchedStays ==
  \A m \in mutations' \ mutations : (m.state = "sent" /\ m.kind = "save") =>
    \A f \in Fields \ DOMAIN form.edits : m.values[f] = draft(profile)[f]

(* Neither the buttons of the lifecycle nor those of the console stay      *)
(* locked, through requests that are refused and reads that fail.          *)
ButtonsLocked == pending \/ isPending
=============================================================================
