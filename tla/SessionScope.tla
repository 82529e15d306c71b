---------------------------- MODULE SessionScope ----------------------------
(***************************************************************************)
(* What the admin client promises about sessions, with no generation       *)
(* numbers: an authorization scope (the signed-in administrator, or        *)
(* nobody), pieces of work started under it, and the data they leave in    *)
(* the query cache.  Replacing the scope revokes, at once, every piece of  *)
(* work that is under way; revoked work may only be dropped.               *)
(*                                                                         *)
(* The client cannot recall a request that is on the wire, so it tags it   *)
(* with the session generation (src/src/auth/store/admin-auth.store.ts)    *)
(* and compares the tag when the answer arrives.  AdminSession shows that  *)
(* this implements the instantaneous revocation specified here.            *)
(***************************************************************************)
CONSTANTS People,   \* administrators the client can be signed in as
          Work,     \* identities of pieces of work
          Nobody    \* the scope of a signed-out client (nobody of People)

VARIABLES scope, work, data

vars == <<scope, work, data>>

Underway == {w \in Work : work[w] # "idle"}

TypeOK ==
  /\ scope \in People \cup {Nobody}
  /\ work \in [Work -> {"idle", "live", "revoked"}]
  /\ data \subseteq People

Init ==
  /\ scope = Nobody
  /\ work = [w \in Work |-> "idle"]
  /\ data = {}

Begin(w) ==
  /\ scope # Nobody
  /\ work[w] = "idle"
  /\ work' = [work EXCEPT ![w] = "live"]
  /\ UNCHANGED <<scope, data>>

(* Only live work may leave data behind, and it is the scope's data. *)
Deliver(w) ==
  /\ work[w] = "live"
  /\ work' = [work EXCEPT ![w] = "idle"]
  /\ data' = data \cup {scope}
  /\ UNCHANGED scope

(* Dropping work leaves no data behind; the cache may be emptied.          *)
Drop(W) ==
  /\ work' = [w \in Work |-> IF w \in W THEN "idle" ELSE work[w]]
  /\ data' \in {data, {}}
  /\ UNCHANGED scope

(* The scope is replaced (possibly by a fresh session of the same          *)
(* administrator): every piece of work under way is revoked or dropped     *)
(* now, and data survives only if the administrator does.                  *)
Replace(s, dropped) ==
  /\ scope' = s
  /\ work' = [w \in Work |->
                IF work[w] = "idle" \/ w \in dropped THEN "idle" ELSE "revoked"]
  /\ \/ data' = {}
     \/ s = scope /\ data' = data

Next ==
  \/ \E w \in Work : Begin(w) \/ Deliver(w)
  \/ \E W \in SUBSET Underway :
        \/ Drop(W)
        \/ \E s \in People \cup {Nobody} : Replace(s, W)

Spec == Init /\ [][Next]_vars

-----------------------------------------------------------------------------
(* Nobody inherits data: what the cache holds belongs to the current scope. *)
DataBelongsToScope == data \subseteq ({scope} \ {Nobody})

(* Work is live only under somebody's scope. *)
LiveWorkHasScope == \A w \in Work : work[w] = "live" => scope # Nobody

Inv == TypeOK /\ DataBelongsToScope /\ LiveWorkHasScope
=============================================================================
