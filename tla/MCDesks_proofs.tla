---------------------------- MODULE MCDesks_proofs ----------------------------
(***************************************************************************)
(* What is proved of the desks, for every number of filters, rows, pages,  *)
(* reports, tabs, values and versions: nothing is acted on that is not     *)
(* shown (ActsOnWhatIsShown), a step moves only what it is about           *)
(* (NothingElseMoves), and a desk at rest shows nothing from before what   *)
(* its administrator was told was done there (OwnActionIsSeen).            *)
(*                                                                         *)
(* Each desk has an invariant of its own; DesksInv is that of the desk     *)
(* that is shown.  A business: two overviews with the same time of change  *)
(* have the same profile, wherever they are known, so the form that is     *)
(* kept while the time stays is the form of the profile above it.  A       *)
(* resource console: what is asked of a list is as long as the list.  The  *)
(* queue of reports: the pages of a list are a chain in the order of the   *)
(* reports, and no report that waits lies between two of them; the order   *)
(* is by rank, and a greatest or least element of a finite set comes from  *)
(* an injection into numbers, without induction.  A party: whatever the    *)
(* page knows of it, the status there is the one of that version.          *)
(*                                                                         *)
(* OwnInv adds what each desk keeps of what was told: the server has it,   *)
(* for good; a read that ends after it was told has it, for the telling    *)
(* gives up the reads under way; and what is shown without it is to be     *)
(* read again, or has failed.  The mails of the invitations are ordered    *)
(* by number, so the latest of a row is bounded from below by the first.   *)
(* The invitations and the users to assign are two each, as MCDesks has    *)
(* them.                                                                   *)
(***************************************************************************)
EXTENDS MCDesks, SequenceTheorems, FiniteSetTheorems, TLAPS

-----------------------------------------------------------------------------
(* A business: every overview that is known anywhere, on the server, in a  *)
(* query, under way in a read or in an answer, is one the server has had,  *)
(* so two with the same time of change have the same profile; and the form *)
(* is made of the profile above it, or of one with its time.               *)

Drafts == [Business!Fields -> Values]

(* What is known of the business.                                          *)
Known ==
  {x1} \cup (({x2[q].data : q \in Business!Queries} \cup {x2[q].read : q \in Business!Queries}
               \cup {m.overview : m \in x6}) \ {NULL})

(* A profile as the server may have had it by the time k.                  *)
Had(p, k) == p # NULL => p.values \in Drafts /\ p.updatedAt \in 1..k

Same(p, r) == Business!formKey(p) = Business!formKey(r) => Business!draft(p) = Business!draft(r)

KnownWell ==
  /\ x1.serial \in Nat
  /\ \A o \in Known : Had(o.profile, x1.serial) /\ o.serial \in 0..x1.serial
  /\ \A o, u \in Known : Same(o.profile, u.profile)

Entire(r) == r = [data |-> r.data, fetch |-> r.fetch, read |-> r.read,
                  error |-> r.error, invalidated |-> r.invalidated]

EntireAll(qs) == /\ qs = [q \in Business!Queries |-> qs[q]]
                 /\ \A q \in Business!Queries : Entire(qs[q])

FormIsOfProfile ==
  x3 # NULL => /\ x2["commerce"].data # NULL
               /\ x3.key = Business!formKey(x2["commerce"].data.profile)
               /\ x3.base = Business!draft(x2["commerce"].data.profile)

FormTyped ==
  x3 # NULL => /\ x3 = [key |-> x3.key, base |-> x3.base, edits |-> x3.edits]
               /\ x3.base \in Drafts
               /\ DOMAIN x3.edits \subseteq Business!Fields
               /\ \A f \in DOMAIN x3.edits : x3.edits[f] \in Values

MutationsEntire ==
  \A m \in x6 : /\ m = [kind |-> m.kind, values |-> m.values, mount |-> m.mount,
                        state |-> m.state, overview |-> m.overview, id |-> m.id]
                /\ m.kind \in {"save", "activate", "pause"}
                /\ (m.kind = "save" /\ m.state = "sent") => m.values \in Drafts

ServerEntire == x1 = [business |-> x1.business, profile |-> x1.profile, serial |-> x1.serial]

BusinessInv ==
  /\ ServerEntire
  /\ KnownWell
  /\ EntireAll(x2)
  /\ FormIsOfProfile
  /\ FormTyped
  /\ MutationsEntire

(* A draft is made of values of the form, whatever the profile.            *)
LEMMA DraftTyped ==
  ASSUME NEW p, NEW k, Had(p, k)
  PROVE  Business!draft(p) \in Drafts
<1>1. (CHOOSE v \in Values : TRUE) \in Values
  BY ValuesAssumption
<1>2. Business!emptyDraft \in Drafts
  BY <1>1 DEF Business!emptyDraft, Drafts
<1> QED BY <1>2 DEF Business!draft, Had

(* The server stays, or has a profile it had not: what is known agrees.    *)
LEMMA KnownStays ==
  ASSUME KnownWell, Known' \subseteq Known \cup {x1'}, x1'.serial \in Nat, x1'.serial >= x1.serial,
         \/ x1'.profile = x1.profile
         \/ Had(x1'.profile, x1'.serial) /\ x1'.profile.updatedAt > x1.serial
  PROVE  KnownWell'
<1>1. x1 \in Known /\ x1.serial \in Nat
  BY DEF Known, KnownWell
<1>2. \A o \in Known : Had(o.profile, x1'.serial)
  <2> SUFFICES ASSUME NEW o \in Known PROVE Had(o.profile, x1'.serial)
    OBVIOUS
  <2>1. Had(o.profile, x1.serial)
    BY DEF KnownWell
  <2> QED BY <1>1, <2>1 DEF Had
<1>3. Had(x1'.profile, x1'.serial)
  BY <1>1, <1>2
<1>4. \A o \in Known' : Had(o.profile, x1'.serial)
  BY <1>2, <1>3
<1>5. \A o \in Known : Same(o.profile, x1'.profile) /\ Same(x1'.profile, o.profile)
  <2> SUFFICES ASSUME NEW o \in Known
               PROVE  Same(o.profile, x1'.profile) /\ Same(x1'.profile, o.profile)
    OBVIOUS
  <2>1. CASE x1'.profile = x1.profile
    BY <1>1, <2>1 DEF KnownWell
  <2>2. CASE Had(x1'.profile, x1'.serial) /\ x1'.profile.updatedAt > x1.serial
    <3>1. Had(o.profile, x1.serial)
      BY DEF KnownWell
    <3>2. CASE x1'.profile = NULL
      <4>1. o.profile = NULL \/ (Business!formKey(o.profile) >= 1 /\ Business!formKey(o.profile) \in Nat)
        BY <1>1, <3>1 DEF Had, Business!formKey
      <4> QED BY <3>2, <4>1 DEF Same, Business!formKey
    <3>3. CASE x1'.profile # NULL
      <4>1. Business!formKey(o.profile) \in 0..x1.serial
        BY <1>1, <3>1 DEF Had, Business!formKey
      <4>2. Business!formKey(x1'.profile) = x1'.profile.updatedAt /\ x1'.profile.updatedAt \in Nat
        BY <2>2, <3>3 DEF Had, Business!formKey
      <4> QED BY <1>1, <2>2, <4>1, <4>2 DEF Same
    <3> QED BY <3>2, <3>3
  <2> QED BY <2>1, <2>2
<1>6. \A o, u \in Known' : Same(o.profile, u.profile)
  BY <1>5 DEF KnownWell, Same
<1> QED BY <1>4, <1>6 DEF KnownWell

(* A question leaves what is known.                                        *)
LEMMA AskedFor ==
  ASSUME NEW r, Entire(r)
  PROVE  Business!Ask(r) = [data |-> r.data, fetch |-> "asked", read |-> NULL,
                            error |-> r.error /\ r.data # NULL, invalidated |-> r.invalidated]
<1> DEFINE shown == r.error /\ r.data # NULL
           asked == [r EXCEPT !.fetch = "asked", !.read = NULL, !.error = shown]
<1>1. Business!Ask(r) = asked
  BY DEF Business!Ask
<1> HIDE DEF shown
<1> DEFINE r1 == [r EXCEPT !.fetch = "asked"]
<1>2. r1 = [data |-> r.data, fetch |-> "asked", read |-> r.read,
            error |-> r.error, invalidated |-> r.invalidated]
  BY DEF Entire
<1> DEFINE r2 == [r1 EXCEPT !.read = NULL]
<1>3. r2 = [data |-> r.data, fetch |-> "asked", read |-> NULL,
            error |-> r.error, invalidated |-> r.invalidated]
  <2> HIDE DEF r1
  <2> QED BY <1>2
<1>4. asked = [r2 EXCEPT !.error = shown]
  OBVIOUS
<1>5. asked = [data |-> r.data, fetch |-> "asked", read |-> NULL,
               error |-> shown, invalidated |-> r.invalidated]
  <2> HIDE DEF r2, asked
  <2> QED BY <1>3, <1>4
<1> QED BY <1>1, <1>5 DEF shown

(* Two fields of what is known of a query.                                 *)
LEMMA ReadPut ==
  ASSUME NEW r, Entire(r), NEW f, NEW d
  PROVE  [r EXCEPT !.fetch = f, !.read = d] =
           [data |-> r.data, fetch |-> f, read |-> d, error |-> r.error, invalidated |-> r.invalidated]
<1> DEFINE r1 == [r EXCEPT !.fetch = f]
<1>1. r1 = [data |-> r.data, fetch |-> f, read |-> r.read,
            error |-> r.error, invalidated |-> r.invalidated]
  BY DEF Entire
<1>2. [r EXCEPT !.fetch = f, !.read = d] = [r1 EXCEPT !.read = d]
  OBVIOUS
<1> HIDE DEF r1
<1> QED BY <1>1, <1>2

(* What is put in the place of one query leaves the other.                 *)
LEMMA Replaced ==
  ASSUME NEW qs, EntireAll(qs), NEW q \in Business!Queries, NEW r, Entire(r), NEW now,
         now = [u \in Business!Queries |-> IF u = q THEN r ELSE qs[u]]
  PROVE  /\ EntireAll(now) /\ now[q] = r
         /\ \A u \in Business!Queries \ {q} : now[u] = qs[u]
BY DEF EntireAll

(* What is rendered is new, but for a read that may start.                 *)
LEMMA Rendered ==
  ASSUME NEW new, EntireAll(new), Business!Render(new)
  PROVE  /\ EntireAll(x2')
         /\ \A q \in Business!Queries : /\ x2'[q].data = new[q].data
                                        /\ x2'[q].read = new[q].read \/ x2'[q].read = NULL
<1>1. x2' = new \/ x2' = [new EXCEPT !["commerce"] = Business!Ask(@)]
  BY DEF Business!Render
<1>2. CASE x2' = new
  BY <1>2
<1>3. CASE x2' = [new EXCEPT !["commerce"] = Business!Ask(@)]
  <2>1. "commerce" \in Business!Queries /\ Entire(new["commerce"])
    BY DEF Business!Queries, EntireAll
  <2>2. /\ Entire(Business!Ask(new["commerce"]))
        /\ Business!Ask(new["commerce"]).data = new["commerce"].data
        /\ Business!Ask(new["commerce"]).read = NULL
    BY <2>1, AskedFor DEF Entire
  <2> DEFINE r == Business!Ask(new["commerce"])
  <2>4. x2' = [new EXCEPT !["commerce"] = r]
    BY <1>3
  <2> HIDE DEF r
  <2>5. Entire(r)
    BY <2>2 DEF r
  <2>3. /\ EntireAll(x2') /\ x2'["commerce"] = r
        /\ \A u \in Business!Queries \ {"commerce"} : x2'[u] = new[u]
    <3>1. x2' = [u \in Business!Queries |-> IF u = "commerce" THEN r ELSE new[u]]
      BY <2>1, <2>4 DEF EntireAll
    <3> QED BY <2>1, <2>5, <3>1, Replaced
  <2> QED BY <2>2, <2>3 DEF r
<1> QED BY <1>1, <1>2, <1>3

(* The form is kept only above a profile with the same draft.              *)
LEMMA FormRendered ==
  ASSUME BusinessInv, NEW new, Business!Render(new),
         x2'["commerce"].data = new["commerce"].data,
         new["commerce"].data # NULL => new["commerce"].data \in Known
  PROVE  FormIsOfProfile' /\ FormTyped'
<1> DEFINE p == new["commerce"].data.profile
<1>1. CASE ~Business!consoleShown(new)
  BY <1>1 DEF Business!Render, FormIsOfProfile, FormTyped
<1>2. CASE Business!consoleShown(new)
  <2>1. new["commerce"].data # NULL /\ new["commerce"].data \in Known
    BY <1>2 DEF Business!consoleShown
  <2>2. Business!draft(p) \in Drafts
    BY <2>1, DraftTyped DEF BusinessInv, KnownWell
  <2>3. CASE x3 # NULL /\ x3.key = Business!formKey(p)
    <3>1. x3' = x3
      BY <1>2, <2>3 DEF Business!Render
    <3>2. /\ x2["commerce"].data # NULL
          /\ x3.key = Business!formKey(x2["commerce"].data.profile)
          /\ x3.base = Business!draft(x2["commerce"].data.profile)
      BY <2>3 DEF BusinessInv, FormIsOfProfile
    <3>3. x2["commerce"].data \in Known
      BY <3>2 DEF Known, Business!Queries
    <3>4. Business!draft(x2["commerce"].data.profile) = Business!draft(p)
      BY <2>1, <2>3, <3>2, <3>3 DEF BusinessInv, KnownWell, Same
    <3> QED BY <2>1, <2>3, <3>1, <3>2, <3>4 DEF BusinessInv, FormIsOfProfile, FormTyped
  <2>4. CASE ~(x3 # NULL /\ x3.key = Business!formKey(p))
    <3>1. x3' = [key |-> Business!formKey(p), base |-> Business!draft(p), edits |-> <<>>]
      BY <1>2, <2>4 DEF Business!Render
    <3>2. DOMAIN x3'.edits = {}
      BY <3>1
    <3> QED BY <2>1, <2>2, <3>1, <3>2 DEF FormIsOfProfile, FormTyped
  <2> QED BY <2>3, <2>4
<1> QED BY <1>1, <1>2

(* Where what is known comes from.                                         *)
LEMMA KnownFrom ==
  ASSUME \A q \in Business!Queries : /\ x2'[q].data \in Known \cup {x1', NULL}
                                     /\ x2'[q].read \in Known \cup {x1', NULL},
         \A m \in x6' : m.overview \in Known \cup {x1', NULL}
  PROVE  Known' \subseteq Known \cup {x1'}
BY DEF Known

(* Whatever is read, answered or on the server is known.                   *)
LEMMA KnownAre ==
  /\ \A q \in Business!Queries : x2[q].data \in Known \cup {NULL} /\ x2[q].read \in Known \cup {NULL}
  /\ \A m \in x6 : m.overview \in Known \cup {NULL}
  /\ x1 \in Known
BY DEF Known

(* The queries change, or only what is asked of them.                      *)
LEMMA OnlyQueries ==
  ASSUME BusinessInv, x1' = x1, x6' \subseteq x6, EntireAll(x2'),
         \A q \in Business!Queries : x2'[q].data \in Known \cup {NULL} /\ x2'[q].read \in Known \cup {NULL},
         FormIsOfProfile', FormTyped'
  PROVE  BusinessInv'
<1>1. Known' \subseteq Known \cup {x1'}
  BY KnownAre, KnownFrom
<1>2. KnownWell'
  BY <1>1, KnownStays DEF BusinessInv, KnownWell
<1> QED BY <1>2 DEF BusinessInv, MutationsEntire, ServerEntire

(* A read that begins, is answered or fails without a new answer on screen. *)
LEMMA AskedAgain ==
  ASSUME BusinessInv, UNCHANGED <<x1, x3, x6>>, EntireAll(x2'),
         \A q \in Business!Queries : /\ x2'[q].data = x2[q].data
                                     /\ x2'[q].read \in Known \cup {NULL}
  PROVE  BusinessInv'
<1>1. FormIsOfProfile' /\ FormTyped'
  BY DEF BusinessInv, FormIsOfProfile, FormTyped, Business!Queries
<1> QED BY <1>1, KnownAre, OnlyQueries

(* An answer is shown: the form follows the profile that is rendered.      *)
LEMMA Shown ==
  ASSUME BusinessInv, x1' = x1, x6' \subseteq x6, NEW new, EntireAll(new), Business!Render(new),
         \A q \in Business!Queries : new[q].data \in Known \cup {NULL} /\ new[q].read \in Known \cup {NULL}
  PROVE  BusinessInv'
<1>1. /\ EntireAll(x2')
      /\ \A q \in Business!Queries : /\ x2'[q].data = new[q].data
                                     /\ x2'[q].read = new[q].read \/ x2'[q].read = NULL
  BY Rendered
<1>2. FormIsOfProfile' /\ FormTyped'
  BY <1>1, FormRendered DEF Business!Queries
<1> QED BY <1>1, <1>2, OnlyQueries

(* A business opened for the first time.                                   *)
LEMMA BusinessInit ==
  ASSUME Business!Init
  PROVE  BusinessInv
<1> DEFINE p == x1.profile
<1>1. /\ x1 = [business |-> "ACTIVE", profile |-> p, serial |-> 1]
      /\ p = NULL \/ p = [status |-> "DRAFT", values |-> Business!emptyDraft, updatedAt |-> 1]
  BY DEF Business!Init
<1>2. PICK kept \in BOOLEAN :
        x2 = [q \in Business!Queries |->
               [data |-> IF kept THEN x1 ELSE NULL, fetch |-> "asked", read |-> NULL,
                error |-> FALSE, invalidated |-> FALSE]]
  BY DEF Business!Init
<1>3. EntireAll(x2) /\ \A q \in Business!Queries : x2[q].data \in {x1, NULL} /\ x2[q].read = NULL
  BY <1>2 DEF EntireAll, Entire
<1>4. x6 = {}
  BY DEF Business!Init
<1>5. Known = {x1}
  BY <1>3, <1>4 DEF Known
<1>6. Had(p, 1) /\ x1.serial = 1
  <2>1. Business!draft(NULL) \in Drafts
    BY DraftTyped DEF Had
  <2>2. Business!emptyDraft \in Drafts
    BY <2>1 DEF Business!draft
  <2> QED BY <1>1, <2>2 DEF Had
<1>7. KnownWell
  BY <1>5, <1>6 DEF KnownWell, Same
<1>8. FormIsOfProfile /\ FormTyped
  <2>1. CASE ~Business!consoleShown(x2)
    BY <2>1 DEF Business!Init, FormIsOfProfile, FormTyped
  <2>2. CASE Business!consoleShown(x2)
    <3>1. x3 = [key |-> Business!formKey(p), base |-> Business!draft(p), edits |-> <<>>]
      BY <2>2 DEF Business!Init
    <3>2. x2["commerce"].data = x1 /\ x2["commerce"].data # NULL
      BY <1>3, <2>2 DEF Business!consoleShown, Business!Queries
    <3>3. Business!draft(p) \in Drafts
      BY <1>6, DraftTyped
    <3>4. DOMAIN x3.edits = {}
      BY <3>1
    <3> QED BY <3>1, <3>2, <3>3, <3>4 DEF FormIsOfProfile, FormTyped
  <2> QED BY <2>1, <2>2
<1> QED BY <1>1, <1>3, <1>4, <1>7, <1>8 DEF BusinessInv, ServerEntire, MutationsEntire

(* The steps of the reads.                                                 *)
LEMMA BusinessReads ==
  ASSUME BusinessInv, NEW q \in Business!Queries,
         Business!Read(q) \/ Business!Answered(q) \/ Business!Fails(q) \/ Business!refetch(q)
  PROVE  BusinessInv' /\ x6' = x6
<1>0. EntireAll(x2) /\ Entire(x2[q]) /\ x2 = [u \in Business!Queries |-> x2[u]]
  BY DEF BusinessInv, EntireAll
<1>1. CASE Business!Read(q)
  <2> DEFINE r == [x2[q] EXCEPT !.fetch = "read", !.read = x1]
  <2>1. x2' = [u \in Business!Queries |-> IF u = q THEN r ELSE x2[u]]
    BY <1>0, <1>1 DEF Business!Read
  <2>2. r = [data |-> x2[q].data, fetch |-> "read", read |-> x1, error |-> x2[q].error,
             invalidated |-> x2[q].invalidated]
    BY <1>0, ReadPut
  <2> HIDE DEF r
  <2>3. Entire(r) /\ r.data = x2[q].data /\ r.read = x1
    BY <2>2 DEF Entire
  <2>4. EntireAll(x2') /\ x2'[q] = r /\ \A u \in Business!Queries \ {q} : x2'[u] = x2[u]
    BY <1>0, <2>1, <2>3, Replaced
  <2>5. UNCHANGED <<x1, x3, x6>>
    BY <1>1 DEF Business!Read
  <2> QED BY <2>3, <2>4, <2>5, AskedAgain, KnownAre
<1>2. CASE Business!Answered(q)
  <2> DEFINE r == [data |-> x2[q].read, fetch |-> NULL, read |-> NULL,
                   error |-> FALSE, invalidated |-> FALSE]
             new == [u \in Business!Queries |-> IF u = q THEN r ELSE x2[u]]
  <2>1. new = [x2 EXCEPT ![q] = r]
    BY <1>0
  <2>2. Business!Render(new)
    BY <1>2, <2>1 DEF Business!Answered
  <2>3. Entire(r) /\ r.data = x2[q].read /\ r.read = NULL
    BY DEF Entire
  <2> HIDE DEF r
  <2>4. EntireAll(new) /\ new[q] = r /\ \A u \in Business!Queries \ {q} : new[u] = x2[u]
    BY <1>0, <2>3, Replaced
  <2>5. UNCHANGED <<x1, x6>>
    BY <1>2 DEF Business!Answered
  <2> HIDE DEF new
  <2>6. \A u \in Business!Queries : new[u].data \in Known \cup {NULL} /\ new[u].read \in Known \cup {NULL}
    BY <2>3, <2>4, KnownAre
  <2> QED BY <2>2, <2>4, <2>5, <2>6, Shown
<1>3. CASE Business!Fails(q)
  <2> DEFINE r == [data |-> x2[q].data, fetch |-> NULL, read |-> NULL,
                   error |-> TRUE, invalidated |-> TRUE]
             new == [u \in Business!Queries |-> IF u = q THEN r ELSE x2[u]]
  <2>1. new = [x2 EXCEPT ![q] = r]
    BY <1>0
  <2>2. Business!Render(new)
    BY <1>3, <2>1 DEF Business!Fails
  <2>3. Entire(r) /\ r.data = x2[q].data /\ r.read = NULL
    BY DEF Entire
  <2> HIDE DEF r
  <2>4. EntireAll(new) /\ new[q] = r /\ \A u \in Business!Queries \ {q} : new[u] = x2[u]
    BY <1>0, <2>3, Replaced
  <2>5. UNCHANGED <<x1, x6>>
    BY <1>3 DEF Business!Fails
  <2> HIDE DEF new
  <2>6. \A u \in Business!Queries : new[u].data \in Known \cup {NULL} /\ new[u].read \in Known \cup {NULL}
    BY <2>3, <2>4, KnownAre
  <2> QED BY <2>2, <2>4, <2>5, <2>6, Shown
<1>4. CASE Business!refetch(q)
  <2> DEFINE r == Business!Ask(x2[q])
  <2>1. x2' = [u \in Business!Queries |-> IF u = q THEN r ELSE x2[u]]
    BY <1>0, <1>4 DEF Business!refetch
  <2>2. Entire(r) /\ r.data = x2[q].data /\ r.read = NULL
    BY <1>0, AskedFor DEF Entire
  <2> HIDE DEF r
  <2>3. EntireAll(x2') /\ x2'[q] = r /\ \A u \in Business!Queries \ {q} : x2'[u] = x2[u]
    BY <1>0, <2>1, <2>2, Replaced
  <2>4. UNCHANGED <<x1, x3, x6>>
    BY <1>4 DEF Business!refetch
  <2> QED BY <2>2, <2>3, <2>4, AskedAgain, KnownAre
<1>5. x6' = x6
  BY DEF Business!Read, Business!Answered, Business!Fails, Business!refetch
<1> QED BY <1>1, <1>2, <1>3, <1>4, <1>5

(* The server changes.                                                     *)
LEMMA ServerMoves ==
  ASSUME BusinessInv, UNCHANGED <<x2, x3>>, ServerEntire', MutationsEntire',
         x1'.serial \in Nat, x1'.serial >= x1.serial,
         \/ x1'.profile = x1.profile
         \/ Had(x1'.profile, x1'.serial) /\ x1'.profile.updatedAt > x1.serial,
         \A m \in x6' : m.overview \in Known \cup {x1', NULL}
  PROVE  BusinessInv'
<1>1. Known' \subseteq Known \cup {x1'}
  BY KnownAre, KnownFrom
<1>2. KnownWell'
  BY <1>1, KnownStays DEF BusinessInv
<1>3. FormIsOfProfile' /\ FormTyped' /\ EntireAll(x2')
  BY DEF BusinessInv, FormIsOfProfile, FormTyped
<1> QED BY <1>2, <1>3 DEF BusinessInv

(* The steps of the lifecycle: what was done is read again.                *)
LEMMA BusinessLifecycle ==
  ASSUME BusinessInv,
         \/ \E key \in DOMAIN Business!Outcome : Business!run(key)
         \/ \E r \in x4 : \/ Business!LifecycleServed(r) \/ Business!LifecycleDone(r)
                          \/ Business!Ended(r) \/ Business!LifecycleLost(r)
  PROVE  BusinessInv' /\ x6' = x6
<1>0. EntireAll(x2) /\ x1.serial \in Nat
  BY DEF BusinessInv, KnownWell
<1>1. CASE UNCHANGED <<x1, x2, x3, x6>>
  BY <1>0, <1>1, AskedAgain, KnownAre
<1>2. ASSUME NEW r \in x4, Business!LifecycleServed(r)
      PROVE  BusinessInv' /\ x6' = x6
  <2>1. UNCHANGED <<x2, x3, x6>>
    BY <1>2 DEF Business!LifecycleServed
  <2>2. x1' = x1 \/ x1' = [x1 EXCEPT !.business = Business!Outcome[r.key], !.serial = x1.serial + 1]
    BY <1>2 DEF Business!LifecycleServed, Business!Now
  <2>3. CASE x1' = x1
    BY <1>0, <2>1, <2>3, AskedAgain, KnownAre
  <2>4. CASE x1' = [x1 EXCEPT !.business = Business!Outcome[r.key], !.serial = x1.serial + 1]
    <3> DEFINE s1 == [x1 EXCEPT !.business = Business!Outcome[r.key]]
    <3>1. s1 = [business |-> Business!Outcome[r.key], profile |-> x1.profile, serial |-> x1.serial]
      BY DEF BusinessInv, ServerEntire
    <3>2. x1' = [s1 EXCEPT !.serial = x1.serial + 1]
      BY <2>4
    <3> HIDE DEF s1
    <3>3. x1' = [business |-> Business!Outcome[r.key], profile |-> x1.profile, serial |-> x1.serial + 1]
      BY <3>1, <3>2
    <3>4. ServerEntire' /\ x1'.profile = x1.profile /\ x1'.serial = x1.serial + 1
      BY <3>3 DEF ServerEntire
    <3>5. MutationsEntire'
      BY <2>1 DEF BusinessInv, MutationsEntire
    <3>6. \A m \in x6' : m.overview \in Known \cup {x1', NULL}
      BY <2>1, KnownAre
    <3>7. x1'.serial \in Nat /\ x1'.serial >= x1.serial
      BY <1>0, <3>4
    <3> QED BY <2>1, <3>4, <3>5, <3>6, <3>7, ServerMoves
  <2> QED BY <2>1, <2>2, <2>3, <2>4
<1>3. ASSUME NEW r \in x4, Business!LifecycleDone(r)
      PROVE  BusinessInv' /\ x6' = x6
  <2>1. UNCHANGED <<x1, x3, x6>> /\ Business!invalidate
    BY <1>3 DEF Business!LifecycleDone
  <2>2. /\ x2' = [q \in Business!Queries |-> x2'[q]]
        /\ \A q \in Business!Queries : \/ x2'[q] = [x2[q] EXCEPT !.invalidated = TRUE]
                                       \/ x2'[q] = x2[q]
                                       \/ x2'[q] = Business!Ask(x2[q])
    BY <2>1 DEF Business!invalidate
  <2>3. ASSUME NEW q \in Business!Queries
        PROVE  /\ Entire(x2'[q]) /\ x2'[q].data = x2[q].data
               /\ x2'[q].read \in {x2[q].read, NULL}
    <3>1. Entire(x2[q])
      BY <1>0 DEF EntireAll
    <3>2. CASE x2'[q] = [x2[q] EXCEPT !.invalidated = TRUE]
      BY <3>1, <3>2 DEF Entire
    <3>3. CASE x2'[q] = x2[q]
      BY <3>1, <3>3
    <3>4. CASE x2'[q] = Business!Ask(x2[q])
      <4>1. x2'[q] = [data |-> x2[q].data, fetch |-> "asked", read |-> NULL,
                      error |-> x2[q].error /\ x2[q].data # NULL, invalidated |-> x2[q].invalidated]
        BY <3>1, <3>4, AskedFor
      <4> QED BY <4>1 DEF Entire
    <3> QED BY <2>2, <3>2, <3>3, <3>4
  <2>4. EntireAll(x2')
    BY <2>2, <2>3 DEF EntireAll
  <2>5. \A q \in Business!Queries : x2'[q].data = x2[q].data /\ x2'[q].read \in Known \cup {NULL}
    BY <2>3, KnownAre
  <2> QED BY <2>1, <2>4, <2>5, AskedAgain
<1>4. CASE \E key \in DOMAIN Business!Outcome : Business!run(key)
  BY <1>1, <1>4 DEF Business!run
<1>5. ASSUME NEW r \in x4, Business!Ended(r) \/ Business!LifecycleLost(r)
      PROVE  BusinessInv' /\ x6' = x6
  BY <1>1, <1>5 DEF Business!Ended, Business!LifecycleLost
<1> QED BY <1>2, <1>3, <1>4, <1>5

(* What is typed stays a draft.                                            *)
LEMMA BusinessType ==
  ASSUME BusinessInv, NEW f \in Business!Fields, NEW v \in Values, Business!type(f, v)
  PROVE  BusinessInv' /\ x6' = x6
<1>1. x3 # NULL /\ UNCHANGED <<x1, x2, x6>>
  BY DEF Business!type
<1>2. /\ x3 = [key |-> x3.key, base |-> x3.base, edits |-> x3.edits]
      /\ x3.base \in Drafts /\ DOMAIN x3.edits \subseteq Business!Fields
      /\ \A g \in DOMAIN x3.edits : x3.edits[g] \in Values
  BY <1>1 DEF BusinessInv, FormTyped
<1> DEFINE e == [g \in DOMAIN x3.edits \cup {f} |-> IF g = f THEN v ELSE x3.edits[g]]
<1>3. x3' = [x3 EXCEPT !.edits = e]
  BY DEF Business!type
<1>4. DOMAIN e \subseteq Business!Fields /\ \A g \in DOMAIN e : e[g] \in Values
  BY <1>2
<1> HIDE DEF e
<1>5. x3' = [key |-> x3.key, base |-> x3.base, edits |-> e]
  BY <1>2, <1>3
<1>6. FormTyped'
  BY <1>2, <1>4, <1>5 DEF FormTyped
<1>7. FormIsOfProfile'
  BY <1>1, <1>5 DEF BusinessInv, FormIsOfProfile
<1>8. EntireAll(x2')
  BY <1>1 DEF BusinessInv
<1>9. \A q \in Business!Queries : x2'[q].data \in Known \cup {NULL} /\ x2'[q].read \in Known \cup {NULL}
  BY <1>1, KnownAre
<1> QED BY <1>1, <1>6, <1>7, <1>8, <1>9, OnlyQueries

(* A change of the profile is sent.                                        *)
LEMMA BusinessSend ==
  ASSUME BusinessInv, NEW kind \in {"save", "activate", "pause"}, NEW values,
         Business!Send(kind, values),
         kind = "save" => values \in Drafts
  PROVE  BusinessInv' /\ \A m \in x6' \ x6 : m.kind = kind /\ m.values = values
<1> DEFINE new == [kind |-> kind, values |-> values, mount |-> x5, state |-> "sent",
                   overview |-> NULL, id |-> x8]
<1>1. x6' = x6 \cup {new} /\ UNCHANGED <<x1, x2, x3>>
  BY DEF Business!Send
<1>2. /\ new.kind = kind /\ new.values = values /\ new.overview = NULL
      /\ new = [kind |-> new.kind, values |-> new.values, mount |-> new.mount,
                state |-> new.state, overview |-> new.overview, id |-> new.id]
  OBVIOUS
<1> HIDE DEF new
<1>3. MutationsEntire'
  BY <1>1, <1>2 DEF BusinessInv, MutationsEntire
<1>4. \A m \in x6' : m.overview \in Known \cup {x1', NULL}
  BY <1>1, <1>2, KnownAre
<1>5. ServerEntire' /\ x1'.serial \in Nat /\ x1'.serial >= x1.serial /\ x1'.profile = x1.profile
  BY <1>1 DEF BusinessInv, ServerEntire, KnownWell
<1> QED BY <1>1, <1>2, <1>3, <1>4, <1>5, ServerMoves

(* The draft that is sent is the profile on screen but for what was typed. *)
LEMMA BusinessSends ==
  ASSUME BusinessInv, Business!saveDraft \/ Business!activate \/ Business!pause
  PROVE  BusinessInv' /\ Business!UntouchedStays
<1>1. CASE Business!saveDraft
  <2> DEFINE d == Business!filled(x3)
  <2>1. x3 # NULL /\ Business!Send("save", d)
    BY <1>1 DEF Business!saveDraft
  <2>2. /\ x3.base \in Drafts /\ DOMAIN x3.edits \subseteq Business!Fields
        /\ \A f \in DOMAIN x3.edits : x3.edits[f] \in Values
        /\ x2["commerce"].data # NULL
        /\ x3.base = Business!draft(x2["commerce"].data.profile)
    BY <2>1 DEF BusinessInv, FormTyped, FormIsOfProfile
  <2>3. d \in Drafts /\ \A f \in Business!Fields \ DOMAIN x3.edits : d[f] = x3.base[f]
    BY <2>2 DEF Business!filled, Drafts
  <2> HIDE DEF d
  <2>4. BusinessInv' /\ \A m \in x6' \ x6 : m.kind = "save" /\ m.values = d
    BY <2>1, <2>3, BusinessSend
  <2>5. Business!draft(Business!profile) = x3.base
    BY <2>2 DEF Business!profile, Business!commerce
  <2> QED BY <2>3, <2>4, <2>5 DEF Business!UntouchedStays
<1>2. CASE Business!activate
  <2>1. Business!Send("activate", NULL)
    BY <1>2 DEF Business!activate
  <2>2. BusinessInv' /\ \A m \in x6' \ x6 : m.kind = "activate"
    BY <2>1, BusinessSend
  <2> QED BY <2>2 DEF Business!UntouchedStays
<1>3. CASE Business!pause
  <2>1. Business!Send("pause", NULL)
    BY <1>3 DEF Business!pause
  <2>2. BusinessInv' /\ \A m \in x6' \ x6 : m.kind = "pause"
    BY <2>1, BusinessSend
  <2> QED BY <2>2 DEF Business!UntouchedStays
<1> QED BY <1>1, <1>2, <1>3

(* A profile that is put down has the time of its change.                  *)
LEMMA Newer ==
  ASSUME NEW s \in Nat, x1.serial = s, NEW status, NEW values \in Drafts
  PROVE  /\ Had(Business!Profile(status, values), s + 1)
         /\ Business!Profile(status, values).updatedAt > s
BY DEF Had, Business!Profile, Business!Now

(* The server with another profile.                                        *)
LEMMA ServerPut ==
  ASSUME NEW o, NEW p, NEW k, NEW now,
         o = [business |-> o.business, profile |-> o.profile, serial |-> o.serial],
         now = [o EXCEPT !.profile = p, !.serial = k]
  PROVE  now = [business |-> o.business, profile |-> p, serial |-> k]
<1> DEFINE s1 == [o EXCEPT !.profile = p]
<1>1. s1 = [business |-> o.business, profile |-> p, serial |-> o.serial]
  OBVIOUS
<1>2. now = [s1 EXCEPT !.serial = k]
  OBVIOUS
<1> HIDE DEF s1
<1> QED BY <1>1, <1>2

(* Others change the business, or its profile.                             *)
LEMMA BusinessOthers ==
  ASSUME BusinessInv, Business!OthersAct
  PROVE  BusinessInv' /\ x6' = x6
<1>0. /\ x1.serial \in Nat /\ Had(x1.profile, x1.serial)
      /\ x1 = [business |-> x1.business, profile |-> x1.profile, serial |-> x1.serial]
      /\ UNCHANGED <<x2, x3, x6>>
  BY KnownAre DEF BusinessInv, KnownWell, ServerEntire, Business!OthersAct
<1>1. MutationsEntire' /\ \A m \in x6' : m.overview \in Known \cup {x1', NULL}
  BY <1>0, KnownAre DEF BusinessInv, MutationsEntire
<1>2. ASSUME NEW b, x1' = [x1 EXCEPT !.business = b, !.serial = Business!Now]
      PROVE  BusinessInv'
  <2> DEFINE s1 == [x1 EXCEPT !.business = b]
  <2>1. s1 = [business |-> b, profile |-> x1.profile, serial |-> x1.serial]
    BY <1>0
  <2>2. x1' = [s1 EXCEPT !.serial = Business!Now]
    BY <1>2
  <2> HIDE DEF s1
  <2>3. x1' = [business |-> b, profile |-> x1.profile, serial |-> x1.serial + 1]
    BY <2>1, <2>2 DEF Business!Now
  <2>4. ServerEntire' /\ x1'.profile = x1.profile /\ x1'.serial = x1.serial + 1
    BY <2>3 DEF ServerEntire
  <2>5. x1'.serial \in Nat /\ x1'.serial >= x1.serial
    BY <1>0, <2>4
  <2> QED BY <1>0, <1>1, <2>4, <2>5, ServerMoves
<1>3. ASSUME NEW f \in Business!Fields, NEW v \in Values, x1.profile # NULL,
             x1' = [x1 EXCEPT !.serial = Business!Now,
                      !.profile = Business!Profile("DRAFT", [@.values EXCEPT ![f] = v])]
      PROVE  BusinessInv'
  <2> DEFINE d == [x1.profile.values EXCEPT ![f] = v]
             p == Business!Profile("DRAFT", d)
             s1 == [x1 EXCEPT !.serial = Business!Now]
  <2>1. d \in Drafts
    BY <1>0, <1>3 DEF Had, Drafts
  <2>2. Had(p, x1.serial + 1) /\ p.updatedAt > x1.serial
    BY <1>0, <2>1, Newer
  <2>3. s1 = [business |-> x1.business, profile |-> x1.profile, serial |-> Business!Now]
    BY <1>0
  <2>4. x1' = [s1 EXCEPT !.profile = p]
    BY <1>3
  <2> HIDE DEF s1, p
  <2>5. x1' = [business |-> x1.business, profile |-> p, serial |-> Business!Now]
    BY <2>3, <2>4
  <2>6. ServerEntire' /\ x1'.profile = p /\ x1'.serial = x1.serial + 1
    BY <2>5 DEF ServerEntire, Business!Now
  <2>7. x1'.serial \in Nat /\ x1'.serial >= x1.serial
    BY <1>0, <2>6
  <2> QED BY <1>0, <1>1, <2>2, <2>6, <2>7, ServerMoves
<1> QED BY <1>0, <1>2, <1>3 DEF Business!OthersAct

(* The steps of a change of the profile: the server's answer is one it has *)
(* had.                                                                    *)
LEMMA BusinessCommerce ==
  ASSUME BusinessInv, NEW m \in x6,
         Business!CommerceServed(m) \/ Business!CommerceDone(m) \/ Business!CommerceFails(m)
  PROVE  BusinessInv' /\ \A n \in x6' \ x6 : n.state # "sent"
<1>0. /\ x1.serial \in Nat /\ Had(x1.profile, x1.serial) /\ EntireAll(x2)
      /\ x1 = [business |-> x1.business, profile |-> x1.profile, serial |-> x1.serial]
  BY KnownAre DEF BusinessInv, KnownWell, ServerEntire
<1>1. /\ m = [kind |-> m.kind, values |-> m.values, mount |-> m.mount,
              state |-> m.state, overview |-> m.overview, id |-> m.id]
      /\ m.kind \in {"save", "activate", "pause"}
      /\ (m.kind = "save" /\ m.state = "sent") => m.values \in Drafts
  BY DEF BusinessInv, MutationsEntire
<1>2. CASE Business!CommerceServed(m)
  <2>1. m.state = "sent" /\ UNCHANGED <<x2, x3>>
    BY <1>2 DEF Business!CommerceServed
  <2>2. PICK p, n :
          /\ \/ x1' = x1 /\ n = [m EXCEPT !.state = "refused"]
             \/ /\ Had(p, x1.serial + 1) /\ p.updatedAt > x1.serial
                /\ x1' = [x1 EXCEPT !.profile = p, !.serial = x1.serial + 1]
                /\ n = [m EXCEPT !.state = "ok", !.overview = x1']
          /\ x6' = (x6 \ {m}) \cup {n}
    <3> DEFINE q == x1.profile
               ok == CASE m.kind = "save" -> TRUE
                       [] m.kind = "activate" -> q # NULL /\ x1.business = "ACTIVE"
                       [] m.kind = "pause" -> q # NULL
               new == CASE m.kind = "save" -> Business!Profile("DRAFT", m.values)
                        [] m.kind = "activate" -> Business!Profile("ACTIVE", q.values)
                        [] m.kind = "pause" -> Business!Profile("PAUSED", q.values)
    <3>1. /\ x1' = IF ok THEN [x1 EXCEPT !.profile = new, !.serial = Business!Now] ELSE x1
          /\ x6' = (x6 \ {m}) \cup
               {IF ok THEN [m EXCEPT !.state = "ok", !.overview = x1'] ELSE [m EXCEPT !.state = "refused"]}
      BY <1>2 DEF Business!CommerceServed
    <3>2. CASE ok
      <4>1. Had(new, x1.serial + 1) /\ new.updatedAt > x1.serial
        <5>1. CASE m.kind = "save"
          <6>1. new = Business!Profile("DRAFT", m.values) /\ m.values \in Drafts
            BY <1>1, <2>1, <5>1
          <6> HIDE DEF new
          <6> QED BY <1>0, <6>1, Newer
        <5>2. CASE m.kind = "activate"
          <6>1. new = Business!Profile("ACTIVE", q.values) /\ q.values \in Drafts
            BY <1>0, <3>2, <5>2 DEF Had
          <6> HIDE DEF new
          <6> QED BY <1>0, <6>1, Newer
        <5>3. CASE m.kind = "pause"
          <6>1. new = Business!Profile("PAUSED", q.values) /\ q.values \in Drafts
            BY <1>0, <3>2, <5>3 DEF Had
          <6> HIDE DEF new
          <6> QED BY <1>0, <6>1, Newer
        <5> QED BY <1>1, <5>1, <5>2, <5>3
      <4> HIDE DEF new, ok
      <4> QED BY <3>1, <3>2, <4>1 DEF Business!Now
    <3>3. CASE ~ok
      <4> HIDE DEF new, ok
      <4> QED BY <3>1, <3>3
    <3> QED BY <3>2, <3>3
  <2>3. CASE x1' = x1 /\ n = [m EXCEPT !.state = "refused"]
    <3>1. n = [kind |-> m.kind, values |-> m.values, mount |-> m.mount,
               state |-> "refused", overview |-> m.overview, id |-> m.id]
      BY <1>1, <2>3
    <3>2. MutationsEntire'
      BY <1>1, <2>2, <3>1 DEF BusinessInv, MutationsEntire
    <3>3. \A u \in x6' : u.overview \in Known \cup {x1', NULL}
      BY <2>2, <3>1, KnownAre
    <3>4. ServerEntire' /\ x1'.serial \in Nat /\ x1'.serial >= x1.serial
      BY <1>0, <2>3 DEF ServerEntire
    <3>5. BusinessInv'
      BY <2>1, <2>3, <3>2, <3>3, <3>4, ServerMoves
    <3> QED BY <2>2, <3>1, <3>5
  <2>4. CASE /\ Had(p, x1.serial + 1) /\ p.updatedAt > x1.serial
             /\ x1' = [x1 EXCEPT !.profile = p, !.serial = x1.serial + 1]
             /\ n = [m EXCEPT !.state = "ok", !.overview = x1']
    <3>1. x1' = [business |-> x1.business, profile |-> p, serial |-> x1.serial + 1]
      BY <1>0, <2>4, ServerPut
    <3>2. ServerEntire' /\ x1'.serial = x1.serial + 1 /\ x1'.profile = p
      BY <3>1 DEF ServerEntire
    <3>3. x1'.serial \in Nat /\ x1'.serial >= x1.serial
      BY <1>0, <3>2
    <3> DEFINE m1 == [m EXCEPT !.state = "ok"]
    <3>4. m1 = [kind |-> m.kind, values |-> m.values, mount |-> m.mount,
                state |-> "ok", overview |-> m.overview, id |-> m.id]
      BY <1>1
    <3>5. n = [m1 EXCEPT !.overview = x1']
      BY <2>4
    <3> HIDE DEF m1
    <3>6. n = [kind |-> m.kind, values |-> m.values, mount |-> m.mount,
               state |-> "ok", overview |-> x1', id |-> m.id]
      BY <3>4, <3>5
    <3>7. MutationsEntire'
      BY <1>1, <2>2, <3>6 DEF BusinessInv, MutationsEntire
    <3>8. \A u \in x6' : u.overview \in Known \cup {x1', NULL}
      BY <2>2, <3>6, KnownAre
    <3>9. Had(x1'.profile, x1'.serial) /\ x1'.profile.updatedAt > x1.serial
      BY <2>4, <3>2
    <3>10. BusinessInv'
      BY <2>1, <3>2, <3>3, <3>7, <3>8, <3>9, ServerMoves
    <3> QED BY <2>2, <3>6, <3>10
  <2> QED BY <2>2, <2>3, <2>4
<1>3. CASE Business!CommerceDone(m)
  <2> DEFINE c == x2["commerce"]
             r == [data |-> m.overview, fetch |-> c.fetch, read |-> c.read,
                   error |-> FALSE, invalidated |-> FALSE]
             new == [u \in Business!Queries |-> IF u = "commerce" THEN r ELSE x2[u]]
  <2>0. "commerce" \in Business!Queries
    BY DEF Business!Queries
  <2>1. new = [x2 EXCEPT !["commerce"] = r]
    BY <1>0, <2>0 DEF EntireAll
  <2>2. Business!Render(new)
    BY <1>3, <2>1 DEF Business!CommerceDone
  <2>3. Entire(r) /\ r.data = m.overview /\ r.read = x2["commerce"].read
    BY DEF Entire
  <2> HIDE DEF r
  <2>4. EntireAll(new) /\ new["commerce"] = r
        /\ \A u \in Business!Queries \ {"commerce"} : new[u] = x2[u]
    BY <1>0, <2>0, <2>3, Replaced
  <2>5. x1' = x1 /\ x6' = x6 \ {m}
    BY <1>3 DEF Business!CommerceDone
  <2> HIDE DEF new
  <2>6. \A u \in Business!Queries : new[u].data \in Known \cup {NULL} /\ new[u].read \in Known \cup {NULL}
    BY <2>0, <2>3, <2>4, KnownAre
  <2>7. BusinessInv'
    BY <2>2, <2>4, <2>5, <2>6, Shown
  <2> QED BY <2>5, <2>7
<1>4. CASE Business!CommerceFails(m)
  <2>1. UNCHANGED <<x1, x2, x3>> /\ x6' = x6 \ {m}
    BY <1>4 DEF Business!CommerceFails
  <2>2. MutationsEntire' /\ \A u \in x6' : u.overview \in Known \cup {x1', NULL}
    BY <2>1, KnownAre DEF BusinessInv, MutationsEntire
  <2>3. ServerEntire' /\ x1'.serial \in Nat /\ x1'.serial >= x1.serial /\ x1'.profile = x1.profile
    BY <1>0, <2>1 DEF ServerEntire
  <2>4. BusinessInv'
    BY <2>1, <2>2, <2>3, ServerMoves
  <2> QED BY <2>1, <2>4
<1> QED BY <1>2, <1>3, <1>4

(* Every step of the business page.                                        *)
LEMMA BusinessStep ==
  ASSUME BusinessInv, Business!Next
  PROVE  BusinessInv' /\ Business!UntouchedStays
<1>1. x6' = x6 => Business!UntouchedStays
  BY DEF Business!UntouchedStays
<1>2. ASSUME NEW q \in Business!Queries,
             Business!Read(q) \/ Business!Answered(q) \/ Business!Fails(q) \/ Business!refetch(q)
      PROVE  BusinessInv' /\ Business!UntouchedStays
  BY <1>1, <1>2, BusinessReads
<1>3. CASE \/ \E key \in DOMAIN Business!Outcome : Business!run(key)
           \/ \E r \in x4 : \/ Business!LifecycleServed(r) \/ Business!LifecycleDone(r)
                            \/ Business!Ended(r) \/ Business!LifecycleLost(r)
  BY <1>1, <1>3, BusinessLifecycle
<1>4. ASSUME NEW f \in Business!Fields, NEW v \in Values, Business!type(f, v)
      PROVE  BusinessInv' /\ Business!UntouchedStays
  BY <1>1, <1>4, BusinessType
<1>5. CASE Business!saveDraft \/ Business!activate \/ Business!pause
  BY <1>5, BusinessSends
<1>6. ASSUME NEW m \in x6,
             Business!CommerceServed(m) \/ Business!CommerceDone(m) \/ Business!CommerceFails(m)
      PROVE  BusinessInv' /\ Business!UntouchedStays
  <2>1. BusinessInv' /\ \A n \in x6' \ x6 : n.state # "sent"
    BY <1>6, BusinessCommerce
  <2> QED BY <2>1 DEF Business!UntouchedStays
<1>7. CASE Business!OthersAct
  BY <1>1, <1>7, BusinessOthers
<1> QED BY <1>2, <1>3, <1>4, <1>5, <1>6, <1>7 DEF Business!Next

-----------------------------------------------------------------------------
(* The user: who has a profile keeps it.  Nothing is asked for again while *)
(* there is only an error, but from the notice or when the screen is       *)
(* opened again, which forget it; and a summary that was read is there.    *)

UserInv ==
  /\ User!TypeOK
  /\ (x2.data = NULL /\ x2.fetching # "no") => x2.error = NULL
  /\ x4 # NULL => x2.data # NULL
  /\ x3.data \in {"some", "deleted"} => x1.summary

(* The page of a user as it is opened.                                     *)
LEMMA UserInit ==
  ASSUME User!Init
  PROVE  UserInv
<1> USE DEF User!Init, User!Status
<1>0. 0 \in 0..MaxChanges /\ 0 \in 0..MaxFaults /\ 0 \in 0..MaxRefetches
  BY SizesAssumption
<1>1. x1 \in [status : User!Status, change : 0..MaxChanges,
              inlines : BOOLEAN, summary : BOOLEAN]
  BY <1>0
<1>2. User!enabled(x2) \in BOOLEAN
  BY DEF User!enabled
<1>3. /\ x3 \in [data : {"none", "some", "deleted", "missing"}, error : BOOLEAN,
                 fetching : BOOLEAN]
      /\ x3.data = "none"
  BY <1>2
<1> QED BY <1>0, <1>1, <1>3 DEF UserInv, User!TypeOK

(* What is asked of the summary when it becomes wanted.                    *)
LEMMA SummaryAsked ==
  ASSUME NEW d, User!TypeOK, User!Enable(d)
  PROVE  /\ x3' \in [data : {"none", "some", "deleted", "missing"}, error : BOOLEAN,
                     fetching : BOOLEAN]
         /\ x3'.data = x3.data
         /\ (x3'.fetching /\ ~x3.fetching) => User!enabled(d)
<1>1. x3 \in [data : {"none", "some", "deleted", "missing"}, error : BOOLEAN,
              fetching : BOOLEAN]
  BY DEF User!TypeOK
<1> QED BY <1>1 DEF User!Enable

(* The bounds of the user count.                                           *)
LEMMA Counting ==
  ASSUME NEW k, NEW n \in Nat, k \in 0..n, k < n
  PROVE  k + 1 \in 0..n
OBVIOUS

(* Its types, action by action.                                            *)
LEMMA UserTypes ==
  ASSUME UserInv, User!Next
  PROVE  User!TypeOK'
<1> DEFINE Details == [data : User!Data \cup {NULL},
                       error : {NULL, "404", "403", "other"},
                       fetching : {"no", "asked", "read"},
                       read : User!Data \cup {NULL}]
           Summaries == [data : {"none", "some", "deleted", "missing"}, error : BOOLEAN,
                         fetching : BOOLEAN]
           Accounts == [status : User!Status, change : 0..MaxChanges,
                        inlines : BOOLEAN, summary : BOOLEAN]
           Detailed == x2 \in Details /\ (x2.read # NULL) = (x2.fetching = "read")
           Asked == x4 \in {NULL, "ban", "unban"} /\ x5 \in {NULL, "ban", "unban"}
                      /\ (x5 # NULL => x5 = x4)
           Counted3 == x6 \in 0..MaxChanges /\ x7 \in 0..MaxFaults
                         /\ x8 \in 0..MaxRefetches
<1>0. x1 \in Accounts /\ Detailed /\ x3 \in Summaries /\ Asked /\ Counted3
  BY DEF UserInv, User!TypeOK
<1>1. CASE User!DetailRead
  <2>1. [status |-> x1.status, change |-> x1.change,
         summary |-> x1.inlines /\ x1.summary] \in User!Data
    BY <1>0 DEF User!Data
  <2>2. Detailed' /\ UNCHANGED <<x1, x3, x4, x5, x6, x7, x8>>
    BY <1>0, <1>1, <2>1, NullAssumption DEF User!DetailRead
  <2> QED BY <1>0, <2>2 DEF User!TypeOK
<1>2. CASE User!DetailAnswered
  <2>1. Detailed' /\ UNCHANGED <<x1, x4, x5, x6, x7, x8>>
    BY <1>0, <1>2 DEF User!DetailAnswered
  <2>2. x3' \in Summaries
    BY <1>2, SummaryAsked DEF User!DetailAnswered, UserInv
  <2> QED BY <1>0, <2>1, <2>2 DEF User!TypeOK
<1>3. CASE User!DetailFails
  <2>1. Detailed' /\ UNCHANGED <<x1, x3, x4, x5, x6, x8>>
    BY <1>0, <1>3 DEF User!DetailFails
  <2>2. x7' \in 0..MaxFaults
    BY <1>0, <1>3, SizesAssumption, Counting DEF User!DetailFails, User!Failures
  <2> QED BY <1>0, <2>1, <2>2 DEF User!TypeOK
<1>4. CASE User!SummaryAnswered
  <2>1. x3' \in Summaries /\ UNCHANGED <<x1, x2, x4, x5, x6, x7, x8>>
    BY <1>0, <1>4 DEF User!SummaryAnswered
  <2> QED BY <1>0, <2>1 DEF User!TypeOK
<1>5. CASE User!SummaryFails
  <2>1. x3' \in Summaries /\ UNCHANGED <<x1, x2, x4, x5, x6, x8>>
    BY <1>0, <1>5 DEF User!SummaryFails
  <2>2. x7' \in 0..MaxFaults
    BY <1>0, <1>5, SizesAssumption, Counting DEF User!SummaryFails, User!Failures
  <2> QED BY <1>0, <2>1, <2>2 DEF User!TypeOK
<1>6. CASE User!refetch
  <2>1. Detailed' /\ UNCHANGED <<x1, x3, x4, x5, x6, x7>>
    BY <1>0, <1>6 DEF User!refetch
  <2>2. x8' \in 0..MaxRefetches
    BY <1>0, <1>6, SizesAssumption, Counting DEF User!refetch
  <2> QED BY <1>0, <2>1, <2>2 DEF User!TypeOK
<1>7. CASE User!Reopen
  <2>1. Detailed' /\ Asked' /\ UNCHANGED <<x1, x6, x7>>
    BY <1>0, <1>7 DEF User!Reopen
  <2>2. x8' \in 0..MaxRefetches
    BY <1>0, <1>7, SizesAssumption, Counting DEF User!Reopen
  <2>3. x3' \in Summaries
    BY <1>7, SummaryAsked DEF User!Reopen, UserInv
  <2> QED BY <1>0, <2>1, <2>2, <2>3 DEF User!TypeOK
<1>8. CASE User!openAction \/ User!onClose \/ User!submitAction
  <2>1. Asked' /\ UNCHANGED <<x1, x2, x3, x6, x7, x8>>
    BY <1>0, <1>8 DEF User!openAction, User!actions, User!onClose, User!submitAction
  <2> QED BY <1>0, <2>1 DEF User!TypeOK
<1>9. CASE User!onSuccess
  <2>1. x1.change + 1 \in 0..MaxChanges
    BY <1>0, <1>9, SizesAssumption, Counting DEF User!onSuccess
  <2>2. x1' \in Accounts /\ x1'.change = x1.change + 1
    BY <1>0, <1>9, <2>1 DEF User!onSuccess, User!Status
  <2>3. Detailed' /\ Asked' /\ UNCHANGED <<x7, x8>>
    BY <1>0, <1>9 DEF User!onSuccess, User!invalidate
  <2>4. x3' \in Summaries
    BY <1>0, <1>9 DEF User!onSuccess
  <2>5. x6' \in 0..MaxChanges
    BY <1>9, <2>1, <2>2 DEF User!onSuccess
  <2> QED BY <1>0, <2>2, <2>3, <2>4, <2>5 DEF User!TypeOK
<1>10. CASE User!onError
  <2>1. Asked' /\ UNCHANGED <<x1, x2, x3, x6, x8>>
    BY <1>0, <1>10 DEF User!onError
  <2>2. x7' \in 0..MaxFaults
    BY <1>0, <1>10, SizesAssumption, Counting DEF User!onError, User!Failures
  <2> QED BY <1>0, <2>1, <2>2 DEF User!TypeOK
<1>11. CASE User!AccountChanges
  <2>1. x1.change + 1 \in 0..MaxChanges
    BY <1>0, <1>11, SizesAssumption, Counting DEF User!AccountChanges
  <2>2. x1' \in Accounts /\ UNCHANGED <<x2, x3, x4, x5, x6, x7, x8>>
    BY <1>0, <1>11, <2>1 DEF User!AccountChanges
  <2> QED BY <1>0, <2>2 DEF User!TypeOK
<1> QED
  BY <1>1, <1>2, <1>3, <1>4, <1>5, <1>6, <1>7, <1>8, <1>9, <1>10, <1>11
     DEF User!Next

(* No step of the page loses a profile or reads a summary in vain.         *)
LEMMA UserStep ==
  ASSUME UserInv, User!Next
  PROVE  UserInv' /\ User!ProfileStays /\ User!NoNeedlessSummary
<1> DEFINE Keeps ==
      /\ x2.data # NULL => x2'.data # NULL
      /\ (x2'.data = NULL /\ x2'.fetching # "no") => x2'.error = NULL
      /\ x4' # NULL => x2'.data # NULL
      /\ x3'.data \in {"some", "deleted"} => x1'.summary
      /\ User!ProfileStays /\ User!NoNeedlessSummary
<1>1. User!TypeOK /\ User!TypeOK'
  BY UserTypes DEF UserInv
<1>2. /\ (x2.data = NULL /\ x2.fetching # "no") => x2.error = NULL
      /\ x4 # NULL => x2.data # NULL
      /\ x3.data \in {"some", "deleted"} => x1.summary
  BY DEF UserInv
<1>3. /\ x2 \in [data : User!Data \cup {NULL}, error : {NULL, "404", "403", "other"},
                 fetching : {"no", "asked", "read"}, read : User!Data \cup {NULL}]
      /\ (x2.read # NULL) = (x2.fetching = "read") /\ (x5 # NULL => x5 = x4)
  BY <1>1 DEF User!TypeOK
<1>4. x3 \in [data : {"none", "some", "deleted", "missing"}, error : BOOLEAN, fetching : BOOLEAN]
  BY <1>1 DEF User!TypeOK
<1>5. x1 \in [status : User!Status, change : 0..MaxChanges, inlines : BOOLEAN, summary : BOOLEAN]
      /\ x8 \in Nat
  BY <1>1, SizesAssumption DEF User!TypeOK
<1> USE DEF User!ProfileStays, User!NoNeedlessSummary, User!user, User!detailMissing,
            User!summaryShown, User!summaryInlined
<1>6. ASSUME User!DetailRead
       PROVE  Keeps
  BY <1>2, <1>3, <1>6 DEF User!DetailRead
<1>7. ASSUME User!DetailAnswered
       PROVE  Keeps
  <2>1. /\ x3'.data = x3.data
        /\ (x3'.fetching /\ ~x3.fetching) => User!enabled(x2')
    BY <1>1, <1>7, SummaryAsked DEF User!DetailAnswered
  <2>2. /\ x2.data # NULL => x2'.data # NULL
        /\ x2'.fetching = "no" /\ x1' = x1 /\ x4' = x4 /\ x2.fetching = "read"
        /\ x2.data # NULL \/ x2.error = NULL
    BY <1>2, <1>3, <1>7 DEF User!DetailAnswered
  <2> QED BY <1>2, <2>1, <2>2, NullAssumption DEF User!enabled
<1>8. ASSUME User!DetailFails
       PROVE  Keeps
  BY <1>2, <1>3, <1>8, NullAssumption DEF User!DetailFails
<1>9. ASSUME User!SummaryAnswered
       PROVE  Keeps
  BY <1>2, <1>4, <1>9, NullAssumption DEF User!SummaryAnswered
<1>10. ASSUME User!SummaryFails
       PROVE  Keeps
  BY <1>2, <1>4, <1>10, NullAssumption DEF User!SummaryFails
<1>11. ASSUME User!refetch
       PROVE  Keeps
  <2>1. x8' # x8
    BY <1>5, <1>11 DEF User!refetch
  <2> QED BY <1>2, <1>3, <1>11, <2>1 DEF User!refetch
<1>12. ASSUME User!Reopen
       PROVE  Keeps
  <2>1. x8' # x8
    BY <1>5, <1>12 DEF User!Reopen
  <2>2. /\ x3'.data = x3.data
        /\ (x3'.fetching /\ ~x3.fetching) => User!enabled(x2')
    BY <1>1, <1>12, SummaryAsked DEF User!Reopen
  <2> QED BY <1>2, <1>3, <1>12, <2>1, <2>2 DEF User!Reopen, User!enabled
<1>13. ASSUME User!openAction
       PROVE  Keeps
  <2>1. x2.data # NULL /\ UNCHANGED <<x1, x2, x3>>
    BY <1>13, NullAssumption DEF User!openAction, User!actions
  <2> QED BY <1>2, <2>1
<1>14. ASSUME User!onClose \/ User!submitAction \/ User!onError
       PROVE  Keeps
  BY <1>2, <1>14 DEF User!onClose, User!submitAction, User!onError
<1>15. ASSUME User!onSuccess
       PROVE  Keeps
  <2>1. x2.data # NULL /\ x2'.data = x2.data /\ x2'.error = x2.error /\ x4' = NULL
    BY <1>2, <1>3, <1>15 DEF User!onSuccess, User!invalidate
  <2>2. x1'.summary = x1.summary
    BY <1>5, <1>15 DEF User!onSuccess
  <2>3. /\ x3'.data = x3.data
        /\ (x3'.fetching /\ ~x3.fetching) => User!enabled(x2)
    BY <1>4, <1>15 DEF User!onSuccess
  <2> QED BY <1>2, <2>1, <2>2, <2>3, NullAssumption DEF User!enabled
<1>16. ASSUME User!AccountChanges
       PROVE  Keeps
  <2>1. x1'.summary = x1.summary /\ UNCHANGED <<x2, x3, x4>>
    BY <1>5, <1>16 DEF User!AccountChanges
  <2> QED BY <1>2, <2>1
<1>17. Keeps
  BY <1>6, <1>7, <1>8, <1>9, <1>10, <1>11, <1>12, <1>13, <1>14, <1>15, <1>16
     DEF User!Next
<1> QED BY <1>1, <1>17 DEF UserInv


-----------------------------------------------------------------------------
(* The elements of a finite set of numbers, by rank.                       *)

Below(S, x) == {y \in S : y <= x}

(* Every rank is that of an element.                                       *)
LEMMA Ranked ==
  ASSUME NEW S \in SUBSET Nat, IsFiniteSet(S), NEW k \in 1..Cardinality(S)
  PROVE  \E x \in S : Cardinality(Below(S, x)) = k
<1> DEFINE n == Cardinality(S)
           f == [x \in S |-> Cardinality(Below(S, x))]
<1>1. n \in Nat /\ IsFiniteSet(1..n) /\ Cardinality(1..n) = n
  BY FS_CardinalityType, FS_Interval
<1>2. ASSUME NEW x \in S
      PROVE  /\ Below(S, x) \in SUBSET S /\ IsFiniteSet(Below(S, x))
             /\ Cardinality(Below(S, x)) \in 1..n
  <2>1. Below(S, x) \in SUBSET S /\ {x} \in SUBSET Below(S, x)
    BY DEF Below
  <2>2. IsFiniteSet(Below(S, x)) /\ Cardinality(Below(S, x)) <= n
    BY <2>1, FS_Subset
  <2>3. 1 <= Cardinality(Below(S, x)) /\ Cardinality(Below(S, x)) \in Nat
    <3>1. Cardinality({x}) = 1
      BY FS_Singleton
    <3>2. Cardinality({x}) <= Cardinality(Below(S, x))
      BY <2>1, <2>2, FS_Subset
    <3> QED BY <2>2, <3>1, <3>2, FS_CardinalityType
  <2> QED BY <1>1, <2>1, <2>2, <2>3
<1>3. ASSUME NEW x \in S, NEW y \in S, x < y
      PROVE  Cardinality(Below(S, x)) # Cardinality(Below(S, y))
  <2>1. Below(S, x) \in SUBSET Below(S, y) /\ Below(S, x) # Below(S, y)
    <3>1. \A z \in S : z <= x => z <= y
      BY <1>3
    <3>2. Below(S, x) \in SUBSET Below(S, y)
      BY <3>1 DEF Below
    <3>3. y \in Below(S, y) /\ y \notin Below(S, x)
      BY <1>3 DEF Below
    <3> QED BY <3>2, <3>3
  <2> QED BY <1>2, <2>1, FS_Subset
<1>4. \A x, y \in S : f[x] = f[y] => x = y
  BY <1>3
<1>5. f \in [S -> 1..n]
  BY <1>2
<1>6. f \in Injection(S, 1..n)
  BY <1>4, <1>5 DEF Injection, IsInjective
<1>7. f \in Surjection(S, 1..n)
  <2> HIDE DEF f
  <2> QED BY <1>1, <1>6, FS_Injection
<1> QED BY <1>7 DEF Surjection

(* A finite set of numbers that is not empty has a greatest.               *)
LEMMA Greatest ==
  ASSUME NEW S \in SUBSET Nat, IsFiniteSet(S), S # {}
  PROVE  \E m \in S : \A x \in S : x <= m
<1>1. Cardinality(S) \in Nat /\ Cardinality(S) # 0
  BY FS_CardinalityType, FS_EmptySet
<1>2. PICK m \in S : Cardinality(Below(S, m)) = Cardinality(S)
  BY <1>1, Ranked
<1>3. Below(S, m) = S
  BY <1>2, FS_Subset DEF Below
<1> QED BY <1>3 DEF Below

-----------------------------------------------------------------------------
(* The resource console: a list is read again up to the pages it has, so   *)
(* that only the next page, which somebody asked for, lets it grow; and a  *)
(* dialog waits for the request that was sent from it.                     *)

(* The greater and the smaller of two numbers.                             *)
LEMMA TwoNumbers ==
  ASSUME NEW a \in Int, NEW b \in Int
  PROVE  /\ Resource!Max({a, b}) = IF a >= b THEN a ELSE b
         /\ Resource!Min({a, b}) = IF a <= b THEN a ELSE b
BY DEF Resource!Max, Resource!Min

(* The page on screen, when so many are loaded.                            *)
Clamp(r, n) == Resource!Min({r, Resource!Max({1, n})})

(* The page that is shown is one of the pages there are.                   *)
LEMMA Clamped ==
  ASSUME NEW r \in Nat \ {0}, NEW n \in Nat
  PROVE  /\ Clamp(r, n) = IF n <= 1 THEN 1 ELSE IF r <= n THEN r ELSE n
         /\ Clamp(r, n) \in 1..Resource!Max({1, n})
<1>1. Resource!Max({1, n}) = IF n <= 1 THEN 1 ELSE n
  BY TwoNumbers
<1> DEFINE m == Resource!Max({1, n})
<1>2. m \in Int /\ m >= 1 /\ m = IF n <= 1 THEN 1 ELSE n
  BY <1>1
<1> HIDE DEF m
<1>a. Resource!Min({r, m}) = IF r <= m THEN r ELSE m
  BY <1>2, TwoNumbers
<1>3. Clamp(r, n) = IF r <= m THEN r ELSE m
  BY <1>a DEF Clamp, m
<1>4. /\ Clamp(r, n) = IF n <= 1 THEN 1 ELSE IF r <= n THEN r ELSE n
      /\ Clamp(r, n) \in 1..m
  BY <1>2, <1>3
<1> QED BY <1>4 DEF m

(* The same, for a number that has been counted.                           *)
LEMMA ClampIs ==
  ASSUME NEW r \in Nat, r # 0, NEW n \in Nat
  PROVE  /\ Clamp(r, n) = IF n <= 1 THEN 1 ELSE IF r <= n THEN r ELSE n
         /\ Clamp(r, n) \in Int /\ Clamp(r, n) >= 1
<1>1. Clamp(r, n) = IF n <= 1 THEN 1 ELSE IF r <= n THEN r ELSE n
  BY Clamped
<1> QED BY <1>1

Pages == [items : SUBSET Resource!Item, next : Rows \cup {NULL}]
Fetches == [kind : {"all", "next"}, got : Seq(Pages)]
Lists == [pages : Seq(Pages), fetch : Fetches \cup {NULL}, error : BOOLEAN,
          invalidated : BOOLEAN]

ResourceTypes ==
  /\ x1 \subseteq Rows /\ x2 \in Resource!Filters
  /\ x3 \in [Resource!Filters -> Lists]
  /\ x4 \in [key : Resource!Filters, index : Nat \ {0}]
  /\ x5 \in [Resource!Filters -> Nat \cup {NULL}]
  /\ x8 \in [Resource!Filters -> SUBSET Rows] /\ x10 \in Nat

(* A read gives no more pages than the list has, the next page is one, and *)
(* who asked for it knows how many there were.                             *)
Reads(q, ask) ==
  /\ q.fetch # NULL => /\ Len(q.fetch.got) <= Resource!Wanted(q)
                       /\ q.fetch.kind = "next" => q.pages # <<>> /\ ask # NULL
  /\ ask # NULL => ask = Len(q.pages)

Proper(d) == d # NULL => d \in Resource!Dialog /\ (d.kind = "action" => d.row \in Resource!Item)

ResourceDialogs ==
  /\ Proper(x6) /\ Proper(x7.dialog)
  /\ x7 = [state |-> x7.state, dialog |-> x7.dialog]
  /\ (x7.state = "idle") = (x7.dialog = NULL)
  /\ (x7.state \in {"sent", "applied"} \/ (x7.state = "failed" /\ x6 # NULL))
       => x7.dialog = x6

ResourceInv ==
  /\ ResourceTypes /\ ResourceDialogs
  /\ \A f \in Resource!Filters : Reads(x3[f], x5[f])

(* What the invariant says of the console as it is shown.                  *)
LEMMA ResourceHolds ==
  ASSUME ResourceInv
  PROVE  /\ Resource!TypeOK /\ Resource!DialogIsOwn /\ Resource!ErrorIsOwn
         /\ Resource!requestedPageIndex \in Nat \ {0}
         /\ Len(Resource!list.pages) \in Nat
         /\ Resource!currentPageIndex =
              Clamp(Resource!requestedPageIndex, Len(Resource!list.pages))
<1>1. /\ Resource!requestedPageIndex \in Nat \ {0}
      /\ Len(Resource!list.pages) \in Nat
  BY DEF ResourceInv, ResourceTypes, Resource!requestedPageIndex,
     Resource!list, Lists
<1>2. Resource!currentPageIndex =
        Clamp(Resource!requestedPageIndex, Len(Resource!list.pages))
  BY DEF Resource!currentPageIndex, Clamp
<1>3. Resource!currentPageIndex \in 1..Resource!Max({1, Len(Resource!list.pages)})
  BY <1>1, <1>2, Clamped
<1>4. Resource!TypeOK
  BY <1>3 DEF ResourceInv, ResourceTypes, ResourceDialogs, Proper, Resource!TypeOK
<1>5. Resource!DialogIsOwn /\ Resource!ErrorIsOwn
  BY DEF ResourceInv, ResourceDialogs, Resource!DialogIsOwn, Resource!ErrorIsOwn,
     Resource!mutationPending, Resource!mutationError
<1> QED BY <1>1, <1>2, <1>4, <1>5

(* The console as it is opened.                                            *)
LEMMA ResourceInit ==
  ASSUME Resource!Init
  PROVE  ResourceInv
<1> USE DEF Resource!Init, Resource!Filters
<1>1. Resource!Fetch("all") \in Fetches /\ Resource!Fetch("all").got = <<>>
      /\ Resource!Fetch("all").kind = "all"
  BY DEF Resource!Fetch, Fetches
<1>2. ResourceTypes
  <2>1. x3 \in [Resource!Filters -> Lists]
    BY <1>1 DEF Lists
  <2> QED BY <2>1 DEF ResourceTypes
<1>3. ResourceDialogs
  BY DEF ResourceDialogs, Proper
<1>4. ASSUME NEW f \in Resource!Filters
      PROVE  Reads(x3[f], x5[f])
  <2>1. x5[f] = NULL /\ x3[f].pages = <<>> /\ x3[f].fetch \in {Resource!Fetch("all"), NULL}
    BY <1>4
  <2>2. Resource!Wanted(x3[f]) \in Nat
    BY <2>1, TwoNumbers DEF Resource!Wanted
  <2> QED BY <1>1, <2>1, <2>2 DEF Reads
<1> QED BY <1>2, <1>3, <1>4 DEF ResourceInv

(* What a list becomes keeps to what it has.                               *)
LEMMA WantedOf ==
  ASSUME NEW q \in Lists
  PROVE  /\ Len(q.pages) \in Nat /\ Resource!Wanted(q) \in Nat
         /\ Resource!Wanted(q) >= 1
         /\ q.fetch.kind = "next" => Resource!Wanted(q) = 1
         /\ q.fetch.kind # "next" =>
              Resource!Wanted(q) = IF Len(q.pages) <= 1 THEN 1 ELSE Len(q.pages)
<1>1. Len(q.pages) \in Nat
  BY DEF Lists
<1>2. Resource!Max({1, Len(q.pages)}) = IF Len(q.pages) <= 1 THEN 1 ELSE Len(q.pages)
  BY <1>1, TwoNumbers
<1> QED BY <1>1, <1>2 DEF Resource!Wanted

(* A fetch of all pages leaves the pages; none is asked for.               *)
LEMMA FetchFromTheStart ==
  ASSUME NEW q \in Lists, NEW e \in BOOLEAN
  PROVE  LET n == [q EXCEPT !.fetch = Resource!Fetch("all"), !.error = e]
         IN  /\ n \in Lists /\ n.pages = q.pages
             /\ \A ask : (ask # NULL => ask = Len(q.pages)) => Reads(n, ask)
<1> DEFINE n == [q EXCEPT !.fetch = Resource!Fetch("all"), !.error = e]
<1>1. /\ Resource!Fetch("all") \in Fetches
      /\ Resource!Fetch("all").kind = "all" /\ Len(Resource!Fetch("all").got) = 0
  BY DEF Resource!Fetch, Fetches
<1>2. n \in Lists /\ n.pages = q.pages /\ n.fetch = Resource!Fetch("all")
  BY <1>1 DEF Lists
<1>3. 0 <= Resource!Wanted(n)
  BY <1>2, WantedOf
<1> QED BY <1>1, <1>2, <1>3 DEF Reads

(* The rows of a page that is not the last have a greatest one.            *)
LEMMA LastRow ==
  ASSUME NEW found \in SUBSET Rows, NEW rows, rows # found,
         rows = {r \in found : Resource!Cardinality({q \in found : q <= r}) <= PAGE_SIZE}
  PROVE  Resource!Max(rows) \in Rows
<1> DEFINE P(x) == \A y \in rows : x >= y
<1>1. found \in SUBSET Nat /\ IsFiniteSet(found)
  BY RowsAssumption, FS_Subset
<1>2. rows = {r \in found : Cardinality(Below(found, r)) <= PAGE_SIZE}
  BY DEF Below, Resource!Cardinality, Cardinality
<1>3. rows # {}
  <2>1. Cardinality(found) \in Nat /\ Cardinality(found) # 0
    BY <1>1, FS_CardinalityType, FS_EmptySet
  <2>2. 1 \in 1..Cardinality(found)
    BY <2>1
  <2>3. PICK x \in found : Cardinality(Below(found, x)) = 1
    BY <1>1, <2>2, Ranked
  <2>4. PAGE_SIZE \in Nat /\ PAGE_SIZE # 0
    BY SizesAssumption
  <2>5. 1 <= PAGE_SIZE
    BY <2>4
  <2>6. x \in rows
    BY <1>2, <2>3, <2>5
  <2> QED BY <2>6
<1>4. rows \in SUBSET Nat /\ IsFiniteSet(rows)
  BY <1>1, <1>2, FS_Subset
<1>5. \E x \in rows : P(x)
  <2>1. PICK m \in rows : \A x \in rows : x <= m
    BY <1>3, <1>4, Greatest
  <2> QED BY <2>1
<1>6. Resource!Max(rows) = CHOOSE x \in rows : P(x)
  BY DEF Resource!Max
<1> HIDE DEF P
<1> QED BY <1>2, <1>5, <1>6

(* The API answers with a page.                                            *)
LEMMA PageIsRead ==
  ASSUME NEW f, NEW cursor
  PROVE  /\ Resource!listAdminResources(f, cursor) \in Pages
         /\ \A i \in Resource!listAdminResources(f, cursor).items : i.id \in x1 => i.done
<1> DEFINE found == {r \in Rows : r > cursor /\ (f = "open" => r \notin x1)}
           items == {r \in found : Resource!Cardinality({q \in found : q <= r}) <= PAGE_SIZE}
           next == IF items = found THEN NULL ELSE Resource!Max(items)
<1>1. Resource!listAdminResources(f, cursor) =
        [items |-> {[id |-> r, done |-> r \in x1] : r \in items}, next |-> next]
  BY DEF Resource!listAdminResources
<1>2. items \in SUBSET Rows
  OBVIOUS
<1>3. next \in Rows \cup {NULL}
  <2>1. found \in SUBSET Rows
    OBVIOUS
  <2> HIDE DEF found
  <2>2. items # found => Resource!Max(items) \in Rows
    BY <2>1, LastRow
  <2> QED BY <2>2
<1> HIDE DEF items, found, next
<1>4. {[id |-> r, done |-> r \in x1] : r \in items} \subseteq Resource!Item
  <2> DEFINE row(r) == [id |-> r, done |-> r \in x1]
  <2>1. ASSUME NEW r \in items
        PROVE  row(r) \in Resource!Item
    <3>1. r \in Rows /\ (r \in x1) \in BOOLEAN
      BY <1>2
    <3> QED BY <3>1 DEF Resource!Item
  <2> HIDE DEF row
  <2>2. {row(r) : r \in items} \subseteq Resource!Item
    BY <2>1
  <2> QED BY <2>2 DEF row
<1> DEFINE recs == {[id |-> r, done |-> r \in x1] : r \in items}
           p == [items |-> recs, next |-> next]
<1>5. \A i \in recs : i.id \in x1 => i.done
  <2> DEFINE row(r) == [id |-> r, done |-> r \in x1]
  <2>1. ASSUME NEW r \in items
        PROVE  row(r).id = r /\ (r \in x1 => row(r).done)
    OBVIOUS
  <2>2. recs = {row(r) : r \in items}
    OBVIOUS
  <2> HIDE DEF row, recs
  <2> QED BY <2>1, <2>2
<1>6. recs \in SUBSET Resource!Item
  BY <1>4
<1> HIDE DEF recs
<1>7. p \in Pages /\ p.items = recs
  BY <1>3, <1>6 DEF Pages
<1>8. Resource!listAdminResources(f, cursor) = p
  BY <1>1 DEF recs
<1> HIDE DEF p
<1> QED BY <1>5, <1>7, <1>8

Good(q, ask) == q \in Lists /\ ask \in Nat \cup {NULL} /\ Reads(q, ask)

(* A list that comes on screen again is fetched if it is stale.            *)
LEMMA ShownAgain ==
  ASSUME NEW q, NEW ask, Good(q, ask)
  PROVE  Good(Resource!Observe(q), ask)
<1>1. (q.error /\ q.pages # <<>>) \in BOOLEAN
  OBVIOUS
<1> QED BY <1>1, FetchFromTheStart DEF Good, Reads, Resource!Observe

(* Asking for the next page remembers how many there are.                  *)
LEMMA AskedForNext ==
  ASSUME NEW q, NEW ask, Good(q, ask), q.pages # <<>>
  PROVE  Good([q EXCEPT !.fetch = Resource!Fetch("next")], Len(q.pages))
<1> DEFINE n == [q EXCEPT !.fetch = Resource!Fetch("next")]
<1>1. Resource!Fetch("next") \in Fetches /\ Len(Resource!Fetch("next").got) = 0
  BY DEF Resource!Fetch, Fetches
<1>2. /\ n \in Lists /\ n.pages = q.pages /\ n.fetch = Resource!Fetch("next")
      /\ Len(q.pages) \in Nat
  BY <1>1 DEF Good, Lists
<1>3. Resource!Wanted(n) >= 1 /\ Resource!Wanted(n) \in Nat
  BY <1>2, WantedOf
<1> QED BY <1>1, <1>2, <1>3, NullAssumption DEF Good, Reads

(* A page of a fetch that is not complete yet.                             *)
LEMMA GivenOnePage ==
  ASSUME NEW q, NEW ask, Good(q, ask), q.fetch # NULL, ~Resource!Complete(q),
         NEW p \in Pages
  PROVE  Good([q EXCEPT !.fetch.got = Append(@, p)], ask)
<1> DEFINE n == [q EXCEPT !.fetch.got = Append(@, p)]
<1>1. q \in Lists /\ q.fetch \in Fetches /\ q.fetch.got \in Seq(Pages)
  BY DEF Good, Lists, Fetches
<1>2. /\ n \in Lists /\ n.pages = q.pages /\ n.fetch.kind = q.fetch.kind
      /\ n.fetch.got = Append(q.fetch.got, p)
  <2> DEFINE g == [q.fetch EXCEPT !.got = Append(q.fetch.got, p)]
  <2>1. /\ g \in Fetches /\ g.kind = q.fetch.kind
        /\ g.got = Append(q.fetch.got, p)
    BY <1>1 DEF Fetches
  <2>2. n = [q EXCEPT !.fetch = g]
    BY <1>1 DEF Lists
  <2> HIDE DEF g
  <2>3. /\ [q EXCEPT !.fetch = g] \in Lists
        /\ [q EXCEPT !.fetch = g].pages = q.pages
        /\ [q EXCEPT !.fetch = g].fetch = g
    BY <1>1, <2>1 DEF Lists
  <2> QED BY <2>1, <2>2, <2>3
<1>3. Len(n.fetch.got) = Len(q.fetch.got) + 1 /\ Len(q.fetch.got) \in Nat
  BY <1>1, <1>2
<1>4. Resource!Wanted(n) = Resource!Wanted(q) /\ Resource!Wanted(q) >= 1
      /\ Resource!Wanted(q) \in Nat
  BY <1>1, <1>2, WantedOf DEF Resource!Wanted
<1>5. q.fetch.got = <<>> => Len(q.fetch.got) = 0
  OBVIOUS
<1>6. Len(q.fetch.got) < Resource!Wanted(q)
  BY <1>3, <1>4, <1>5 DEF Resource!Complete, Good, Reads
<1> QED BY <1>2, <1>3, <1>4, <1>6 DEF Good, Reads

(* What a list has when its read is answered: with the next page one more; *)
(* read again, no more than before.                                        *)
AnswerOf(q) ==
  [pages |-> IF q.fetch.kind = "next" THEN q.pages \o q.fetch.got
             ELSE q.fetch.got,
   fetch |-> NULL, error |-> FALSE, invalidated |-> FALSE]

(* What a complete fetch answers: one page more if the next was asked      *)
(* for, otherwise no more than there were.                                 *)
LEMMA AnswerIs ==
  ASSUME NEW q, NEW ask, Good(q, ask), q.fetch # NULL, Resource!Complete(q)
  PROVE  /\ Good(AnswerOf(q), NULL)
         /\ q.fetch.kind = "next" => /\ ask # NULL /\ ask = Len(q.pages)
                                     /\ Len(AnswerOf(q).pages) = ask + 1
         /\ q.fetch.kind # "next" =>
              /\ ask # NULL => ask = Len(q.pages)
              /\ Len(AnswerOf(q).pages) <= 1 \/ Len(AnswerOf(q).pages) <= Len(q.pages)
<1>1. q \in Lists /\ q.fetch \in Fetches /\ q.fetch.got \in Seq(Pages) /\ q.pages \in Seq(Pages)
  BY DEF Good, Lists, Fetches
<1>2. /\ q.pages \o q.fetch.got \in Seq(Pages)
      /\ Len(q.pages \o q.fetch.got) = Len(q.pages) + Len(q.fetch.got)
      /\ Len(q.pages) \in Nat /\ Len(q.fetch.got) \in Nat
  BY <1>1
<1>3. AnswerOf(q) \in Lists /\ AnswerOf(q).fetch = NULL
  BY <1>1, <1>2 DEF AnswerOf, Lists
<1>4. Len(q.fetch.got) <= Resource!Wanted(q) /\ Len(q.fetch.got) >= 1
  BY <1>1, <1>2 DEF Good, Reads, Resource!Complete
<1>5. q.fetch.kind = "next" => Len(q.fetch.got) = 1
  <2>1. q.fetch.kind = "next" => Resource!Wanted(q) = 1
    BY <1>1, WantedOf
  <2>2. ASSUME NEW k \in Nat, k <= 1, k >= 1 PROVE k = 1
    BY <2>2
  <2>3. q.fetch.kind = "next" => Len(q.fetch.got) <= 1
    BY <1>4, <2>1
  <2> QED BY <1>2, <1>4, <2>2, <2>3
<1>6. q.fetch.kind # "next" => Len(q.fetch.got) <= 1 \/ Len(q.fetch.got) <= Len(q.pages)
  <2>1. q.fetch.kind # "next" =>
          Resource!Wanted(q) = IF Len(q.pages) <= 1 THEN 1 ELSE Len(q.pages)
    BY <1>1, WantedOf
  <2> QED BY <1>2, <1>4, <2>1
<1> QED BY <1>2, <1>3, <1>5, <1>6 DEF Good, Reads, AnswerOf

(* A fetch that failed.                                                    *)
LEMMA FailedRead ==
  ASSUME NEW q, NEW ask, Good(q, ask)
  PROVE  Good([q EXCEPT !.fetch = NULL, !.error = TRUE, !.invalidated = TRUE], NULL)
BY DEF Good, Lists, Reads

(* The refresh after an action keeps the pages and fetches what is shown.  *)
LEMMA Refreshed ==
  ASSUME NEW q, NEW ask, Good(q, ask), NEW active \in BOOLEAN
  PROVE  /\ Good(Resource!refresh(q, active), IF active THEN NULL ELSE ask)
         /\ Resource!refresh(q, active).pages = q.pages
<1>1. (q.error /\ q.pages # <<>>) \in BOOLEAN
  OBVIOUS
<1>2. CASE active /\ ~(q.fetch # NULL /\ q.pages = <<>>)
  BY <1>1, <1>2, FetchFromTheStart DEF Good, Resource!refresh
<1>3. CASE ~(active /\ ~(q.fetch # NULL /\ q.pages = <<>>))
  <2> DEFINE n == [q EXCEPT !.invalidated = TRUE]
  <2>1. n \in Lists /\ n.pages = q.pages /\ n.fetch = q.fetch
    BY DEF Good, Lists
  <2>2. Reads(n, ask)
    BY <2>1 DEF Good, Reads, Resource!Wanted
  <2>3. active => Reads(n, NULL)
    BY <1>3, <2>1, <2>2 DEF Reads
  <2> QED BY <1>3, <2>1, <2>2, <2>3 DEF Good, Resource!refresh
<1> QED BY <1>2, <1>3

(* What a step does to the lists and to who waits for their next pages.    *)
ListsKept ==
  /\ x3' \in [Resource!Filters -> Lists]
  /\ x5' \in [Resource!Filters -> Nat \cup {NULL}]
  /\ \A f \in Resource!Filters : Reads(x3'[f], x5'[f])

(* A step that moves one list, with what was asked of it.                  *)
LEMMA OneListMoves ==
  ASSUME ResourceInv, NEW f \in Resource!Filters, NEW q, NEW ask, Good(q, ask),
         x3' = [x3 EXCEPT ![f] = q], x5' = [x5 EXCEPT ![f] = ask]
  PROVE  ListsKept
BY DEF ResourceInv, ResourceTypes, ListsKept, Good

(* A step that moves one list only.                                        *)
LEMMA OneListKept ==
  ASSUME ResourceInv, NEW f \in Resource!Filters, NEW q, Good(q, x5[f]),
         x3' = [x3 EXCEPT ![f] = q], x5' = x5
  PROVE  ListsKept
BY DEF ResourceInv, ResourceTypes, ListsKept, Good

(* The lists and what is asked of them, action by action.                  *)
LEMMA ResourceLists ==
  ASSUME ResourceInv, Resource!Next
  PROVE  ListsKept
<1>1. /\ \A f \in Resource!Filters : Good(x3[f], x5[f])
      /\ x2 \in Resource!Filters
      /\ x3 = [f \in Resource!Filters |-> x3[f]] /\ x5 = [f \in Resource!Filters |-> x5[f]]
  BY DEF ResourceInv, ResourceTypes, Good
<1>2. ASSUME UNCHANGED <<x3, x5>> PROVE ListsKept
  BY <1>2 DEF ResourceInv, ResourceTypes, ListsKept
<1>3. ASSUME NEW f \in Resource!Filters, Resource!setFilters(f)
      PROVE  ListsKept
  <2>1. Good(Resource!Observe(x3[f]), x5[f])
    BY <1>1, ShownAgain
  <2>2. x3' = [x3 EXCEPT ![f] = Resource!Observe(x3[f])] /\ x5' = x5
    BY <1>3 DEF Resource!setFilters
  <2> QED BY <2>1, <2>2, OneListKept
<1>4. CASE Resource!showNextPage
  <2>1. CASE Resource!hasLoadedNextPage
    BY <1>2, <1>4, <2>1 DEF Resource!showNextPage
  <2>2. CASE ~Resource!hasLoadedNextPage
    <3>1. /\ x5' = [x5 EXCEPT ![x2] = Len(x3[x2].pages)]
          /\ x3' = [x3 EXCEPT ![x2].fetch = Resource!Fetch("next")]
          /\ x3[x2].pages # <<>>
      BY <1>4, <2>2 DEF Resource!showNextPage, Resource!visibleItems, Resource!list
    <3>2. x3' = [x3 EXCEPT ![x2] = [x3[x2] EXCEPT !.fetch = Resource!Fetch("next")]]
      BY <3>1
    <3>3. Good([x3[x2] EXCEPT !.fetch = Resource!Fetch("next")], Len(x3[x2].pages))
      BY <1>1, <3>1, AskedForNext
    <3> QED BY <1>1, <3>1, <3>2, <3>3, OneListMoves
  <2> QED BY <2>1, <2>2
<1>5. CASE Resource!refetch
  <2> DEFINE n == [x3[x2] EXCEPT !.fetch = Resource!Fetch("all"),
                                 !.error = x3[x2].error /\ x3[x2].pages # <<>>]
  <2>1. x3' = [x3 EXCEPT ![x2] = n] /\ x5' = x5
    BY <1>1, <1>5 DEF Resource!refetch, Resource!list
  <2>2. Good(n, x5[x2])
    <3>1. (x3[x2].error /\ x3[x2].pages # <<>>) \in BOOLEAN
      OBVIOUS
    <3> QED BY <1>1, <3>1, FetchFromTheStart DEF Good, Reads
  <2> QED BY <1>1, <2>1, <2>2, OneListKept
<1>6. ASSUME NEW f \in Resource!Filters, Resource!PageRead(f)
      PROVE  ListsKept
  <2> DEFINE p == Resource!listAdminResources(f, Resource!Cursor(x3[f]))
             n == [x3[f] EXCEPT !.fetch.got = Append(@, p)]
  <2>1. x3[f].fetch # NULL /\ ~Resource!Complete(x3[f]) /\ x5' = x5
        /\ x3' = [x3 EXCEPT ![f].fetch.got = Append(@, p)]
    BY <1>6 DEF Resource!PageRead
  <2>2. x3' = [x3 EXCEPT ![f] = n]
    BY <2>1
  <2>3. p \in Pages
    BY PageIsRead
  <2>4. Good(n, x5[f])
    BY <1>1, <2>1, <2>3, GivenOnePage
  <2> QED BY <2>1, <2>2, <2>4, OneListKept
<1>7. ASSUME NEW f \in Resource!Filters, Resource!Answered(f)
      PROVE  ListsKept
  <2>1. /\ x3[f].fetch # NULL /\ Resource!Complete(x3[f])
        /\ x3' = [x3 EXCEPT ![f] = AnswerOf(x3[f])]
        /\ x5' = [x5 EXCEPT ![f] = NULL]
    BY <1>1, <1>7 DEF Resource!Answered, Resource!settle, AnswerOf
  <2>2. Good(AnswerOf(x3[f]), NULL)
    BY <1>1, <2>1, AnswerIs
  <2> QED BY <2>1, <2>2, OneListMoves
<1>8. ASSUME NEW f \in Resource!Filters, Resource!ReadFails(f)
      PROVE  ListsKept
  <2> DEFINE n == [x3[f] EXCEPT !.fetch = NULL, !.error = TRUE, !.invalidated = TRUE]
  <2>1. x3' = [x3 EXCEPT ![f] = n] /\ x5' = [x5 EXCEPT ![f] = NULL]
    BY <1>1, <1>8 DEF Resource!ReadFails, Resource!settle
  <2>2. Good(n, NULL)
    BY <1>1, FailedRead
  <2> QED BY <2>1, <2>2, OneListMoves
<1>9. CASE Resource!onSuccess
  <2>1. /\ x3' = [f \in Resource!Filters |-> Resource!refresh(x3[f], f = x2)]
        /\ x5' = [x5 EXCEPT ![x2] = NULL]
    BY <1>9 DEF Resource!onSuccess
  <2>2. ASSUME NEW f \in Resource!Filters
        PROVE  Good(x3'[f], x5'[f])
    <3>1. Good(Resource!refresh(x3[f], f = x2), IF f = x2 THEN NULL ELSE x5[f])
      BY <1>1, Refreshed
    <3>2. x5'[f] = IF f = x2 THEN NULL ELSE x5[f]
      BY <1>1, <2>1
    <3> QED BY <2>1, <3>1, <3>2
  <2> QED BY <1>1, <2>1, <2>2 DEF ListsKept, Good
<1>10. CASE \/ Resource!showPreviousPage \/ Resource!openAction
            \/ Resource!openEditor \/ Resource!onClose \/ Resource!submit
            \/ Resource!mutateAdminResource \/ Resource!onError \/ Resource!OthersAct
  <2>1. UNCHANGED <<x3, x5>>
    BY <1>10 DEF Resource!showPreviousPage, Resource!openAction,
       Resource!openEditor, Resource!open, Resource!onClose, Resource!submit,
       Resource!mutateAdminResource, Resource!onError, Resource!OthersAct
  <2> QED BY <1>2, <2>1
<1> QED
  BY <1>3, <1>4, <1>5, <1>6, <1>7, <1>8, <1>9, <1>10 DEF Resource!Next

(* The filters and the page that is asked for, action by action.           *)
LEMMA PageChosen ==
  ASSUME ResourceInv, Resource!Next
  PROVE  x2' \in Resource!Filters /\ x10' \in Nat
         /\ x4' \in [key : Resource!Filters, index : Nat \ {0}]
<1>1. /\ x2 \in Resource!Filters /\ x4 \in [key : Resource!Filters, index : Nat \ {0}]
      /\ x5 \in [Resource!Filters -> Nat \cup {NULL}] /\ x10 \in Nat
  BY DEF ResourceInv, ResourceTypes
<1>2. Resource!currentPageIndex \in Nat \ {0}
  <2>1. /\ Resource!currentPageIndex \in 1..Resource!Max({1, Len(Resource!list.pages)})
    BY ResourceHolds, Clamped
  <2> QED BY <2>1
<1>3. x2' \in Resource!Filters
  BY <1>1 DEF Resource!Next, Resource!setFilters, Resource!PageRead,
     Resource!Answered, Resource!ReadFails, Resource!showNextPage,
     Resource!showPreviousPage, Resource!refetch, Resource!openAction,
     Resource!openEditor, Resource!open, Resource!onClose, Resource!submit,
     Resource!mutateAdminResource, Resource!onSuccess, Resource!onError,
     Resource!OthersAct
<1>4. x10' \in {x10, x10 + 1}
  BY DEF Resource!Next, Resource!setFilters, Resource!PageRead,
     Resource!Answered, Resource!ReadFails, Resource!showNextPage,
     Resource!showPreviousPage, Resource!refetch, Resource!openAction,
     Resource!openEditor, Resource!open, Resource!onClose, Resource!submit,
     Resource!mutateAdminResource, Resource!onSuccess, Resource!onError,
     Resource!OthersAct, Resource!Moves
<1>5. ASSUME NEW f \in Resource!Filters, NEW observed, Resource!settle(f, observed)
      PROVE  x4' \in [key : Resource!Filters, index : Nat \ {0}]
  BY <1>1, <1>5 DEF Resource!settle
<1>6. ASSUME NEW f \in Resource!Filters, Resource!Answered(f) \/ Resource!ReadFails(f)
      PROVE  x4' \in [key : Resource!Filters, index : Nat \ {0}]
  BY <1>5, <1>6 DEF Resource!Answered, Resource!ReadFails
<1>7. ASSUME Resource!showNextPage
      PROVE  x4' \in [key : Resource!Filters, index : Nat \ {0}]
  <2>1. [key |-> x2, index |-> Resource!currentPageIndex + 1]
          \in [key : Resource!Filters, index : Nat \ {0}]
    BY <1>1, <1>2
  <2>2. x4' = x4 \/ x4' = [key |-> x2, index |-> Resource!currentPageIndex + 1]
    BY <1>7 DEF Resource!showNextPage
  <2> QED BY <1>1, <2>1, <2>2
<1>8. ASSUME Resource!showPreviousPage
      PROVE  x4' \in [key : Resource!Filters, index : Nat \ {0}]
  <2>1. Resource!currentPageIndex > 1 =>
          [key |-> x2, index |-> Resource!currentPageIndex - 1]
            \in [key : Resource!Filters, index : Nat \ {0}]
    BY <1>1, <1>2
  <2>2. /\ x4' = [key |-> x2, index |-> Resource!currentPageIndex - 1]
        /\ Resource!currentPageIndex > 1
    BY <1>8 DEF Resource!showPreviousPage
  <2> QED BY <2>1, <2>2
<1>9. x4' \in [key : Resource!Filters, index : Nat \ {0}]
  BY <1>1, <1>6, <1>7, <1>8 DEF Resource!Next, Resource!setFilters,
     Resource!PageRead, Resource!refetch, Resource!openAction,
     Resource!openEditor, Resource!open, Resource!onClose, Resource!submit,
     Resource!mutateAdminResource, Resource!onSuccess, Resource!onError,
     Resource!OthersAct
<1> QED BY <1>1, <1>3, <1>4, <1>9

(* What is shown of a row is a row.                                        *)
LEMMA ItemsAreRows ==
  ASSUME ResourceInv
  PROVE  Resource!visibleItems \subseteq Resource!Item
<1>1. /\ Resource!list.pages \in Seq(Pages)
      /\ Resource!currentPageIndex \in 1..Resource!Max({1, Len(Resource!list.pages)})
  BY ResourceHolds, Clamped DEF ResourceInv, ResourceTypes, Resource!list, Lists
<1>2. CASE Resource!list.pages = <<>>
  BY <1>2 DEF Resource!visibleItems
<1>3. CASE Resource!list.pages # <<>>
  <2>1. Len(Resource!list.pages) \in Nat /\ Len(Resource!list.pages) >= 1
    BY <1>1, <1>3
  <2>2. Resource!currentPageIndex \in 1..Len(Resource!list.pages)
    BY <1>1, <2>1, TwoNumbers
  <2>3. Resource!list.pages[Resource!currentPageIndex] \in Pages
    BY <1>1, <2>2
  <2> QED BY <1>3, <2>3 DEF Resource!visibleItems, Pages
<1> QED BY <1>2, <1>3

(* The dialogs, action by action: each waits for its own request.          *)
LEMMA DialogsKept ==
  ASSUME ResourceInv, Resource!Next
  PROVE  ResourceDialogs'
<1>1. ResourceDialogs
  BY DEF ResourceInv
<1>2. ASSUME NEW kind \in {"action", "editor"}, NEW item, Resource!open(kind, item),
             item \in Resource!Item \cup {NULL},
             kind = "action" => item \in Resource!Item
      PROVE  ResourceDialogs'
  <2>1. x10' \in 1..ResourceMoves
    BY <1>2, SizesAssumption DEF Resource!open, Resource!Moves, ResourceInv, ResourceTypes
  <2>2. [kind |-> kind, row |-> item, serial |-> x10'] \in Resource!Dialog
    BY <1>2, <2>1 DEF Resource!Dialog
  <2> QED BY <1>2, <2>2 DEF Resource!open, ResourceDialogs, Proper
<1>3. CASE Resource!openAction
  BY <1>2, <1>3, ItemsAreRows DEF Resource!openAction
<1>4. CASE Resource!openEditor
  BY <1>2, <1>4, ItemsAreRows DEF Resource!openEditor
<1>5. CASE Resource!onClose
  BY <1>1, <1>5 DEF Resource!onClose, Resource!mutationPending, ResourceDialogs, Proper
<1>6. CASE Resource!submit
  BY <1>1, <1>6 DEF Resource!submit, Resource!mutationPending, ResourceDialogs, Proper
<1>7. CASE Resource!mutateAdminResource
  BY <1>1, <1>7 DEF Resource!mutateAdminResource, ResourceDialogs, Proper
<1>8. CASE Resource!onSuccess
  BY <1>1, <1>8 DEF Resource!onSuccess, ResourceDialogs, Proper
<1>9. CASE Resource!onError
  BY <1>1, <1>9 DEF Resource!onError, Resource!mutationPending, ResourceDialogs, Proper
<1>10. ASSUME UNCHANGED <<x6, x7>> PROVE ResourceDialogs'
  BY <1>1, <1>10 DEF ResourceDialogs, Proper
<1> QED
  BY <1>3, <1>4, <1>5, <1>6, <1>7, <1>8, <1>9, <1>10
     DEF Resource!Next, Resource!setFilters, Resource!PageRead, Resource!Answered,
     Resource!ReadFails, Resource!showNextPage, Resource!showPreviousPage,
     Resource!refetch, Resource!OthersAct

(* The rows there are and those a list has shown.                          *)
LEMMA RowsKept ==
  ASSUME ResourceInv, Resource!Next
  PROVE  x1' \subseteq Rows /\ x8' \in [Resource!Filters -> SUBSET Rows]
<1>1. x1 \subseteq Rows /\ x8 \in [Resource!Filters -> SUBSET Rows]
  BY DEF ResourceInv, ResourceTypes
<1>2. ASSUME x7.dialog # NULL, x7.dialog.kind = "action"
      PROVE  x7.dialog.row.id \in Rows
  BY <1>2 DEF ResourceInv, ResourceDialogs, Proper, Resource!Item
<1>3. CASE Resource!mutateAdminResource
  <2>1. x7.dialog # NULL
    BY <1>3 DEF ResourceInv, ResourceDialogs, Resource!mutateAdminResource
  <2> QED BY <1>1, <1>2, <1>3, <2>1 DEF Resource!mutateAdminResource
<1>4. CASE Resource!onSuccess
  <2>1. x7.dialog # NULL
    BY <1>4 DEF ResourceInv, ResourceDialogs, Resource!onSuccess
  <2> QED BY <1>1, <1>2, <1>4, <2>1 DEF Resource!onSuccess
<1> QED
  BY <1>1, <1>3, <1>4
     DEF Resource!Next, Resource!setFilters, Resource!PageRead, Resource!Answered,
     Resource!ReadFails, Resource!showNextPage, Resource!showPreviousPage,
     Resource!refetch, Resource!OthersAct, Resource!openAction,
     Resource!openEditor, Resource!open, Resource!onClose, Resource!submit,
     Resource!onError

(* A step of the console keeps its invariant.                              *)
LEMMA ResourceStep ==
  ASSUME ResourceInv, Resource!Next
  PROVE  ResourceInv'
BY ResourceLists, PageChosen, DialogsKept, RowsKept
   DEF ResourceInv, ResourceTypes, ListsKept

(* The page on screen goes forward by itself only to the one that was      *)
(* asked for.                                                              *)
LEMMA PagesAskedFor ==
  ASSUME ResourceInv, Resource!Next
  PROVE  Resource!OnlyAskedPages
<1> DEFINE r == Resource!requestedPageIndex
           n == Len(Resource!list.pages)
<1>1. /\ r \in Nat \ {0} /\ n \in Nat /\ Resource!currentPageIndex = Clamp(r, n)
      /\ \A f \in Resource!Filters : Good(x3[f], x5[f])
      /\ x2 \in Resource!Filters /\ x10 \in Nat
      /\ x3 = [f \in Resource!Filters |-> x3[f]] /\ x5 = [f \in Resource!Filters |-> x5[f]]
  BY ResourceHolds DEF ResourceInv, ResourceTypes, Good
<1>2. /\ r' \in Nat \ {0} /\ n' \in Nat /\ Resource!currentPageIndex' = Clamp(r', n')
  <2>1. ResourceInv'
    BY ResourceStep
  <2>2. x3'[x2'] \in Lists /\ x4' \in [key : Resource!Filters, index : Nat \ {0}]
    BY <2>1 DEF ResourceInv, ResourceTypes
  <2>3. r' \in Nat \ {0} /\ n' \in Nat
    BY <2>2 DEF Resource!requestedPageIndex, Resource!list, Lists
  <2> QED BY <2>3 DEF Resource!currentPageIndex, Clamp
<1>3. SUFFICES ASSUME x10' = x10, Resource!currentPageIndex' > Resource!currentPageIndex
               PROVE  x5[x2] # NULL /\ Resource!currentPageIndex' = x5[x2] + 1
  BY DEF Resource!OnlyAskedPages
<1>4. r' # r \/ n' # n
  <2>1. Clamp(r, n) \in Int
    BY <1>1, ClampIs
  <2> QED BY <1>1, <1>2, <1>3, <2>1
<1> HIDE DEF r, n
<1>5. ~Resource!Moves /\ ~Resource!OthersAct
  BY <1>1, <1>3 DEF Resource!Moves, Resource!OthersAct
<1>6. ASSUME x2' = x2, x4' = x4, x3'[x2].pages = x3[x2].pages
      PROVE  FALSE
  BY <1>4, <1>6 DEF r, n, Resource!requestedPageIndex, Resource!list
<1>7. ASSUME NEW f \in Resource!Filters, Resource!PageRead(f)
      PROVE  FALSE
  <2>1. /\ x2' = x2 /\ x4' = x4
        /\ x3' = [x3 EXCEPT ![f].fetch.got =
                    Append(@, Resource!listAdminResources(f, Resource!Cursor(x3[f])))]
    BY <1>7 DEF Resource!PageRead
  <2>2. x3'[x2].pages = x3[x2].pages
    BY <1>1, <2>1 DEF Good, Lists
  <2> QED BY <1>6, <2>1, <2>2
<1>8. CASE Resource!onSuccess
  <2>1. x2' = x2 /\ x4' = x4 /\ x3'[x2] = Resource!refresh(x3[x2], TRUE)
    BY <1>1, <1>8 DEF Resource!onSuccess
  <2> QED BY <1>1, <1>6, <2>1, Refreshed
<1>9. CASE Resource!onClose \/ Resource!mutateAdminResource \/ Resource!onError
  BY <1>6, <1>9 DEF Resource!onClose, Resource!mutateAdminResource, Resource!onError
<1>10. ASSUME NEW f \in Resource!Filters, x2' = x2, f # x2, NEW q,
              x3' = [x3 EXCEPT ![f] = q], NEW observed, Resource!settle(f, observed)
       PROVE  FALSE
  <2>1. n' = n
    BY <1>1, <1>10 DEF n, Resource!list
  <2>2. x4' = x4 \/ x4'.key = f
    BY <1>10 DEF Resource!settle
  <2>3. r' = 1 \/ r' = r
    BY <1>10, <2>2 DEF r, Resource!requestedPageIndex
  <2>4. Clamp(r, n) >= 1 /\ Clamp(r, n) \in Int /\ Clamp(1, n) = 1
    BY <1>1, ClampIs
  <2>5. CASE r' = 1
    BY <1>1, <1>2, <1>3, <2>1, <2>4, <2>5
  <2>6. CASE r' = r
    BY <1>4, <2>1, <2>6
  <2> QED BY <2>3, <2>5, <2>6
<1>11. CASE Resource!Answered(x2)
  <2>1. /\ x2' = x2 /\ x3[x2].fetch # NULL /\ Resource!Complete(x3[x2])
        /\ x3' = [x3 EXCEPT ![x2] = AnswerOf(x3[x2])]
        /\ Resource!settle(x2, x3'[x2])
    BY <1>11 DEF Resource!Answered, AnswerOf
  <2>2. n' = Len(AnswerOf(x3[x2]).pages) /\ n = Len(x3[x2].pages)
    BY <1>1, <2>1 DEF n, Resource!list
  <2>3. CASE x3[x2].fetch.kind = "next"
    <3>1. x5[x2] # NULL /\ x5[x2] = n /\ n' = n + 1
      BY <1>1, <2>1, <2>2, <2>3, AnswerIs
    <3>2. x4' = [key |-> x2, index |-> x5[x2] + 1]
      BY <1>1, <2>1, <2>2, <3>1 DEF Resource!settle
    <3>3. r' = n + 1
      BY <2>1, <3>1, <3>2 DEF r, Resource!requestedPageIndex
    <3>4. Clamp(n + 1, n + 1) = n + 1
      BY <1>1, ClampIs
    <3> QED BY <1>2, <3>1, <3>3, <3>4
  <2>4. CASE x3[x2].fetch.kind # "next"
    <3>1. /\ x5[x2] # NULL => x5[x2] = n
          /\ n' <= 1 \/ n' <= n
      BY <1>1, <2>1, <2>2, <2>4, AnswerIs
    <3>2. CASE n' <= 1
      <4>1. Clamp(r', n') = 1 /\ Clamp(r, n) >= 1 /\ Clamp(r, n) \in Int
        BY <1>1, <1>2, <3>2, ClampIs
      <4> QED BY <1>1, <1>2, <1>3, <4>1
    <3>3. CASE n' <= n /\ n' > 1
      <4>1. x4' = x4
        BY <1>1, <1>2, <2>1, <2>2, <3>1, <3>3 DEF Resource!settle
      <4>2. r' = r
        BY <2>1, <4>1 DEF r, Resource!requestedPageIndex
      <4>3. Clamp(r, n') <= Clamp(r, n)
        BY <1>1, <1>2, <3>3, ClampIs
      <4>4. Clamp(r, n') \in Int /\ Clamp(r, n) \in Int
        BY <1>1, <1>2, ClampIs
      <4> QED BY <1>1, <1>2, <1>3, <4>2, <4>3, <4>4
    <3> QED BY <1>2, <3>1, <3>2, <3>3
  <2> QED BY <2>3, <2>4
<1>12. CASE Resource!ReadFails(x2)
  <2> DEFINE q == [x3[x2] EXCEPT !.fetch = NULL, !.error = TRUE, !.invalidated = TRUE]
  <2>1. x2' = x2 /\ x3' = [x3 EXCEPT ![x2] = q] /\ Resource!settle(x2, x3'[x2])
    BY <1>1, <1>12 DEF Resource!ReadFails
  <2>2. x3'[x2].pages = x3[x2].pages
    BY <1>1, <2>1 DEF Good, Lists
  <2>3. x5[x2] # NULL => x5[x2] = Len(x3[x2].pages) /\ Len(x3[x2].pages) \in Nat
    BY <1>1 DEF Good, Reads, Lists
  <2>4. x4' = x4
    BY <2>1, <2>2, <2>3 DEF Resource!settle
  <2> QED BY <1>6, <2>1, <2>2, <2>4
<1>13. ASSUME NEW f \in Resource!Filters, f # x2,
              Resource!Answered(f) \/ Resource!ReadFails(f)
       PROVE  FALSE
  <2>1. PICK q : x3' = [x3 EXCEPT ![f] = q]
    BY <1>1, <1>13 DEF Resource!Answered, Resource!ReadFails
  <2> QED BY <1>10, <1>13, <2>1 DEF Resource!Answered, Resource!ReadFails
<1> QED
  BY <1>5, <1>7, <1>8, <1>9, <1>11, <1>12, <1>13
     DEF Resource!Next, Resource!setFilters, Resource!showNextPage,
     Resource!showPreviousPage, Resource!refetch, Resource!openAction,
     Resource!openEditor, Resource!open, Resource!submit

-----------------------------------------------------------------------------
(* The queue counts and chooses as the standard modules do.                *)

(* An instance counts as the standard module does.                         *)
LEMMA CountedAlike ==
  ASSUME NEW c, NEW S
  PROVE  Queue(c)!Cardinality(S) = Cardinality(S)
BY DEF Queue!Cardinality, Cardinality

(* A finite set of numbers has its greatest, which Max chooses.            *)
LEMMA LastOf ==
  ASSUME NEW c, NEW S \in SUBSET Nat, IsFiniteSet(S), S # {}
  PROVE  Queue(c)!Max(S) \in S /\ \A x \in S : x <= Queue(c)!Max(S)
<1> DEFINE P(x) == \A y \in S : x >= y
<1>1. \E x \in S : P(x)
  <2>1. PICK m \in S : \A x \in S : x <= m
    BY Greatest
  <2> QED BY <2>1
<1>2. Queue(c)!Max(S) = CHOOSE x \in S : P(x)
  BY DEF Queue!Max
<1> HIDE DEF P
<1>3. Queue(c)!Max(S) \in S /\ P(Queue(c)!Max(S))
  BY <1>1, <1>2
<1> QED BY <1>3 DEF P

-----------------------------------------------------------------------------
(* The queue: the pages of a list, with those a next page brings, follow   *)
(* one another, and none passes over a report that waits.                  *)

Ids(p) == {i.id : i \in p.items}
Waiting(c) == Queue(c)!Of("PENDING")

(* A page goes on from where its cursor stands, without a gap.             *)
LEMMA PageRead ==
  ASSUME NEW c, c.size \in Nat, NEW s, NEW k \in Nat
  PROVE  LET p == Queue(c)!listAdminReports(s, k)
         IN /\ Ids(p) \subseteq Queue(c)!Of(s)
            /\ \A r \in Queue(c)!Of(s) : (r > k /\ \E x \in Ids(p) : r <= x) => r \in Ids(p)
            /\ p.next # NULL => p.next \in Ids(p)
<1> DEFINE p == Queue(c)!listAdminReports(s, k)
           found == {r \in Queue(c)!Of(s) : r > k}
           nums == {r \in found : Cardinality(Below(found, r)) <= PAGE_SIZE}
           late(r) == r <= x2 /\ s = "PENDING"
           recs == {[id |-> r, overdue |-> late(r)] : r \in nums}
<1>1. /\ p.items = recs
      /\ p.next = IF nums = found THEN NULL ELSE Queue(c)!Max(nums)
  BY CountedAlike DEF Queue!listAdminReports, Below
<1>2. Ids(p) = nums
  <2> HIDE DEF nums, late, p
  <2>1. Ids(p) = {i.id : i \in recs}
    BY <1>1 DEF Ids
  <2>2. \A r \in nums : [id |-> r, overdue |-> late(r)] \in recs /\ [id |-> r, overdue |-> late(r)].id = r
    OBVIOUS
  <2>3. \A i \in recs : i.id \in nums
    OBVIOUS
  <2> HIDE DEF recs
  <2> QED BY <2>1, <2>2, <2>3
<1>3. Queue(c)!Of(s) \subseteq 1..c.size
  BY DEF Queue!Of
<1>4. found \in SUBSET Nat /\ IsFiniteSet(found)
  <2>1. found \in SUBSET (1..c.size)
    BY <1>3
  <2>2. IsFiniteSet(1..c.size)
    BY FS_Interval
  <2> QED BY <2>1, <2>2, FS_Subset
<1>5. ASSUME NEW r \in found, NEW x \in nums, r <= x
      PROVE  r \in nums
  <2>1. Below(found, r) \in SUBSET Below(found, x) /\ Below(found, x) \in SUBSET found
    BY <1>4, <1>5 DEF Below
  <2>2. IsFiniteSet(Below(found, x)) /\ Cardinality(Below(found, r)) <= Cardinality(Below(found, x))
    BY <1>4, <2>1, FS_Subset
  <2>3. IsFiniteSet(Below(found, r)) /\ Cardinality(Below(found, x)) <= PAGE_SIZE
    BY <2>1, <2>2, <1>5, FS_Subset
  <2>4. Cardinality(Below(found, r)) \in Nat /\ Cardinality(Below(found, x)) \in Nat
    BY <2>2, <2>3, FS_CardinalityType
  <2> QED BY <2>2, <2>3, <2>4, SizesAssumption
<1>6. ASSUME nums # found
      PROVE  Queue(c)!Max(nums) \in nums
  <2>1. found # {} /\ Cardinality(found) \in Nat /\ Cardinality(found) # 0
    BY <1>4, <1>6, FS_CardinalityType, FS_EmptySet
  <2>2. PICK x \in found : Cardinality(Below(found, x)) = 1
    <3>1. 1 \in 1..Cardinality(found)
      BY <2>1
    <3> HIDE DEF found
    <3> QED BY <1>4, <3>1, Ranked
  <2>3. nums # {} /\ nums \in SUBSET Nat /\ IsFiniteSet(nums)
    BY <1>4, <2>2, SizesAssumption, FS_Subset
  <2> HIDE DEF nums
  <2> QED BY <2>3, LastOf
<1> HIDE DEF p, nums
<1>7. nums \subseteq found
  BY DEF nums
<1> QED BY <1>1, <1>2, <1>5, <1>6, <1>7 DEF p

(* The pages of a list.                                                    *)
QueuePages(c) == [items : SUBSET [id : 1..c.size, overdue : BOOLEAN],
             next : (1..c.size) \cup {NULL}, counts : [open : Nat, overdue : Nat]]

(* One after another, of a list that the server has as s; of the list of   *)
(* those that wait, none of which is passed over.                          *)
Unbroken(s, W) ==
  \A k \in 1..Len(W) : \A r \in DOMAIN s :
    (s[r] = "PENDING" /\ \E x \in Ids(W[k]) : r <= x) => \E j \in 1..k : r \in Ids(W[j])

Linked(s, W) ==
  \A k \in 1..Len(W) : /\ \A x \in Ids(W[k]) : s[x] # NULL
                       /\ W[k].next # NULL => W[k].next \in Ids(W[k])
                       /\ k < Len(W) => W[k].next # NULL

Chain(c, s, t, W) ==
  /\ W \in Seq(QueuePages(c))
  /\ Linked(s, W)
  /\ t = "PENDING" => Unbroken(s, W)

Whole(q) == IF q.fetch.kind = "next" THEN q.pages \o q.fetch.got ELSE q.fetch.got

Fetching(c, s, t, q) ==
  /\ q.fetch = [kind |-> q.fetch.kind, got |-> q.fetch.got]
  /\ q.fetch.got \in Seq(QueuePages(c))
  /\ Chain(c, s, t, Whole(q))
  /\ q.fetch.kind = "next" => q.pages # <<>> /\ q.pages[Len(q.pages)].next # NULL

Listed(c, s, t, q) ==
  /\ q = [pages |-> q.pages, fetch |-> q.fetch, error |-> q.error, invalidated |-> q.invalidated]
  /\ Chain(c, s, t, q.pages)
  /\ q.fetch # NULL => Fetching(c, s, t, q)

(* The reports are made in the order of their numbers.                     *)
Served(c, s) ==
  /\ s \in [1..c.size -> Queue(c)!ReportStatus \cup {NULL}]
  /\ \A r, u \in 1..c.size : (r < u /\ s[r] = NULL) => s[u] = NULL

(* What may become of the server: none is unmade, none waits again.        *)
Onward(c, s, s2) ==
  \A r \in 1..c.size : /\ s[r] # NULL => s2[r] # NULL
                       /\ s2[r] = "PENDING" => s[r] \in {"PENDING", NULL}

Statuses == {"PENDING", "ACTIONED", "DISMISSED"}

(* The statuses, by the name this module gives them.                       *)
LEMMA StatusesAre ==
  /\ NULL \notin Statuses
  /\ \A c : Queue(c)!ReportStatus = Statuses
BY NullAssumption DEF Queue!ReportStatus, Statuses

(* The reports of a page are reports there are.                            *)
LEMMA IdsAre ==
  ASSUME NEW c, NEW p \in QueuePages(c)
  PROVE  Ids(p) \subseteq 1..c.size
BY DEF Ids, QueuePages

(* Whatever the server does, a list stays unbroken as far as it goes.      *)
LEMMA ChainMoves ==
  ASSUME NEW c, c.size \in Nat, NEW s, NEW s2, Served(c, s), Served(c, s2), Onward(c, s, s2),
         NEW t, NEW W, Chain(c, s, t, W)
  PROVE  Chain(c, s2, t, W)
<1>0. W \in Seq(QueuePages(c)) /\ Linked(s, W)
  BY DEF Chain
<1>1. \A k \in 1..Len(W) : Ids(W[k]) \subseteq 1..c.size
  BY <1>0, IdsAre
<1>2. Linked(s2, W)
  BY <1>0, <1>1 DEF Linked, Onward
<1>3. ASSUME t = "PENDING" PROVE Unbroken(s2, W)
  <2>1. Unbroken(s, W) /\ DOMAIN s = 1..c.size /\ DOMAIN s2 = 1..c.size
    BY <1>3 DEF Chain, Served
  <2> SUFFICES ASSUME NEW k \in 1..Len(W), NEW r \in 1..c.size, s2[r] = "PENDING",
                      NEW x \in Ids(W[k]), r <= x
               PROVE  \E j \in 1..k : r \in Ids(W[j])
    BY <2>1 DEF Unbroken
  <2>2. s[r] \in {"PENDING", NULL} /\ s[x] # NULL /\ x \in 1..c.size
    BY <1>0, <1>1 DEF Onward, Linked
  <2>3. s[r] = "PENDING"
    BY <2>2 DEF Served
  <2> QED BY <2>1, <2>3 DEF Unbroken
<1> QED BY <1>0, <1>2, <1>3 DEF Chain

(* A list stays in order when the server moves on.                         *)
LEMMA ListMoves ==
  ASSUME NEW c, c.size \in Nat, NEW s, NEW s2, Served(c, s), Served(c, s2), Onward(c, s, s2),
         NEW t, NEW q, Listed(c, s, t, q)
  PROVE  Listed(c, s2, t, q)
BY ChainMoves DEF Listed, Fetching

(* An empty list is in order, and a page that goes on from the last of a   *)
(* list keeps it in order.                                                 *)
LEMMA ChainEmpty ==
  ASSUME NEW c, NEW s, NEW t
  PROVE  Chain(c, s, t, <<>>)
BY DEF Chain, Linked, Unbroken

(* The page that is read next continues the chain.                         *)
LEMMA ChainAppend ==
  ASSUME NEW c, c.size \in Nat, Served(c, x1), NEW t \in Statuses, NEW W, Chain(c, x1, t, W), NEW k \in Nat,
         W = <<>> => k = 0, W # <<>> => k = W[Len(W)].next /\ k # NULL,
         NEW p, p = Queue(c)!listAdminReports(t, k), p \in QueuePages(c)
  PROVE  Chain(c, x1, t, Append(W, p))
<1> DEFINE V == Append(W, p)
           n == Len(W)
<1>0. W \in Seq(QueuePages(c)) /\ Linked(x1, W) /\ n \in Nat
  BY DEF Chain
<1>1. /\ V \in Seq(QueuePages(c)) /\ Len(V) = n + 1 /\ V[n + 1] = p
      /\ \A j \in 1..n : V[j] = W[j]
  BY <1>0
<1>2. /\ Ids(p) \subseteq Queue(c)!Of(t)
      /\ \A r \in Queue(c)!Of(t) : (r > k /\ \E x \in Ids(p) : r <= x) => r \in Ids(p)
      /\ p.next # NULL => p.next \in Ids(p)
  BY PageRead
<1>3. \A x \in Ids(p) : x1[x] # NULL
  BY <1>2, StatusesAre DEF Queue!Of
<1> HIDE DEF V
<1>4. Linked(x1, V)
  <2> SUFFICES ASSUME NEW j \in 1..(n + 1)
               PROVE  /\ \A x \in Ids(V[j]) : x1[x] # NULL
                      /\ V[j].next # NULL => V[j].next \in Ids(V[j])
                      /\ j < n + 1 => V[j].next # NULL
    BY <1>1 DEF Linked
  <2>1. CASE j = n + 1
    BY <1>1, <1>2, <1>3, <2>1
  <2>2. CASE j \in 1..n
    <3>1. /\ \A x \in Ids(W[j]) : x1[x] # NULL
          /\ W[j].next # NULL => W[j].next \in Ids(W[j])
          /\ j < n => W[j].next # NULL
      BY <1>0, <2>2 DEF Linked
    <3>2. j = n => W[j].next # NULL
      BY <1>0, <2>2
    <3> QED BY <1>0, <1>1, <2>2, <3>1, <3>2
  <2> QED BY <1>0, <2>1, <2>2
<1>5. ASSUME t = "PENDING" PROVE Unbroken(x1, V)
  <2>1. Unbroken(x1, W) /\ DOMAIN x1 = 1..c.size
    BY <1>5 DEF Chain, Served
  <2> SUFFICES ASSUME NEW j \in 1..(n + 1), NEW r \in 1..c.size, x1[r] = "PENDING",
                      NEW x \in Ids(V[j]), r <= x
               PROVE  \E i \in 1..j : r \in Ids(V[i])
    BY <1>1, <2>1 DEF Unbroken
  <2>2. CASE j \in 1..n
    <3>1. \E i \in 1..j : r \in Ids(W[i])
      BY <1>1, <2>1, <2>2 DEF Unbroken
    <3> QED BY <1>0, <1>1, <2>2, <3>1
  <2>3. CASE j = n + 1 /\ r > k
    <3>1. r \in Ids(p)
      BY <1>1, <1>2, <1>5, <2>3 DEF Queue!Of
    <3> QED BY <1>1, <2>3, <3>1
  <2>4. CASE j = n + 1 /\ ~(r > k)
    <3>1. W # <<>> /\ n \in 1..n /\ k = W[n].next /\ k # NULL /\ r <= k
      BY <1>0, <2>4
    <3>2. k \in Ids(W[n])
      BY <1>0, <3>1 DEF Linked
    <3>3. \E i \in 1..n : r \in Ids(W[i])
      BY <2>1, <3>1, <3>2 DEF Unbroken
    <3> QED BY <1>0, <1>1, <2>4, <3>3
  <2> QED BY <1>0, <2>2, <2>3, <2>4
<1> QED BY <1>1, <1>4, <1>5 DEF Chain, V

(* A page is one.                                                          *)
LEMMA PageTyped ==
  ASSUME NEW c, c.size \in Nat, NEW s, NEW k \in Nat
  PROVE  Queue(c)!listAdminReports(s, k) \in QueuePages(c)
<1> DEFINE p == Queue(c)!listAdminReports(s, k)
           late(r) == r <= x2 /\ s = "PENDING"
           waiting == Queue(c)!Of("PENDING")
<1>1. PICK nums \in SUBSET (1..c.size) : p.items = {[id |-> r, overdue |-> late(r)] : r \in nums}
  <2> DEFINE found == {r \in Queue(c)!Of(s) : r > k}
             items == {r \in found : Queue(c)!Cardinality({q \in found : q <= r}) <= PAGE_SIZE}
  <2>1. p.items = {[id |-> r, overdue |-> late(r)] : r \in items}
    BY DEF Queue!listAdminReports
  <2>2. items \in SUBSET (1..c.size)
    BY DEF Queue!Of
  <2> HIDE DEF items
  <2> QED BY <2>1, <2>2
<1>2. p.items \in SUBSET [id : 1..c.size, overdue : BOOLEAN]
  <2>1. \A r \in nums : late(r) \in BOOLEAN
    OBVIOUS
  <2> HIDE DEF late
  <2> QED BY <1>1, <2>1
<1>3. Ids(p) \subseteq 1..c.size /\ (p.next # NULL => p.next \in Ids(p))
  BY PageRead DEF Queue!Of
<1>4. p.counts \in [open : Nat, overdue : Nat]
  <2>1. /\ waiting \in SUBSET (1..c.size)
        /\ {r \in waiting : r <= x2} \in SUBSET (1..c.size)
    BY DEF Queue!Of
  <2>2. IsFiniteSet(1..c.size)
    BY FS_Interval
  <2>3. Cardinality(waiting) \in Nat /\ Cardinality({r \in waiting : r <= x2}) \in Nat
    BY <2>1, <2>2, FS_Subset, FS_CardinalityType
  <2>4. p.counts = [open |-> Cardinality(waiting), overdue |-> Cardinality({r \in waiting : r <= x2})]
    BY CountedAlike DEF Queue!listAdminReports, Queue!Counts
  <2> HIDE DEF p, waiting
  <2> QED BY <2>3, <2>4
<1>5. p = [items |-> p.items, next |-> p.next, counts |-> p.counts]
  BY DEF Queue!listAdminReports
<1> HIDE DEF p
<1>6. p.next \in (1..c.size) \cup {NULL}
  BY <1>3
<1> QED BY <1>2, <1>4, <1>5, <1>6 DEF QueuePages, p

(* A list that is read anew, or to be read when it is shown.               *)
LEMMA ListRestart ==
  ASSUME NEW c, NEW s, NEW t, NEW q, Listed(c, s, t, q)
  PROVE  Listed(c, s, t, Queue(c)!Restart(q))
<1> DEFINE reading == Queue(c)!Reading("all")
           shown == q.error /\ q.pages # <<>>
           r1 == [q EXCEPT !.fetch = reading]
<1> HIDE DEF shown
<1>1. r1 = [pages |-> q.pages, fetch |-> reading, error |-> q.error, invalidated |-> q.invalidated]
  BY DEF Listed
<1>2. Queue(c)!Restart(q) = [r1 EXCEPT !.error = shown]
  BY DEF Queue!Restart, shown
<1>3. reading = [kind |-> "all", got |-> <<>>]
  BY DEF Queue!Reading
<1> HIDE DEF r1, reading
<1>4. Queue(c)!Restart(q) =
        [pages |-> q.pages, fetch |-> reading, error |-> shown, invalidated |-> q.invalidated]
  BY <1>1, <1>2
<1>5. <<>> \in Seq(QueuePages(c)) /\ Chain(c, s, t, <<>>)
  BY ChainEmpty
<1> DEFINE r == Queue(c)!Restart(q)
<1> HIDE DEF r
<1>6. r.pages = q.pages /\ r.fetch = reading
  BY <1>4 DEF r
<1>7. Fetching(c, s, t, r)
  BY <1>3, <1>5, <1>6 DEF Fetching, Whole
<1>8. r = [pages |-> r.pages, fetch |-> r.fetch, error |-> r.error, invalidated |-> r.invalidated]
  BY <1>4 DEF r
<1>9. Listed(c, s, t, r)
  BY <1>6, <1>7, <1>8 DEF Listed
<1> QED BY <1>9 DEF r

(* Marking a list stale changes none of its pages.                         *)
LEMMA ListInvalidated ==
  ASSUME NEW c, NEW s, NEW t, NEW q, Listed(c, s, t, q)
  PROVE  Listed(c, s, t, [q EXCEPT !.invalidated = TRUE])
<1> DEFINE b == TRUE
           r == [q EXCEPT !.invalidated = b]
<1> HIDE DEF b
<1>1. r = [pages |-> q.pages, fetch |-> q.fetch, error |-> q.error, invalidated |-> b]
  BY DEF Listed
<1> HIDE DEF r
<1>2. Listed(c, s, t, r)
  BY <1>1 DEF Listed, Fetching, Whole
<1> QED BY <1>2 DEF r, b

(* The next page is asked for.                                             *)
LEMMA ListNext ==
  ASSUME NEW c, NEW s, NEW t, NEW q, Listed(c, s, t, q),
         q.pages # <<>>, Queue(c)!getNextPageParam(q.pages) # NULL
  PROVE  Listed(c, s, t, [q EXCEPT !.fetch = Queue(c)!Reading("next")])
<1> DEFINE reading == [kind |-> "next", got |-> <<>>]
           r == [q EXCEPT !.fetch = reading]
<1>1. r = [q EXCEPT !.fetch = Queue(c)!Reading("next")]
  BY DEF Queue!Reading
<1>2. r = [pages |-> q.pages, fetch |-> reading, error |-> q.error, invalidated |-> q.invalidated]
  BY DEF Listed
<1>3. /\ q.pages \in Seq(QueuePages(c)) /\ Chain(c, s, t, q.pages)
      /\ q.pages[Len(q.pages)].next # NULL
  BY DEF Listed, Chain, Queue!getNextPageParam
<1>4. q.pages \o <<>> = q.pages /\ <<>> \in Seq(QueuePages(c))
  BY <1>3
<1> HIDE DEF r
<1>5. r.pages = q.pages /\ r.fetch = reading
  BY <1>2
<1>6. Fetching(c, s, t, r)
  BY <1>3, <1>4, <1>5 DEF Fetching, Whole
<1>7. r = [pages |-> r.pages, fetch |-> r.fetch, error |-> r.error, invalidated |-> r.invalidated]
  BY <1>2
<1>8. Listed(c, s, t, r)
  BY <1>3, <1>5, <1>6, <1>7 DEF Listed
<1> QED BY <1>1, <1>8

(* Two sequences in a row.                                                 *)
LEMMA ConcatLast ==
  ASSUME NEW S, NEW a \in Seq(S), NEW b \in Seq(S), b # <<>>
  PROVE  a \o b \in Seq(S) /\ a \o b # <<>> /\ (a \o b)[Len(a \o b)] = b[Len(b)]
<1>1. Len(a) \in Nat /\ Len(b) \in Nat /\ Len(b) >= 1
  OBVIOUS
<1>2. /\ a \o b \in Seq(S) /\ Len(a \o b) = Len(a) + Len(b)
      /\ \A i \in 1..(Len(a) + Len(b)) : (a \o b)[i] = IF i <= Len(a) THEN a[i] ELSE b[i - Len(a)]
  BY ConcatProperties
<1>3. (a \o b)[Len(a) + Len(b)] = b[Len(b)]
  BY <1>1, <1>2
<1> QED BY <1>1, <1>2, <1>3

(* Appending to the second of two sequences that are joined.               *)
LEMMA ConcatAppend ==
  ASSUME NEW S, NEW a \in Seq(S), NEW b \in Seq(S), NEW p \in S
  PROVE  a \o Append(b, p) = Append(a \o b, p)
<1>1. <<p>> \in Seq(S) /\ a \o b \in Seq(S)
  OBVIOUS
<1>2. (a \o b) \o <<p>> = a \o (b \o <<p>>)
  BY <1>1, ConcatAssociative
<1> QED BY <1>1, <1>2, AppendIsConcat

(* A page is read.                                                         *)
LEMMA ListRead ==
  ASSUME NEW c, c.size \in Nat, Served(c, x1), NEW t \in Statuses, NEW q, Listed(c, x1, t, q),
         q.fetch # NULL, ~Queue(c)!Complete(q)
  PROVE  Listed(c, x1, t, [q EXCEPT !.fetch =
           [kind |-> q.fetch.kind,
            got |-> Append(q.fetch.got, Queue(c)!listAdminReports(t, Queue(c)!Cursor(q)))]])
<1> DEFINE W == Whole(q)
           k == Queue(c)!Cursor(q)
           p == Queue(c)!listAdminReports(t, k)
           got == q.fetch.got
           now == [kind |-> q.fetch.kind, got |-> Append(got, p)]
           r == [q EXCEPT !.fetch = now]
<1>1. /\ got \in Seq(QueuePages(c)) /\ Chain(c, x1, t, W) /\ q.pages \in Seq(QueuePages(c))
      /\ q.fetch.kind = "next" => q.pages # <<>> /\ q.pages[Len(q.pages)].next # NULL
  BY DEF Listed, Fetching, Chain
<1>2. /\ W \in Seq(QueuePages(c))
      /\ W = <<>> => k = 0
      /\ W # <<>> => k = W[Len(W)].next /\ k # NULL
  <2>1. got # <<>> => got[Len(got)].next # NULL
    BY DEF Queue!Complete, Queue!getNextPageParam
  <2>2. k = IF got # <<>> THEN got[Len(got)].next
            ELSE IF q.fetch.kind = "next" THEN q.pages[Len(q.pages)].next ELSE 0
    BY DEF Queue!Cursor, Queue!getNextPageParam
  <2> HIDE DEF k
  <2>3. CASE q.fetch.kind = "next"
    <3>1. W = q.pages \o got
      BY <2>3 DEF Whole
    <3>2. CASE got = <<>>
      <4>1. W = q.pages
        BY <1>1, <3>1, <3>2
      <4> QED BY <1>1, <2>2, <2>3, <3>2, <4>1
    <3>3. CASE got # <<>>
      <4>1. /\ W \in Seq(QueuePages(c)) /\ W # <<>>
            /\ W[Len(W)] = got[Len(got)]
        <5> HIDE DEF got, W
        <5> QED BY <1>1, <3>1, <3>3, ConcatLast
      <4> QED BY <2>1, <2>2, <3>3, <4>1
    <3> QED BY <3>2, <3>3
  <2>4. CASE q.fetch.kind # "next"
    <3>1. W = got
      BY <2>4 DEF Whole
    <3> QED BY <1>1, <2>1, <2>2, <2>4, <3>1
  <2> QED BY <2>3, <2>4
<1>3. k \in Nat
  <2> HIDE DEF k, W
  <2>1. CASE W = <<>>
    BY <1>2, <2>1
  <2>2. CASE W # <<>>
    <3>1. W[Len(W)] \in QueuePages(c) /\ k = W[Len(W)].next /\ k # NULL
      BY <1>2, <2>2
    <3> QED BY <3>1 DEF QueuePages
  <2> QED BY <2>1, <2>2
<1>4. p \in QueuePages(c)
  BY <1>3, PageTyped
<1>5. Chain(c, x1, t, Append(W, p))
  <2> HIDE DEF k, W
  <2> QED BY <1>1, <1>2, <1>3, <1>4, ChainAppend
<1> HIDE DEF k, p, now
<1>6. r = [pages |-> q.pages, fetch |-> now, error |-> q.error, invalidated |-> q.invalidated]
  BY DEF Listed
<1>7. Append(got, p) \in Seq(QueuePages(c))
  BY <1>1, <1>4
<1>8. Whole(r) = Append(W, p)
  <2>1. r.pages = q.pages /\ r.fetch = now
    BY <1>6
  <2>2. q.pages \o Append(got, p) = Append(q.pages \o got, p)
    <3>1. q.pages \in Seq(QueuePages(c)) /\ got \in Seq(QueuePages(c)) /\ p \in QueuePages(c)
      BY <1>1, <1>4
    <3> HIDE DEF got
    <3>2. \A a, b \in Seq(QueuePages(c)) : a \o Append(b, p) = Append(a \o b, p)
      BY <3>1, ConcatAppend
    <3> QED BY <3>1, <3>2
  <2>3. r.fetch.kind = q.fetch.kind /\ r.fetch.got = Append(got, p)
    BY <2>1 DEF now
  <2> HIDE DEF r
  <2> QED BY <2>1, <2>2, <2>3 DEF Whole
<1> HIDE DEF r, W
<1>9. Fetching(c, x1, t, r)
  <2>1. r.pages = q.pages /\ r.fetch = now
    BY <1>6
  <2> QED BY <1>1, <1>5, <1>7, <1>8, <2>1 DEF Fetching, now
<1>10. Chain(c, x1, t, r.pages) /\ r.pages = q.pages
  BY <1>6 DEF Listed
<1>11. r = [pages |-> r.pages, fetch |-> r.fetch, error |-> r.error, invalidated |-> r.invalidated]
  BY <1>6
<1>12. Listed(c, x1, t, r)
  BY <1>9, <1>10, <1>11 DEF Listed
<1> QED BY <1>12 DEF r, now, k, p

(* What holds of the queue, whichever of its three questions is asked.     *)
Sized(c) == c.size \in Nat /\ "PENDING" \in c.tabs /\ c.tabs \subseteq Statuses

Detail == [data : Statuses \cup {NULL}, fetch : {NULL, "asked", "read"},
           read : Statuses \cup {NULL}, invalidated : BOOLEAN]

ListsOk(c, s, qs) ==
  /\ qs = [t \in c.tabs |-> qs[t]]
  /\ \A t \in c.tabs : Listed(c, s, t, qs[t])

DialogOk(c, s, d) == d # NULL => d.report \in 1..c.size /\ s[d.report] # NULL

RequestOk(c, s, q) ==
  /\ q = [dialog |-> q.dialog, state |-> q.state, status |-> q.status]
  /\ q.dialog.report \in 1..c.size /\ s[q.dialog.report] # NULL
  /\ q.status \in {"ACTIONED", "DISMISSED"}

QueueInv(c) ==
  /\ Served(c, x1) /\ x2 \in Nat /\ x3 \in c.tabs
  /\ ListsOk(c, x1, x4)
  /\ x6 \in [1..c.size -> Detail]
  /\ DialogOk(c, x1, x7)
  /\ \A q \in x8 : RequestOk(c, x1, q)

(* What the invariant says of the queue as it is shown.                    *)
LEMMA QueueHolds ==
  ASSUME NEW c, Sized(c), QueueInv(c)
  PROVE  Queue(c)!TypeOK /\ Queue(c)!NothingSkipped
<1>1. /\ Served(c, x1) /\ Linked(x1, x4["PENDING"].pages)
      /\ x4["PENDING"].pages \in Seq(QueuePages(c)) /\ Unbroken(x1, x4["PENDING"].pages)
  BY DEF QueueInv, ListsOk, Listed, Chain, Sized
<1>2. \A t \in c.tabs : \A k \in DOMAIN x4[t].pages :
        k < Len(x4[t].pages) => x4[t].pages[k].next # NULL
  <2> SUFFICES ASSUME NEW t \in c.tabs, NEW k \in DOMAIN x4[t].pages, k < Len(x4[t].pages)
               PROVE  x4[t].pages[k].next # NULL
    OBVIOUS
  <2>1. x4[t].pages \in Seq(QueuePages(c)) /\ Linked(x1, x4[t].pages)
    BY DEF QueueInv, ListsOk, Listed, Chain
  <2>2. k \in 1..Len(x4[t].pages)
    BY <2>1
  <2> QED BY <2>1, <2>2 DEF Linked
<1>3. \A r \in 1..c.size : x6[r].data \in Queue(c)!ReportStatus \cup {NULL}
  BY StatusesAre DEF QueueInv, Detail
<1>4. Queue(c)!TypeOK
  BY <1>1, <1>2, <1>3 DEF Queue!TypeOK, QueueInv, Served, DialogOk, RequestOk
<1>5. Queue(c)!NothingSkipped
  <2> DEFINE W == x4["PENDING"].pages
             found == Queue(c)!ItemsOf(x4["PENDING"])
  <2>1. /\ found = UNION {W[k].items : k \in DOMAIN W}
        /\ DOMAIN W = 1..Len(W) /\ Len(W) \in Nat
    BY <1>1 DEF Queue!ItemsOf
  <2>2. \A i \in found : \E k \in 1..Len(W) : i.id \in Ids(W[k])
    BY <2>1 DEF Ids
  <2>3. \A k \in 1..Len(W) : \A r \in Ids(W[k]) : \E i \in found : i.id = r
    BY <2>1 DEF Ids
  <2>4. \A k \in 1..Len(W) : Ids(W[k]) \subseteq 1..c.size
    BY <1>1, IdsAre
  <2> HIDE DEF found
  <2> SUFFICES ASSUME NEW r \in Queue(c)!Of("PENDING"), NEW i \in found, i.id > r
               PROVE  \E j \in found : j.id = r
    BY DEF Queue!NothingSkipped, found
  <2>5. r \in 1..c.size /\ x1[r] = "PENDING" /\ DOMAIN x1 = 1..c.size
    BY <1>1 DEF Queue!Of, Served
  <2>6. PICK k \in 1..Len(W) : i.id \in Ids(W[k])
    BY <2>2
  <2>7. r <= i.id
    <3>1. i.id \in Int /\ r \in Int
      BY <2>4, <2>5, <2>6
    <3> QED BY <3>1
  <2>8. PICK j \in 1..k : r \in Ids(W[j])
    BY <1>1, <2>5, <2>6, <2>7 DEF Unbroken
  <2>9. j \in 1..Len(W)
    BY <2>1, <2>6, <2>8
  <2> QED BY <2>3, <2>8, <2>9
<1> QED BY <1>4, <1>5

(* The queue as it is opened.                                              *)
LEMMA QueueInit ==
  ASSUME NEW c, Sized(c), Queue(c)!Init
  PROVE  QueueInv(c)
<1>1. PICK n \in 1..Queue(c)!Cardinality(1..c.size) :
        x1 = [r \in 1..c.size |-> IF r <= n THEN "PENDING" ELSE NULL]
  BY DEF Queue!Init
<1>2. c.size \in Nat /\ Queue(c)!Cardinality(1..c.size) \in Nat
  <2>1. c.size \in Nat
    BY DEF Sized
  <2>2. Cardinality(1..c.size) = IF 1 > c.size THEN 0 ELSE c.size - 1 + 1
    <3>1. 1 \in Int /\ c.size \in Int
      BY <2>1
    <3> QED BY <3>1, FS_Interval, Zenon
  <2> QED BY <2>1, <2>2, CountedAlike
<1>3. Served(c, x1)
  <2>1. \A r \in 1..c.size : x1[r] = NULL => r > n
    BY <1>1, <1>2, StatusesAre DEF Statuses
  <2> QED BY <1>1, <1>2, <2>1, StatusesAre DEF Served, Statuses
<1>4. /\ x2 = 0 /\ x3 = "PENDING" /\ x7 = NULL /\ x8 = {}
      /\ x6 = [r \in 1..c.size |-> [data |-> NULL, fetch |-> NULL, read |-> NULL, invalidated |-> FALSE]]
      /\ x4 = [t \in c.tabs |-> [pages |-> <<>>,
                 fetch |-> IF t = x3 THEN [kind |-> "all", got |-> <<>>] ELSE NULL,
                 error |-> FALSE, invalidated |-> FALSE]]
  BY DEF Queue!Init, Queue!Reading
<1>5. x6 \in [1..c.size -> Detail]
  BY <1>4 DEF Detail
<1>6. ListsOk(c, x1, x4)
  <2> SUFFICES ASSUME NEW t \in c.tabs PROVE Listed(c, x1, t, x4[t])
    BY <1>4 DEF ListsOk
  <2> DEFINE q == x4[t]
  <2>1. /\ q = [pages |-> q.pages, fetch |-> q.fetch, error |-> q.error, invalidated |-> q.invalidated]
        /\ q.pages = <<>>
        /\ q.fetch = [kind |-> "all", got |-> <<>>] \/ q.fetch = NULL
    BY <1>4
  <2>2. <<>> \in Seq(QueuePages(c)) /\ Chain(c, x1, t, <<>>)
    BY ChainEmpty
  <2> HIDE DEF q
  <2>3. q.fetch # NULL => Fetching(c, x1, t, q)
    <3> SUFFICES ASSUME q.fetch # NULL PROVE Fetching(c, x1, t, q)
      OBVIOUS
    <3>1. q.fetch = [kind |-> "all", got |-> <<>>]
      BY <2>1
    <3>2. q.fetch.kind = "all" /\ q.fetch.got = <<>>
      BY <3>1
    <3> QED BY <2>2, <3>1, <3>2 DEF Fetching, Whole
  <2>4. Listed(c, x1, t, q)
    BY <2>1, <2>2, <2>3 DEF Listed
  <2> QED BY <2>4 DEF q
<1> QED BY <1>3, <1>4, <1>5, <1>6 DEF QueueInv, DialogOk, Sized

(* One list changes, or only what is on screen.                            *)
LEMMA QueueLists ==
  ASSUME NEW c, Sized(c), QueueInv(c), UNCHANGED <<x1, x2, x6, x7, x8>>, x3' \in c.tabs,
         NEW t \in c.tabs, NEW q, Listed(c, x1, t, q),
         x4' = [u \in c.tabs |-> IF u = t THEN q ELSE x4[u]]
  PROVE  QueueInv(c)'
<1>1. ListsOk(c, x1', x4')
  BY DEF QueueInv, ListsOk
<1> QED BY <1>1 DEF QueueInv

(* The lists: a tab is chosen, a page read, an answer shown, a read fails. *)
LEMMA QueueReads ==
  ASSUME NEW c, Sized(c), QueueInv(c), NEW t \in c.tabs,
         \/ Queue(c)!setStatus(t) \/ Queue(c)!PageRead(t)
         \/ Queue(c)!ListAnswered(t) \/ Queue(c)!ListFails(t)
  PROVE  QueueInv(c)'
<1> DEFINE q == x4[t]
<1>1. /\ Listed(c, x1, t, q) /\ x4 = [u \in c.tabs |-> x4[u]]
      /\ c.size \in Nat /\ Served(c, x1) /\ t \in Statuses /\ x3 \in c.tabs
  BY DEF QueueInv, ListsOk, Sized
<1> USE DEF Queue!dialog_vars, Queue!lists_vars
<1>2. CASE Queue(c)!setStatus(t)
  <2>1. PICK r \in {q, Queue(c)!Restart(q)} : x4' = [x4 EXCEPT ![t] = r]
    BY <1>2 DEF Queue!setStatus
  <2>2. Listed(c, x1, t, r)
    BY <1>1, <2>1, ListRestart
  <2>3. x4' = [u \in c.tabs |-> IF u = t THEN r ELSE x4[u]]
    BY <1>1, <2>1
  <2>4. UNCHANGED <<x1, x2, x6, x7, x8>> /\ x3' \in c.tabs
    BY <1>2 DEF Queue!setStatus
  <2> HIDE DEF q
  <2> QED BY <2>2, <2>3, <2>4, QueueLists
<1>3. CASE Queue(c)!PageRead(t)
  <2> DEFINE r == [q EXCEPT !.fetch =
               [kind |-> q.fetch.kind,
                got |-> Append(q.fetch.got, Queue(c)!listAdminReports(t, Queue(c)!Cursor(q)))]]
  <2>1. /\ UNCHANGED <<x1, x2, x3, x6, x7, x8>> /\ q.fetch # NULL /\ ~Queue(c)!Complete(q)
        /\ x4' = [x4 EXCEPT ![t] = r]
    BY <1>3 DEF Queue!PageRead
  <2> HIDE DEF q
  <2>2. Listed(c, x1, t, r)
    BY <1>1, <2>1, ListRead
  <2> HIDE DEF r
  <2>3. x4' = [u \in c.tabs |-> IF u = t THEN r ELSE x4[u]]
    BY <1>1, <2>1
  <2> QED BY <1>1, <2>1, <2>2, <2>3, QueueLists
<1>4. CASE Queue(c)!ListAnswered(t)
  <2> DEFINE pages == IF q.fetch.kind = "next" THEN q.pages \o q.fetch.got ELSE q.fetch.got
             r == [pages |-> pages, fetch |-> NULL, error |-> FALSE, invalidated |-> FALSE]
  <2>1. /\ UNCHANGED <<x1, x2, x3, x6, x7, x8>> /\ q.fetch # NULL
        /\ x4' = [x4 EXCEPT ![t] = r]
    BY <1>4 DEF Queue!ListAnswered
  <2>2. Chain(c, x1, t, pages)
    BY <1>1, <2>1 DEF Listed, Fetching, Whole
  <2> HIDE DEF pages
  <2>3. /\ r = [pages |-> r.pages, fetch |-> r.fetch, error |-> r.error, invalidated |-> r.invalidated]
        /\ r.pages = pages /\ r.fetch = NULL
    OBVIOUS
  <2> HIDE DEF q, r
  <2>4. Listed(c, x1, t, r)
    BY <2>2, <2>3 DEF Listed
  <2>5. x4' = [u \in c.tabs |-> IF u = t THEN r ELSE x4[u]]
    BY <1>1, <2>1
  <2> QED BY <1>1, <2>1, <2>4, <2>5, QueueLists
<1>5. CASE Queue(c)!ListFails(t)
  <2> DEFINE r == [pages |-> q.pages, fetch |-> NULL, error |-> TRUE, invalidated |-> TRUE]
  <2>1. UNCHANGED <<x1, x2, x3, x6, x7, x8>> /\ x4' = [x4 EXCEPT ![t] = r]
    BY <1>5 DEF Queue!ListFails
  <2>2. /\ r = [pages |-> r.pages, fetch |-> r.fetch, error |-> r.error, invalidated |-> r.invalidated]
        /\ r.pages = q.pages /\ r.fetch = NULL
    OBVIOUS
  <2> HIDE DEF r
  <2>3. Listed(c, x1, t, r)
    BY <1>1, <2>2 DEF Listed
  <2>4. x4' = [u \in c.tabs |-> IF u = t THEN r ELSE x4[u]]
    BY <1>1, <2>1
  <2> QED BY <1>1, <2>1, <2>3, <2>4, QueueLists
<1> QED BY <1>2, <1>3, <1>4, <1>5

(* What is asked from the screen.                                          *)
LEMMA QueueAsks ==
  ASSUME NEW c, Sized(c), QueueInv(c), Queue(c)!loadNextReportPage \/ Queue(c)!refetch
  PROVE  QueueInv(c)'
<1> DEFINE q == x4[x3]
<1>1. /\ Listed(c, x1, x3, q) /\ x4 = [u \in c.tabs |-> x4[u]] /\ x3 \in c.tabs
  BY DEF QueueInv, ListsOk
<1> USE DEF Queue!dialog_vars
<1>2. CASE Queue(c)!loadNextReportPage
  <2> DEFINE r == [q EXCEPT !.fetch = Queue(c)!Reading("next")]
  <2>1. /\ UNCHANGED <<x1, x2, x3, x6, x7, x8>> /\ x4' = [x4 EXCEPT ![x3] = r]
        /\ q.pages # <<>> /\ Queue(c)!getNextPageParam(q.pages) # NULL
    BY <1>2 DEF Queue!loadNextReportPage, Queue!hasNextPage, Queue!reports
  <2> HIDE DEF q
  <2>2. Listed(c, x1, x3, r)
    BY <1>1, <2>1, ListNext
  <2> HIDE DEF r
  <2>3. x4' = [u \in c.tabs |-> IF u = x3 THEN r ELSE x4[u]]
    BY <1>1, <2>1
  <2> QED BY <1>1, <2>1, <2>2, <2>3, QueueLists
<1>3. CASE Queue(c)!refetch
  <2> DEFINE r == Queue(c)!Restart(q)
  <2>1. UNCHANGED <<x1, x2, x3, x6, x7, x8>> /\ x4' = [x4 EXCEPT ![x3] = r]
    BY <1>3 DEF Queue!refetch
  <2> HIDE DEF q
  <2>2. Listed(c, x1, x3, r)
    BY <1>1, ListRestart
  <2> HIDE DEF r
  <2>3. x4' = [u \in c.tabs |-> IF u = x3 THEN r ELSE x4[u]]
    BY <1>1, <2>1
  <2> QED BY <1>1, <2>1, <2>2, <2>3, QueueLists
<1> QED BY <1>2, <1>3

(* A report that is asked for.                                             *)
LEMMA DetailAsked ==
  ASSUME NEW c, NEW d \in Detail
  PROVE  Queue(c)!Ask(d) \in Detail
<1> DEFINE d1 == [d EXCEPT !.fetch = "asked"]
<1>1. d1 \in Detail
  BY DEF Detail
<1>2. Queue(c)!Ask(d) = [d1 EXCEPT !.read = NULL]
  BY DEF Queue!Ask
<1> HIDE DEF d1
<1> QED BY <1>1, <1>2 DEF Detail

(* A step that moves only the details and the dialog.                      *)
LEMMA QueueDetails ==
  ASSUME NEW c, Sized(c), QueueInv(c), UNCHANGED <<x1, x2, x3, x4, x8>>,
         x6' \in [1..c.size -> Detail], DialogOk(c, x1, x7')
  PROVE  QueueInv(c)'
BY DEF QueueInv

(* What the dialog reads.                                                  *)
LEMMA QueueDialog ==
  ASSUME NEW c, Sized(c), QueueInv(c),
         \/ Queue(c)!onClose
         \/ \E r \in 1..c.size : \/ Queue(c)!openDialog(r) \/ Queue(c)!DetailRead(r)
                                 \/ Queue(c)!DetailAnswered(r) \/ Queue(c)!DetailFails(r)
  PROVE  QueueInv(c)'
<1>1. /\ x6 \in [1..c.size -> Detail] /\ DialogOk(c, x1, x7) /\ x3 \in c.tabs
      /\ x1 \in [1..c.size -> Statuses \cup {NULL}]
  BY StatusesAre DEF QueueInv, Served
<1> USE DEF Queue!lists_vars
<1>2. CASE Queue(c)!onClose
  BY <1>1, <1>2, QueueDetails DEF Queue!onClose, DialogOk
<1>3. ASSUME NEW r \in 1..c.size, Queue(c)!openDialog(r)
      PROVE  QueueInv(c)'
  <2>1. /\ UNCHANGED <<x1, x2, x3, x4, x8>>
        /\ x7' = [report |-> r, serial |-> x10']
        /\ \E i \in Queue(c)!items : i.id = r
    BY <1>3 DEF Queue!openDialog
  <2>2. PICK d \in {x6[r], Queue(c)!Ask(x6[r])} : x6' = [x6 EXCEPT ![r] = d]
    BY <1>3 DEF Queue!openDialog
  <2>3. d \in Detail
    BY <1>1, <2>2, DetailAsked
  <2>4. x6' \in [1..c.size -> Detail]
    BY <1>1, <2>2, <2>3
  <2>5. x1[r] # NULL
    <3> DEFINE W == x4[x3].pages
    <3>1. W \in Seq(QueuePages(c)) /\ Linked(x1, W)
      BY <1>1 DEF QueueInv, ListsOk, Listed, Chain
    <3>2. PICK k \in DOMAIN W : r \in Ids(W[k])
      BY <2>1 DEF Queue!items, Queue!ItemsOf, Queue!reports, Ids
    <3>3. k \in 1..Len(W)
      BY <3>1, <3>2
    <3> QED BY <3>1, <3>2, <3>3 DEF Linked
  <2>6. DialogOk(c, x1, x7')
    BY <2>1, <2>5 DEF DialogOk
  <2> QED BY <2>1, <2>4, <2>6, QueueDetails
<1>4. ASSUME NEW r \in 1..c.size, Queue(c)!DetailRead(r)
      PROVE  QueueInv(c)'
  <2> DEFINE d1 == [x6[r] EXCEPT !.fetch = "read"]
             d == [d1 EXCEPT !.read = x1[r]]
  <2>1. UNCHANGED <<x1, x2, x3, x4, x7, x8>> /\ x6' = [x6 EXCEPT ![r] = d]
    BY <1>4 DEF Queue!DetailRead
  <2>2. d1 \in Detail
    BY <1>1 DEF Detail
  <2>3. x1[r] \in Statuses \cup {NULL}
    BY <1>1
  <2> HIDE DEF d1
  <2>4. d \in Detail
    BY <2>2, <2>3 DEF Detail
  <2> HIDE DEF d
  <2>5. x6' \in [1..c.size -> Detail]
    BY <1>1, <2>1, <2>4
  <2> QED BY <1>1, <2>1, <2>5, QueueDetails
<1>5. ASSUME NEW r \in 1..c.size, Queue(c)!DetailAnswered(r) \/ Queue(c)!DetailFails(r)
      PROVE  QueueInv(c)'
  <2>1. PICK s \in {x6[r].read, x6[r].data}, b \in BOOLEAN :
           x6' = [x6 EXCEPT ![r] = [data |-> s, fetch |-> NULL, read |-> NULL, invalidated |-> b]]
    BY <1>5 DEF Queue!DetailAnswered, Queue!DetailFails
  <2>2. UNCHANGED <<x1, x2, x3, x4, x7, x8>>
    BY <1>5 DEF Queue!DetailAnswered, Queue!DetailFails
  <2>3. s \in Statuses \cup {NULL}
    BY <1>1, <2>1 DEF Detail
  <2>4. [data |-> s, fetch |-> NULL, read |-> NULL, invalidated |-> b] \in Detail
    BY <2>3 DEF Detail
  <2>5. x6' \in [1..c.size -> Detail]
    BY <1>1, <2>1, <2>4
  <2> QED BY <1>1, <2>2, <2>5, QueueDetails
<1> QED BY <1>2, <1>3, <1>4, <1>5

(* A decision is made, and answered or lost.                               *)
LEMMA RequestPut ==
  ASSUME NEW c, NEW s, NEW q, RequestOk(c, s, q), NEW state
  PROVE  RequestOk(c, s, [q EXCEPT !.state = state])
<1> DEFINE r == [q EXCEPT !.state = state]
<1>1. r = [dialog |-> q.dialog, state |-> state, status |-> q.status]
  BY DEF RequestOk
<1> HIDE DEF r
<1>2. RequestOk(c, s, r)
  BY <1>1 DEF RequestOk
<1> QED BY <1>2 DEF r

(* A step of the server, with the requests under way.                      *)
LEMMA QueueServer ==
  ASSUME NEW c, Sized(c), QueueInv(c), UNCHANGED <<x3, x4, x6, x7>>, x2' \in Nat,
         Served(c, x1'), Onward(c, x1, x1'), \A q \in x8' : RequestOk(c, x1, q)
  PROVE  QueueInv(c)'
<1>1. ListsOk(c, x1', x4')
  BY ListMoves DEF QueueInv, ListsOk, Sized
<1>2. DialogOk(c, x1', x7') /\ \A q \in x8' : RequestOk(c, x1', q)
  BY DEF QueueInv, DialogOk, RequestOk, Onward
<1> QED BY <1>1, <1>2 DEF QueueInv

(* A server that does not move is no earlier than it was.                  *)
LEMMA OnwardSame == ASSUME NEW c, NEW s PROVE Onward(c, s, s)
BY DEF Onward

(* A decision: sent, answered, or refused.                                 *)
LEMMA QueueDecides ==
  ASSUME NEW c, Sized(c), QueueInv(c),
         \/ \E resolution : Queue(c)!resolve(resolution)
         \/ \E q \in x8 : Queue(c)!resolveAdminReport(q) \/ Queue(c)!onError(q)
  PROVE  QueueInv(c)'
<1>1. Served(c, x1) /\ Onward(c, x1, x1) /\ x2 \in Nat /\ \A q \in x8 : RequestOk(c, x1, q)
  BY OnwardSame DEF QueueInv
<1> USE DEF Queue!lists_vars
<1>2. ASSUME NEW resolution, Queue(c)!resolve(resolution)
      PROVE  QueueInv(c)'
  <2> DEFINE status == IF resolution = "DISMISSED" THEN "DISMISSED" ELSE "ACTIONED"
             new == [dialog |-> x7, state |-> "sent", status |-> status]
  <2>1. UNCHANGED <<x1, x2, x3, x4, x6, x7>> /\ x8' \subseteq x8 \cup {new}
    BY <1>2 DEF Queue!resolve
  <2>2. x7 # NULL
    BY <1>2, StatusesAre DEF Queue!resolve, Queue!isOpen, Queue!report, Statuses
  <2>3. status \in {"ACTIONED", "DISMISSED"}
    OBVIOUS
  <2> HIDE DEF status
  <2>4. RequestOk(c, x1, new)
    BY <2>2, <2>3 DEF QueueInv, DialogOk, RequestOk
  <2> HIDE DEF new
  <2>5. \A q \in x8' : RequestOk(c, x1, q)
    BY <1>1, <2>1, <2>4
  <2> QED BY <1>1, <2>1, <2>5, QueueServer
<1>3. ASSUME NEW q \in x8, Queue(c)!onError(q)
      PROVE  QueueInv(c)'
  <2> DEFINE new == [q EXCEPT !.state = "failed"]
  <2>1. UNCHANGED <<x1, x2, x3, x4, x6, x7>> /\ x8' \subseteq x8 \cup {new}
    BY <1>3 DEF Queue!onError
  <2>2. RequestOk(c, x1, new)
    BY <1>1, RequestPut
  <2> HIDE DEF new
  <2>3. \A r \in x8' : RequestOk(c, x1, r)
    BY <1>1, <2>1, <2>2
  <2> QED BY <1>1, <2>1, <2>3, QueueServer
<1>4. ASSUME NEW q \in x8, Queue(c)!resolveAdminReport(q)
      PROVE  QueueInv(c)'
  <2> DEFINE r == q.dialog.report
             ok == x1[r] = "PENDING"
             state == IF ok THEN "applied" ELSE "refused"
             new == [q EXCEPT !.state = state]
  <2>1. /\ UNCHANGED <<x2, x3, x4, x6, x7>> /\ x8' \subseteq x8 \cup {new}
        /\ x1' = IF ok THEN [x1 EXCEPT ![r] = q.status] ELSE x1
    BY <1>4 DEF Queue!resolveAdminReport
  <2>2. r \in 1..c.size /\ q.status \in {"ACTIONED", "DISMISSED"} /\ RequestOk(c, x1, q)
    BY <1>1 DEF RequestOk
  <2>3. Served(c, x1') /\ Onward(c, x1, x1')
    <3>1. CASE ok
      <4>1. /\ x1' \in [1..c.size -> Statuses \cup {NULL}]
            /\ \A u \in 1..c.size : x1'[u] = IF u = r THEN q.status ELSE x1[u]
        BY <1>1, <2>1, <2>2, <3>1, StatusesAre DEF Served, Statuses
      <4>2. q.status # NULL /\ q.status # "PENDING" /\ x1[r] # NULL
        BY <2>2, <3>1, StatusesAre DEF Statuses
      <4> QED BY <1>1, <2>2, <4>1, <4>2, StatusesAre DEF Served, Onward
    <3>2. CASE ~ok
      BY <1>1, <2>1, <3>2
    <3> QED BY <3>1, <3>2
  <2> HIDE DEF state
  <2>4. RequestOk(c, x1, new)
    BY <2>2, RequestPut
  <2> HIDE DEF new
  <2>5. \A p \in x8' : RequestOk(c, x1, p)
    BY <1>1, <2>1, <2>4
  <2> QED BY <1>1, <2>1, <2>3, <2>5, QueueServer
<1> QED BY <1>2, <1>3, <1>4

(* A decision is told of: everything is read again.                        *)
LEMMA QueueResolved ==
  ASSUME NEW c, Sized(c), QueueInv(c), NEW q \in x8, Queue(c)!onResolved(q)
  PROVE  QueueInv(c)'
<1>1. /\ UNCHANGED <<x1, x2, x3>> /\ x7' = NULL /\ x8' = x8 \ {q}
      /\ x4' = [t \in c.tabs |-> Queue(c)!InvalidateList(x4[t], t = x3)]
      /\ x6' = [r \in 1..c.size |-> Queue(c)!InvalidateDetail(x6[r], x7 # NULL /\ x7.report = r)]
  BY DEF Queue!onResolved, Queue!invalidateQueries
<1>2. ListsOk(c, x1', x4')
  <2> SUFFICES ASSUME NEW t \in c.tabs PROVE Listed(c, x1, t, x4'[t])
    BY <1>1 DEF ListsOk
  <2>1. Listed(c, x1, t, x4[t])
    BY DEF QueueInv, ListsOk
  <2>2. \/ x4'[t] = Queue(c)!Restart(x4[t])
        \/ x4'[t] = [x4[t] EXCEPT !.invalidated = TRUE]
    BY <1>1 DEF Queue!InvalidateList
  <2> QED BY <2>1, <2>2, ListRestart, ListInvalidated
<1>3. x6' \in [1..c.size -> Detail]
  <2> SUFFICES ASSUME NEW r \in 1..c.size PROVE x6'[r] \in Detail
    BY <1>1
  <2>1. x6[r] \in Detail
    BY DEF QueueInv
  <2>2. \/ x6'[r] = Queue(c)!Ask(x6[r])
        \/ x6'[r] = [x6[r] EXCEPT !.invalidated = TRUE]
    BY <1>1 DEF Queue!InvalidateDetail
  <2>3. [x6[r] EXCEPT !.invalidated = TRUE] \in Detail
    BY <2>1 DEF Detail
  <2> QED BY <2>1, <2>2, <2>3, DetailAsked
<1> QED BY <1>1, <1>2, <1>3 DEF QueueInv, DialogOk

(* Others decide, a report is made, the clock runs.                        *)
LEMMA QueueOthers ==
  ASSUME NEW c, Sized(c), QueueInv(c), Queue(c)!Others
  PROVE  QueueInv(c)'
<1>1. /\ Served(c, x1) /\ Onward(c, x1, x1) /\ x2 \in Nat /\ \A q \in x8 : RequestOk(c, x1, q)
      /\ UNCHANGED <<x3, x4, x6, x7, x8>> /\ c.size \in Nat
  BY OnwardSame DEF QueueInv, Queue!Others, Queue!lists_vars, Queue!dialog_vars, Sized
<1>2. ASSUME NEW r \in Queue(c)!Of("PENDING"), NEW s \in {"ACTIONED", "DISMISSED"},
             x1' = [x1 EXCEPT ![r] = s], UNCHANGED x2
      PROVE  QueueInv(c)'
  <2>1. r \in 1..c.size /\ x1[r] = "PENDING"
    BY DEF Queue!Of
  <2>2. /\ x1' \in [1..c.size -> Statuses \cup {NULL}]
        /\ \A u \in 1..c.size : x1'[u] = IF u = r THEN s ELSE x1[u]
    BY <1>1, <1>2, <2>1, StatusesAre DEF Served, Statuses
  <2>3. s # NULL /\ s # "PENDING" /\ x1[r] # NULL
    BY <2>1, StatusesAre DEF Statuses
  <2>4. Served(c, x1') /\ Onward(c, x1, x1')
    BY <1>1, <2>1, <2>2, <2>3, StatusesAre DEF Served, Onward
  <2> QED BY <1>1, <1>2, <2>4, QueueServer
<1>3. ASSUME NEW r \in Queue(c)!Of(NULL), \A q \in Queue(c)!Of(NULL) : r <= q,
             x1' = [x1 EXCEPT ![r] = "PENDING"], UNCHANGED x2
      PROVE  QueueInv(c)'
  <2>1. r \in 1..c.size /\ x1[r] = NULL
    BY DEF Queue!Of
  <2>2. /\ x1' \in [1..c.size -> Statuses \cup {NULL}]
        /\ \A u \in 1..c.size : x1'[u] = IF u = r THEN "PENDING" ELSE x1[u]
    BY <1>1, <1>3, <2>1, StatusesAre DEF Served, Statuses
  <2>3. "PENDING" # NULL
    BY StatusesAre DEF Statuses
  <2>4. \A u \in 1..c.size : x1[u] = NULL => r <= u
    BY <1>3 DEF Queue!Of
  <2>5. ASSUME NEW u \in 1..c.size, NEW v \in 1..c.size, u < v, x1'[u] = NULL
        PROVE  x1'[v] = NULL
    <3>1. u # r /\ x1[u] = NULL
      BY <2>2, <2>3, <2>5
    <3>2. r <= u /\ x1[v] = NULL
      BY <1>1, <2>4, <2>5, <3>1 DEF Served
    <3>3. v # r
      BY <1>1, <2>1, <2>5, <3>2
    <3> QED BY <2>2, <3>2, <3>3
  <2>6. Served(c, x1')
    BY <2>2, <2>5, StatusesAre DEF Served
  <2>7. Onward(c, x1, x1')
    BY <2>1, <2>2, <2>3 DEF Onward
  <2> QED BY <1>1, <1>3, <2>6, <2>7, QueueServer
<1>4. ASSUME NEW r \in 1..c.size, x2' = r, UNCHANGED x1
      PROVE  QueueInv(c)'
  <2>1. x2' \in Nat /\ Served(c, x1') /\ Onward(c, x1, x1')
    BY <1>1, <1>4
  <2> QED BY <1>1, <2>1, QueueServer
<1> QED BY <1>2, <1>3, <1>4 DEF Queue!Others

(* A step of the queue keeps its invariant.                                *)
LEMMA QueueStep ==
  ASSUME NEW c, Sized(c), QueueInv(c), Queue(c)!Next
  PROVE  QueueInv(c)'
<1>1. CASE Queue(c)!Poll \/ Queue(c)!SummaryRead \/ Queue(c)!SummaryAnswered \/ Queue(c)!SummaryFails
  <2>1. UNCHANGED <<x1, x2, x3, x4, x6, x7, x8>>
    BY <1>1 DEF Queue!Poll, Queue!SummaryRead, Queue!SummaryAnswered, Queue!SummaryFails,
                Queue!lists_vars, Queue!dialog_vars
  <2> QED BY <2>1 DEF QueueInv
<1>2. ASSUME NEW t \in c.tabs,
             \/ Queue(c)!setStatus(t) \/ Queue(c)!PageRead(t)
             \/ Queue(c)!ListAnswered(t) \/ Queue(c)!ListFails(t)
      PROVE  QueueInv(c)'
  BY <1>2, QueueReads
<1>3. CASE Queue(c)!loadNextReportPage \/ Queue(c)!refetch
  BY <1>3, QueueAsks
<1>4. CASE \/ Queue(c)!onClose
           \/ \E r \in 1..c.size : \/ Queue(c)!openDialog(r) \/ Queue(c)!DetailRead(r)
                                   \/ Queue(c)!DetailAnswered(r) \/ Queue(c)!DetailFails(r)
  BY <1>4, QueueDialog
<1>5. CASE \/ \E resolution : Queue(c)!resolve(resolution)
           \/ \E q \in x8 : Queue(c)!resolveAdminReport(q) \/ Queue(c)!onError(q)
  BY <1>5, QueueDecides
<1>6. ASSUME NEW q \in x8, Queue(c)!onResolved(q)
      PROVE  QueueInv(c)'
  BY <1>6, QueueResolved
<1>7. CASE Queue(c)!Others
  BY <1>7, QueueOthers
<1> QED BY <1>1, <1>2, <1>3, <1>4, <1>5, <1>6, <1>7 DEF Queue!Next

-----------------------------------------------------------------------------
(* The party: its versions order its statuses, so what is known of the     *)
(* party, by the page or by a move under way, is of the past or as it is.  *)

PartyFlags ==
  /\ x2 \in BOOLEAN /\ x3 \in BOOLEAN /\ x11 \in BOOLEAN
  /\ x7 \in BOOLEAN /\ x8 \in BOOLEAN /\ x13 \in BOOLEAN
  /\ x5 \in {NULL, "asked", "read"} /\ x10 \in {NULL, "asked"}

PartyFigures(c) ==
  /\ c.version \in Nat /\ x16 \in Nat /\ (x3 => x16 >= 1)
  /\ x1 \in PartyPage(c)!Party /\ x6 \in PartyPage(c)!Party \cup {NULL}
  /\ x4 \in PartyPage(c)!Party \cup {NULL}
  /\ x9 \in 0..c.version \cup {NULL} /\ x14 \in 0..c.version
  /\ x15 \in 0..c.version

PartyRun(c) ==
  [visit : 1..x16, to : PartyPage(c)!Statuses, seen : PartyPage(c)!Statuses,
   version : 0..c.version, reason : BOOLEAN,
   phase : {"post", "get", "settle"}, panel : BOOLEAN]

PartyRuns(c) ==
  \A m \in x12 : /\ m \in PartyRun(c) /\ m.to \in PartyPage(c)!Allowed(m.seen)
                 /\ m.to = "CANCELLED" => m.reason

Version(v, status) == v <= x1.version /\ (v = x1.version => status = x1.status)

PartyKnown ==
  /\ x4 # NULL => Version(x4.version, x4.status)
  /\ x6 # NULL => Version(x6.version, x6.status)
  /\ \A m \in x12 : Version(m.version, m.seen)
  /\ ~x13

PartyInv(c) ==
  PartyFlags /\ PartyFigures(c) /\ PartyRuns(c) /\ PartyKnown

(* What the invariant says of a party as it is shown.                      *)
LEMMA PartyHolds ==
  ASSUME NEW c, PartyInv(c)
  PROVE  PartyPage(c)!TypeOK /\ PartyPage(c)!NoBlindMove
<1>1. \A m \in x12 : /\ m.visit \in 1..x16 /\ m.to \in PartyPage(c)!Allowed(m.seen)
                     /\ m.phase \in {"post", "get", "settle"} /\ m.panel \in BOOLEAN
                     /\ m.to = "CANCELLED" => m.reason
  BY DEF PartyInv, PartyRuns, PartyRun
<1> QED
  BY <1>1 DEF PartyInv, PartyFlags, PartyFigures, PartyKnown, PartyPage!TypeOK,
     PartyPage!NoBlindMove

(* The page of a party as it is opened.                                    *)
LEMMA PartyInit ==
  ASSUME NEW c, c.version \in Nat, PartyPage(c)!Init
  PROVE  PartyInv(c)
<1> USE DEF PartyPage!Init
<1>1. PartyFlags
  BY DEF PartyFlags
<1>2. PartyFigures(c)
  BY DEF PartyFigures, PartyPage!Party, PartyPage!Statuses
<1>3. PartyRuns(c) /\ PartyKnown
  BY DEF PartyRuns, PartyKnown
<1> QED BY <1>1, <1>2, <1>3 DEF PartyInv

(* The actions of the page.  *)
LEMMA PartyFlagsStep ==
  ASSUME NEW c, PartyFlags, PartyPage(c)!Next
  PROVE  PartyFlags'
<1> USE DEF PartyFlags, PartyPage!detailVars, PartyPage!historyVars,
            PartyPage!ghosts, PartyPage!Fail, PartyPage!Invalidate
<1>1. CASE PartyPage(c)!Enter \/ PartyPage(c)!Leave \/ PartyPage(c)!TypeReason
  BY <1>1 DEF PartyPage!Enter, PartyPage!Leave, PartyPage!TypeReason
<1>2. CASE \E to \in PartyPage(c)!Statuses : PartyPage(c)!Start(to)
  BY <1>2 DEF PartyPage!Start
<1>3. CASE \/ PartyPage(c)!DetailReads \/ PartyPage(c)!DetailAnswered
           \/ PartyPage(c)!DetailFails \/ PartyPage(c)!HistoryAnswered
           \/ PartyPage(c)!MovesElsewhere
  BY <1>3 DEF PartyPage!DetailReads, PartyPage!DetailAnswered,
     PartyPage!DetailFails, PartyPage!HistoryAnswered,
     PartyPage!MovesElsewhere
<1>4. ASSUME NEW m \in x12,
             \/ PartyPage(c)!Post(m) \/ PartyPage(c)!PostFails(m)
             \/ PartyPage(c)!Get(m) \/ PartyPage(c)!GetFails(m)
             \/ PartyPage(c)!Settle(m)
      PROVE  PartyFlags'
  BY <1>4 DEF PartyPage!Post, PartyPage!PostFails, PartyPage!Get,
     PartyPage!GetFails, PartyPage!Settle
<1> QED
  BY <1>1, <1>2, <1>3, <1>4 DEF PartyPage!Next, PartyPage!Moves

(* The figures of the party, action by action.                             *)
LEMMA PartyFiguresStep ==
  ASSUME NEW c, PartyFigures(c), PartyRuns(c), PartyPage(c)!Next
  PROVE  PartyFigures(c)'
<1> USE DEF PartyFigures, PartyPage!detailVars, PartyPage!historyVars,
            PartyPage!ghosts, PartyPage!bounds, PartyPage!Fail,
            PartyPage!Invalidate, PartyPage!Owes, PartyPage!Moved,
            PartyPage!Party, PartyPage!Allowed, PartyPage!Statuses
<1>1. CASE PartyPage(c)!Enter \/ PartyPage(c)!Leave \/ PartyPage(c)!TypeReason
  BY <1>1 DEF PartyPage!Enter, PartyPage!Leave, PartyPage!TypeReason
<1>2. CASE \E to \in PartyPage(c)!Statuses : PartyPage(c)!Start(to)
  BY <1>2 DEF PartyPage!Start
<1>3. CASE \/ PartyPage(c)!DetailReads \/ PartyPage(c)!DetailAnswered
           \/ PartyPage(c)!DetailFails \/ PartyPage(c)!HistoryAnswered
           \/ PartyPage(c)!MovesElsewhere
  BY <1>3 DEF PartyPage!DetailReads, PartyPage!DetailAnswered,
     PartyPage!DetailFails, PartyPage!HistoryAnswered,
     PartyPage!MovesElsewhere
<1>4. ASSUME NEW m \in x12, PartyPage(c)!Post(m)
      PROVE  PartyFigures(c)'
  <2>1. /\ x1' \in PartyPage(c)!Party /\ x14' \in 0..c.version
        /\ x6' \in {x6, NULL}
        /\ UNCHANGED <<x3, x4, x9, x15, x16>>
    BY <1>4 DEF PartyPage!Post
  <2> QED BY <2>1
<1>5. ASSUME NEW m \in x12, PartyPage(c)!PostFails(m)
      PROVE  PartyFigures(c)'
  <2>1. /\ x6' \in {x6, NULL} /\ x14' \in {x14, x1.version}
        /\ UNCHANGED <<x1, x3, x4, x9, x15, x16>>
    BY <1>5 DEF PartyPage!PostFails
  <2> QED BY <2>1
<1>6. ASSUME NEW m \in x12, PartyPage(c)!Get(m)
      PROVE  PartyFigures(c)'
  <2>1. /\ x6' \in {x6, NULL} /\ x15' \in {x15, x1.version} /\ x4' = x1
        /\ UNCHANGED <<x1, x3, x9, x14, x16>>
    BY <1>6 DEF PartyPage!Get
  <2> QED BY <2>1
<1>7. ASSUME NEW m \in x12, PartyPage(c)!GetFails(m) \/ PartyPage(c)!Settle(m)
      PROVE  PartyFigures(c)'
  <2>1. x6' \in {x6, NULL} /\ UNCHANGED <<x1, x3, x4, x9, x14, x15, x16>>
    BY <1>7 DEF PartyPage!GetFails, PartyPage!Settle
  <2> QED BY <2>1
<1> QED
  BY <1>1, <1>2, <1>3, <1>4, <1>5, <1>6, <1>7 DEF PartyPage!Next, PartyPage!Moves

(* A move keeps all but its phase.                                         *)
LEMMA PartyRunsStep ==
  ASSUME NEW c, PartyInv(c), PartyPage(c)!Next
  PROVE  PartyRuns(c)'
<1> USE DEF PartyInv, PartyFigures, PartyRuns, PartyRun, PartyPage!Party,
            PartyPage!Statuses
<1> SUFFICES ASSUME NEW m \in x12'
             PROVE  /\ m \in PartyRun(c)' /\ m.to \in PartyPage(c)!Allowed(m.seen)
                    /\ m.to = "CANCELLED" => m.reason
  OBVIOUS
<1>1. x16 \in Nat /\ x16' \in {x16, x16 + 1}
  BY DEF PartyPage!Next, PartyPage!Enter, PartyPage!Leave, PartyPage!TypeReason,
     PartyPage!Start, PartyPage!DetailReads, PartyPage!DetailAnswered,
     PartyPage!DetailFails, PartyPage!HistoryAnswered, PartyPage!MovesElsewhere,
     PartyPage!Moves, PartyPage!Post, PartyPage!PostFails, PartyPage!Get,
     PartyPage!GetFails, PartyPage!Settle, PartyPage!bounds, PartyPage!ghosts
<1>2. CASE m \in x12
  BY <1>1, <1>2
<1>3. ASSUME NEW to \in PartyPage(c)!Statuses, PartyPage(c)!Start(to),
             m \notin x12
      PROVE  /\ m \in PartyRun(c)' /\ m.to \in PartyPage(c)!Allowed(m.seen)
             /\ m.to = "CANCELLED" => m.reason
  <2>1. /\ m = [visit |-> x16, to |-> to, seen |-> x4.status,
                version |-> x4.version, reason |-> x11, phase |-> "post",
                panel |-> TRUE]
        /\ x4 \in PartyPage(c)!Party /\ x16 \in 1..x16 /\ x11 \in BOOLEAN
    BY <1>3 DEF PartyPage!Start, PartyPage!Panel, PartyPage!expectedVersion,
       PartyFlags
  <2>2. m \in PartyRun(c)'
    BY <1>1, <2>1
  <2>3. m.to = to /\ m.seen = x4.status /\ m.reason = x11
    BY <2>1
  <2>4. to \in PartyPage(c)!Allowed(x4.status) /\ (to = "CANCELLED" => x11)
    BY <1>3 DEF PartyPage!Start
  <2> QED BY <2>2, <2>3, <2>4, Zenon
<1>4. ASSUME NEW r \in x12, NEW phase \in {"post", "get", "settle"},
             PartyPage(c)!Enters(r, phase), m \notin x12
      PROVE  /\ m \in PartyRun(c)' /\ m.to \in PartyPage(c)!Allowed(m.seen)
             /\ m.to = "CANCELLED" => m.reason
  BY <1>1, <1>4 DEF PartyPage!Enters
<1>5. ASSUME NEW r \in x12,
             \/ PartyPage(c)!Post(r) \/ PartyPage(c)!PostFails(r)
             \/ PartyPage(c)!Get(r) \/ PartyPage(c)!GetFails(r)
      PROVE  PartyPage(c)!Enters(r, "get") \/ PartyPage(c)!Enters(r, "settle")
  BY <1>5 DEF PartyPage!Post, PartyPage!PostFails, PartyPage!Get,
     PartyPage!GetFails, PartyPage!Fail
<1>6. ASSUME ~\E to \in PartyPage(c)!Statuses : PartyPage(c)!Start(to),
             ~PartyPage(c)!DetailFails,
             ~\E r \in x12 : PartyPage(c)!Enters(r, "get") \/ PartyPage(c)!Enters(r, "settle")
      PROVE  m \in x12
  BY <1>5, <1>6 DEF PartyPage!Next, PartyPage!Moves, PartyPage!Enter,
     PartyPage!Leave, PartyPage!TypeReason, PartyPage!DetailReads,
     PartyPage!DetailAnswered, PartyPage!HistoryAnswered,
     PartyPage!MovesElsewhere, PartyPage!Settle
<1>7. ASSUME PartyPage(c)!DetailFails
      PROVE  /\ m \in PartyRun(c)' /\ m.to \in PartyPage(c)!Allowed(m.seen)
             /\ m.to = "CANCELLED" => m.reason
  <2>1. PICK r \in x12 : m = [r EXCEPT !.panel = FALSE]
    BY <1>7 DEF PartyPage!DetailFails
  <2>2. r \in PartyRun(c)
    OBVIOUS
  <2>3. m \in PartyRun(c)'
    <3>1. m.visit = r.visit /\ r.visit \in 1..x16 /\ 1..x16 \subseteq 1..x16'
      BY <1>1, <2>1, <2>2
    <3>2. m = [visit |-> r.visit, to |-> r.to, seen |-> r.seen, version |-> r.version,
               reason |-> r.reason, phase |-> r.phase, panel |-> FALSE]
      BY <2>1, <2>2
    <3> QED BY <2>2, <3>1, <3>2
  <2>4. m.to = r.to /\ m.seen = r.seen /\ m.reason = r.reason
    BY <2>1, <2>2
  <2>5. r.to \in PartyPage(c)!Allowed(r.seen) /\ (r.to = "CANCELLED" => r.reason)
    OBVIOUS
  <2> QED BY <2>3, <2>4, <2>5, Zenon
<1> QED
  BY <1>2, <1>3, <1>4, <1>6, <1>7

(* A version that comes after all is that of a status nothing knew.        *)
LEMMA PartyKnownStep ==
  ASSUME NEW c, PartyInv(c), PartyPage(c)!Next
  PROVE  PartyKnown'
<1> USE DEF PartyInv, PartyFigures, PartyKnown, Version, PartyPage!Party,
            PartyPage!Statuses
<1>0. \A m \in x12 : m.version \in Int
  BY DEF PartyRuns, PartyRun
<1> HIDE DEF PartyPage!Statuses
<1>1. CASE PartyPage(c)!Enter \/ PartyPage(c)!Leave \/ PartyPage(c)!TypeReason
  BY <1>1 DEF PartyPage!Enter, PartyPage!Leave, PartyPage!TypeReason,
     PartyPage!detailVars, PartyPage!ghosts
<1>2. ASSUME NEW to \in PartyPage(c)!Statuses, PartyPage(c)!Start(to)
      PROVE  PartyKnown'
  BY <1>2 DEF PartyPage!Start, PartyPage!Panel, PartyPage!expectedVersion,
     PartyPage!detailVars, PartyPage!ghosts
<1>3. CASE \/ PartyPage(c)!DetailReads \/ PartyPage(c)!DetailAnswered
           \/ PartyPage(c)!HistoryAnswered
  BY <1>3 DEF PartyPage!DetailReads, PartyPage!DetailAnswered,
     PartyPage!HistoryAnswered, PartyPage!ghosts, PartyPage!detailVars
<1>4. CASE PartyPage(c)!MovesElsewhere
  BY <1>0, <1>4 DEF PartyPage!MovesElsewhere, PartyPage!Moved,
     PartyPage!ghosts, PartyPage!detailVars
<1>5. ASSUME NEW m \in x12, PartyPage(c)!Post(m)
      PROVE  PartyKnown'
  <2>1. /\ x1'.version = x1.version + 1 /\ x4' = x4 /\ x6' \in {x6, NULL}
        /\ m.version = x1.version
        /\ \A r \in x12' : \E o \in x12 : r.version = o.version /\ r.seen = o.seen
    BY <1>5 DEF PartyPage!Post, PartyPage!Moved, PartyPage!Fail, PartyPage!Enters,
       PartyPage!Invalidate, PartyRuns, PartyRun
  <2>2. ~x13'
    BY <1>5, <2>1 DEF PartyPage!Post
  <2> QED BY <1>0, <2>1, <2>2
<1>6. ASSUME NEW m \in x12,
             \/ PartyPage(c)!PostFails(m) \/ PartyPage(c)!Get(m)
             \/ PartyPage(c)!GetFails(m) \/ PartyPage(c)!Settle(m)
      PROVE  PartyKnown'
  <2>1. /\ x1' = x1 /\ x4' \in {x4, x1} /\ x6' \in {x6, NULL} /\ x13' = x13
        /\ \A r \in x12' : \E o \in x12 : r.version = o.version /\ r.seen = o.seen
    BY <1>6 DEF PartyPage!PostFails, PartyPage!Get, PartyPage!GetFails,
       PartyPage!Settle, PartyPage!Fail, PartyPage!Enters, PartyPage!ghosts,
       PartyPage!Invalidate, PartyRuns, PartyRun, PartyPage!detailVars
  <2> QED BY <1>0, <2>1
<1>7. CASE PartyPage(c)!DetailFails
  <2>1. UNCHANGED <<x1, x4, x13>> /\ x6' = NULL
    BY <1>7 DEF PartyPage!DetailFails, PartyPage!ghosts
  <2>2. ASSUME NEW m \in x12'
        PROVE  \E o \in x12 : m.version = o.version /\ m.seen = o.seen
    <3>1. PICK o \in x12 : m = [o EXCEPT !.panel = FALSE]
      BY <1>7 DEF PartyPage!DetailFails
    <3>2. o \in PartyRun(c)
      BY DEF PartyRuns
    <3> QED BY <3>1, <3>2 DEF PartyRun
  <2> QED BY <1>0, <2>1, <2>2
<1> QED
  BY <1>1, <1>2, <1>3, <1>4, <1>5, <1>6, <1>7 DEF PartyPage!Next, PartyPage!Moves

(* A step of the page of a party keeps its invariant.                      *)
LEMMA PartyStep ==
  ASSUME NEW c, PartyInv(c), PartyPage(c)!Next
  PROVE  PartyInv(c)'
BY PartyFlagsStep, PartyFiguresStep, PartyRunsStep, PartyKnownStep DEF PartyInv

-----------------------------------------------------------------------------
(* The own action is seen: a user. What has been read since is from after  *)
(* it, and a read under way is given up when it is told.                   *)

UserOwn ==
  /\ x6 <= x1.change
  /\ x2.read # NULL => x2.read.change >= x6
  /\ User!OwnActionIsSeen

(* A user as the screen is opened: nothing has been done yet.              *)
LEMMA UserOwnInit ==
  ASSUME User!Init
  PROVE  UserOwn
BY DEF User!Init, UserOwn, User!OwnActionIsSeen, User!detailSuccess

(* What is read after an action is from after it, and what was under way   *)
(* is given up.                                                            *)
LEMMA UserOwnStep ==
  ASSUME UserInv, UserOwn, User!Next
  PROVE  UserOwn'
<1>0. /\ x1 \in [status : User!Status, change : 0..MaxChanges, inlines : BOOLEAN, summary : BOOLEAN]
      /\ x2 \in [data : User!Data \cup {NULL}, error : {NULL, "404", "403", "other"},
                 fetching : {"no", "asked", "read"}, read : User!Data \cup {NULL}]
      /\ (x2.read # NULL) = (x2.fetching = "read") /\ x6 \in 0..MaxChanges
  BY DEF UserInv, User!TypeOK
<1>a. /\ x6 <= x1.change
      /\ x2.read # NULL => x2.read.change >= x6
      /\ (x2.data # NULL /\ x2.error = NULL /\ x2.fetching = "no") => x2.data.change >= x6
  BY DEF UserOwn, User!OwnActionIsSeen, User!detailSuccess
<1> DEFINE Own == /\ x6' <= x1'.change
                  /\ x2'.read # NULL => x2'.read.change >= x6'
                  /\ (x2'.data # NULL /\ x2'.error = NULL /\ x2'.fetching = "no")
                       => x2'.data.change >= x6'
<1>b. SUFFICES Own
  BY DEF UserOwn, User!OwnActionIsSeen, User!detailSuccess
<1>1. CASE User!DetailRead
  BY <1>0, <1>a, <1>1 DEF User!DetailRead
<1>2. CASE User!DetailAnswered
  BY <1>0, <1>a, <1>2, NullAssumption DEF User!DetailAnswered
<1>3. CASE User!DetailFails
  BY <1>0, <1>a, <1>3, NullAssumption DEF User!DetailFails
<1>4. CASE User!refetch \/ User!Reopen
  BY <1>0, <1>a, <1>4 DEF User!refetch, User!Reopen
<1>5. CASE User!onSuccess
  <2>1. x1'.change = x1.change + 1 /\ x6' = x1'.change
    BY <1>0, <1>5 DEF User!onSuccess
  <2>2. x2'.read = NULL /\ x2'.fetching = "asked"
    BY <1>0, <1>5 DEF User!onSuccess, User!invalidate
  <2> QED BY <1>0, <2>1, <2>2
<1>6. CASE User!AccountChanges
  <2>1. x1'.change = x1.change + 1 /\ UNCHANGED <<x2, x6>>
    BY <1>0, <1>6 DEF User!AccountChanges
  <2> QED BY <1>0, <1>a, <2>1
<1>7. CASE UNCHANGED <<x1, x2, x6>>
  BY <1>a, <1>7
<1> QED
  BY <1>1, <1>2, <1>3, <1>4, <1>5, <1>6, <1>7 DEF User!Next, User!SummaryAnswered,
     User!SummaryFails, User!openAction, User!onClose, User!submitAction, User!onError

-----------------------------------------------------------------------------
(* A business: each query knows what was told of it no later than the      *)
(* server made it, and a detail that is from before is asked for again.    *)

(* What is kept of the detail: nothing from before the last action that    *)
(* was told, unless it is to be read again.                                *)
Fresh(d, runs, t) ==
  /\ d.fetch \in {NULL, "asked", "read"}
  /\ runs # {} => d.data # NULL
  /\ d.fetch = "read" => d.read # NULL /\ d.read.serial >= t
  /\ (d.fetch = NULL /\ d.data # NULL /\ ~d.error) => d.data.serial >= t

RunOwn(r, mount, now) ==
  /\ r = [key |-> r.key, mount |-> r.mount, state |-> r.state, serial |-> r.serial,
          id |-> r.id]
  /\ r.key \in DOMAIN Business!Outcome /\ r.mount \in 0..mount
  /\ r.state = "ok" => r.serial \in 0..now

(* One at a time in each page.                                             *)
OneEach(S) == \A r, s \in S : r.mount = s.mount => r = s

BusinessOwn ==
  /\ x1 \in Business!Overview /\ x5 \in Nat
  /\ x7 \in [Business!Queries -> 0..x1.serial]
  /\ \A r \in x4 : RunOwn(r, x5, x1.serial)
  /\ OneEach(x4)
  /\ \A m \in x6 : m.mount \in 0..x5 /\ (m.state = "ok" => m.overview # NULL)
  /\ OneEach(x6)
  /\ (x3 # NULL) = Business!consoleShown(x2) /\ x3 \in Business!Form \cup {NULL}
  /\ Fresh(x2["detail"], x4, x7["detail"])

(* At most one of a kind is at most one.                                   *)
LEMMA AtMostOne ==
  ASSUME NEW S, \A a, b \in S : a = b
  PROVE  Business!Cardinality(S) <= 1
<1>1. Business!Cardinality(S) = Cardinality(S)
  BY DEF Business!Cardinality, Cardinality
<1>2. CASE S = {}
  BY <1>1, <1>2, FS_EmptySet
<1>3. CASE S # {}
  <2>1. PICK a : S = {a}
    BY <1>3
  <2> QED BY <1>1, <2>1, FS_Singleton
<1> QED BY <1>2, <1>3

(* What the invariants say of a business that is at rest.                  *)
LEMMA BusinessHolds ==
  ASSUME BusinessInv, BusinessOwn
  PROVE  Business!TypeOK /\ Business!OwnActionIsSeen
<1>1. \A q \in Business!Queries : x2[q].data # NULL => x2[q].data.serial <= x1.serial
  BY DEF BusinessInv, KnownWell, Known
<1>2. \A q \in Business!Queries : x7[q] <= x1.serial
  BY DEF BusinessOwn
<1>3. Business!Cardinality({r \in x4 : r.mount = x5}) <= 1
  BY AtMostOne DEF BusinessOwn, OneEach
<1>4. Business!Cardinality({m \in x6 : m.mount = x5}) <= 1
  BY AtMostOne DEF BusinessOwn, OneEach
<1>5. Business!TypeOK
  BY <1>1, <1>2, <1>3, <1>4 DEF BusinessOwn, Business!TypeOK
<1>6. Business!OwnActionIsSeen
  BY DEF BusinessOwn, Fresh, Business!OwnActionIsSeen, Business!pageShown, Business!detail
<1> QED BY <1>5, <1>6

(* The page as it is opened.                                               *)
LEMMA BusinessOwnInit ==
  ASSUME Business!Init
  PROVE  BusinessOwn
<1> DEFINE p == x1.profile
<1>1. /\ x1 = [business |-> "ACTIVE", profile |-> p, serial |-> 1]
      /\ p = NULL \/ p = [status |-> "DRAFT", values |-> Business!emptyDraft, updatedAt |-> 1]
      /\ x4 = {} /\ x5 = 0 /\ x6 = {} /\ x7 = [q \in Business!Queries |-> 0]
  BY DEF Business!Init
<1>2. Business!emptyDraft \in [Business!Fields -> Values]
  BY ValuesAssumption DEF Business!emptyDraft
<1>3. x1 \in Business!Overview
  BY <1>1, <1>2 DEF Business!Overview
<1>4. /\ x2["detail"].fetch = "asked"
      /\ x2["commerce"].data \in {x1, NULL}
  BY DEF Business!Init, Business!Queries
<1>5. Fresh(x2["detail"], x4, x7["detail"])
  BY <1>1, <1>4, NullAssumption DEF Fresh
<1>8. /\ x7 \in [Business!Queries -> 0..x1.serial] /\ x5 \in Nat
      /\ OneEach(x4) /\ OneEach(x6)
      /\ \A r \in x4 : RunOwn(r, x5, x1.serial)
      /\ \A m \in x6 : m.mount \in 0..x5 /\ (m.state = "ok" => m.overview # NULL)
  BY <1>1 DEF OneEach
<1>6. CASE ~Business!consoleShown(x2)
  <2>1. x3 = NULL
    BY <1>6 DEF Business!Init
  <2> QED BY <1>3, <1>5, <1>6, <1>8, <2>1 DEF BusinessOwn, Business!consoleShown
<1>7. CASE Business!consoleShown(x2)
  <2>1. x3 = [key |-> Business!formKey(p), base |-> Business!draft(p), edits |-> <<>>]
    BY <1>7 DEF Business!Init
  <2>2. Business!formKey(p) \in Nat /\ Business!draft(p) \in [Business!Fields -> Values]
    BY <1>1, <1>2 DEF Business!formKey, Business!draft
  <2>3. <<>> \in UNION {[D -> Values] : D \in SUBSET Business!Fields}
    <3>1. <<>> \in [{} -> Values] /\ {} \in SUBSET Business!Fields
      OBVIOUS
    <3> QED BY <3>1
  <2>4. x3 \in Business!Form
    BY <2>1, <2>2, <2>3 DEF Business!Form
  <2>5. x3 # NULL
    BY <2>4, NullAssumption
  <2> QED BY <1>3, <1>5, <1>7, <1>8, <2>4, <2>5 DEF BusinessOwn
<1> QED BY <1>6, <1>7

(* What is rendered of the detail, of the console and of the form.         *)
LEMMA RenderedAs ==
  ASSUME NEW new, EntireAll(new), Business!Render(new), x5 \in Nat
  PROVE  /\ x2'["detail"] = new["detail"]
         /\ Business!consoleShown(x2') = Business!consoleShown(new)
         /\ x5' \in Nat /\ x5' >= x5
<1>1. x2' = new \/ x2' = [new EXCEPT !["commerce"] = Business!Ask(@)]
  BY DEF Business!Render
<1>2. CASE x2' = new
  BY <1>2 DEF Business!Render
<1>3. CASE x2' = [new EXCEPT !["commerce"] = Business!Ask(@)]
  <2> DEFINE c == new["commerce"]
             a == Business!Ask(c)
  <2>1. a = [data |-> c.data, fetch |-> "asked", read |-> NULL,
             error |-> c.error /\ c.data # NULL, invalidated |-> c.invalidated]
    BY AskedFor DEF EntireAll, Business!Queries
  <2>2. a.data = c.data /\ a.error = (c.error /\ c.data # NULL)
    BY <2>1
  <2> HIDE DEF a
  <2>3. x2'["detail"] = new["detail"] /\ x2'["commerce"] = a
    BY <1>3 DEF EntireAll, Business!Queries, a
  <2>4. x5' \in {x5, x5 + 1}
    BY DEF Business!Render
  <2>5. Business!consoleShown(x2') = Business!consoleShown(new)
    BY <2>2, <2>3 DEF Business!consoleShown, Business!pageShown
  <2> QED BY <2>3, <2>4, <2>5
<1> QED BY <1>1, <1>2, <1>3

(* A form is on screen when the console is.                                *)
LEMMA FormShown ==
  ASSUME BusinessInv, BusinessOwn, NEW new, EntireAll(new), Business!Render(new),
         new["commerce"].data \in Known \cup {NULL}
  PROVE  (x3' # NULL) = Business!consoleShown(x2') /\ x3' \in Business!Form \cup {NULL}
<1> DEFINE p == new["commerce"].data.profile
<1>1. Business!consoleShown(x2') = Business!consoleShown(new)
  BY RenderedAs DEF BusinessOwn
<1>2. CASE ~Business!consoleShown(new)
  BY <1>1, <1>2 DEF Business!Render, Business!consoleShown
<1>3. CASE Business!consoleShown(new) /\ x3' = x3 /\ x3 # NULL
  BY <1>1, <1>3 DEF BusinessOwn
<1>4. CASE /\ Business!consoleShown(new)
           /\ x3' = [key |-> Business!formKey(p), base |-> Business!draft(p), edits |-> <<>>]
  <2>1. new["commerce"].data \in Known
    BY <1>4 DEF Business!consoleShown
  <2>2. Had(p, x1.serial) /\ x1.serial \in Nat
    BY <2>1 DEF BusinessInv, KnownWell
  <2>3. Business!formKey(p) \in Nat
    BY <2>2 DEF Business!formKey, Had
  <2>4. Business!draft(p) \in [Business!Fields -> Values]
    BY <2>2, DraftTyped DEF Drafts
  <2>5. <<>> \in UNION {[D -> Values] : D \in SUBSET Business!Fields}
    <3>1. <<>> \in [{} -> Values] /\ {} \in SUBSET Business!Fields
      OBVIOUS
    <3> QED BY <3>1
  <2>6. x3' \in Business!Form
    BY <1>4, <2>3, <2>4, <2>5 DEF Business!Form
  <2> QED BY <1>1, <1>4, <2>6, NullAssumption
<1> QED BY <1>2, <1>3, <1>4 DEF Business!Render

(* A step of the reads: what it does to the detail.                        *)
LEMMA ReadsOwn ==
  ASSUME BusinessInv, BusinessOwn, NEW q \in Business!Queries,
         Business!Read(q) \/ Business!Answered(q) \/ Business!Fails(q) \/ Business!refetch(q)
  PROVE  BusinessOwn'
<1>0. EntireAll(x2) /\ Entire(x2[q]) /\ x2 = [u \in Business!Queries |-> x2[u]]
      /\ UNCHANGED <<x1, x4, x6, x7>>
  BY DEF BusinessInv, EntireAll, Business!Read, Business!Answered, Business!Fails, Business!refetch
<1> DEFINE d == x2["detail"]
           t == x7["detail"]
<1>1. SUFFICES /\ x5' \in Nat /\ x5' >= x5
               /\ (x3' # NULL) = Business!consoleShown(x2') /\ x3' \in Business!Form \cup {NULL}
               /\ Fresh(x2'["detail"], x4, t)
  <2>1. \A r \in x4 : RunOwn(r, x5', x1.serial)
    BY <1>1 DEF BusinessOwn, RunOwn
  <2>2. \A m \in x6 : m.mount \in 0..x5'
    BY <1>1 DEF BusinessOwn
  <2> QED BY <1>0, <1>1, <2>1, <2>2 DEF BusinessOwn
<1>2. Fresh(d, x4, t) /\ x5 \in Nat /\ "detail" \in Business!Queries /\ "commerce" \in Business!Queries
  BY DEF BusinessOwn, Business!Queries
<1>3. t \in 0..x1.serial /\ x1.serial \in Nat /\ x1 # NULL
  BY <1>2, NullAssumption DEF BusinessOwn, Business!Overview
<1>4. CASE Business!Read(q)
  <2> DEFINE r == [x2[q] EXCEPT !.fetch = "read", !.read = x1]
  <2>1. x2' = [u \in Business!Queries |-> IF u = q THEN r ELSE x2[u]]
    BY <1>0, <1>4 DEF Business!Read
  <2>2. r = [data |-> x2[q].data, fetch |-> "read", read |-> x1, error |-> x2[q].error,
             invalidated |-> x2[q].invalidated]
    BY <1>0, ReadPut
  <2> HIDE DEF r
  <2>3. Business!consoleShown(x2') = Business!consoleShown(x2)
    BY <1>2, <2>1, <2>2 DEF Business!consoleShown, Business!pageShown
  <2>4. Fresh(x2'["detail"], x4, t)
    BY <1>2, <1>3, <2>1, <2>2, NullAssumption DEF Fresh
  <2>5. x3' = x3 /\ x5' = x5
    BY <1>4 DEF Business!Read
  <2> QED BY <1>2, <2>3, <2>4, <2>5 DEF BusinessOwn
<1>5. CASE Business!Answered(q)
  <2> DEFINE r == [data |-> x2[q].read, fetch |-> NULL, read |-> NULL,
                   error |-> FALSE, invalidated |-> FALSE]
             new == [u \in Business!Queries |-> IF u = q THEN r ELSE x2[u]]
  <2>1. new = [x2 EXCEPT ![q] = r]
    BY <1>0
  <2>2. Business!Render(new) /\ x2[q].fetch = "read"
    BY <1>5, <2>1 DEF Business!Answered
  <2>3. Entire(r) /\ r.data = x2[q].read /\ r.fetch = NULL
    BY DEF Entire
  <2> HIDE DEF r
  <2>4. EntireAll(new) /\ new[q] = r /\ \A u \in Business!Queries \ {q} : new[u] = x2[u]
    BY <1>0, <2>3, Replaced
  <2> HIDE DEF new
  <2>5. new["commerce"].data \in Known \cup {NULL}
    BY <1>2, <2>3, <2>4, KnownAre
  <2>6. Fresh(new["detail"], x4, t)
    BY <1>2, <2>2, <2>3, <2>4, NullAssumption DEF Fresh
  <2> QED BY <1>2, <2>2, <2>4, <2>5, <2>6, RenderedAs, FormShown
<1>6. CASE Business!Fails(q)
  <2> DEFINE r == [data |-> x2[q].data, fetch |-> NULL, read |-> NULL,
                   error |-> TRUE, invalidated |-> TRUE]
             new == [u \in Business!Queries |-> IF u = q THEN r ELSE x2[u]]
  <2>1. new = [x2 EXCEPT ![q] = r]
    BY <1>0
  <2>2. Business!Render(new)
    BY <1>6, <2>1 DEF Business!Fails
  <2>3. Entire(r) /\ r.data = x2[q].data /\ r.fetch = NULL /\ r.error
    BY DEF Entire
  <2> HIDE DEF r
  <2>4. EntireAll(new) /\ new[q] = r /\ \A u \in Business!Queries \ {q} : new[u] = x2[u]
    BY <1>0, <2>3, Replaced
  <2> HIDE DEF new
  <2>5. new["commerce"].data \in Known \cup {NULL}
    BY <1>2, <2>3, <2>4, KnownAre
  <2>6. Fresh(new["detail"], x4, t)
    BY <1>2, <2>3, <2>4, NullAssumption DEF Fresh
  <2> QED BY <1>2, <2>2, <2>4, <2>5, <2>6, RenderedAs, FormShown
<1>7. CASE Business!refetch(q)
  <2> DEFINE r == Business!Ask(x2[q])
  <2>1. x2' = [u \in Business!Queries |-> IF u = q THEN r ELSE x2[u]]
    BY <1>0, <1>7 DEF Business!refetch
  <2>2. r.data = x2[q].data /\ r.fetch = "asked" /\ r.error = (x2[q].error /\ x2[q].data # NULL)
    BY <1>0, AskedFor
  <2> HIDE DEF r
  <2>3. Business!consoleShown(x2') = Business!consoleShown(x2)
    BY <1>2, <2>1, <2>2 DEF Business!consoleShown, Business!pageShown
  <2>4. Fresh(x2'["detail"], x4, t)
    BY <1>2, <2>1, <2>2, NullAssumption DEF Fresh
  <2>5. x3' = x3 /\ x5' = x5
    BY <1>7 DEF Business!refetch
  <2> QED BY <1>2, <2>3, <2>4, <2>5 DEF BusinessOwn
<1> QED BY <1>4, <1>5, <1>6, <1>7

(* What stays as it is when the server moves on.                           *)
LEMMA Later ==
  ASSUME BusinessOwn, x1' \in Business!Overview, x1'.serial >= x1.serial
  PROVE  /\ x7 \in [Business!Queries -> 0..x1'.serial]
         /\ \A r \in x4 : RunOwn(r, x5, x1'.serial)
<1>1. x1.serial \in Nat /\ x1'.serial \in Nat
  BY DEF BusinessOwn, Business!Overview
<1> QED BY <1>1 DEF BusinessOwn, RunOwn

(* A run in the place of another of the same page.                         *)
LEMMA RunPut ==
  ASSUME BusinessOwn, NEW r \in x4, NEW n, NEW now, n.mount = r.mount, RunOwn(n, x5, now),
         \A s \in x4 : RunOwn(s, x5, now)
  PROVE  /\ OneEach((x4 \ {r}) \cup {n})
         /\ \A s \in (x4 \ {r}) \cup {n} : RunOwn(s, x5, now)
<1>1. OneEach(x4)
  BY DEF BusinessOwn
<1>2. OneEach((x4 \ {r}) \cup {n})
  BY <1>1 DEF OneEach
<1> QED BY <1>2

(* An action starts, is served, answered, ended or lost.                   *)
LEMMA LifecycleOwn ==
  ASSUME BusinessInv, BusinessOwn,
         \/ \E key \in DOMAIN Business!Outcome : Business!run(key)
         \/ \E r \in x4 : \/ Business!LifecycleServed(r) \/ Business!LifecycleDone(r)
                          \/ Business!Ended(r) \/ Business!LifecycleLost(r)
  PROVE  BusinessOwn'
<1> DEFINE d == x2["detail"]
           t == x7["detail"]
<1>0. /\ x1 \in Business!Overview /\ x5 \in Nat /\ Fresh(d, x4, t) /\ OneEach(x4)
      /\ \A r \in x4 : RunOwn(r, x5, x1.serial)
      /\ x7 \in [Business!Queries -> 0..x1.serial] /\ x1.serial \in Nat
  BY DEF BusinessOwn, Business!Overview
<1>1. ASSUME NEW key \in DOMAIN Business!Outcome, Business!run(key)
      PROVE  BusinessOwn'
  <2> DEFINE n == [key |-> key, mount |-> x5, state |-> "sent", serial |-> 0, id |-> x8]
  <2>1. x4' = x4 \cup {n} /\ UNCHANGED <<x1, x2, x3, x5, x6, x7>>
    BY <1>1 DEF Business!run
  <2>2. RunOwn(n, x5, x1.serial) /\ n.mount = x5
    BY <1>0 DEF RunOwn
  <2> HIDE DEF n
  <2>3. OneEach(x4') /\ \A r \in x4' : RunOwn(r, x5, x1.serial)
    <3>1. \A r \in x4 : r.mount # x5
      BY <1>1 DEF Business!run, Business!pending
    <3> QED BY <1>0, <2>1, <2>2, <3>1 DEF OneEach
  <2>4. d.data # NULL
    BY <1>1 DEF Business!run, Business!pageShown
  <2>5. Fresh(d, x4', t)
    BY <1>0, <2>4 DEF Fresh
  <2> QED BY <2>1, <2>3, <2>5 DEF BusinessOwn
<1>2. ASSUME NEW r \in x4, Business!LifecycleServed(r)
      PROVE  BusinessOwn'
  <2>1. r = [key |-> r.key, mount |-> r.mount, state |-> r.state, serial |-> r.serial, id |-> r.id]
        /\ r.key \in DOMAIN Business!Outcome /\ r.mount \in 0..x5 /\ UNCHANGED <<x2, x3, x5, x6, x7>>
    BY <1>0, <1>2 DEF RunOwn, Business!LifecycleServed
  <2>2. Fresh(d, {r}, t)
    BY <1>0 DEF Fresh
  <2>3. ASSUME NEW n, x4' = (x4 \ {r}) \cup {n}, n.mount = r.mount, RunOwn(n, x5, x1'.serial),
               x1' \in Business!Overview, x1'.serial >= x1.serial
        PROVE  BusinessOwn'
    <3>1. /\ x7 \in [Business!Queries -> 0..x1'.serial]
          /\ \A s \in x4 : RunOwn(s, x5, x1'.serial)
      BY <2>3, Later
    <3>2. OneEach(x4') /\ \A s \in x4' : RunOwn(s, x5, x1'.serial)
      BY <2>3, <3>1, RunPut
    <3>3. Fresh(d, x4', t)
      BY <2>2 DEF Fresh
    <3> QED BY <2>1, <2>3, <3>1, <3>2, <3>3 DEF BusinessOwn
  <2>4. CASE x1' = x1 /\ x4' = (x4 \ {r}) \cup {[r EXCEPT !.state = "refused"]}
    <3> DEFINE n == [r EXCEPT !.state = "refused"]
    <3>1. n = [key |-> r.key, mount |-> r.mount, state |-> "refused", serial |-> r.serial, id |-> r.id]
      BY <2>1
    <3>2. RunOwn(n, x5, x1.serial) /\ n.mount = r.mount
      BY <2>1, <3>1 DEF RunOwn
    <3>3. x4' = (x4 \ {r}) \cup {n} /\ x1' = x1 /\ x1'.serial >= x1.serial
      BY <1>0, <2>4
    <3> HIDE DEF n
    <3> QED BY <1>0, <2>3, <3>2, <3>3
  <2>5. CASE /\ x1' = [x1 EXCEPT !.business = Business!Outcome[r.key], !.serial = x1.serial + 1]
             /\ x4' = (x4 \ {r}) \cup {[r EXCEPT !.state = "ok", !.serial = x1.serial + 1]}
    <3> DEFINE o == Business!Outcome[r.key]
               s1 == [x1 EXCEPT !.business = o]
    <3>0. o \in {"ACTIVE", "DISABLED", "DELETED"}
      BY <2>1 DEF Business!Outcome
    <3> HIDE DEF o
    <3>1. s1 \in Business!Overview /\ s1.serial = x1.serial
      BY <1>0, <3>0 DEF Business!Overview
    <3>2. x1' = [s1 EXCEPT !.serial = x1.serial + 1]
      BY <2>5 DEF o
    <3> HIDE DEF s1
    <3>3. x1' \in Business!Overview /\ x1'.serial = x1.serial + 1
      BY <1>0, <3>1, <3>2 DEF Business!Overview
    <3> DEFINE n == [r EXCEPT !.state = "ok", !.serial = x1.serial + 1]
               r1 == [r EXCEPT !.state = "ok"]
    <3>4. r1 = [key |-> r.key, mount |-> r.mount, state |-> "ok", serial |-> r.serial, id |-> r.id]
      BY <2>1
    <3>5. n = [r1 EXCEPT !.serial = x1.serial + 1]
      OBVIOUS
    <3> HIDE DEF r1
    <3>6. n = [key |-> r.key, mount |-> r.mount, state |-> "ok", serial |-> x1.serial + 1, id |-> r.id]
      BY <3>4, <3>5
    <3> HIDE DEF n
    <3>7. RunOwn(n, x5, x1'.serial) /\ n.mount = r.mount
      BY <1>0, <2>1, <3>3, <3>6 DEF RunOwn
    <3>8. x4' = (x4 \ {r}) \cup {n} /\ x1'.serial >= x1.serial
      BY <1>0, <2>5, <3>3 DEF n
    <3> QED BY <2>3, <3>3, <3>7, <3>8
  <2> QED BY <1>2, <2>4, <2>5 DEF Business!LifecycleServed, Business!Now
<1>3. ASSUME NEW r \in x4, Business!LifecycleDone(r)
      PROVE  BusinessOwn'
  <2> DEFINE n == [r EXCEPT !.state = "refreshing"]
  <2>1. /\ r = [key |-> r.key, mount |-> r.mount, state |-> r.state, serial |-> r.serial, id |-> r.id]
        /\ r.key \in DOMAIN Business!Outcome /\ r.mount \in 0..x5 /\ r.serial \in 0..x1.serial
        /\ UNCHANGED <<x1, x3, x5, x6>> /\ x4' = (x4 \ {r}) \cup {n}
        /\ x7' = [x7 EXCEPT !["detail"] = r.serial]
    BY <1>0, <1>3 DEF RunOwn, Business!LifecycleDone
  <2>2. n = [key |-> r.key, mount |-> r.mount, state |-> "refreshing", serial |-> r.serial, id |-> r.id]
    BY <2>1
  <2>3. RunOwn(n, x5, x1.serial) /\ n.mount = r.mount
    BY <2>1, <2>2 DEF RunOwn
  <2> HIDE DEF n
  <2>4. OneEach(x4') /\ \A s \in x4' : RunOwn(s, x5, x1.serial)
    BY <1>0, <2>1, <2>3, RunPut
  <2>5. x7' \in [Business!Queries -> 0..x1.serial]
    BY <1>0, <2>1
  <2>6. EntireAll(x2) /\ d.data # NULL
    BY <1>0 DEF BusinessInv, Fresh
  <2>7. /\ x2'["detail"] = Business!Ask(d)
        /\ x2'["commerce"] \in {[x2["commerce"] EXCEPT !.invalidated = TRUE], x2["commerce"],
                                Business!Ask(x2["commerce"])}
    BY <1>3, <2>6 DEF Business!LifecycleDone, Business!invalidate, Business!Queries
  <2>8. /\ x2'["detail"].data = d.data /\ x2'["detail"].fetch = "asked"
        /\ x2'["detail"].error = (d.error /\ d.data # NULL)
    BY <2>6, <2>7, AskedFor DEF EntireAll, Business!Queries
  <2>9. /\ x2'["commerce"].data = x2["commerce"].data
        /\ x2'["commerce"].error = x2["commerce"].error
             \/ x2'["commerce"].error = (x2["commerce"].error /\ x2["commerce"].data # NULL)
    <3>1. Entire(x2["commerce"])
      BY <2>6 DEF EntireAll, Business!Queries
    <3>2. CASE x2'["commerce"] = [x2["commerce"] EXCEPT !.invalidated = TRUE]
      BY <3>1, <3>2 DEF Entire
    <3>3. CASE x2'["commerce"] = Business!Ask(x2["commerce"])
      BY <3>1, <3>3, AskedFor
    <3> QED BY <2>7, <3>2, <3>3
  <2>10. Business!consoleShown(x2') = Business!consoleShown(x2)
    BY <2>6, <2>8, <2>9 DEF Business!consoleShown, Business!pageShown
  <2>11. Fresh(x2'["detail"], x4', x7'["detail"])
    BY <2>6, <2>8, NullAssumption DEF Fresh
  <2> QED BY <2>1, <2>4, <2>5, <2>10, <2>11 DEF BusinessOwn
<1>4. ASSUME NEW r \in x4, Business!Ended(r) \/ Business!LifecycleLost(r)
      PROVE  BusinessOwn'
  <2>1. x4' = x4 \ {r} /\ UNCHANGED <<x1, x2, x3, x5, x6, x7>>
    BY <1>4 DEF Business!Ended, Business!LifecycleLost
  <2>2. OneEach(x4') /\ Fresh(d, x4', t)
    BY <1>0, <2>1 DEF OneEach, Fresh
  <2> QED BY <2>1, <2>2 DEF BusinessOwn
<1> QED BY <1>1, <1>2, <1>3, <1>4

(* What is typed keeps the form a form.                                    *)
LEMMA TypeOwn ==
  ASSUME BusinessOwn, NEW f \in Business!Fields, NEW v \in Values, Business!type(f, v)
  PROVE  BusinessOwn'
<1>1. x3 # NULL /\ x3 \in Business!Form /\ UNCHANGED <<x1, x2, x4, x5, x6, x7>>
  BY DEF BusinessOwn, Business!type
<1> DEFINE e == [g \in DOMAIN x3.edits \cup {f} |-> IF g = f THEN v ELSE x3.edits[g]]
<1>2. x3' = [x3 EXCEPT !.edits = e]
  BY DEF Business!type
<1>3. PICK D \in SUBSET Business!Fields : x3.edits \in [D -> Values]
  BY <1>1 DEF Business!Form
<1>4. e \in [D \cup {f} -> Values] /\ D \cup {f} \in SUBSET Business!Fields
  BY <1>3
<1>5. e \in UNION {[E -> Values] : E \in SUBSET Business!Fields}
  BY <1>4
<1> HIDE DEF e
<1>6. x3' \in Business!Form
  BY <1>1, <1>2, <1>5 DEF Business!Form
<1>7. x3' # NULL
  BY <1>6, NullAssumption
<1> QED BY <1>1, <1>6, <1>7 DEF BusinessOwn

(* A change of the profile is sent, one at a time.                         *)
LEMMA SendOwn ==
  ASSUME BusinessOwn, NEW kind, NEW values, Business!Send(kind, values)
  PROVE  BusinessOwn'
<1> DEFINE n == [kind |-> kind, values |-> values, mount |-> x5, state |-> "sent",
                 overview |-> NULL, id |-> x8]
<1>1. x6' = x6 \cup {n} /\ UNCHANGED <<x1, x2, x3, x4, x5, x7>>
  BY DEF Business!Send
<1>2. n.mount = x5 /\ n.state # "ok"
  OBVIOUS
<1> HIDE DEF n
<1>3. \A m \in x6 : m.mount # x5
  BY DEF Business!Send, Business!isPending
<1>4. OneEach(x6') /\ x5 \in Nat
  BY <1>1, <1>2, <1>3 DEF BusinessOwn, OneEach
<1>5. \A m \in x6' : m.mount \in 0..x5 /\ (m.state = "ok" => m.overview # NULL)
  BY <1>1, <1>2, <1>4 DEF BusinessOwn
<1> QED BY <1>1, <1>4, <1>5 DEF BusinessOwn

(* It moves on, and nothing else does but the answers.                     *)
LEMMA ServerOwn ==
  ASSUME BusinessOwn, x1' \in Business!Overview, x1'.serial >= x1.serial,
         UNCHANGED <<x2, x3, x4, x5, x7>>, OneEach(x6'),
         \A m \in x6' : m.mount \in 0..x5 /\ (m.state = "ok" => m.overview # NULL)
  PROVE  BusinessOwn'
<1>1. /\ x7 \in [Business!Queries -> 0..x1'.serial]
      /\ \A r \in x4 : RunOwn(r, x5, x1'.serial)
  BY Later
<1> QED BY <1>1 DEF BusinessOwn

(* Others change the business, or its profile.                             *)
LEMMA OthersOwn ==
  ASSUME BusinessInv, BusinessOwn, Business!OthersAct
  PROVE  BusinessOwn'
<1>0. /\ x1 \in Business!Overview /\ x1.serial \in Nat /\ x1.serial + 1 \in Nat
      /\ UNCHANGED <<x2, x3, x4, x5, x6, x7>>
  <2>1. x1 \in Business!Overview /\ x1.serial \in Nat
    BY DEF BusinessOwn, Business!Overview
  <2>2. UNCHANGED <<x2, x3, x4, x5, x6, x7>>
    BY DEF Business!OthersAct
  <2> QED BY <2>1, <2>2
<1>1. ASSUME x1' \in Business!Overview, x1'.serial = x1.serial + 1
      PROVE  BusinessOwn'
  <2>1. x1'.serial >= x1.serial
    BY <1>0, <1>1
  <2> QED BY <1>0, <1>1, <2>1, ServerOwn DEF BusinessOwn
<1>2. ASSUME NEW b \in {"ACTIVE", "DISABLED", "DELETED"},
             x1' = [x1 EXCEPT !.business = b, !.serial = x1.serial + 1]
      PROVE  BusinessOwn'
  <2> DEFINE s1 == [x1 EXCEPT !.business = b]
  <2>1. s1 \in Business!Overview
    BY <1>0 DEF Business!Overview
  <2>2. x1' = [s1 EXCEPT !.serial = x1.serial + 1]
    BY <1>2
  <2> HIDE DEF s1
  <2>3. x1' \in Business!Overview /\ x1'.serial = x1.serial + 1
    BY <1>0, <2>1, <2>2 DEF Business!Overview
  <2> QED BY <1>1, <2>3
<1>3. ASSUME NEW f \in Business!Fields, NEW v \in Values, x1.profile # NULL,
             x1' = [x1 EXCEPT !.serial = x1.serial + 1,
                      !.profile = Business!Profile("DRAFT", [@.values EXCEPT ![f] = v])]
      PROVE  BusinessOwn'
  <2> DEFINE e == [x1.profile.values EXCEPT ![f] = v]
             p == Business!Profile("DRAFT", e)
             s1 == [x1 EXCEPT !.serial = x1.serial + 1]
  <2>1. e \in [Business!Fields -> Values]
    BY <1>0, <1>3 DEF Business!Overview
  <2> HIDE DEF e
  <2>2. p \in [status : {"DRAFT", "ACTIVE", "PAUSED"}, values : [Business!Fields -> Values],
               updatedAt : Nat]
    BY <1>0, <2>1 DEF Business!Profile, Business!Now
  <2>3. s1 \in Business!Overview /\ s1.serial = x1.serial + 1
    BY <1>0 DEF Business!Overview
  <2>4. x1' = [s1 EXCEPT !.profile = p]
    BY <1>3 DEF e
  <2> HIDE DEF s1, p
  <2>5. x1' \in Business!Overview /\ x1'.serial = x1.serial + 1
    BY <2>2, <2>3, <2>4 DEF Business!Overview
  <2> QED BY <1>1, <2>5
<1> QED BY <1>2, <1>3 DEF Business!OthersAct, Business!Now

(* A change of the profile is served, answered or fails.                   *)
LEMMA CommerceOwn ==
  ASSUME BusinessInv, BusinessOwn, NEW m \in x6,
         Business!CommerceServed(m) \/ Business!CommerceDone(m) \/ Business!CommerceFails(m)
  PROVE  BusinessOwn'
<1>0. /\ x1 \in Business!Overview /\ x1.serial \in Nat /\ x1.serial + 1 \in Nat
      /\ x5 \in Nat /\ OneEach(x6) /\ EntireAll(x2)
      /\ \A n \in x6 : n.mount \in 0..x5 /\ (n.state = "ok" => n.overview # NULL)
  BY DEF BusinessOwn, Business!Overview, BusinessInv
<1>1. /\ m = [kind |-> m.kind, values |-> m.values, mount |-> m.mount,
              state |-> m.state, overview |-> m.overview, id |-> m.id]
      /\ m.kind \in {"save", "activate", "pause"}
      /\ (m.kind = "save" /\ m.state = "sent") => m.values \in Drafts
  BY DEF BusinessInv, MutationsEntire
<1>2. CASE Business!CommerceServed(m)
  <2>1. m.state = "sent" /\ UNCHANGED <<x2, x3, x4, x5, x7>>
    BY <1>2 DEF Business!CommerceServed
  <2>2. ASSUME NEW n, x6' = (x6 \ {m}) \cup {n}, n.mount = m.mount,
               n.state = "ok" => n.overview # NULL,
               x1' \in Business!Overview, x1'.serial >= x1.serial
        PROVE  BusinessOwn'
    <3>1. OneEach(x6')
      BY <1>0, <2>2 DEF OneEach
    <3>2. \A u \in x6' : u.mount \in 0..x5 /\ (u.state = "ok" => u.overview # NULL)
      BY <1>0, <2>2
    <3> QED BY <2>1, <2>2, <3>1, <3>2, ServerOwn
  <2> DEFINE q == x1.profile
             ok == CASE m.kind = "save" -> TRUE
                     [] m.kind = "activate" -> q # NULL /\ x1.business = "ACTIVE"
                     [] m.kind = "pause" -> q # NULL
             new == CASE m.kind = "save" -> Business!Profile("DRAFT", m.values)
                      [] m.kind = "activate" -> Business!Profile("ACTIVE", q.values)
                      [] m.kind = "pause" -> Business!Profile("PAUSED", q.values)
             NewProfiles == [status : {"DRAFT", "ACTIVE", "PAUSED"},
                             values : [Business!Fields -> Values], updatedAt : Nat]
  <2>3. /\ x1' = IF ok THEN [x1 EXCEPT !.profile = new, !.serial = Business!Now] ELSE x1
        /\ x6' = (x6 \ {m}) \cup
             {IF ok THEN [m EXCEPT !.state = "ok", !.overview = x1'] ELSE [m EXCEPT !.state = "refused"]}
    BY <1>2 DEF Business!CommerceServed
  <2>4. CASE ok
    <3>1. ASSUME NEW s \in {"DRAFT", "ACTIVE", "PAUSED"}, NEW values \in [Business!Fields -> Values]
          PROVE  Business!Profile(s, values) \in NewProfiles
      BY <1>0 DEF Business!Profile, Business!Now
    <3>2. new \in NewProfiles
      <4>1. m.kind = "save" => new = Business!Profile("DRAFT", m.values)
                                 /\ m.values \in [Business!Fields -> Values]
        BY <1>1, <2>1 DEF Drafts
      <4>2. m.kind = "activate" => new = Business!Profile("ACTIVE", q.values)
                                     /\ q.values \in [Business!Fields -> Values]
        BY <1>0, <2>4 DEF Business!Overview
      <4>3. m.kind = "pause" => new = Business!Profile("PAUSED", q.values)
                                  /\ q.values \in [Business!Fields -> Values]
        BY <1>0, <2>4 DEF Business!Overview
      <4> HIDE DEF new, NewProfiles
      <4> QED BY <1>1, <3>1, <4>1, <4>2, <4>3
    <3> DEFINE n == [m EXCEPT !.state = "ok", !.overview = x1']
               m1 == [m EXCEPT !.state = "ok"]
    <3>3. m1 = [kind |-> m.kind, values |-> m.values, mount |-> m.mount,
                state |-> "ok", overview |-> m.overview, id |-> m.id]
      BY <1>1
    <3>4. n = [m1 EXCEPT !.overview = x1']
      OBVIOUS
    <3> HIDE DEF new, ok
    <3>5. x6' = (x6 \ {m}) \cup {n} /\ x1' = [x1 EXCEPT !.profile = new, !.serial = x1.serial + 1]
      BY <2>3, <2>4 DEF Business!Now
    <3> HIDE DEF m1, n
    <3>6. n = [kind |-> m.kind, values |-> m.values, mount |-> m.mount,
               state |-> "ok", overview |-> x1', id |-> m.id]
      BY <3>3, <3>4
    <3>7. x1' \in Business!Overview /\ x1'.serial = x1.serial + 1
      <4> DEFINE k == x1.serial + 1
      <4>1. k \in Nat /\ x1' = [x1 EXCEPT !.profile = new, !.serial = k]
        BY <1>0, <3>5
      <4> HIDE DEF k
      <4>2. x1' \in Business!Overview /\ x1'.serial = k
        <5>1. x1' = [business |-> x1.business, profile |-> new, serial |-> k]
          BY <1>0, <4>1, ServerPut DEF Business!Overview
        <5> QED BY <1>0, <3>2, <4>1, <5>1 DEF Business!Overview
      <4> QED BY <4>2 DEF k
    <3>8. x1' # NULL /\ x1'.serial >= x1.serial
      BY <1>0, <3>7, NullAssumption
    <3>9. n.mount = m.mount /\ n.overview # NULL
      BY <3>6, <3>8
    <3> QED BY <2>2, <3>5, <3>7, <3>8, <3>9
  <2>5. CASE ~ok
    <3> DEFINE n == [m EXCEPT !.state = "refused"]
    <3>1. n = [kind |-> m.kind, values |-> m.values, mount |-> m.mount,
               state |-> "refused", overview |-> m.overview, id |-> m.id]
      BY <1>1
    <3> HIDE DEF ok, new
    <3>2. x6' = (x6 \ {m}) \cup {n} /\ x1' = x1
      BY <2>3, <2>5
    <3>3. n.mount = m.mount /\ n.state # "ok" /\ x1'.serial >= x1.serial
      BY <1>0, <3>1, <3>2
    <3> HIDE DEF n
    <3> QED BY <1>0, <2>2, <3>2, <3>3
  <2> QED BY <2>4, <2>5
<1>3. CASE Business!CommerceDone(m)
  <2> DEFINE c == x2["commerce"]
             r == [data |-> m.overview, fetch |-> c.fetch, read |-> c.read,
                   error |-> FALSE, invalidated |-> FALSE]
             new == [u \in Business!Queries |-> IF u = "commerce" THEN r ELSE x2[u]]
  <2>0. "commerce" \in Business!Queries /\ "detail" \in Business!Queries
    BY DEF Business!Queries
  <2>1. new = [x2 EXCEPT !["commerce"] = r]
    BY <1>0, <2>0 DEF EntireAll
  <2>2. Business!Render(new)
    BY <1>3, <2>1 DEF Business!CommerceDone
  <2>3. Entire(r) /\ r.data = m.overview
    BY DEF Entire
  <2> HIDE DEF r
  <2>4. EntireAll(new) /\ new["commerce"] = r /\ new["detail"] = x2["detail"]
    BY <1>0, <2>0, <2>3, Replaced
  <2>5. /\ x6' = x6 \ {m} /\ UNCHANGED <<x1, x4>> /\ m.state = "ok"
        /\ x7' = [x7 EXCEPT !["commerce"] = m.overview.serial]
    BY <1>3 DEF Business!CommerceDone
  <2> HIDE DEF new
  <2>6. new["commerce"].data \in Known \cup {NULL}
    BY <2>3, <2>4, KnownAre
  <2>7. m.overview.serial \in 0..x1.serial
    BY <1>0, <2>5, KnownAre DEF BusinessInv, KnownWell
  <2>8. /\ x7' \in [Business!Queries -> 0..x1.serial] /\ x7'["detail"] = x7["detail"]
        /\ Fresh(x2["detail"], x4, x7["detail"])
    BY <2>0, <2>5, <2>7 DEF BusinessOwn
  <2>9. /\ x2'["detail"] = x2["detail"] /\ x5' \in Nat /\ x5' >= x5
        /\ (x3' # NULL) = Business!consoleShown(x2') /\ x3' \in Business!Form \cup {NULL}
    BY <1>0, <2>2, <2>4, <2>6, RenderedAs, FormShown
  <2>10. \A s \in x4 : RunOwn(s, x5', x1.serial)
    BY <1>0, <2>9 DEF BusinessOwn, RunOwn
  <2>11. \A u \in x6' : u.mount \in 0..x5' /\ (u.state = "ok" => u.overview # NULL)
    BY <1>0, <2>5, <2>9
  <2>12. OneEach(x6')
    BY <1>0, <2>5 DEF OneEach
  <2> QED BY <2>5, <2>8, <2>9, <2>10, <2>11, <2>12 DEF BusinessOwn
<1>4. CASE Business!CommerceFails(m)
  <2>1. UNCHANGED <<x1, x2, x3, x4, x5, x7>> /\ x6' = x6 \ {m}
    BY <1>4 DEF Business!CommerceFails
  <2>2. OneEach(x6') /\ x1'.serial >= x1.serial
    BY <1>0, <2>1 DEF OneEach
  <2> QED BY <1>0, <2>1, <2>2, ServerOwn
<1> QED BY <1>2, <1>3, <1>4

(* Every step of the business page.                                        *)
LEMMA BusinessOwnStep ==
  ASSUME BusinessInv, BusinessOwn, Business!Next
  PROVE  BusinessOwn'
<1>1. ASSUME NEW q \in Business!Queries,
             Business!Read(q) \/ Business!Answered(q) \/ Business!Fails(q) \/ Business!refetch(q)
      PROVE  BusinessOwn'
  BY <1>1, ReadsOwn
<1>2. CASE \/ \E key \in DOMAIN Business!Outcome : Business!run(key)
           \/ \E r \in x4 : \/ Business!LifecycleServed(r) \/ Business!LifecycleDone(r)
                            \/ Business!Ended(r) \/ Business!LifecycleLost(r)
  BY <1>2, LifecycleOwn
<1>3. CASE \E f \in Business!Fields, v \in Values : Business!type(f, v)
  BY <1>3, TypeOwn
<1>4. CASE Business!saveDraft \/ Business!activate \/ Business!pause
  BY <1>4, SendOwn DEF Business!saveDraft, Business!activate, Business!pause
<1>5. CASE \E m \in x6 : Business!CommerceServed(m) \/ Business!CommerceDone(m) \/ Business!CommerceFails(m)
  BY <1>5, CommerceOwn
<1>6. CASE Business!OthersAct
  BY <1>6, OthersOwn
<1> QED BY <1>1, <1>2, <1>3, <1>4, <1>5, <1>6 DEF Business!Next

-----------------------------------------------------------------------------
(* A report that was decided from here: it is final at the server, in what *)
(* is read of it, and in the dialog once that is valid.                    *)

Final == {"ACTIONED", "DISMISSED"}

(* What the dialog knows of a report that was decided from here.           *)
DetailOwn(d, s, isDecided) ==
  /\ d.fetch # NULL => s # NULL
  /\ d.fetch = "read" => d.read # NULL
  /\ isDecided => /\ s \in Final
                  /\ d.fetch = "read" => d.read \in Final
                  /\ (d.fetch = NULL /\ ~d.invalidated) => d.data # "PENDING"

RequestOwn(q, s, ds) ==
  /\ ds[q.dialog.report].data # NULL
  /\ q.state = "applied" => s[q.dialog.report] \in Final

QueueOwn(c) ==
  /\ x9 \subseteq 1..c.size
  /\ \A r \in 1..c.size : DetailOwn(x6[r], x1[r], r \in x9)
  /\ \A q \in x8 : RequestOwn(q, x1, x6)

(* What is shown of a report that was decided from here.                   *)
LEMMA DecidedHolds ==
  ASSUME NEW c, QueueInv(c), QueueOwn(c)
  PROVE  Queue(c)!DecidedStays
<1>1. x7 # NULL => x7.report \in 1..c.size
  BY DEF QueueInv, DialogOk
<1> QED BY <1>1 DEF QueueOwn, DetailOwn, Queue!DecidedStays, Queue!isOpen, Queue!report

(* The queue as it is opened: nothing has been decided.                    *)
LEMMA QueueOwnInit ==
  ASSUME NEW c, Queue(c)!Init
  PROVE  QueueOwn(c)
<1>1. x8 = {} /\ x9 = {} /\ \A r \in 1..c.size : x6[r].fetch = NULL
  BY DEF Queue!Init
<1> QED BY <1>1, NullAssumption DEF QueueOwn, DetailOwn

(* A report is decided once: what is final stays, and none is unmade.      *)
LEMMA ServerOnward ==
  ASSUME NEW c, Sized(c), QueueInv(c), Queue(c)!Next
  PROVE  Onward(c, x1, x1')
<1>1. Served(c, x1) /\ \A q \in x8 : RequestOk(c, x1, q)
  BY DEF QueueInv
<1> USE DEF Queue!lists_vars, Queue!dialog_vars
<1>2. CASE x1' = x1
  BY <1>2 DEF Onward
<1>3. ASSUME NEW r \in 1..c.size, NEW s \in Final, x1[r] = "PENDING", x1' = [x1 EXCEPT ![r] = s]
      PROVE  Onward(c, x1, x1')
  <2>1. s # NULL /\ s # "PENDING"
    BY StatusesAre DEF Statuses, Final
  <2> QED BY <1>1, <1>3, <2>1 DEF Onward, Served
<1>4. ASSUME NEW r \in 1..c.size, x1[r] = NULL, x1' = [x1 EXCEPT ![r] = "PENDING"]
      PROVE  Onward(c, x1, x1')
  <2>1. "PENDING" # NULL
    BY StatusesAre DEF Statuses
  <2> QED BY <1>1, <1>4, <2>1 DEF Onward, Served
<1>5. CASE \E q \in x8 : Queue(c)!resolveAdminReport(q)
  <2>1. PICK q \in x8 : Queue(c)!resolveAdminReport(q)
    BY <1>5
  <2>2. q.dialog.report \in 1..c.size /\ q.status \in Final
    BY <1>1 DEF RequestOk, Final
  <2> QED BY <1>2, <1>3, <2>1, <2>2 DEF Queue!resolveAdminReport
<1>6. CASE Queue(c)!Others
  BY <1>2, <1>3, <1>4, <1>6 DEF Queue!Others, Queue!Of, Final
<1>7. ASSUME NEW t \in c.tabs,
             \/ Queue(c)!setStatus(t) \/ Queue(c)!PageRead(t)
             \/ Queue(c)!ListAnswered(t) \/ Queue(c)!ListFails(t)
      PROVE  x1' = x1
  BY <1>7 DEF Queue!setStatus, Queue!PageRead, Queue!ListAnswered, Queue!ListFails
<1>8. CASE \/ Queue(c)!Poll \/ Queue(c)!SummaryRead \/ Queue(c)!SummaryAnswered
           \/ Queue(c)!SummaryFails \/ Queue(c)!loadNextReportPage \/ Queue(c)!refetch
  BY <1>2, <1>8 DEF Queue!Poll, Queue!SummaryRead, Queue!SummaryAnswered, Queue!SummaryFails,
     Queue!loadNextReportPage, Queue!refetch
<1>9. CASE \/ Queue(c)!onClose \/ Queue(c)!resolve("DISMISSED") \/ Queue(c)!resolve("USER_SUSPENDED")
           \/ \E r \in 1..c.size : \/ Queue(c)!openDialog(r) \/ Queue(c)!DetailRead(r)
                                   \/ Queue(c)!DetailAnswered(r) \/ Queue(c)!DetailFails(r)
           \/ \E q \in x8 : Queue(c)!onResolved(q) \/ Queue(c)!onError(q)
  BY <1>2, <1>9 DEF Queue!onClose, Queue!resolve, Queue!openDialog, Queue!DetailRead,
     Queue!DetailAnswered, Queue!DetailFails, Queue!onResolved, Queue!onError
<1> QED BY <1>2, <1>5, <1>6, <1>7, <1>8, <1>9 DEF Queue!Next

(* The details and the requests stay, whatever the server does.            *)
LEMMA OwnOnward ==
  ASSUME NEW c, QueueInv(c), QueueOwn(c), Onward(c, x1, x1'), Served(c, x1')
  PROVE  /\ \A r \in 1..c.size : DetailOwn(x6[r], x1'[r], r \in x9)
         /\ \A q \in x8 : RequestOwn(q, x1', x6)
<1>1. \A r \in 1..c.size : /\ x1[r] # NULL => x1'[r] # NULL
                           /\ x1[r] \in Final => x1'[r] \in Final
  <2> SUFFICES ASSUME NEW r \in 1..c.size, x1[r] \in Final
               PROVE  x1'[r] \in Final
    BY DEF Onward
  <2>1. x1[r] # NULL /\ x1[r] # "PENDING" /\ x1'[r] \in Statuses \cup {NULL}
    BY StatusesAre DEF Served, Statuses, Final
  <2> QED BY <2>1, StatusesAre DEF Onward, Statuses, Final
<1>2. \A q \in x8 : q.dialog.report \in 1..c.size
  BY DEF QueueInv, RequestOk
<1> QED BY <1>1, <1>2 DEF QueueOwn, DetailOwn, RequestOwn

(* A step of what the dialog reads.                                        *)
LEMMA DetailsOwn ==
  ASSUME NEW c, QueueInv(c), QueueOwn(c), NEW r \in 1..c.size, NEW d,
         x6' = [x6 EXCEPT ![r] = d], UNCHANGED <<x1, x8, x9>>,
         DetailOwn(d, x1[r], r \in x9), x6[r].data # NULL => d.data # NULL
  PROVE  QueueOwn(c)'
<1>1. \A u \in 1..c.size : x6'[u] = IF u = r THEN d ELSE x6[u]
  BY DEF QueueInv
<1>2. \A u \in 1..c.size : DetailOwn(x6'[u], x1[u], u \in x9)
  BY <1>1 DEF QueueOwn
<1>3. \A q \in x8 : q.dialog.report \in 1..c.size
  BY DEF QueueInv, RequestOk
<1>4. \A q \in x8 : RequestOwn(q, x1, x6')
  BY <1>1, <1>3 DEF QueueOwn, RequestOwn
<1> QED BY <1>2, <1>4 DEF QueueOwn

(* A report that a dialog is opened on was made.                           *)
LEMMA QueueDialogOn ==
  ASSUME NEW c, Sized(c), QueueInv(c), NEW r \in 1..c.size, Queue(c)!openDialog(r)
  PROVE  x1[r] # NULL
<1> DEFINE W == x4[x3].pages
<1>1. W \in Seq(QueuePages(c)) /\ Linked(x1, W)
  BY DEF QueueInv, ListsOk, Listed, Chain
<1>2. PICK k \in DOMAIN W : r \in Ids(W[k])
  BY DEF Queue!openDialog, Queue!items, Queue!ItemsOf, Queue!reports, Ids
<1>3. k \in 1..Len(W)
  BY <1>1, <1>2
<1> QED BY <1>1, <1>2, <1>3 DEF Linked

(* Asking for a report, or marking it, keeps what was read of it.          *)
LEMMA AskKeeps ==
  ASSUME NEW c, NEW d \in Detail
  PROVE  Queue(c)!Ask(d).fetch = "asked" /\ Queue(c)!Ask(d).data = d.data
<1> DEFINE d1 == [d EXCEPT !.fetch = "asked"]
<1>1. d1 \in Detail /\ d1.fetch = "asked" /\ d1.data = d.data
  BY DEF Detail
<1>2. Queue(c)!Ask(d) = [d1 EXCEPT !.read = NULL]
  BY DEF Queue!Ask
<1> HIDE DEF d1
<1> QED BY <1>1, <1>2 DEF Detail

(* Marking a detail stale changes nothing else of it.                      *)
LEMMA MarkKeeps ==
  ASSUME NEW d \in Detail, NEW e, e = [d EXCEPT !.invalidated = TRUE]
  PROVE  e.invalidated /\ e.fetch = d.fetch /\ e.data = d.data /\ e.read = d.read
BY DEF Detail

(* What the dialog reads of a decided report is final.                     *)
LEMMA DialogOwn ==
  ASSUME NEW c, Sized(c), QueueInv(c), QueueOwn(c), NEW r \in 1..c.size,
         \/ Queue(c)!openDialog(r) \/ Queue(c)!DetailRead(r)
         \/ Queue(c)!DetailAnswered(r) \/ Queue(c)!DetailFails(r)
  PROVE  QueueOwn(c)'
<1>1. /\ x6[r] \in Detail /\ DetailOwn(x6[r], x1[r], r \in x9)
      /\ "asked" # NULL /\ "read" # NULL /\ NULL \notin Statuses
  BY StatusesAre, NullAssumption DEF QueueInv, QueueOwn
<1> USE DEF Queue!lists_vars
<1>2. CASE Queue(c)!openDialog(r)
  <2>1. /\ UNCHANGED <<x1, x8, x9>> /\ x7' = [report |-> r, serial |-> x10']
        /\ \/ x6' = [x6 EXCEPT ![r] = Queue(c)!Ask(x6[r])]
           \/ x6' = [x6 EXCEPT ![r] = x6[r]]
    BY <1>2 DEF Queue!openDialog
  <2>2. x1[r] # NULL
    BY <1>2, QueueDialogOn
  <2>3. PICK d \in {Queue(c)!Ask(x6[r]), x6[r]} : x6' = [x6 EXCEPT ![r] = d]
    BY <2>1
  <2>4. d = x6[r] \/ (d.fetch = "asked" /\ d.data = x6[r].data)
    BY <1>1, <2>3, AskKeeps
  <2>5. DetailOwn(d, x1[r], r \in x9)
    BY <1>1, <2>2, <2>4 DEF DetailOwn
  <2> QED BY <2>1, <2>3, <2>4, <2>5, DetailsOwn
<1>3. CASE Queue(c)!DetailRead(r)
  <2> DEFINE d1 == [x6[r] EXCEPT !.fetch = "read"]
             d == [d1 EXCEPT !.read = x1[r]]
  <2>1. UNCHANGED <<x1, x8, x9>> /\ x6' = [x6 EXCEPT ![r] = d] /\ x6[r].fetch = "asked"
    BY <1>3 DEF Queue!DetailRead
  <2>2. d1 \in Detail /\ d1.fetch = "read" /\ d1.data = x6[r].data
    BY <1>1 DEF Detail
  <2> HIDE DEF d1
  <2>3. d.fetch = "read" /\ d.data = x6[r].data /\ d.read = x1[r]
    BY <2>2 DEF Detail
  <2> HIDE DEF d
  <2>4. DetailOwn(d, x1[r], r \in x9)
    BY <1>1, <2>1, <2>3 DEF DetailOwn
  <2> QED BY <2>1, <2>3, <2>4, DetailsOwn
<1>4. CASE Queue(c)!DetailAnswered(r)
  <2> DEFINE d == [data |-> x6[r].read, fetch |-> NULL, read |-> NULL, invalidated |-> FALSE]
  <2>1. UNCHANGED <<x1, x8, x9>> /\ x6' = [x6 EXCEPT ![r] = d] /\ x6[r].fetch = "read"
    BY <1>4 DEF Queue!DetailAnswered
  <2>2. d.fetch = NULL /\ d.data = x6[r].read
    OBVIOUS
  <2> HIDE DEF d
  <2>3. DetailOwn(d, x1[r], r \in x9) /\ d.data # NULL
    BY <1>1, <2>1, <2>2 DEF DetailOwn, Final
  <2> QED BY <2>1, <2>3, DetailsOwn
<1>5. CASE Queue(c)!DetailFails(r)
  <2> DEFINE d == [data |-> x6[r].data, fetch |-> NULL, read |-> NULL, invalidated |-> TRUE]
  <2>1. UNCHANGED <<x1, x8, x9>> /\ x6' = [x6 EXCEPT ![r] = d]
    BY <1>5 DEF Queue!DetailFails
  <2>2. d.fetch = NULL /\ d.data = x6[r].data /\ d.invalidated
    OBVIOUS
  <2> HIDE DEF d
  <2>3. DetailOwn(d, x1[r], r \in x9)
    BY <1>1, <2>2 DEF DetailOwn
  <2> QED BY <2>1, <2>2, <2>3, DetailsOwn
<1> QED BY <1>2, <1>3, <1>4, <1>5

(* A decision is sent, answered, or refused.                               *)
LEMMA RequestsOwn ==
  ASSUME NEW c, Sized(c), QueueInv(c), QueueOwn(c), QueueInv(c)', Onward(c, x1, x1'),
         UNCHANGED <<x6, x9>>,
         \A q \in x8' : q \in x8 \/ RequestOwn(q, x1', x6)
  PROVE  QueueOwn(c)'
<1>1. Served(c, x1')
  BY DEF QueueInv
<1>2. /\ \A r \in 1..c.size : DetailOwn(x6[r], x1'[r], r \in x9)
      /\ \A q \in x8 : RequestOwn(q, x1', x6)
  BY <1>1, OwnOnward
<1> QED BY <1>2 DEF QueueOwn

(* A decision that is made, taken at the server, or refused.               *)
LEMMA DecidesOwn ==
  ASSUME NEW c, Sized(c), QueueInv(c), QueueOwn(c), QueueInv(c)', Onward(c, x1, x1'),
         \/ \E resolution : Queue(c)!resolve(resolution)
         \/ \E q \in x8 : Queue(c)!resolveAdminReport(q) \/ Queue(c)!onError(q)
  PROVE  QueueOwn(c)'
<1>1. ASSUME NEW resolution, Queue(c)!resolve(resolution)
      PROVE  QueueOwn(c)'
  <2> DEFINE status == IF resolution = "DISMISSED" THEN "DISMISSED" ELSE "ACTIONED"
             new == [dialog |-> x7, state |-> "sent", status |-> status]
  <2>1. UNCHANGED <<x6, x9>> /\ x8' \subseteq x8 \cup {new}
    BY <1>1 DEF Queue!resolve
  <2>2. x6[x7.report].data = "PENDING" /\ "PENDING" # NULL
    BY <1>1, StatusesAre DEF Queue!resolve, Queue!isOpen, Queue!report, Statuses
  <2> HIDE DEF status
  <2>3. new.dialog = x7 /\ new.state = "sent"
    OBVIOUS
  <2> HIDE DEF new
  <2>4. RequestOwn(new, x1', x6)
    BY <2>2, <2>3 DEF RequestOwn
  <2> QED BY <2>1, <2>4, RequestsOwn
<1>2. ASSUME NEW q \in x8, Queue(c)!onError(q)
      PROVE  QueueOwn(c)'
  <2> DEFINE new == [q EXCEPT !.state = "failed"]
  <2>1. UNCHANGED <<x6, x9>> /\ x8' \subseteq x8 \cup {new}
    BY <1>2 DEF Queue!onError
  <2>2. new.dialog = q.dialog /\ new.state = "failed"
    BY DEF QueueInv, RequestOk
  <2> HIDE DEF new
  <2>3. RequestOwn(new, x1', x6)
    BY <2>2 DEF RequestOwn, QueueOwn
  <2> QED BY <2>1, <2>3, RequestsOwn
<1>3. ASSUME NEW q \in x8, Queue(c)!resolveAdminReport(q)
      PROVE  QueueOwn(c)'
  <2> DEFINE r == q.dialog.report
             ok == x1[r] = "PENDING"
             state == IF ok THEN "applied" ELSE "refused"
             new == [q EXCEPT !.state = state]
  <2>1. /\ UNCHANGED <<x6, x9>> /\ x8' \subseteq x8 \cup {new}
        /\ x1' = IF ok THEN [x1 EXCEPT ![r] = q.status] ELSE x1
    BY <1>3 DEF Queue!resolveAdminReport, Queue!dialog_vars
  <2>2. /\ r \in 1..c.size /\ q.status \in Final
        /\ x1 \in [1..c.size -> Statuses \cup {NULL}]
    BY StatusesAre DEF QueueInv, RequestOk, Final, Served
  <2>3. state = "applied" => x1'[r] \in Final
    BY <2>1, <2>2
  <2> HIDE DEF state
  <2>4. new.dialog = q.dialog /\ new.state = state
    BY DEF QueueInv, RequestOk
  <2> HIDE DEF new
  <2>5. RequestOwn(new, x1', x6)
    BY <2>3, <2>4 DEF RequestOwn, QueueOwn
  <2> QED BY <2>1, <2>5, RequestsOwn
<1> QED BY <1>1, <1>2, <1>3

(* A decision is told of: what was read of reports is to be read again,    *)
(* and a read that is under way of the report decided does not count.      *)
LEMMA ResolvedOwn ==
  ASSUME NEW c, Sized(c), QueueInv(c), QueueOwn(c), NEW q \in x8, Queue(c)!onResolved(q)
  PROVE  QueueOwn(c)'
<1> DEFINE p == q.dialog.report
           active(r) == x7 # NULL /\ x7.report = r
<1>1. /\ x1' = x1 /\ x8' = x8 \ {q} /\ q.state = "applied"
      /\ x6' = [r \in 1..c.size |-> Queue(c)!InvalidateDetail(x6[r], active(r))]
      /\ x9' = IF x6[p].fetch = NULL \/ active(p) THEN x9 \cup {p} ELSE x9
  BY DEF Queue!onResolved, Queue!invalidateQueries
<1>2. /\ p \in 1..c.size /\ x6[p].data # NULL /\ x1[p] \in Final
      /\ x9 \subseteq 1..c.size
  BY <1>1 DEF QueueInv, RequestOk, QueueOwn, RequestOwn
<1>3. ASSUME NEW r \in 1..c.size
      PROVE  x6'[r].data = x6[r].data /\ DetailOwn(x6'[r], x1[r], r \in x9')
  <2>1. /\ x6[r] \in Detail /\ DetailOwn(x6[r], x1[r], r \in x9)
        /\ "asked" # NULL /\ "read" # NULL
    BY NullAssumption DEF QueueInv, QueueOwn
  <2>2. CASE x6'[r] = Queue(c)!Ask(x6[r]) /\ active(r)
    <3>1. x6'[r].fetch = "asked" /\ x6'[r].data = x6[r].data
      BY <2>1, <2>2, AskKeeps
    <3>2. x1[r] # NULL
      BY <2>2 DEF QueueInv, DialogOk
    <3>3. r \in x9' => x1[r] \in Final
      BY <1>1, <1>2, <2>1 DEF DetailOwn
    <3> QED BY <2>1, <3>1, <3>2, <3>3 DEF DetailOwn
  <2>3. CASE /\ x6'[r] = [x6[r] EXCEPT !.invalidated = TRUE]
             /\ active(r) => x6[r].fetch # NULL /\ x6[r].data = NULL
    <3>1. /\ x6'[r].invalidated /\ x6'[r].fetch = x6[r].fetch
          /\ x6'[r].data = x6[r].data /\ x6'[r].read = x6[r].read
      BY <2>1, <2>3, MarkKeeps
    <3>2. CASE r = p /\ r \notin x9
      <4>1. r \in x9' => x6[r].fetch = NULL
        BY <1>1, <1>2, <2>3, <3>2
      <4>2. x1[r] \in Final
        BY <1>2, <3>2
      <4> QED BY <2>1, <3>1, <4>1, <4>2 DEF DetailOwn
    <3>3. CASE r # p \/ r \in x9
      <4>1. r \in x9' <=> r \in x9
        BY <1>1, <3>3
      <4> QED BY <2>1, <3>1, <4>1 DEF DetailOwn
    <3> QED BY <3>2, <3>3
  <2>4. x6'[r] = Queue(c)!InvalidateDetail(x6[r], active(r))
    BY <1>1
  <2> QED BY <2>2, <2>3, <2>4 DEF Queue!InvalidateDetail
<1>4. \A u \in x8' : RequestOwn(u, x1', x6')
  BY <1>1, <1>3 DEF RequestOwn, QueueOwn, QueueInv, RequestOk
<1>5. x9' \subseteq 1..c.size
  BY <1>1, <1>2
<1> HIDE DEF p, active
<1> QED BY <1>1, <1>3, <1>4, <1>5 DEF QueueOwn

(* A step of the queue keeps what was decided from here.                   *)
LEMMA QueueOwnStep ==
  ASSUME NEW c, Sized(c), QueueInv(c), QueueOwn(c), Queue(c)!Next
  PROVE  QueueOwn(c)'
<1>1. QueueInv(c)' /\ Onward(c, x1, x1') /\ Served(c, x1')
  BY QueueStep, ServerOnward DEF QueueInv
<1>2. CASE UNCHANGED <<x6, x8, x9>>
  <2>1. /\ \A r \in 1..c.size : DetailOwn(x6[r], x1'[r], r \in x9)
        /\ \A q \in x8 : RequestOwn(q, x1', x6)
    BY <1>1, OwnOnward
  <2> QED BY <1>2, <2>1 DEF QueueOwn
<1> USE DEF Queue!lists_vars, Queue!dialog_vars
<1>3. CASE \/ Queue(c)!Poll \/ Queue(c)!SummaryRead \/ Queue(c)!SummaryAnswered
           \/ Queue(c)!SummaryFails \/ Queue(c)!loadNextReportPage \/ Queue(c)!refetch
           \/ Queue(c)!onClose \/ Queue(c)!Others
  BY <1>2, <1>3 DEF Queue!Poll, Queue!SummaryRead, Queue!SummaryAnswered, Queue!SummaryFails,
     Queue!loadNextReportPage, Queue!refetch, Queue!onClose, Queue!Others
<1>4. ASSUME NEW t \in c.tabs,
             \/ Queue(c)!setStatus(t) \/ Queue(c)!PageRead(t)
             \/ Queue(c)!ListAnswered(t) \/ Queue(c)!ListFails(t)
      PROVE  UNCHANGED <<x6, x8, x9>>
  BY <1>4 DEF Queue!setStatus, Queue!PageRead, Queue!ListAnswered, Queue!ListFails
<1>5. CASE \E r \in 1..c.size : \/ Queue(c)!openDialog(r) \/ Queue(c)!DetailRead(r)
                                \/ Queue(c)!DetailAnswered(r) \/ Queue(c)!DetailFails(r)
  BY <1>5, DialogOwn
<1>6. CASE \/ \E resolution : Queue(c)!resolve(resolution)
           \/ \E q \in x8 : Queue(c)!resolveAdminReport(q) \/ Queue(c)!onError(q)
  BY <1>1, <1>6, DecidesOwn
<1>7. ASSUME NEW q \in x8, Queue(c)!onResolved(q)
      PROVE  QueueOwn(c)'
  BY <1>7, ResolvedOwn
<1> QED BY <1>2, <1>3, <1>4, <1>5, <1>6, <1>7 DEF Queue!Next

-----------------------------------------------------------------------------
(* The resource console: the rows done from here are done at the server,   *)
(* and pages that are valid show them so, unless a read was cut short.     *)

(* Pages that show none of these rows as it was.                           *)
Tells(pages, O) ==
  \A k \in 1..Len(pages) : \A item \in pages[k].items : item.id \in O => item.done

(* Of a list: what has been read again tells of them, and so do the pages, *)
(* once they are valid, unless a read of them was cut short.               *)
RowsOwn(q, O, isCut) ==
  /\ q.fetch # NULL => Tells(q.fetch.got, O)
  /\ (/\ ~isCut
      /\ q.fetch # NULL => q.fetch.kind = "next"
      /\ q.fetch = NULL => ~q.error /\ ~q.invalidated) => Tells(q.pages, O)

ResourceOwn ==
  /\ \A f \in Resource!Filters : x8[f] \subseteq x1 /\ RowsOwn(x3[f], x8[f], f \in x9)
  /\ (x3[x2].fetch = NULL /\ x3[x2].invalidated) => x3[x2].error
  /\ (x7.state = "applied" /\ x7.dialog.kind = "action") => x7.dialog.row.id \in x1

(* A list at rest shows no row as it was before the own action.            *)
LEMMA OwnRowsHold ==
  ASSUME ResourceInv, ResourceOwn
  PROVE  Resource!OwnActionIsSeen
<1>1. x2 \in Resource!Filters
  BY DEF ResourceInv, ResourceTypes
<1> QED
  BY <1>1 DEF ResourceOwn, RowsOwn, Tells, Resource!OwnActionIsSeen, Resource!ShownAsItWas,
     Resource!isFetching, Resource!list

(* The console as it is opened: nothing has been done from here.           *)
LEMMA ResourceOwnInit ==
  ASSUME Resource!Init
  PROVE  ResourceOwn
<1>1. /\ \A f \in Resource!Filters : x8[f] = {}
      /\ x2 \in Resource!Filters /\ ~x3[x2].invalidated /\ x7.state = "idle"
  BY DEF Resource!Init, Resource!Filters
<1> QED BY <1>1 DEF ResourceOwn, RowsOwn, Tells

(* The rows done from here are done at the server, and stay so.            *)
LEMMA DoneAtServer ==
  ASSUME ResourceInv, ResourceOwn, Resource!Next
  PROVE  /\ x1 \subseteq x1'
         /\ \A f \in Resource!Filters : x8'[f] \subseteq x1'
         /\ (x7'.state = "applied" /\ x7'.dialog.kind = "action") => x7'.dialog.row.id \in x1'
<1>1. /\ x8 \in [Resource!Filters -> SUBSET Rows]
      /\ \A f \in Resource!Filters : x8[f] \subseteq x1
      /\ x7 = [state |-> x7.state, dialog |-> x7.dialog]
      /\ (x7.state = "applied" /\ x7.dialog.kind = "action") => x7.dialog.row.id \in x1
  BY DEF ResourceInv, ResourceTypes, ResourceDialogs, ResourceOwn
<1>2. ASSUME UNCHANGED <<x7, x8>>, x1 \subseteq x1'
      PROVE  /\ \A f \in Resource!Filters : x8'[f] \subseteq x1'
             /\ (x7'.state = "applied" /\ x7'.dialog.kind = "action") => x7'.dialog.row.id \in x1'
  BY <1>1, <1>2
<1>3. CASE Resource!mutateAdminResource
  <2>1. /\ x7' = [x7 EXCEPT !.state = "applied"] /\ x8' = x8
        /\ x1' = IF x7.dialog.kind = "action" THEN x1 \cup {x7.dialog.row.id} ELSE x1
    BY <1>3 DEF Resource!mutateAdminResource
  <2>2. x7'.dialog = x7.dialog
    BY <1>1, <2>1
  <2> QED BY <1>1, <2>1, <2>2
<1>4. CASE Resource!onSuccess
  BY <1>1, <1>4 DEF Resource!onSuccess
<1>5. CASE Resource!onError
  <2>1. x7' = [x7 EXCEPT !.state = "failed"] /\ x1' = x1 /\ x8' = x8
    BY <1>5 DEF Resource!onError
  <2>2. x7'.state = "failed"
    BY <1>1, <2>1
  <2> QED BY <1>1, <2>1, <2>2
<1>6. ASSUME NEW kind, NEW item, Resource!open(kind, item)
      PROVE  x1' = x1 /\ x8' = x8 /\ x7'.state = "idle"
  BY <1>6 DEF Resource!open
<1>7. CASE Resource!submit
  BY <1>1, <1>7 DEF Resource!submit
<1> QED
  BY <1>1, <1>2, <1>3, <1>4, <1>5, <1>6, <1>7
     DEF Resource!Next, Resource!setFilters, Resource!PageRead, Resource!Answered,
     Resource!ReadFails, Resource!showNextPage, Resource!showPreviousPage,
     Resource!refetch, Resource!openAction, Resource!openEditor, Resource!onClose,
     Resource!OthersAct

(* A read that is under way is one.                                        *)
LEMMA ReadIsSome == ASSUME NEW x \in Fetches PROVE x # NULL
BY NullAssumption DEF Fetches, Pages, Resource!Reading, Resource!Page, Resource!Item

(* A list that is read from the start tells nothing yet.                   *)
LEMMA StartedAgain ==
  ASSUME NEW q \in Lists, NEW e \in BOOLEAN, NEW O, NEW isCut
  PROVE  LET n == [q EXCEPT !.fetch = Resource!Fetch("all"), !.error = e]
         IN  RowsOwn(n, O, isCut) /\ n.fetch # NULL
<1> DEFINE n == [q EXCEPT !.fetch = Resource!Fetch("all"), !.error = e]
<1>1. /\ Resource!Fetch("all") \in Fetches
      /\ Resource!Fetch("all").kind = "all" /\ Len(Resource!Fetch("all").got) = 0
  BY DEF Resource!Fetch, Fetches
<1>2. n.fetch = Resource!Fetch("all")
  BY <1>1 DEF Lists
<1>3. Resource!Fetch("all") # NULL
  BY <1>1, ReadIsSome
<1> QED BY <1>1, <1>2, <1>3 DEF RowsOwn, Tells

(* A list that comes on screen.                                            *)
LEMMA ObservedOwn ==
  ASSUME NEW q \in Lists, NEW O, NEW isCut, RowsOwn(q, O, isCut)
  PROVE  LET n == Resource!Observe(q)
         IN  RowsOwn(n, O, isCut) /\ (n.fetch = NULL => ~n.invalidated)
<1>1. (q.error /\ q.pages # <<>>) \in BOOLEAN
  OBVIOUS
<1> QED BY <1>1, StartedAgain DEF Resource!Observe

(* The next page is asked for: unless this cuts a read short, or follows   *)
(* one that failed, the pages that are loaded tell.                        *)
LEMMA NextAsked ==
  ASSUME NEW q \in Lists, NEW O, NEW isCut, RowsOwn(q, O, isCut),
         (q.fetch = NULL /\ q.invalidated) => q.error
  PROVE  LET n == [q EXCEPT !.fetch = Resource!Fetch("next")]
         IN  RowsOwn(n, O, isCut \/ q.fetch # NULL \/ q.error) /\ n.fetch # NULL
<1> DEFINE n == [q EXCEPT !.fetch = Resource!Fetch("next")]
<1>1. /\ Resource!Fetch("next") \in Fetches
      /\ Resource!Fetch("next").kind = "next" /\ Len(Resource!Fetch("next").got) = 0
  BY DEF Resource!Fetch, Fetches
<1>2. n.fetch = Resource!Fetch("next") /\ n.pages = q.pages
  BY <1>1 DEF Lists
<1>3. Resource!Fetch("next") # NULL
  BY <1>1, ReadIsSome
<1> QED BY <1>1, <1>2, <1>3 DEF RowsOwn, Tells

(* A page that the server gives.                                           *)
LEMMA GivenOwn ==
  ASSUME NEW q \in Lists, NEW O, NEW isCut, RowsOwn(q, O, isCut), q.fetch # NULL,
         NEW p \in Pages, \A i \in p.items : i.id \in O => i.done
  PROVE  LET n == [q EXCEPT !.fetch.got = Append(@, p)]
         IN  RowsOwn(n, O, isCut) /\ n.fetch # NULL
<1> DEFINE g == [q.fetch EXCEPT !.got = Append(q.fetch.got, p)]
           n == [q EXCEPT !.fetch.got = Append(@, p)]
<1>1. q.fetch \in Fetches /\ q.fetch.got \in Seq(Pages)
  BY DEF Lists, Fetches
<1>2. g \in Fetches /\ g.kind = q.fetch.kind /\ g.got = Append(q.fetch.got, p)
  BY <1>1 DEF Fetches
<1>3. n = [q EXCEPT !.fetch = g]
  BY DEF Lists
<1> HIDE DEF g
<1>4. n.fetch = g /\ n.pages = q.pages
  BY <1>3 DEF Lists
<1>5. g # NULL
  BY <1>2, ReadIsSome
<1>6. Tells(g.got, O)
  <2>1. Tells(q.fetch.got, O)
    BY DEF RowsOwn
  <2> SUFFICES ASSUME NEW k \in 1..Len(g.got)
               PROVE  \A i \in g.got[k].items : i.id \in O => i.done
    BY DEF Tells
  <2>2. \/ k \in 1..Len(q.fetch.got) /\ g.got[k] = q.fetch.got[k]
        \/ g.got[k] = p
    BY <1>1, <1>2
  <2> QED BY <2>1, <2>2 DEF Tells
<1> HIDE DEF n
<1>7. RowsOwn(n, O, isCut)
  BY <1>2, <1>4, <1>5, <1>6 DEF RowsOwn
<1> QED BY <1>4, <1>5, <1>7 DEF n

(* A read is answered.                                                     *)
LEMMA AnsweredOwn ==
  ASSUME NEW q \in Lists, NEW O, NEW isCut, RowsOwn(q, O, isCut), q.fetch # NULL
  PROVE  /\ RowsOwn(AnswerOf(q), O, isCut /\ q.fetch.kind # "all")
         /\ AnswerOf(q).fetch = NULL /\ ~AnswerOf(q).invalidated
<1>1. /\ q.fetch \in Fetches /\ q.fetch.got \in Seq(Pages) /\ q.pages \in Seq(Pages)
      /\ q.fetch.kind \in {"all", "next"} /\ Tells(q.fetch.got, O)
  BY DEF Lists, Fetches, RowsOwn
<1>2. CASE q.fetch.kind = "all"
  BY <1>1, <1>2 DEF AnswerOf, RowsOwn
<1>3. CASE q.fetch.kind = "next"
  <2>1. ASSUME ~isCut
        PROVE  Tells(q.pages \o q.fetch.got, O)
    <3>1. Tells(q.pages, O)
      BY <1>3, <2>1 DEF RowsOwn
    <3> SUFFICES ASSUME NEW k \in 1..Len(q.pages \o q.fetch.got)
                 PROVE  \A i \in (q.pages \o q.fetch.got)[k].items : i.id \in O => i.done
      BY DEF Tells
    <3>2. \/ k \in 1..Len(q.pages) /\ (q.pages \o q.fetch.got)[k] = q.pages[k]
          \/ /\ k - Len(q.pages) \in 1..Len(q.fetch.got)
             /\ (q.pages \o q.fetch.got)[k] = q.fetch.got[k - Len(q.pages)]
      <4> DEFINE s == q.pages
                 t == q.fetch.got
      <4>1. s \in Seq(Pages) /\ t \in Seq(Pages) /\ k \in 1..Len(s \o t)
        BY <1>1
      <4> HIDE DEF s, t
      <4>2. /\ Len(s) \in Nat /\ Len(t) \in Nat /\ k \in Nat
            /\ Len(s \o t) = Len(s) + Len(t)
            /\ (s \o t)[k] = IF k <= Len(s) THEN s[k] ELSE t[k - Len(s)]
        BY <4>1
      <4>3. \/ k \in 1..Len(s)
            \/ k - Len(s) \in 1..Len(t) /\ k > Len(s)
        BY <4>1, <4>2
      <4>4. \/ k \in 1..Len(s) /\ (s \o t)[k] = s[k]
            \/ k - Len(s) \in 1..Len(t) /\ (s \o t)[k] = t[k - Len(s)]
        BY <4>2, <4>3
      <4> QED BY <4>4 DEF s, t
    <3> QED BY <1>1, <3>1, <3>2 DEF Tells
  <2> QED BY <1>3, <2>1 DEF AnswerOf, RowsOwn
<1> QED BY <1>1, <1>2, <1>3

(* A read that failed.                                                     *)
LEMMA FailedOwn ==
  ASSUME NEW q \in Lists, NEW O, NEW isCut
  PROVE  LET n == [q EXCEPT !.fetch = NULL, !.error = TRUE, !.invalidated = TRUE]
         IN  RowsOwn(n, O, isCut) /\ n.error
BY DEF RowsOwn, Lists

(* Everything is to be read again: what is owed may grow by a row, of the  *)
(* list on screen if it has pages, of another if it is not being read.     *)
LEMMA RefreshOwn ==
  ASSUME NEW q \in Lists, NEW O, NEW O2, NEW isCut, RowsOwn(q, O, isCut),
         NEW active \in BOOLEAN,
         O2 = O \/ (q.pages # <<>> /\ (active \/ q.fetch = NULL))
  PROVE  LET n == Resource!refresh(q, active)
         IN  RowsOwn(n, O2, isCut) /\ (active => n.fetch # NULL)
<1>1. (q.error /\ q.pages # <<>>) \in BOOLEAN
  OBVIOUS
<1>2. CASE active /\ ~(q.fetch # NULL /\ q.pages = <<>>)
  BY <1>1, <1>2, StartedAgain DEF Resource!refresh
<1>3. CASE ~(active /\ ~(q.fetch # NULL /\ q.pages = <<>>))
  <2> DEFINE n == [q EXCEPT !.invalidated = TRUE]
  <2>1. n.invalidated /\ n.fetch = q.fetch /\ n.pages = q.pages
    BY DEF Lists
  <2>2. RowsOwn(n, O2, isCut) /\ (active => n.fetch # NULL)
    BY <1>3, <2>1 DEF RowsOwn
  <2>3. Resource!refresh(q, active) = n
    BY <1>3 DEF Resource!refresh
  <2> QED BY <2>2, <2>3
<1> QED BY <1>2, <1>3

(* The list on screen is at rest only if it is valid or could not be read. *)
Settled(q) == (q.fetch = NULL /\ q.invalidated) => q.error

ListsOwn ==
  /\ \A f \in Resource!Filters : RowsOwn(x3'[f], x8'[f], f \in x9')
  /\ Settled(x3'[x2'])

(* A step that moves one list.                                             *)
LEMMA OneListOwn ==
  ASSUME ResourceInv, ResourceOwn, NEW f \in Resource!Filters, NEW q,
         x3' = [x3 EXCEPT ![f] = q], x8' = x8, x2' \in {x2, f},
         \A g \in Resource!Filters : g # f => (g \in x9' <=> g \in x9),
         RowsOwn(q, x8[f], f \in x9'), x2' = f => Settled(q)
  PROVE  ListsOwn
<1>1. /\ x2 \in Resource!Filters /\ x3 \in [Resource!Filters -> Lists]
  BY DEF ResourceInv, ResourceTypes
<1>2. \A g \in Resource!Filters : x3'[g] = IF g = f THEN q ELSE x3[g]
  BY <1>1
<1>3. ASSUME NEW g \in Resource!Filters
      PROVE  RowsOwn(x3'[g], x8'[g], g \in x9')
  <2>1. CASE g = f
    BY <1>2, <2>1
  <2>2. CASE g # f
    <3>1. RowsOwn(x3[g], x8[g], g \in x9)
      BY DEF ResourceOwn
    <3> QED BY <1>2, <2>2, <3>1 DEF RowsOwn
  <2> QED BY <2>1, <2>2
<1>4. Settled(x3'[x2'])
  BY <1>1, <1>2 DEF ResourceOwn, Settled
<1> QED BY <1>3, <1>4 DEF ListsOwn

(* The lists, action by action.                                            *)
LEMMA ResourceListsOwn ==
  ASSUME ResourceInv, ResourceOwn, Resource!Next
  PROVE  ListsOwn
<1>1. /\ x2 \in Resource!Filters /\ x3 \in [Resource!Filters -> Lists]
      /\ \A f \in Resource!Filters : /\ x3[f] \in Lists /\ x8[f] \subseteq x1
                                     /\ RowsOwn(x3[f], x8[f], f \in x9)
      /\ Settled(x3[x2])
  BY DEF ResourceInv, ResourceTypes, ResourceOwn, Settled
<1>2. ASSUME UNCHANGED <<x2, x3, x8, x9>> PROVE ListsOwn
  BY <1>1, <1>2 DEF ListsOwn
<1>3. ASSUME NEW f \in Resource!Filters, Resource!setFilters(f)
      PROVE  ListsOwn
  <2> DEFINE q == Resource!Observe(x3[f])
  <2>1. x3' = [x3 EXCEPT ![f] = q] /\ x8' = x8 /\ x9' = x9 /\ x2' = f
    BY <1>3 DEF Resource!setFilters
  <2>2. RowsOwn(q, x8[f], f \in x9) /\ Settled(q)
    BY <1>1, ObservedOwn DEF Settled
  <2> HIDE DEF q
  <2> QED BY <2>1, <2>2, OneListOwn
<1>4. CASE Resource!showNextPage
  <2>1. CASE Resource!hasLoadedNextPage
    BY <1>2, <1>4, <2>1 DEF Resource!showNextPage
  <2>2. CASE ~Resource!hasLoadedNextPage
    <3> DEFINE q == [x3[x2] EXCEPT !.fetch = Resource!Fetch("next")]
    <3>1. /\ x3' = [x3 EXCEPT ![x2] = q] /\ x8' = x8 /\ x2' = x2
          /\ x9' = IF x3[x2].fetch # NULL \/ x3[x2].error THEN x9 \cup {x2} ELSE x9
      BY <1>1, <1>4, <2>2
         DEF Resource!showNextPage, Resource!list, Resource!isFetching
    <3>2. /\ RowsOwn(q, x8[x2], x2 \in x9 \/ x3[x2].fetch # NULL \/ x3[x2].error)
          /\ q.fetch # NULL
      BY <1>1, NextAsked DEF Settled
    <3>3. (x2 \in x9 \/ x3[x2].fetch # NULL \/ x3[x2].error) => x2 \in x9'
      BY <3>1
    <3> HIDE DEF q
    <3>4. RowsOwn(q, x8[x2], x2 \in x9') /\ Settled(q)
      BY <3>2, <3>3 DEF RowsOwn, Settled
    <3> QED BY <1>1, <3>1, <3>4, OneListOwn
  <2> QED BY <2>1, <2>2
<1>5. CASE Resource!refetch
  <2> DEFINE e == x3[x2].error /\ x3[x2].pages # <<>>
             q == [x3[x2] EXCEPT !.fetch = Resource!Fetch("all"), !.error = e]
  <2>1. x3' = [x3 EXCEPT ![x2] = q] /\ UNCHANGED <<x2, x8, x9>>
    BY <1>1, <1>5 DEF Resource!refetch, Resource!list
  <2>2. e \in BOOLEAN
    OBVIOUS
  <2> HIDE DEF e
  <2>3. RowsOwn(q, x8[x2], x2 \in x9) /\ Settled(q)
    BY <1>1, <2>2, StartedAgain DEF Settled
  <2> HIDE DEF q
  <2> QED BY <1>1, <2>1, <2>3, OneListOwn
<1>6. ASSUME NEW f \in Resource!Filters, Resource!PageRead(f)
      PROVE  ListsOwn
  <2> DEFINE p == Resource!listAdminResources(f, Resource!Cursor(x3[f]))
  <2>1. p \in Pages /\ \A i \in p.items : i.id \in x8[f] => i.done
    BY <1>1, PageIsRead
  <2>2. /\ x3' = [x3 EXCEPT ![f].fetch.got = Append(@, p)]
        /\ UNCHANGED <<x2, x8, x9>> /\ x3[f].fetch # NULL
    BY <1>6 DEF Resource!PageRead
  <2> HIDE DEF p
  <2> DEFINE q == [x3[f] EXCEPT !.fetch.got = Append(@, p)]
  <2>3. x3' = [x3 EXCEPT ![f] = q]
    BY <1>1, <2>2
  <2>4. RowsOwn(q, x8[f], f \in x9) /\ Settled(q)
    BY <1>1, <2>1, <2>2, GivenOwn DEF Settled
  <2> HIDE DEF q
  <2> QED BY <2>2, <2>3, <2>4, OneListOwn
<1>7. ASSUME NEW f \in Resource!Filters, Resource!Answered(f)
      PROVE  ListsOwn
  <2> DEFINE q == AnswerOf(x3[f])
  <2>1. /\ x3' = [x3 EXCEPT ![f] = q] /\ UNCHANGED <<x2, x8>> /\ x3[f].fetch # NULL
        /\ x9' = IF x3[f].fetch.kind = "all" THEN x9 \ {f} ELSE x9
    BY <1>1, <1>7 DEF Resource!Answered, AnswerOf
  <2>2. RowsOwn(q, x8[f], f \in x9 /\ x3[f].fetch.kind # "all") /\ Settled(q)
    BY <1>1, <2>1, AnsweredOwn DEF Settled
  <2>3. f \in x9' <=> (f \in x9 /\ x3[f].fetch.kind # "all")
    BY <2>1
  <2> HIDE DEF q
  <2>4. RowsOwn(q, x8[f], f \in x9')
    BY <2>2, <2>3 DEF RowsOwn
  <2>5. x2' \in {x2, f} /\ \A g \in Resource!Filters : g # f => (g \in x9' <=> g \in x9)
    BY <2>1
  <2> QED BY <2>1, <2>2, <2>4, <2>5, OneListOwn
<1>8. ASSUME NEW f \in Resource!Filters, Resource!ReadFails(f)
      PROVE  ListsOwn
  <2> DEFINE q == [x3[f] EXCEPT !.fetch = NULL, !.error = TRUE, !.invalidated = TRUE]
  <2>1. x3' = [x3 EXCEPT ![f] = q] /\ UNCHANGED <<x2, x8, x9>>
    BY <1>1, <1>8 DEF Resource!ReadFails
  <2>2. RowsOwn(q, x8[f], f \in x9) /\ Settled(q)
    BY <1>1, FailedOwn DEF Settled
  <2> HIDE DEF q
  <2> QED BY <2>1, <2>2, OneListOwn
<1>9. CASE Resource!onSuccess
  <2>1. /\ x3' = [f \in Resource!Filters |-> Resource!refresh(x3[f], f = x2)]
        /\ UNCHANGED <<x2, x9>>
        /\ x8' = [f \in Resource!Filters |->
             IF x7.dialog.kind = "action" /\ x3[f].pages # <<>> /\ (f = x2 \/ x3[f].fetch = NULL)
             THEN x8[f] \cup {x7.dialog.row.id} ELSE x8[f]]
    BY <1>9 DEF Resource!onSuccess
  <2>2. ASSUME NEW f \in Resource!Filters
        PROVE  /\ RowsOwn(x3'[f], x8'[f], f \in x9')
               /\ f = x2 => x3'[f].fetch # NULL
    <3>1. x8'[f] = x8[f] \/ (x3[f].pages # <<>> /\ (f = x2 \/ x3[f].fetch = NULL))
      BY <2>1
    <3> DEFINE active == f = x2
    <3>2. active \in BOOLEAN /\ x3'[f] = Resource!refresh(x3[f], active) /\ x9' = x9
      BY <2>1
    <3>3. x8'[f] = x8[f] \/ (x3[f].pages # <<>> /\ (active \/ x3[f].fetch = NULL))
      BY <3>1
    <3> HIDE DEF active
    <3>4. RowsOwn(x3'[f], x8'[f], f \in x9) /\ (active => x3'[f].fetch # NULL)
      BY <1>1, <3>2, <3>3, RefreshOwn
    <3> QED BY <3>2, <3>4 DEF active
  <2> QED BY <1>1, <2>1, <2>2 DEF ListsOwn, Settled
<1>10. CASE \/ Resource!showPreviousPage \/ Resource!openAction
            \/ Resource!openEditor \/ Resource!onClose \/ Resource!submit
            \/ Resource!mutateAdminResource \/ Resource!onError \/ Resource!OthersAct
  <2>1. UNCHANGED <<x2, x3, x8, x9>>
    BY <1>10 DEF Resource!showPreviousPage, Resource!openAction,
       Resource!openEditor, Resource!open, Resource!onClose, Resource!submit,
       Resource!mutateAdminResource, Resource!onError, Resource!OthersAct
  <2> QED BY <1>2, <2>1
<1> QED
  BY <1>3, <1>4, <1>5, <1>6, <1>7, <1>8, <1>9, <1>10 DEF Resource!Next

(* A step of the console keeps what was done from here.                    *)
LEMMA ResourceOwnStep ==
  ASSUME ResourceInv, ResourceOwn, Resource!Next
  PROVE  ResourceOwn'
<1>1. /\ x1 \subseteq x1'
      /\ \A f \in Resource!Filters : x8'[f] \subseteq x1'
      /\ (x7'.state = "applied" /\ x7'.dialog.kind = "action") => x7'.dialog.row.id \in x1'
  BY DoneAtServer
<1>2. ListsOwn
  BY ResourceListsOwn
<1> QED BY <1>1, <1>2 DEF ResourceOwn, ListsOwn, Settled

-----------------------------------------------------------------------------
(* The assignments: a page of users that is valid is no older than what    *)
(* was told of each user it has.                                           *)

People == {1, 2}
Searched == {q1, q2}
Firms == {b1, b2}

(* A search: how many users it has, and what is known of them.             *)
Found(s) == IF s.data = NULL THEN 0 ELSE s.data.pages
SearchOk(s) ==
  /\ s = [data |-> s.data, fetch |-> s.fetch, read |-> s.read, error |-> s.error,
          invalidated |-> s.invalidated, torn |-> s.torn]
  /\ s.fetch \in {NULL, "all", "next"} /\ Found(s) \in 0..2
  /\ s.fetch = "next" => Found(s) = 1
  /\ s.fetch = NULL => s.read = NULL

(* What is read, and what is valid, is no older than what was told.        *)
SearchOwn(s, t) ==
  /\ s.read # NULL => \A u \in People : s.read.changed[u] >= t[u]
  /\ (s.data # NULL /\ s.fetch # "all" /\ ~s.invalidated /\ ~s.torn)
       => \A u \in 1..Found(s) : s.data.changed[u] >= t[u]

ServerOk ==
  /\ x1 = [of |-> x1.of, changed |-> x1.changed, active |-> x1.active]
  /\ x1.of \in [People -> Firms \cup {NULL}] /\ x1.changed \in [People -> Nat]
  /\ x1.active \subseteq Firms

FirmsOk ==
  /\ x2 = [data |-> x2.data, fetch |-> x2.fetch, read |-> x2.read, error |-> x2.error]
  /\ x2.data # NULL => x2.data \subseteq Firms
  /\ x2.read # NULL => x2.read \subseteq Firms

Told ==
  /\ x9 \in [Searched -> [People -> Nat]]
  /\ \A q \in Searched, u \in People : x9[q][u] <= x1.changed[u]

SearchesOk ==
  /\ x3 = [q \in Searched |-> x3[q]]
  /\ \A q \in Searched : SearchOk(x3[q]) /\ SearchOwn(x3[q], x9[q])

(* The search on screen is at rest only if it is valid or has failed.      *)
AtRest(s) == (s.fetch = NULL /\ s.invalidated) => s.error # NULL

PickerOk ==
  /\ x5 = [submittedQuery |-> x5.submittedQuery, key |-> x5.key, index |-> x5.index]
  /\ x5.submittedQuery \in Searched \cup {NULL} /\ x5.index \in 0..1 /\ x6 \in Nat
  /\ x7 # NULL => x7.pages \in Nat
  /\ x5.submittedQuery # NULL =>
       Assignment!selectedBusiness # NULL /\ AtRest(x3[x5.submittedQuery])

(* An assignment, and how late it is known to be once it is done.          *)
RunIs(a) ==
  /\ a = [user |-> a.user, business |-> a.business, mount |-> a.mount,
          state |-> a.state, changed |-> a.changed, id |-> a.id]
  /\ a.user \in People /\ a.business \in Firms /\ a.changed \in Nat

RunOk(a) == RunIs(a) /\ (a.state = "ok" => a.changed <= x1.changed[a.user])

RunsOk ==
  /\ \A a \in x8 : RunOk(a) /\ a.mount \in 0..x6
  /\ \A a, b \in x8 : a.mount = b.mount => a = b

AssignmentInv ==
  ServerOk /\ FirmsOk /\ Told /\ SearchesOk /\ PickerOk /\ RunsOk

(* The page on screen is one there is.                                     *)
LEMMA CandidateIs ==
  ASSUME AssignmentInv, x5.submittedQuery # NULL
  PROVE  /\ Assignment!pages(x5.submittedQuery) = Found(x3[x5.submittedQuery])
         /\ Found(x3[x5.submittedQuery]) \in 0..2
         /\ Assignment!currentPageIndex \in 0..1
         /\ Found(x3[x5.submittedQuery]) > 0 =>
              Assignment!candidate \in 1..Found(x3[x5.submittedQuery])
<1> DEFINE n == Found(x3[x5.submittedQuery])
<1>1. n \in 0..2 /\ x5.index \in 0..1
  BY DEF AssignmentInv, PickerOk, SearchesOk, SearchOk
<1>2. Assignment!pages(x5.submittedQuery) = n
  BY DEF Assignment!pages, Found
<1> HIDE DEF n
<1>3. /\ Assignment!currentPageIndex \in 0..1
      /\ n > 0 => Assignment!currentPageIndex < n
  BY <1>1, <1>2 DEF Assignment!currentPageIndex, Assignment!submittedQuery
<1>4. n > 0 => Assignment!candidate \in 1..n
  BY <1>1, <1>3 DEF Assignment!candidate
<1> QED BY <1>1, <1>2, <1>3, <1>4 DEF n

(* There are two users.                                                    *)
LEMMA TwoPeople == Assignment!Cardinality(People) = 2
<1> DEFINE n == 2
<1>1. n \in Int /\ 1 \in Int /\ 1 <= n /\ n - 1 + 1 = n /\ People = 1..n
  BY DEF People
<1> HIDE DEF n
<1>2. Cardinality(1..n) = n - 1 + 1
  BY <1>1, FS_Interval
<1> QED BY <1>1, <1>2 DEF Assignment!Cardinality, Cardinality, n

(* What the invariant says of the picker as it is shown.                   *)
LEMMA AssignmentHolds ==
  ASSUME AssignmentInv
  PROVE  Assignment!TypeOK /\ Assignment!OwnAssignmentIsSeen
<1>1. \A q \in Searched : Assignment!pages(q) <= 2
  BY DEF AssignmentInv, SearchesOk, SearchOk, Assignment!pages, Found
<1>2. Assignment!Cardinality(People) = 2
  BY TwoPeople
<1>3. Assignment!Cardinality({a \in x8 : a.mount = x6}) <= 1
  <2> DEFINE S == {a \in x8 : a.mount = x6}
  <2>1. \A a, b \in S : a = b
    BY DEF AssignmentInv, RunsOk
  <2>2. S = {} \/ \E a : S = {a}
    BY <2>1
  <2>3. Cardinality(S) <= 1
    <3> HIDE DEF S
    <3> QED BY <2>2, FS_EmptySet, FS_Singleton
  <2> QED BY <2>3 DEF Assignment!Cardinality, Cardinality
<1>4. Assignment!TypeOK
  BY <1>1, <1>2, <1>3 DEF Assignment!TypeOK, AssignmentInv, ServerOk, PickerOk,
     People, Firms, Searched
<1>5. Assignment!OwnAssignmentIsSeen
  <2> SUFFICES ASSUME Assignment!Settled, ~Assignment!current.torn
               PROVE  Assignment!current.data.changed[Assignment!candidate]
                        >= x9[x5.submittedQuery][Assignment!candidate]
    BY DEF Assignment!OwnAssignmentIsSeen, Assignment!submittedQuery
  <2> DEFINE q == x5.submittedQuery
  <2>1. /\ q # NULL /\ q \in Searched /\ Assignment!current = x3[q] /\ AtRest(x3[q])
        /\ SearchOwn(x3[q], x9[q])
    BY DEF Assignment!Settled, Assignment!searching, Assignment!submittedQuery,
       Assignment!current, AssignmentInv, PickerOk, SearchesOk
  <2>2. /\ Found(x3[q]) > 0 /\ x3[q].fetch = NULL /\ x3[q].error = NULL
        /\ Assignment!candidate \in 1..Found(x3[q])
    BY <2>1, CandidateIs DEF Assignment!Settled, Assignment!submittedQuery
  <2>3. x3[q].data # NULL
    BY <2>2 DEF Found
  <2>4. "all" # NULL
    BY NullAssumption
  <2> QED BY <2>1, <2>2, <2>3, <2>4 DEF AtRest, SearchOwn
<1> QED BY <1>4, <1>5

(* The console as it is opened.                                            *)
LEMMA AssignmentInit ==
  ASSUME Assignment!Init
  PROVE  AssignmentInv
<1> USE DEF Assignment!Init
<1>1. ServerOk /\ FirmsOk /\ Told
  BY DEF ServerOk, FirmsOk, Told, People, Firms, Searched
<1>2. SearchesOk
  <2>1. ASSUME NEW q \in Searched
        PROVE  SearchOk(x3[q]) /\ SearchOwn(x3[q], x9[q])
    <3> DEFINE n == [data |-> NULL, fetch |-> NULL, read |-> NULL, error |-> NULL,
                     invalidated |-> FALSE, torn |-> FALSE]
    <3>1. x3[q] = n
      BY <2>1 DEF Searched
    <3>2. "next" # NULL
      BY NullAssumption
    <3>3. /\ n.data = NULL /\ n.fetch = NULL /\ n.read = NULL
          /\ n = [data |-> n.data, fetch |-> n.fetch, read |-> n.read, error |-> n.error,
                  invalidated |-> n.invalidated, torn |-> n.torn]
      OBVIOUS
    <3> HIDE DEF n
    <3>4. Found(n) = 0
      BY <3>3 DEF Found
    <3>5. SearchOk(n)
      BY <3>2, <3>3, <3>4 DEF SearchOk
    <3>6. SearchOwn(n, x9[q])
      BY <3>3 DEF SearchOwn
    <3> QED BY <3>1, <3>5, <3>6
  <2> QED BY <2>1 DEF SearchesOk, Searched
<1>3. PickerOk
  BY DEF PickerOk, Assignment!NoSearch
<1>4. RunsOk
  BY DEF RunsOk
<1> QED BY <1>1, <1>2, <1>3, <1>4 DEF AssignmentInv

(* A read of everything, from the start, of what has something to show.    *)
LEMMA AskedSearch ==
  ASSUME NEW s, SearchOk(s)
  PROVE  LET n == Assignment!Ask(s)
         IN  /\ SearchOk(n) /\ n.fetch # NULL
             /\ \A t : SearchOwn(s, t) => SearchOwn(n, t)
             /\ (s.data # NULL \/ s.fetch = NULL) => \A t : SearchOwn(n, t)
<1> DEFINE e == IF s.error = NULL \/ s.data = NULL THEN NULL ELSE "all"
           n1 == [s EXCEPT !.fetch = "all"]
           n2 == [n1 EXCEPT !.read = NULL]
           n == [n2 EXCEPT !.error = e]
<1>0. "all" # NULL
  BY NullAssumption
<1>1. CASE s.data = NULL /\ s.fetch # NULL
  BY <1>1 DEF Assignment!Ask
<1>2. CASE ~(s.data = NULL /\ s.fetch # NULL)
  <2>1. Assignment!Ask(s) = n
    BY <1>2 DEF Assignment!Ask
  <2>2. n1 = [data |-> s.data, fetch |-> "all", read |-> s.read, error |-> s.error,
              invalidated |-> s.invalidated, torn |-> s.torn]
    BY DEF SearchOk
  <2> HIDE DEF n1, e
  <2>3. n2 = [data |-> s.data, fetch |-> "all", read |-> NULL, error |-> s.error,
              invalidated |-> s.invalidated, torn |-> s.torn]
    BY <2>2
  <2> HIDE DEF n2
  <2>4. n = [data |-> s.data, fetch |-> "all", read |-> NULL, error |-> e,
             invalidated |-> s.invalidated, torn |-> s.torn]
    BY <2>3
  <2> HIDE DEF n
  <2>5. n.data = s.data /\ n.fetch = "all" /\ n.read = NULL /\ n.error = e
        /\ n.invalidated = s.invalidated /\ n.torn = s.torn
    BY <2>4
  <2>6. Found(n) = Found(s)
    BY <2>5 DEF Found
  <2> QED BY <1>0, <2>1, <2>4, <2>5, <2>6 DEF SearchOk, SearchOwn
<1> QED BY <1>1, <1>2

(* The same of the businesses.                                             *)
LEMMA AskedFirms ==
  ASSUME FirmsOk, x2' = Assignment!Ask(x2)
  PROVE  FirmsOk' /\ x2'.data = x2.data
<1> DEFINE e == IF x2.error = NULL \/ x2.data = NULL THEN NULL ELSE "all"
           n1 == [x2 EXCEPT !.fetch = "all"]
           n2 == [n1 EXCEPT !.read = NULL]
           n == [n2 EXCEPT !.error = e]
<1>1. x2' = x2 \/ x2' = n
  BY DEF Assignment!Ask
<1>2. n1 = [data |-> x2.data, fetch |-> "all", read |-> x2.read, error |-> x2.error]
  BY DEF FirmsOk
<1> HIDE DEF n1, e
<1>3. n2 = [data |-> x2.data, fetch |-> "all", read |-> NULL, error |-> x2.error]
  BY <1>2
<1> HIDE DEF n2
<1>4. n = [data |-> x2.data, fetch |-> "all", read |-> NULL, error |-> e]
  BY <1>3
<1> HIDE DEF n
<1> QED BY <1>1, <1>4 DEF FirmsOk

(* A step that moves one search.                                           *)
LEMMA OneSearch ==
  ASSUME AssignmentInv, NEW q \in Searched, NEW n, SearchOk(n), SearchOwn(n, x9[q]),
         x3' = [x3 EXCEPT ![q] = n], x9' = x9
  PROVE  /\ SearchesOk'
         /\ \A p \in Searched : x3'[p] = IF p = q THEN n ELSE x3[p]
<1>1. \A p \in Searched : x3'[p] = IF p = q THEN n ELSE x3[p]
  BY DEF AssignmentInv, SearchesOk
<1>2. x3' = [p \in Searched |-> x3'[p]]
  BY <1>1 DEF AssignmentInv, SearchesOk
<1>3. \A p \in Searched : SearchOk(x3'[p]) /\ SearchOwn(x3'[p], x9[p])
  BY <1>1 DEF AssignmentInv, SearchesOk
<1> QED BY <1>1, <1>2, <1>3 DEF SearchesOk

(* The list of the businesses: it is read, and one is chosen.              *)
LEMMA FirmsStep ==
  ASSUME AssignmentInv,
         \/ Assignment!ListRead \/ Assignment!ListAnswered \/ Assignment!ListFails
         \/ Assignment!refetchList \/ \E b \in Firms : Assignment!selectBusiness(b)
  PROVE  AssignmentInv'
<1>0. ServerOk /\ FirmsOk /\ Told /\ SearchesOk /\ PickerOk /\ RunsOk
  BY DEF AssignmentInv
<1>1. UNCHANGED <<x1, x3, x7, x8, x9>>
  BY DEF Assignment!ListRead, Assignment!ListAnswered, Assignment!ListFails,
     Assignment!refetchList, Assignment!selectBusiness
<1>2. ServerOk' /\ Told' /\ SearchesOk'
  BY <1>0, <1>1 DEF ServerOk, Told, SearchesOk
<1>3. ASSUME FirmsOk', UNCHANGED <<x5, x6>>, Assignment!selectedBusiness' = Assignment!selectedBusiness
      PROVE  AssignmentInv'
  BY <1>0, <1>1, <1>2, <1>3 DEF AssignmentInv, PickerOk, RunsOk, RunOk, RunIs
<1>4. ASSUME FirmsOk', Assignment!NewPicker
      PROVE  AssignmentInv'
  <2>1. x5' = [submittedQuery |-> NULL, key |-> NULL, index |-> 0] /\ x6' = x6 + 1
    BY <1>4 DEF Assignment!NewPicker, Assignment!NoSearch
  <2>2. PickerOk'
    BY <1>0, <1>1, <2>1 DEF PickerOk
  <2>3. RunsOk'
    BY <1>0, <1>1, <2>1 DEF RunsOk, RunOk, RunIs, PickerOk
  <2> QED BY <1>2, <1>4, <2>2, <2>3 DEF AssignmentInv
<1>5. CASE Assignment!ListRead
  <2>1. x2' = [x2 EXCEPT !.read = x1.active] /\ UNCHANGED <<x4, x5, x6>>
    BY <1>5 DEF Assignment!ListRead
  <2>2. x2' = [data |-> x2.data, fetch |-> x2.fetch, read |-> x1.active, error |-> x2.error]
    BY <1>0, <2>1 DEF FirmsOk
  <2>3. FirmsOk' /\ x2'.data = x2.data
    BY <1>0, <2>2 DEF FirmsOk, ServerOk
  <2> QED BY <1>3, <2>1, <2>3 DEF Assignment!selectedBusiness
<1>6. CASE Assignment!ListAnswered
  <2>1. /\ x2' = [data |-> x2.read, fetch |-> NULL, read |-> NULL, error |-> NULL] /\ x4' = x4
        /\ x2.read # NULL
        /\ IF Assignment!selectedBusiness # IF x4 \in x2.read THEN x4 ELSE NULL
           THEN Assignment!NewPicker ELSE UNCHANGED <<x5, x6>>
    BY <1>6 DEF Assignment!ListAnswered
  <2>2. FirmsOk' /\ x2'.data = x2.read
    BY <1>0, <2>1 DEF FirmsOk
  <2>3. Assignment!selectedBusiness' = IF x4 \in x2.read THEN x4 ELSE NULL
    BY <2>1, <2>2 DEF Assignment!selectedBusiness
  <2> QED BY <1>3, <1>4, <2>1, <2>2, <2>3
<1>7. CASE Assignment!ListFails
  <2> DEFINE n1 == [x2 EXCEPT !.fetch = NULL]
             n2 == [n1 EXCEPT !.read = NULL]
             n == [n2 EXCEPT !.error = "all"]
  <2>1. x2' = n /\ UNCHANGED <<x4, x5, x6>>
    BY <1>7 DEF Assignment!ListFails
  <2>2. n1 = [data |-> x2.data, fetch |-> NULL, read |-> x2.read, error |-> x2.error]
    BY <1>0 DEF FirmsOk
  <2> HIDE DEF n1
  <2>3. n2 = [data |-> x2.data, fetch |-> NULL, read |-> NULL, error |-> x2.error]
    BY <2>2
  <2> HIDE DEF n2
  <2>4. n = [data |-> x2.data, fetch |-> NULL, read |-> NULL, error |-> "all"]
    BY <2>3
  <2> HIDE DEF n
  <2>5. FirmsOk' /\ x2'.data = x2.data
    BY <1>0, <2>1, <2>4 DEF FirmsOk
  <2> QED BY <1>3, <2>1, <2>5 DEF Assignment!selectedBusiness
<1>8. CASE Assignment!refetchList
  <2>1. x2' = Assignment!Ask(x2) /\ UNCHANGED <<x4, x5, x6>>
    BY <1>8 DEF Assignment!refetchList
  <2>2. FirmsOk' /\ x2'.data = x2.data
    BY <1>0, <2>1, AskedFirms
  <2> QED BY <1>3, <2>1, <2>2 DEF Assignment!selectedBusiness
<1>9. ASSUME NEW b \in Firms, Assignment!selectBusiness(b)
      PROVE  AssignmentInv'
  <2>1. x2' = x2 /\ Assignment!NewPicker
    BY <1>9 DEF Assignment!selectBusiness
  <2>2. FirmsOk'
    BY <1>0, <2>1 DEF FirmsOk
  <2> QED BY <1>4, <2>1, <2>2
<1> QED BY <1>5, <1>6, <1>7, <1>8, <1>9

(* What the picker shows moves within what is searched for.                *)
LEMMA PickerKept ==
  ASSUME PickerOk, UNCHANGED <<x2, x4, x6>>, x7' # NULL => x7'.pages \in Nat,
         NEW k, NEW i \in 0..1,
         x5' = x5 \/ x5' = [submittedQuery |-> x5.submittedQuery, key |-> k, index |-> i],
         x5.submittedQuery # NULL => AtRest(x3'[x5.submittedQuery])
  PROVE  PickerOk'
<1>1. Assignment!selectedBusiness' = Assignment!selectedBusiness
  BY DEF Assignment!selectedBusiness
<1>2. /\ x5'.submittedQuery = x5.submittedQuery /\ x5'.index \in 0..1
      /\ x5' = [submittedQuery |-> x5'.submittedQuery, key |-> x5'.key, index |-> x5'.index]
  <2>1. CASE x5' = x5
    BY <2>1 DEF PickerOk
  <2>2. CASE x5' = [submittedQuery |-> x5.submittedQuery, key |-> k, index |-> i]
    BY <2>2
  <2> QED BY <2>1, <2>2
<1> QED BY <1>1, <1>2 DEF PickerOk

(* A step that moves one search, of a picker that stays.                   *)
LEMMA SearchMoves ==
  ASSUME AssignmentInv, NEW q \in Searched, NEW n, SearchOk(n), SearchOwn(n, x9[q]), AtRest(n),
         x3' = [x3 EXCEPT ![q] = n], UNCHANGED <<x1, x2, x4, x6, x8, x9>>,
         NEW k, NEW i \in 0..1,
         x5' = x5 \/ x5' = [submittedQuery |-> x5.submittedQuery, key |-> k, index |-> i],
         x7' # NULL => x7'.pages \in Nat
  PROVE  AssignmentInv'
<1>1. SearchesOk' /\ \A p \in Searched : x3'[p] = IF p = q THEN n ELSE x3[p]
  BY OneSearch
<1>2. x5.submittedQuery # NULL => AtRest(x3'[x5.submittedQuery])
  BY <1>1 DEF AssignmentInv, PickerOk
<1>3. PickerOk'
  BY <1>2, PickerKept DEF AssignmentInv
<1> QED BY <1>1, <1>3 DEF AssignmentInv, ServerOk, FirmsOk, Told, RunsOk, RunOk, RunIs

(* Searches that are submitted.                                            *)
LEMMA SubmitStep ==
  ASSUME AssignmentInv, NEW q \in Searched, Assignment!submitSearch(q)
  PROVE  AssignmentInv'
<1> DEFINE s == x3[q]
<1>1. ServerOk /\ FirmsOk /\ Told /\ SearchesOk /\ PickerOk /\ RunsOk
  BY DEF AssignmentInv
<1>2. /\ UNCHANGED <<x1, x2, x4, x6, x7, x8, x9>> /\ Assignment!selectedBusiness # NULL
      /\ x5' = [x5 EXCEPT !.submittedQuery = q]
      /\ \/ x3' = [x3 EXCEPT ![q] = Assignment!Ask(s)]
         \/ x3' = x3 /\ (s.fetch = NULL => ~s.invalidated)
  BY DEF Assignment!submitSearch
<1>3. SearchesOk' /\ AtRest(x3'[q])
  <2>1. CASE x3' = [x3 EXCEPT ![q] = Assignment!Ask(s)]
    <3> DEFINE n == Assignment!Ask(s)
    <3>1. SearchOk(n) /\ n.fetch # NULL /\ SearchOwn(n, x9[q])
      BY <1>1, AskedSearch DEF SearchesOk
    <3> HIDE DEF n
    <3>2. SearchesOk' /\ x3'[q] = n
      <4>1. x3' = [x3 EXCEPT ![q] = n] /\ x9' = x9
        BY <1>2, <2>1 DEF n
      <4>2. SearchesOk' /\ \A p \in Searched : x3'[p] = IF p = q THEN n ELSE x3[p]
        BY <3>1, <4>1, OneSearch
      <4> QED BY <4>2
    <3> QED BY <3>1, <3>2 DEF AtRest
  <2>2. CASE x3' = x3 /\ (s.fetch = NULL => ~s.invalidated)
    BY <1>1, <1>2, <2>2 DEF SearchesOk, AtRest
  <2> QED BY <1>2, <2>1, <2>2
<1>4. x5' = [submittedQuery |-> q, key |-> x5.key, index |-> x5.index]
  BY <1>1, <1>2 DEF PickerOk
<1>5. Assignment!selectedBusiness' # NULL
  BY <1>2 DEF Assignment!selectedBusiness
<1>6. PickerOk'
  BY <1>1, <1>2, <1>3, <1>4, <1>5 DEF PickerOk
<1> QED BY <1>1, <1>2, <1>3, <1>6 DEF AssignmentInv, ServerOk, FirmsOk, Told, RunsOk, RunOk, RunIs

(* A read of a search: what it reads is as late as anything told.          *)
LEMMA SearchReadStep ==
  ASSUME AssignmentInv, NEW q \in Searched, Assignment!SearchRead(q)
  PROVE  AssignmentInv'
<1> DEFINE s == x3[q]
           r == [of |-> x1.of, changed |-> x1.changed]
           n == [s EXCEPT !.read = r]
<1>1. /\ SearchOk(s) /\ SearchOwn(s, x9[q])
      /\ x7 # NULL => x7.pages \in Nat
      /\ x9[q] \in [People -> Nat] /\ x1.changed \in [People -> Nat]
      /\ \A u \in People : x1.changed[u] >= x9[q][u]
  BY DEF AssignmentInv, SearchesOk, PickerOk, Told, ServerOk
<1>2. /\ x3' = [x3 EXCEPT ![q] = n] /\ UNCHANGED <<x1, x2, x4, x5, x6, x7, x8, x9>>
      /\ s.fetch # NULL
  BY DEF Assignment!SearchRead, AssignmentInv, SearchesOk
<1>3. n = [data |-> s.data, fetch |-> s.fetch, read |-> r, error |-> s.error,
           invalidated |-> s.invalidated, torn |-> s.torn]
  BY <1>1 DEF SearchOk
<1>4. r.changed = x1.changed
  OBVIOUS
<1> HIDE DEF r, n
<1>5. /\ n.data = s.data /\ n.fetch = s.fetch /\ n.read = r /\ Found(n) = Found(s)
      /\ n.invalidated = s.invalidated /\ n.torn = s.torn
  BY <1>3 DEF Found
<1>6. SearchOk(n) /\ AtRest(n)
  BY <1>1, <1>2, <1>3, <1>5 DEF SearchOk, AtRest
<1>7. SearchOwn(n, x9[q])
  BY <1>1, <1>4, <1>5 DEF SearchOwn
<1>8. x5' = x5 /\ 0 \in 0..1 /\ (x7' # NULL => x7'.pages \in Nat)
  BY <1>1, <1>2
<1> HIDE DEF s
<1> QED BY <1>2, <1>6, <1>7, <1>8, SearchMoves

(* The page that was waited for is shown, if it came.                      *)
LEMMA NextShown ==
  ASSUME PickerOk, NEW q, NEW n \in 0..2, Assignment!NextEnded(q, n)
  PROVE  /\ x7' # NULL => x7'.pages \in Nat
         /\ \E i \in 0..1 : \/ x5' = x5
                            \/ x5' = [submittedQuery |-> x5.submittedQuery, key |-> q, index |-> i]
<1>1. x7' # NULL => x7'.pages \in Nat
  BY DEF PickerOk, Assignment!NextEnded
<1>2. CASE x5' = x5
  <2>1. 0 \in 0..1
    OBVIOUS
  <2> QED BY <1>1, <1>2, <2>1
<1>3. CASE x5' # x5
  <2> DEFINE p1 == [x5 EXCEPT !.key = q]
  <2>1. /\ x5' = [p1 EXCEPT !.index = x7.pages] /\ x7 # NULL /\ n > x7.pages
    BY <1>3 DEF Assignment!NextEnded
  <2>2. x7.pages \in 0..1
    <3>1. x7.pages \in Nat
      BY <2>1 DEF PickerOk
    <3> QED BY <2>1, <3>1
  <2>3. p1 = [submittedQuery |-> x5.submittedQuery, key |-> q, index |-> x5.index]
    BY DEF PickerOk
  <2> HIDE DEF p1
  <2>4. x5' = [submittedQuery |-> x5.submittedQuery, key |-> q, index |-> x7.pages]
    BY <2>1, <2>3
  <2> QED BY <1>1, <2>2, <2>4
<1> QED BY <1>2, <1>3

(* A search is answered: the pages before a next one are kept, and their   *)
(* list is torn if it was to be read again.                                *)
LEMMA SearchAnsweredStep ==
  ASSUME AssignmentInv, NEW q \in Searched, Assignment!SearchAnswered(q)
  PROVE  AssignmentInv'
<1> DEFINE s == x3[q]
           t == x9[q]
           m == Assignment!pages(q)
           first == IF s.fetch = "next" THEN m ELSE 0
           n == IF s.fetch = "next" THEN m + 1 ELSE IF m = 0 THEN 1 ELSE m
           old == IF first = 0 THEN <<>> ELSE s.data.changed
           oldOf == IF first = 0 THEN <<>> ELSE s.data.of
           C == [u \in 1..n |-> IF u <= first THEN old[u] ELSE s.read.changed[u]]
           B == [u \in 1..n |-> IF u <= first THEN oldOf[u] ELSE s.read.of[u]]
           torn == s.fetch = "next" /\ (s.torn \/ s.invalidated)
           d == [pages |-> n, of |-> B, changed |-> C]
           new == [data |-> d, fetch |-> NULL, read |-> NULL, error |-> NULL,
                   invalidated |-> FALSE, torn |-> torn]
<1>1. /\ SearchOk(s) /\ SearchOwn(s, t) /\ PickerOk
      /\ t \in [People -> Nat]
  BY DEF AssignmentInv, SearchesOk, Told
<1>2. /\ x3' = [x3 EXCEPT ![q] = new] /\ UNCHANGED <<x1, x2, x4, x6, x8, x9>>
      /\ s.read # NULL /\ Assignment!NextEnded(q, n)
  BY DEF Assignment!SearchAnswered
<1>3. m = Found(s) /\ m \in 0..2 /\ (s.fetch = "next" => m = 1)
  BY <1>1 DEF SearchOk, Assignment!pages, Found
<1>4. /\ n \in 1..2 /\ first \in 0..1 /\ first <= n
      /\ first # 0 => s.fetch = "next" /\ m = 1 /\ first = 1
  BY <1>3
<1>5. ASSUME ~torn, NEW u \in 1..n
      PROVE  C[u] >= t[u]
  <2>1. u \in People /\ C[u] = IF u <= first THEN old[u] ELSE s.read.changed[u]
    BY <1>4 DEF People
  <2>2. CASE u <= first
    <3>1. first # 0 /\ u = 1 /\ s.fetch = "next" /\ Found(s) = 1 /\ old = s.data.changed
      BY <1>3, <1>4, <2>1, <2>2 DEF People
    <3>2. s.data # NULL /\ s.fetch # "all" /\ ~s.invalidated /\ ~s.torn
      BY <1>5, <3>1 DEF Found
    <3>3. \A v \in 1..1 : s.data.changed[v] >= t[v]
      BY <1>1, <3>1, <3>2 DEF SearchOwn
    <3> QED BY <2>1, <2>2, <3>1, <3>3
  <2>3. CASE ~(u <= first)
    BY <1>1, <1>2, <2>1, <2>3 DEF SearchOwn
  <2> QED BY <2>2, <2>3
<1> HIDE DEF n, C, B, torn
<1>6. d.pages = n /\ d.changed = C
  OBVIOUS
<1> HIDE DEF d
<1>7. /\ new = [data |-> new.data, fetch |-> new.fetch, read |-> new.read, error |-> new.error,
                invalidated |-> new.invalidated, torn |-> new.torn]
      /\ new.data = d /\ new.fetch = NULL /\ new.read = NULL /\ ~new.invalidated
      /\ new.torn = torn
  OBVIOUS
<1> HIDE DEF new
<1>8. Found(new) \in 0..2 /\ (new.data # NULL => Found(new) = n)
  BY <1>4, <1>6, <1>7 DEF Found
<1>9. "next" # NULL
  BY NullAssumption
<1>10. SearchOk(new) /\ AtRest(new)
  BY <1>7, <1>8, <1>9 DEF SearchOk, AtRest
<1>11. SearchOwn(new, t)
  BY <1>5, <1>6, <1>7, <1>8 DEF SearchOwn
<1>12. PICK i \in 0..1 : \/ x5' = x5
                         \/ x5' = [submittedQuery |-> x5.submittedQuery, key |-> q, index |-> i]
  BY <1>1, <1>2, <1>4, NextShown
<1>13. x7' # NULL => x7'.pages \in Nat
  BY <1>1, <1>2, <1>4, NextShown
<1> HIDE DEF s, first, m, old, oldOf
<1> QED BY <1>2, <1>10, <1>11, <1>12, <1>13, SearchMoves

(* A search that fails.                                                    *)
LEMMA SearchFailsStep ==
  ASSUME AssignmentInv, NEW q \in Searched, Assignment!SearchFails(q)
  PROVE  AssignmentInv'
<1> DEFINE s == x3[q]
           n1 == [s EXCEPT !.fetch = NULL]
           n2 == [n1 EXCEPT !.read = NULL]
           n3 == [n2 EXCEPT !.error = s.fetch]
           yes == TRUE
           n == [n3 EXCEPT !.invalidated = yes]
<1>1. SearchOk(s) /\ PickerOk
  BY DEF AssignmentInv, SearchesOk
<1>2. /\ x3' = [x3 EXCEPT ![q] = n] /\ UNCHANGED <<x1, x2, x4, x6, x8, x9>>
      /\ s.fetch # NULL /\ Assignment!NextEnded(q, 0)
  BY DEF Assignment!SearchFails, AssignmentInv, SearchesOk
<1>3. n1 = [data |-> s.data, fetch |-> NULL, read |-> s.read, error |-> s.error,
            invalidated |-> s.invalidated, torn |-> s.torn]
  BY <1>1 DEF SearchOk
<1> HIDE DEF n1
<1>4. n2 = [data |-> s.data, fetch |-> NULL, read |-> NULL, error |-> s.error,
            invalidated |-> s.invalidated, torn |-> s.torn]
  BY <1>3
<1> HIDE DEF n2
<1>5. n3 = [data |-> s.data, fetch |-> NULL, read |-> NULL, error |-> s.fetch,
            invalidated |-> s.invalidated, torn |-> s.torn]
  BY <1>4
<1> HIDE DEF n3, yes
<1>6. n = [data |-> s.data, fetch |-> NULL, read |-> NULL, error |-> s.fetch,
           invalidated |-> yes, torn |-> s.torn]
  BY <1>5
<1> HIDE DEF n
<1>7. /\ n.data = s.data /\ n.fetch = NULL /\ n.read = NULL /\ n.error = s.fetch
      /\ n.invalidated = yes /\ Found(n) = Found(s) /\ yes
  BY <1>6 DEF Found, yes
<1>8. "next" # NULL
  BY NullAssumption
<1>9. SearchOk(n) /\ SearchOwn(n, x9[q]) /\ AtRest(n)
  BY <1>1, <1>2, <1>6, <1>7, <1>8 DEF SearchOk, SearchOwn, AtRest
<1>10. 0 \in 0..2
  OBVIOUS
<1>11. PICK i \in 0..1 : \/ x5' = x5
                         \/ x5' = [submittedQuery |-> x5.submittedQuery, key |-> q, index |-> i]
  BY <1>1, <1>2, <1>10, NextShown
<1>12. x7' # NULL => x7'.pages \in Nat
  BY <1>1, <1>2, <1>10, NextShown
<1> HIDE DEF s
<1> QED BY <1>2, <1>9, <1>11, <1>12, SearchMoves

(* What the picker asks for: everything again, or the next page.           *)
LEMMA PagesStep ==
  ASSUME AssignmentInv,
         Assignment!refetchSearch \/ Assignment!loadNextPage \/ Assignment!loadPreviousPage
  PROVE  AssignmentInv'
<1> DEFINE q == x5.submittedQuery
           s == x3[q]
<1>1. /\ q # NULL /\ UNCHANGED <<x1, x2, x4, x6, x8, x9>>
  BY DEF Assignment!refetchSearch, Assignment!loadNextPage, Assignment!loadPreviousPage,
     Assignment!searching, Assignment!submittedQuery
<1>2. /\ q \in Searched /\ SearchOk(s) /\ SearchOwn(s, x9[q]) /\ PickerOk /\ AtRest(s)
      /\ x7 # NULL => x7.pages \in Nat
  BY <1>1 DEF AssignmentInv, PickerOk, SearchesOk
<1>3. /\ Assignment!pages(q) = Found(s) /\ Found(s) \in 0..2
      /\ Assignment!currentPageIndex \in 0..1
  BY <1>1, CandidateIs
<1>4. ASSUME x3' = x3, x7' = x7, NEW i \in 0..1,
             x5' = [[x5 EXCEPT !.key = q] EXCEPT !.index = i]
      PROVE  AssignmentInv'
  <2> DEFINE p1 == [x5 EXCEPT !.key = q]
  <2>1. p1 = [submittedQuery |-> q, key |-> q, index |-> x5.index]
    BY <1>2 DEF PickerOk
  <2>2. x5' = [p1 EXCEPT !.index = i]
    BY <1>4
  <2> HIDE DEF p1
  <2>3. x5' = [submittedQuery |-> q, key |-> q, index |-> i]
    BY <2>1, <2>2
  <2>4. PickerOk'
    BY <1>1, <1>2, <1>4, <2>3, PickerKept
  <2> QED BY <1>1, <1>4, <2>4
          DEF AssignmentInv, ServerOk, FirmsOk, Told, SearchesOk, RunsOk, RunOk, RunIs
<1>5. CASE Assignment!refetchSearch
  <2> DEFINE n == Assignment!Ask(s)
  <2>1. x3' = [x3 EXCEPT ![q] = n] /\ UNCHANGED <<x5, x7>>
    BY <1>5 DEF Assignment!refetchSearch, Assignment!submittedQuery
  <2>2. SearchOk(n) /\ SearchOwn(n, x9[q]) /\ AtRest(n)
    BY <1>2, AskedSearch DEF AtRest
  <2>3. 0 \in 0..1 /\ (x7' # NULL => x7'.pages \in Nat)
    BY <1>2, <2>1
  <2> HIDE DEF n, s, q
  <2> QED BY <1>1, <1>2, <2>1, <2>2, <2>3, SearchMoves
<1>6. CASE Assignment!loadPreviousPage
  <2>1. /\ x5' = [x5 EXCEPT !.key = q, !.index = Assignment!currentPageIndex - 1]
        /\ Assignment!currentPageIndex > 0 /\ UNCHANGED <<x3, x7>>
    BY <1>6 DEF Assignment!loadPreviousPage, Assignment!submittedQuery
  <2>2. Assignment!currentPageIndex - 1 \in 0..1
    BY <1>3, <2>1
  <2> QED BY <1>4, <2>1, <2>2
<1>7. ASSUME Assignment!loadNextPage, Assignment!hasLoadedNextPage
      PROVE  AssignmentInv'
  <2>1. /\ x5' = [x5 EXCEPT !.key = q, !.index = Assignment!currentPageIndex + 1]
        /\ Assignment!currentPageIndex < Found(s) - 1 /\ UNCHANGED <<x3, x7>>
    BY <1>3, <1>7 DEF Assignment!loadNextPage, Assignment!submittedQuery, Assignment!hasLoadedNextPage
  <2>2. Assignment!currentPageIndex + 1 \in 0..1
    BY <1>3, <2>1
  <2> QED BY <1>4, <2>1, <2>2
<1>8. ASSUME Assignment!loadNextPage, ~Assignment!hasLoadedNextPage
      PROVE  AssignmentInv'
  <2> DEFINE e == IF s.error = NULL THEN NULL ELSE "next"
             torn == s.torn \/ s.fetch = "all"
             n1 == [s EXCEPT !.fetch = "next"]
             n2 == [n1 EXCEPT !.read = NULL]
             n3 == [n2 EXCEPT !.error = e]
             n == [n3 EXCEPT !.torn = torn]
  <2>1. /\ x3' = [x3 EXCEPT ![q] = n] /\ x5' = x5 /\ s.fetch # "next"
        /\ x7' = [q |-> q, mount |-> x6, pages |-> Assignment!pages(q)]
    BY <1>8 DEF Assignment!loadNextPage, Assignment!submittedQuery, Assignment!current
  <2>1a. 0 < Found(s) /\ Found(s) < Assignment!Cardinality(People)
    BY <1>3, <1>8 DEF Assignment!loadNextPage, Assignment!submittedQuery,
       Assignment!hasNextPage, People
  <2>2. Found(s) = 1
    BY <1>3, <2>1a, TwoPeople
  <2>5. torn = (s.torn \/ s.fetch = "all")
    OBVIOUS
  <2> HIDE DEF e, torn
  <2>6. n = [data |-> s.data, fetch |-> "next", read |-> NULL, error |-> e,
             invalidated |-> s.invalidated, torn |-> torn]
    <3>1. n1 = [data |-> s.data, fetch |-> "next", read |-> s.read, error |-> s.error,
                invalidated |-> s.invalidated, torn |-> s.torn]
      BY <1>2 DEF SearchOk
    <3> HIDE DEF n1
    <3>2. n2 = [data |-> s.data, fetch |-> "next", read |-> NULL, error |-> s.error,
                invalidated |-> s.invalidated, torn |-> s.torn]
      BY <3>1
    <3> HIDE DEF n2
    <3>3. n3 = [data |-> s.data, fetch |-> "next", read |-> NULL, error |-> e,
                invalidated |-> s.invalidated, torn |-> s.torn]
      BY <3>2
    <3> HIDE DEF n3
    <3> QED BY <3>3
  <2> HIDE DEF n
  <2>7. /\ n.data = s.data /\ n.fetch = "next" /\ n.read = NULL /\ n.torn = torn
        /\ n.invalidated = s.invalidated /\ Found(n) = Found(s)
    BY <2>6 DEF Found
  <2>8. "next" # NULL
    BY NullAssumption
  <2>9. SearchOk(n) /\ AtRest(n)
    BY <2>2, <2>6, <2>7, <2>8 DEF SearchOk, AtRest
  <2>10. SearchOwn(n, x9[q])
    BY <1>2, <2>5, <2>7 DEF SearchOwn
  <2>11. 0 \in 0..1 /\ x7'.pages \in Nat
    BY <1>3, <2>1
  <2> HIDE DEF s, q
  <2> QED BY <1>1, <1>2, <2>1, <2>9, <2>10, <2>11, SearchMoves
<1> QED BY <1>5, <1>6, <1>7, <1>8

(* An assignment that goes on is still one.                                *)
LEMMA RunGoesOn ==
  ASSUME NEW a, RunOk(a), NEW state, state # "ok"
  PROVE  LET n == [a EXCEPT !.state = state] IN RunOk(n) /\ n.mount = a.mount /\ n.state = state
<1> DEFINE n == [a EXCEPT !.state = state]
<1>1. n = [user |-> a.user, business |-> a.business, mount |-> a.mount,
           state |-> state, changed |-> a.changed, id |-> a.id]
  BY DEF RunOk, RunIs
<1> HIDE DEF n
<1>2. /\ n.user = a.user /\ n.business = a.business /\ n.mount = a.mount
      /\ n.state = state /\ n.changed = a.changed /\ n.id = a.id
  BY <1>1
<1>3. RunOk(n) /\ n.mount = a.mount
  BY <1>1, <1>2 DEF RunOk, RunIs
<1> QED BY <1>2, <1>3 DEF n

(* An assignment of the past is still one when the server moves on.        *)
LEMMA RunStays ==
  ASSUME NEW b, RunOk(b), \A u \in People : x1'.changed[u] >= x1.changed[u],
         x1.changed \in [People -> Nat], x1'.changed \in [People -> Nat]
  PROVE  RunIs(b) /\ (b.state = "ok" => b.changed <= x1'.changed[b.user])
<1>1. /\ b.user \in People /\ b.changed \in Nat
      /\ b.state = "ok" => b.changed <= x1.changed[b.user]
  BY DEF RunOk, RunIs
<1>2. RunIs(b)
  BY DEF RunOk
<1> QED BY <1>1, <1>2

(* An assignment ends.                                                     *)
LEMMA RunEnds ==
  ASSUME RunsOk, NEW a \in x8, x8' = x8 \ {a}, UNCHANGED x6,
         \A u \in People : x1'.changed[u] >= x1.changed[u],
         x1.changed \in [People -> Nat], x1'.changed \in [People -> Nat]
  PROVE  RunsOk'
<1>1. \A b \in x8 : RunIs(b) /\ (b.state = "ok" => b.changed <= x1'.changed[b.user])
  BY RunStays DEF RunsOk
<1> QED BY <1>1 DEF RunsOk, RunOk, RunIs

(* It goes on, and is replaced by what it has become.                      *)
LEMMA RunMoves ==
  ASSUME RunsOk, NEW a \in x8, NEW n, x8' = (x8 \ {a}) \cup {n}, UNCHANGED x6,
         \A u \in People : x1'.changed[u] >= x1.changed[u],
         x1.changed \in [People -> Nat], x1'.changed \in [People -> Nat],
         RunIs(n), n.mount = a.mount, n.state = "ok" => n.changed <= x1'.changed[n.user]
  PROVE  RunsOk'
<1>1. \A b \in x8 : RunIs(b) /\ (b.state = "ok" => b.changed <= x1'.changed[b.user])
  BY RunStays DEF RunsOk
<1>2. \A b \in x8' : RunIs(b) /\ (b.state = "ok" => b.changed <= x1'.changed[b.user])
  BY <1>1
<1>3. \A b \in x8' : b.mount \in 0..x6'
  BY DEF RunsOk
<1>4. \A b, d \in x8' : b.mount = d.mount => b = d
  BY DEF RunsOk
<1> QED BY <1>2, <1>3, <1>4 DEF RunsOk, RunOk, RunIs

(* The server moves on: nothing that was told is later than it is.         *)
LEMMA ServerMovesOn ==
  ASSUME AssignmentInv, ServerOk', \A u \in People : x1'.changed[u] >= x1.changed[u],
         UNCHANGED <<x2, x3, x4, x5, x6, x7, x9>>, RunsOk'
  PROVE  AssignmentInv'
<1>1. /\ x9 \in [Searched -> [People -> Nat]] /\ x1.changed \in [People -> Nat]
      /\ x1'.changed \in [People -> Nat]
      /\ \A q \in Searched, u \in People : x9[q][u] <= x1.changed[u]
  BY DEF AssignmentInv, Told, ServerOk
<1>2. ASSUME NEW q \in Searched, NEW u \in People
      PROVE  x9[q][u] <= x1'.changed[u]
  <2>1. /\ x9[q][u] \in Nat /\ x1.changed[u] \in Nat /\ x1'.changed[u] \in Nat
        /\ x9[q][u] <= x1.changed[u] /\ x1'.changed[u] >= x1.changed[u]
    BY <1>1
  <2> QED BY <2>1
<1>3. Told'
  BY <1>1, <1>2 DEF Told
<1>4. PickerOk'
  <2>1. Assignment!selectedBusiness' = Assignment!selectedBusiness
    BY DEF Assignment!selectedBusiness
  <2> QED BY <2>1 DEF AssignmentInv, PickerOk
<1> QED BY <1>3, <1>4 DEF AssignmentInv, FirmsOk, SearchesOk

(* One user's business changes.                                            *)
LEMMA AssignedNow ==
  ASSUME ServerOk, NEW u \in People, NEW b \in Firms \cup {NULL}, x1' = Assignment!Assigned(u, b)
  PROVE  /\ ServerOk' /\ x1'.changed[u] = x1.changed[u] + 1
         /\ \A v \in People : x1'.changed[v] >= x1.changed[v]
<1> DEFINE of == [x1.of EXCEPT ![u] = b]
           m == x1.changed[u] + 1
           changed == [x1.changed EXCEPT ![u] = m]
           n1 == [x1 EXCEPT !.of = of]
<1>1. /\ x1.of \in [People -> Firms \cup {NULL}] /\ x1.changed \in [People -> Nat]
      /\ x1.active \subseteq Firms
      /\ x1 = [of |-> x1.of, changed |-> x1.changed, active |-> x1.active]
  BY DEF ServerOk
<1>2. n1 = [of |-> of, changed |-> x1.changed, active |-> x1.active]
  BY <1>1
<1>3. x1' = [n1 EXCEPT !.changed = changed]
  BY <1>1, <1>2 DEF Assignment!Assigned
<1> HIDE DEF n1
<1>4. x1' = [of |-> of, changed |-> changed, active |-> x1.active]
  BY <1>2, <1>3
<1>5. /\ of \in [People -> Firms \cup {NULL}] /\ changed \in [People -> Nat]
      /\ changed[u] = x1.changed[u] + 1 /\ \A v \in People : changed[v] >= x1.changed[v]
  BY <1>1
<1> HIDE DEF of, changed
<1> QED BY <1>1, <1>4, <1>5 DEF ServerOk

(* An assignment is sent.                                                  *)
LEMMA AssignStep ==
  ASSUME AssignmentInv, Assignment!assignCandidate
  PROVE  AssignmentInv'
<1> DEFINE n == [user |-> Assignment!candidate, business |-> Assignment!selectedBusiness,
                 mount |-> x6, state |-> "sent", changed |-> 0, id |-> x10]
<1>1. /\ UNCHANGED <<x1, x2, x3, x4, x5, x6, x7, x9>> /\ x8' = x8 \cup {n}
      /\ \A a \in x8 : a.mount # x6
  BY DEF Assignment!assignCandidate, Assignment!isPending
<1>2. Assignment!candidate \in People
  <2>1. x5.submittedQuery # NULL /\ Assignment!pages(x5.submittedQuery) > 0
    BY DEF Assignment!assignCandidate, Assignment!searching, Assignment!submittedQuery
  <2>2. Assignment!candidate \in 1..Found(x3[x5.submittedQuery])
        /\ Found(x3[x5.submittedQuery]) \in 0..2
    BY <2>1, CandidateIs
  <2> QED BY <2>2 DEF People
<1>3. Assignment!selectedBusiness \in Firms
  BY DEF Assignment!assignCandidate, Assignment!searching, Assignment!selectedBusiness,
     AssignmentInv, FirmsOk
<1>4. /\ n = [user |-> n.user, business |-> n.business, mount |-> n.mount,
              state |-> n.state, changed |-> n.changed, id |-> n.id]
      /\ n.user \in People /\ n.business \in Firms /\ n.changed \in Nat
      /\ n.state = "sent" /\ n.mount = x6
  BY <1>2, <1>3
<1> HIDE DEF n
<1>5. RunOk(n) /\ n.mount \in 0..x6
  BY <1>4 DEF RunOk, RunIs, AssignmentInv, PickerOk
<1>6. RunsOk'
  <2>1. RunsOk /\ x1' = x1 /\ x6' = x6
    BY <1>1 DEF AssignmentInv
  <2>2. \A a \in x8' : RunOk(a) /\ a.mount \in 0..x6
    BY <1>1, <1>5, <2>1 DEF RunsOk
  <2>3. \A a, b \in x8' : a.mount = b.mount => a = b
    BY <1>1, <1>4, <2>1 DEF RunsOk
  <2> QED BY <2>1, <2>2, <2>3 DEF RunsOk, RunOk, RunIs
<1>7. ServerOk' /\ \A u \in People : x1'.changed[u] >= x1.changed[u]
  <2>1. ServerOk /\ x1' = x1
    BY <1>1 DEF AssignmentInv
  <2>2. \A u \in People : x1.changed[u] \in Nat
    BY <2>1 DEF ServerOk
  <2>3. \A u \in People : x1.changed[u] >= x1.changed[u]
    BY <2>2
  <2> QED BY <2>1, <2>3 DEF ServerOk
<1> QED BY <1>1, <1>6, <1>7, ServerMovesOn

(* The server assigns or refuses, an assignment ends, others move.         *)
LEMMA ServerStep ==
  ASSUME AssignmentInv,
         \/ \E a \in x8 : \/ Assignment!assignBusinessAdmin(a)
                          \/ Assignment!AssignEnded(a) \/ Assignment!AssignLost(a)
         \/ Assignment!OthersAct
  PROVE  AssignmentInv'
<1>1. /\ ServerOk /\ RunsOk /\ x1.changed \in [People -> Nat]
      /\ \A u \in People : x1.changed[u] \in Nat
      /\ x1 = [of |-> x1.of, changed |-> x1.changed, active |-> x1.active]
  BY DEF AssignmentInv, ServerOk
<1>2. ASSUME x1' = x1
      PROVE  ServerOk' /\ \A u \in People : x1'.changed[u] >= x1.changed[u]
  <2>1. \A u \in People : x1.changed[u] >= x1.changed[u]
    BY <1>1
  <2> QED BY <1>1, <1>2, <2>1 DEF ServerOk
<1>3. ASSUME NEW a \in x8, Assignment!AssignEnded(a) \/ Assignment!AssignLost(a)
      PROVE  AssignmentInv'
  <2>1. UNCHANGED <<x1, x2, x3, x4, x5, x6, x7, x9>> /\ x8' = x8 \ {a}
    BY <1>3 DEF Assignment!AssignEnded, Assignment!AssignLost
  <2>2. ServerOk' /\ \A u \in People : x1'.changed[u] >= x1.changed[u]
    BY <1>2, <2>1
  <2>3. RunsOk'
    BY <1>1, <2>1, <2>2, RunEnds DEF ServerOk
  <2> QED BY <2>1, <2>2, <2>3, ServerMovesOn
<1>4. ASSUME NEW a \in x8, Assignment!assignBusinessAdmin(a)
      PROVE  AssignmentInv'
  <2> DEFINE m == x1.changed[a.user] + 1
             ok == [[a EXCEPT !.state = "ok"] EXCEPT !.changed = m]
             refused == [a EXCEPT !.state = "refused"]
  <2>1. /\ UNCHANGED <<x2, x3, x4, x5, x6, x7, x9>> /\ RunOk(a)
        /\ a.user \in People /\ a.business \in Firms
    BY <1>1, <1>4 DEF Assignment!assignBusinessAdmin, RunsOk, RunOk, RunIs
  <2>2. CASE x8' = (x8 \ {a}) \cup {refused} /\ x1' = x1
    <3>1. RunOk(refused) /\ refused.mount = a.mount /\ refused.state = "refused"
      BY <2>1, RunGoesOn
    <3>2. ServerOk' /\ \A u \in People : x1'.changed[u] >= x1.changed[u]
      BY <1>2, <2>2
    <3> HIDE DEF refused
    <3>3. RunIs(refused) /\ refused.state # "ok"
      BY <3>1 DEF RunOk
    <3>4. RunsOk'
      BY <1>1, <2>1, <2>2, <3>1, <3>2, <3>3, RunMoves DEF ServerOk
    <3> QED BY <2>1, <3>2, <3>4, ServerMovesOn
  <2>3. CASE x8' = (x8 \ {a}) \cup {ok} /\ x1' = Assignment!Assigned(a.user, a.business)
    <3>1. /\ ServerOk' /\ x1'.changed[a.user] = m
          /\ \A v \in People : x1'.changed[v] >= x1.changed[v]
      BY <1>1, <2>1, <2>3, AssignedNow
    <3> DEFINE a1 == [a EXCEPT !.state = "ok"]
    <3>2. a1 = [user |-> a.user, business |-> a.business, mount |-> a.mount,
                state |-> "ok", changed |-> a.changed, id |-> a.id]
      BY <2>1 DEF RunOk, RunIs
    <3>3. ok = [a1 EXCEPT !.changed = m]
      OBVIOUS
    <3> HIDE DEF a1, ok
    <3>4. ok = [user |-> a.user, business |-> a.business, mount |-> a.mount,
                state |-> "ok", changed |-> m, id |-> a.id]
      BY <3>2, <3>3
    <3>5. ok.user = a.user /\ ok.business = a.business /\ ok.mount = a.mount
          /\ ok.state = "ok" /\ ok.changed = m /\ ok.id = a.id
      BY <3>4
    <3>6. m \in Nat /\ m <= x1'.changed[a.user]
      BY <1>1, <2>1, <3>1
    <3> HIDE DEF m
    <3>7. RunIs(ok)
      BY <2>1, <3>4, <3>5, <3>6 DEF RunOk, RunIs
    <3>8. RunsOk'
      BY <1>1, <2>1, <2>3, <3>1, <3>5, <3>6, <3>7, RunMoves DEF ServerOk
    <3> QED BY <2>1, <3>1, <3>8, ServerMovesOn
  <2>4. \/ x8' = (x8 \ {a}) \cup {refused} /\ x1' = x1
        \/ x8' = (x8 \ {a}) \cup {ok} /\ x1' = Assignment!Assigned(a.user, a.business)
    BY <1>4 DEF Assignment!assignBusinessAdmin
  <2> QED BY <2>2, <2>3, <2>4
<1>5. CASE Assignment!OthersAct
  <2>1. UNCHANGED <<x2, x3, x4, x5, x6, x7, x8, x9>>
    BY <1>5 DEF Assignment!OthersAct
  <2>2. ServerOk' /\ \A u \in People : x1'.changed[u] >= x1.changed[u]
    <3>1. ASSUME NEW u \in People, NEW b \in Firms \cup {NULL}, x1' = Assignment!Assigned(u, b)
          PROVE  ServerOk' /\ \A v \in People : x1'.changed[v] >= x1.changed[v]
      BY <1>1, <3>1, AssignedNow
    <3>2. ASSUME NEW S, S \subseteq Firms, x1' = [x1 EXCEPT !.active = S]
          PROVE  ServerOk' /\ \A v \in People : x1'.changed[v] >= x1.changed[v]
      <4>1. x1' = [of |-> x1.of, changed |-> x1.changed, active |-> S]
        BY <1>1, <3>2
      <4>2. x1'.of = x1.of /\ x1'.changed = x1.changed /\ x1'.active = S
        BY <4>1
      <4>3. \A v \in People : x1.changed[v] >= x1.changed[v]
        BY <1>1
      <4> QED BY <1>1, <3>2, <4>1, <4>2, <4>3 DEF ServerOk
    <3>3. ASSUME NEW b \in Firms,
                 x1' = [x1 EXCEPT !.active = IF b \in @ THEN @ \ {b} ELSE @ \cup {b}]
          PROVE  ServerOk' /\ \A v \in People : x1'.changed[v] >= x1.changed[v]
      <4> DEFINE S == IF b \in x1.active THEN x1.active \ {b} ELSE x1.active \cup {b}
      <4>1. S \subseteq Firms /\ x1' = [x1 EXCEPT !.active = S]
        BY <1>1, <3>3 DEF ServerOk
      <4> HIDE DEF S
      <4> QED BY <3>2, <4>1
    <3> QED BY <1>5, <3>1, <3>3 DEF Assignment!OthersAct, People, Firms
  <2>3. RunsOk'
    <3>1. \A b \in x8 : RunOk(b)'
      <4> SUFFICES ASSUME NEW b \in x8 PROVE RunOk(b)'
        OBVIOUS
      <4>1. RunOk(b)
        BY <1>1 DEF RunsOk
      <4>2. b.state = "ok" => b.changed <= x1'.changed[b.user]
        <5>1. /\ b.user \in People /\ b.changed \in Nat /\ x1'.changed \in [People -> Nat]
              /\ b.state = "ok" => b.changed <= x1.changed[b.user]
          BY <2>2, <4>1 DEF RunOk, RunIs, ServerOk
        <5> QED BY <1>1, <2>2, <5>1
      <4> QED BY <4>1, <4>2 DEF RunOk, RunIs
    <3> QED BY <1>1, <2>1, <3>1 DEF RunsOk
  <2> QED BY <2>1, <2>2, <2>3, ServerMovesOn
<1> QED BY <1>3, <1>4, <1>5

(* The operator is told of an assignment: the search on screen is read     *)
(* again, the others are to be, when they are next shown.                  *)
LEMMA AssignDoneStep ==
  ASSUME AssignmentInv, NEW a \in x8, Assignment!AssignDone(a)
  PROVE  AssignmentInv'
<1> DEFINE on(q) == Assignment!searching /\ q = x5.submittedQuery
           hears(q) == x3[q].fetch = NULL \/ (on(q) /\ x3[q].data # NULL)
           new == [a EXCEPT !.state = "refreshing"]
<1>1. /\ ServerOk /\ FirmsOk /\ Told /\ SearchesOk /\ PickerOk /\ RunsOk /\ RunOk(a)
      /\ \A u \in People : x1.changed[u] \in Nat
  BY DEF AssignmentInv, RunsOk, ServerOk
<1>2. /\ UNCHANGED <<x1, x4, x5, x6, x7>> /\ x2' = Assignment!Ask(x2) /\ a.state = "ok"
      /\ x3' = [q \in Searched |-> IF on(q) THEN Assignment!Ask(x3[q])
                                  ELSE [x3[q] EXCEPT !.invalidated = TRUE]]
      /\ x8' = (x8 \ {a}) \cup {new}
      /\ x9' = [q \in Searched |-> IF hears(q) THEN [x9[q] EXCEPT ![a.user] = a.changed] ELSE x9[q]]
  BY DEF Assignment!AssignDone, Assignment!invalidate, Assignment!submittedQuery, Searched
<1>3. FirmsOk' /\ x2'.data = x2.data
  BY <1>1, <1>2, AskedFirms
<1>4. ServerOk' /\ \A u \in People : x1'.changed[u] >= x1.changed[u]
  <2>1. \A u \in People : x1.changed[u] >= x1.changed[u]
    BY <1>1
  <2> QED BY <1>1, <1>2, <2>1 DEF ServerOk
<1>5. RunsOk'
  <2>1. RunOk(new) /\ new.mount = a.mount /\ new.state = "refreshing"
    BY <1>1, RunGoesOn
  <2> HIDE DEF new
  <2>2. RunIs(new)
    BY <2>1 DEF RunOk
  <2> QED BY <1>1, <1>2, <1>4, <2>1, <2>2, RunMoves DEF ServerOk
<1>6. Told'
  <2>1. a.user \in People /\ a.changed \in Nat /\ a.changed <= x1.changed[a.user]
    BY <1>1, <1>2 DEF RunOk, RunIs
  <2>2. ASSUME NEW q \in Searched
        PROVE  /\ x9'[q] \in [People -> Nat]
               /\ \A u \in People : x9'[q][u] <= x1.changed[u]
    <3>1. x9[q] \in [People -> Nat] /\ \A u \in People : x9[q][u] <= x1.changed[u]
      BY <1>1 DEF Told
    <3>2. x9'[q] = x9[q] \/ x9'[q] = [x9[q] EXCEPT ![a.user] = a.changed]
      BY <1>2
    <3>3. CASE x9'[q] = x9[q]
      BY <3>1, <3>3
    <3>4. CASE x9'[q] = [x9[q] EXCEPT ![a.user] = a.changed]
      <4>1. \A u \in People : x9'[q][u] = IF u = a.user THEN a.changed ELSE x9[q][u]
        BY <3>1, <3>4
      <4>2. x9'[q] \in [People -> Nat]
        BY <2>1, <3>1, <3>4
      <4> QED BY <2>1, <3>1, <4>1, <4>2
    <3> QED BY <3>2, <3>3, <3>4
  <2> HIDE DEF hears, on
  <2>3. x9' \in [Searched -> [People -> Nat]]
    BY <1>2, <2>2
  <2> QED BY <1>2, <2>2, <2>3 DEF Told
<1>7. ASSUME NEW q \in Searched
      PROVE  /\ SearchOk(x3'[q]) /\ SearchOwn(x3'[q], x9'[q])
             /\ on(q) => x3'[q].fetch # NULL
  <2> DEFINE s == x3[q]
  <2>1. SearchOk(s) /\ SearchOwn(s, x9[q])
    BY <1>1 DEF SearchesOk
  <2>2. ~hears(q) => x9'[q] = x9[q]
    BY <1>2
  <2>3. CASE on(q)
    <3>1. x3'[q] = Assignment!Ask(s)
      BY <1>2, <2>3
    <3>2. /\ SearchOk(x3'[q]) /\ x3'[q].fetch # NULL /\ SearchOwn(x3'[q], x9[q])
          /\ (s.data # NULL \/ s.fetch = NULL) => SearchOwn(x3'[q], x9'[q])
      BY <2>1, <3>1, AskedSearch
    <3>3. ~hears(q) => SearchOwn(x3'[q], x9'[q])
      BY <2>2, <3>2
    <3>4. hears(q) => SearchOwn(x3'[q], x9'[q])
      BY <3>2
    <3> QED BY <3>2, <3>3, <3>4
  <2>4. CASE ~on(q)
    <3> DEFINE yes == TRUE
               n == [s EXCEPT !.invalidated = yes]
    <3>1. x3'[q] = n
      BY <1>2, <2>4
    <3>2. yes
      OBVIOUS
    <3> HIDE DEF yes
    <3>3. n = [data |-> s.data, fetch |-> s.fetch, read |-> s.read, error |-> s.error,
               invalidated |-> yes, torn |-> s.torn]
      BY <2>1 DEF SearchOk
    <3> HIDE DEF n
    <3>4. /\ n.data = s.data /\ n.fetch = s.fetch /\ n.read = s.read /\ n.error = s.error
          /\ n.invalidated = yes /\ n.torn = s.torn /\ Found(n) = Found(s)
      BY <3>3 DEF Found
    <3>5. SearchOk(n)
      BY <2>1, <3>3, <3>4 DEF SearchOk
    <3>6. n.read # NULL => ~hears(q)
      BY <2>1, <2>4, <3>4 DEF SearchOk
    <3> HIDE DEF hears, on, s
    <3>7. SearchOwn(n, x9'[q])
      BY <2>1, <2>2, <3>2, <3>4, <3>6 DEF SearchOwn
    <3> QED BY <2>4, <3>1, <3>5, <3>7
  <2> QED BY <2>3, <2>4
<1>8. SearchesOk'
  <2> HIDE DEF on, hears
  <2>1. x3' = [q \in Searched |-> x3'[q]]
    BY <1>2
  <2> QED BY <1>7, <2>1 DEF SearchesOk
<1>9. PickerOk'
  <2>1. Assignment!selectedBusiness' = Assignment!selectedBusiness
    BY <1>2, <1>3 DEF Assignment!selectedBusiness
  <2>2. x5.submittedQuery # NULL =>
          x5.submittedQuery \in Searched /\ Assignment!searching
    BY <1>1 DEF PickerOk, Assignment!searching, Assignment!submittedQuery
  <2>3. x5.submittedQuery # NULL => x3'[x5.submittedQuery].fetch # NULL
    BY <1>7, <2>2
  <2> HIDE DEF on, hears
  <2> QED BY <1>1, <1>2, <2>1, <2>3 DEF PickerOk, AtRest
<1> QED BY <1>3, <1>4, <1>5, <1>6, <1>8, <1>9 DEF AssignmentInv

(* A step of the assignments keeps their invariant.                        *)
LEMMA AssignmentStep ==
  ASSUME AssignmentInv, Assignment!Next
  PROVE  AssignmentInv'
<1>1. CASE \/ Assignment!ListRead \/ Assignment!ListAnswered \/ Assignment!ListFails
           \/ Assignment!refetchList \/ \E b \in Firms : Assignment!selectBusiness(b)
  BY <1>1, FirmsStep
<1>2. ASSUME NEW q \in Searched,
             \/ Assignment!submitSearch(q) \/ Assignment!SearchRead(q)
             \/ Assignment!SearchAnswered(q) \/ Assignment!SearchFails(q)
      PROVE  AssignmentInv'
  BY <1>2, SubmitStep, SearchReadStep, SearchAnsweredStep, SearchFailsStep
<1>3. CASE Assignment!refetchSearch \/ Assignment!loadNextPage \/ Assignment!loadPreviousPage
  BY <1>3, PagesStep
<1>4. CASE Assignment!assignCandidate
  BY <1>4, AssignStep
<1>5. CASE \/ \E a \in x8 : \/ Assignment!assignBusinessAdmin(a)
                            \/ Assignment!AssignEnded(a) \/ Assignment!AssignLost(a)
           \/ Assignment!OthersAct
  BY <1>5, ServerStep
<1>6. ASSUME NEW a \in x8, Assignment!AssignDone(a)
      PROVE  AssignmentInv'
  BY <1>6, AssignDoneStep
<1> QED BY <1>1, <1>2, <1>3, <1>4, <1>5, <1>6 DEF Assignment!Next, Searched, Firms

-----------------------------------------------------------------------------
(* The invitations: what is told of a row bounds its changes and its mail  *)
(* from below, in the list, in the mails, and in the reads of both.        *)

Invited == {1, 2}
Mail == [of : Invited \cup {NULL}, status : Invitation!AuthMailOutboxStatus, id : Nat]

(* Mails are numbered from the oldest, which is the last.                  *)
MailsOk(m) == m \in Seq(Mail) /\ \A k \in 1..Len(m) : m[k].id = Len(m) - k + 1

(* The first mail of i, if it has one, is none before number v.            *)
AtLeast(m, i, v) ==
  \A k \in 1..Len(m) : (m[k].of = i /\ \A j \in 1..k - 1 : m[j].of # i) => m[k].id >= v

Serves(s) ==
  /\ s = [status |-> s.status, changed |-> s.changed, mails |-> s.mails]
  /\ s.status \in [Invited -> Invitation!InvitationStatus \cup {NULL}]
  /\ s.changed \in [Invited -> Nat] /\ MailsOk(s.mails)

(* What the operator was told of: nothing the server has not done.         *)
ToldOk(told, s) ==
  /\ told \in [Invited -> [changed : Nat, mail : Nat]]
  /\ \A i \in Invited :
       /\ told[i].changed <= s.changed[i] /\ told[i].mail <= Len(s.mails)
       /\ AtLeast(s.mails, i, told[i].mail)

(* A list that was read is no older than what had been told.               *)
Late(d, told) == \A i \in Invited : d.status[i] # NULL => d.changed[i] >= told[i].changed

ListOk(q, s) ==
  /\ q = [data |-> q.data, fetch |-> q.fetch, read |-> q.read, error |-> q.error,
          invalidated |-> q.invalidated]
  /\ q.data # NULL => q.data \in Invitation!Listed /\ Invitation!Made(q.data) \subseteq Invitation!Made(s)
  /\ q.fetch \in {NULL, "asked", "read"}
  /\ q.fetch = "read" =>
       /\ q.read \in Invitation!Listed /\ Invitation!Made(q.read) \subseteq Invitation!Made(s)
       /\ Invitation!invitations(q) \subseteq Invitation!Made(q.read)
       /\ \A i \in Invited : q.read.changed[i] <= s.changed[i]

ListOwn(q, told) ==
  /\ q.fetch = "read" => Late(q.read, told)
  /\ (q.fetch = NULL /\ q.data # NULL /\ ~q.error) => Late(q.data, told)

(* A read of n mails, and what it owes when it is the one on screen.       *)
MailOk(q, n) ==
  /\ q = [data |-> q.data, fetch |-> q.fetch, read |-> q.read, error |-> q.error,
          invalidated |-> q.invalidated]
  /\ q.data # NULL => q.data \in Seq(Mail) /\ Len(q.data) <= n
  /\ q.fetch \in {NULL, "asked", "read"}
  /\ q.fetch = "read" => q.read \in Seq(Mail) /\ Len(q.read) <= n

MailOwn(q, told) == \A i \in Invited :
  /\ q.fetch = "read" => AtLeast(q.read, i, told[i].mail)
  /\ (q.fetch = NULL /\ q.data # NULL /\ ~q.error) => AtLeast(q.data, i, told[i].mail)

(* As many mails are asked for as there are invitations; none before.      *)
HowMany(list) == Cardinality(Invitation!invitations(list))
OutboxOk(qs, list, told) ==
  /\ qs = [t \in 1..2 |-> qs[t]]
  /\ \A t \in 1..2 :
       /\ MailOk(qs[t], t)
       /\ t > HowMany(list) => qs[t].data = NULL /\ qs[t].fetch = NULL
       /\ t = HowMany(list) => MailOwn(qs[t], told)

(* What is asked of a row is asked of one that is there, and what came of  *)
(* it is so.                                                               *)
AskedOk(r, s, list, mount) ==
  /\ r = [kind |-> r.kind, of |-> r.of, mail |-> r.mail, mount |-> r.mount, state |-> r.state,
          changed |-> r.changed, mailed |-> r.mailed, id |-> r.id]
  /\ r.mount \in 0..mount /\ r.changed \in Nat /\ r.mailed \in Nat
  /\ r.kind # "create" => r.of \in Invitation!Made(s) /\ list.data # NULL
  /\ (r.kind = "create" /\ r.state = "sent") => Invitation!Made(s) # Invited
  /\ r.state = "ok" =>
       /\ r.of \in Invited /\ r.changed <= s.changed[r.of]
       /\ r.mailed <= Len(s.mails) /\ AtLeast(s.mails, r.of, r.mailed)
  /\ (r.kind = "create" /\ r.state = "ok" /\ list.fetch = "read" /\ list.read.status[r.of] # NULL)
       => list.read.changed[r.of] >= r.changed

(* A row is asked one thing at a time, and so is the card.                 *)
Rival(r, o) ==
  \/ r.kind = "create" /\ o.kind = "create"
  \/ r.kind # "create" /\ o.kind # "create" /\ r.of = o.of /\ r.mount = o.mount
Apart(rs) == \A r, o \in rs : Rival(r, o) => r = o

InvitationInv ==
  /\ Serves(x1) /\ x4 \in Nat /\ ToldOk(x6, x1)
  /\ ListOk(x2, x1) /\ ListOwn(x2, x6)
  /\ OutboxOk(x3, x2, x6)
  /\ \A r \in x5 : AskedOk(r, x1, x2, x4)
  /\ Apart(x5)

-----------------------------------------------------------------------------
(* Sets of invitations, and how many they are.                             *)
LEMMA TwoInvited ==
  /\ \A S : S \subseteq Invited => Cardinality(S) \in 0..2 /\ (Cardinality(S) = 0 <=> S = {})
  /\ \A S, T : (S \subseteq T /\ T \subseteq Invited) =>
       Cardinality(S) <= Cardinality(T) /\ (Cardinality(S) = Cardinality(T) => S = T)
<1>1. IsFiniteSet(Invited) /\ Cardinality(Invited) = 2
  <2> DEFINE n == 2
  <2>1. n \in Int /\ 1 \in Int /\ 1 <= n /\ n - 1 + 1 = n /\ Invited = 1..n
    BY DEF Invited
  <2> HIDE DEF n
  <2>2. IsFiniteSet(1..n) /\ Cardinality(1..n) = n - 1 + 1
    BY <2>1, FS_Interval
  <2> QED BY <2>1, <2>2 DEF n
<1>2. \A S, T : (S \subseteq T /\ T \subseteq Invited) =>
        /\ IsFiniteSet(T) /\ Cardinality(T) \in Nat /\ Cardinality(S) \in Nat
        /\ Cardinality(S) <= Cardinality(T)
        /\ Cardinality(S) = Cardinality(T) => S = T
  <2> SUFFICES ASSUME NEW S, NEW T, S \subseteq T, T \subseteq Invited
               PROVE  /\ IsFiniteSet(T) /\ Cardinality(T) \in Nat /\ Cardinality(S) \in Nat
                      /\ Cardinality(S) <= Cardinality(T)
                      /\ Cardinality(S) = Cardinality(T) => S = T
    OBVIOUS
  <2>1. IsFiniteSet(T)
    BY <1>1, FS_Subset
  <2>2. IsFiniteSet(S) /\ Cardinality(S) <= Cardinality(T)
        /\ (Cardinality(S) = Cardinality(T) => S = T)
    BY <2>1, FS_Subset
  <2> QED BY <2>1, <2>2, FS_CardinalityType
<1>3. \A S : S \subseteq Invited => Cardinality(S) \in 0..2 /\ (Cardinality(S) = 0 <=> S = {})
  <2> SUFFICES ASSUME NEW S, S \subseteq Invited
               PROVE  Cardinality(S) \in 0..2 /\ (Cardinality(S) = 0 <=> S = {})
    OBVIOUS
  <2>1. IsFiniteSet(S) /\ Cardinality(S) \in Nat /\ Cardinality(S) <= 2
    BY <1>1, <1>2
  <2>2. Cardinality(S) = 0 <=> S = {}
    BY <2>1, FS_EmptySet
  <2> QED BY <2>1, <2>2
<1> QED BY <1>2, <1>3

(* What is shown is of invitations, and which read of mails is shown.      *)
LEMMA ShownIs ==
  ASSUME NEW q
  PROVE  /\ Invitation!invitations(q) \subseteq Invited /\ HowMany(q) \in 0..2
         /\ Invitation!enabled(q) <=> HowMany(q) # 0
         /\ Invitation!take(q) = IF HowMany(q) = 0 THEN 1 ELSE HowMany(q)
<1>1. Invitation!invitations(q) \subseteq Invited
  BY DEF Invitation!invitations, Invitation!Made, Invited
<1>2. HowMany(q) \in 0..2 /\ (HowMany(q) = 0 <=> Invitation!invitations(q) = {})
  BY <1>1, TwoInvited DEF HowMany
<1>3. Invitation!take(q) = IF HowMany(q) = 0 THEN 1 ELSE HowMany(q)
  BY <1>2 DEF Invitation!take, HowMany, Invitation!Cardinality, Cardinality
<1> QED BY <1>1, <1>2, <1>3 DEF Invitation!enabled

(* What differs from NULL.                                                 *)
LEMMA InvitationNull ==
  /\ NULL \notin Invitation!Listed /\ NULL \notin Invitation!InvitationStatus
  /\ NULL \notin {"asked", "read"} /\ NULL \notin Nat
BY NullAssumption

(* The first mail of an invitation is the one its row shows.               *)
LEMMA FirstMail ==
  ASSUME NEW m \in Seq(Mail), NEW i \in Invited, NEW v \in Nat, AtLeast(m, i, v), Len(m) <= 2,
         Invitation!latestInviteDeliveryByInvitationId(i, m) # NULL
  PROVE  Invitation!latestInviteDeliveryByInvitationId(i, m).id >= v
<1> DEFINE own == {k \in DOMAIN m : m[k].of = i}
<1>1. own # {} /\ Invitation!latestInviteDeliveryByInvitationId(i, m) = m[Invitation!Min(own)]
  BY DEF Invitation!latestInviteDeliveryByInvitationId
<1>2. own \subseteq 1..Len(m) /\ Len(m) \in 0..2
  <2>1. DOMAIN m = 1..Len(m) /\ Len(m) \in Nat
    OBVIOUS
  <2> QED BY <2>1
<1>3. Invitation!Min(own) \in own /\ \A k \in own : Invitation!Min(own) <= k
  <2>1. own \subseteq {1, 2}
    BY <1>2
  <2>2. \E k \in own : \A j \in own : k <= j
    <3> HIDE DEF own
    <3>1. CASE 1 \in own
      BY <2>1, <3>1
    <3>2. CASE 1 \notin own
      <4>1. own = {2}
        BY <1>1, <2>1, <3>2
      <4> QED BY <4>1
    <3> QED BY <3>1, <3>2
  <2> HIDE DEF own
  <2> QED BY <2>2 DEF Invitation!Min
<1> DEFINE k == Invitation!Min(own)
<1>4. k \in 1..Len(m) /\ m[k].of = i /\ \A j \in 1..k - 1 : m[j].of # i
  <2>1. k \in 1..Len(m) /\ m[k].of = i
    BY <1>2, <1>3
  <2>2. \A j \in 1..k - 1 : j \in 1..Len(m) /\ ~(k <= j)
    BY <2>1
  <2> HIDE DEF k
  <2>3. \A j \in 1..k - 1 : j \notin own
    BY <1>3, <2>2 DEF k
  <2>4. DOMAIN m = 1..Len(m)
    OBVIOUS
  <2> QED BY <2>1, <2>2, <2>3, <2>4
<1> HIDE DEF k
<1>5. m[k].id >= v
  BY <1>4 DEF AtLeast
<1> QED BY <1>1, <1>5 DEF k

(* What the invariant says of the page as it is shown.                     *)
LEMMA InvitationHolds ==
  ASSUME InvitationInv
  PROVE  Invitation!TypeOK /\ Invitation!OwnActionIsSeen /\ Invitation!NoOlderMail
<1>1. /\ Serves(x1) /\ ToldOk(x6, x1) /\ ListOk(x2, x1) /\ ListOwn(x2, x6)
      /\ OutboxOk(x3, x2, x6) /\ Apart(x5) /\ \A r \in x5 : AskedOk(r, x1, x2, x4)
  BY DEF InvitationInv
<1>2. Invitation!TypeOK
  <2>1. [status |-> x1.status, changed |-> x1.changed] \in Invitation!Listed
    BY <1>1 DEF Serves, Invitation!Listed, Invited
  <2>2. \A k \in DOMAIN x1.mails : /\ x1.mails[k].status \in Invitation!AuthMailOutboxStatus
                                  /\ x1.mails[k].id = Len(x1.mails) - k + 1
    <3>1. DOMAIN x1.mails = 1..Len(x1.mails) /\ \A k \in 1..Len(x1.mails) : x1.mails[k] \in Mail
      BY <1>1 DEF Serves, MailsOk
    <3>2. \A k \in 1..Len(x1.mails) : x1.mails[k].id = Len(x1.mails) - k + 1
      BY <1>1 DEF Serves, MailsOk
    <3> QED BY <3>1, <3>2 DEF Mail
  <2>3. Invitation!invitations(x2) \subseteq Invitation!Made(x1)
    BY <1>1 DEF ListOk, Invitation!invitations
  <2>4. \A t \in 1..2 : x3[t].data # NULL => Len(x3[t].data) <= t
    BY <1>1 DEF OutboxOk, MailOk
  <2>5. ASSUME NEW i
        PROVE  Invitation!Cardinality({r \in x5 : r.of = i /\ r.kind # "create" /\ r.mount = x4}) <= 1
    <3> DEFINE S == {r \in x5 : r.of = i /\ r.kind # "create" /\ r.mount = x4}
    <3>1. \A r, o \in S : r = o
      BY <1>1 DEF Apart, Rival
    <3>2. S = {} \/ \E r : S = {r}
      BY <3>1
    <3>3. Cardinality(S) <= 1
      <4>1. CASE S = {}
        BY <4>1, FS_EmptySet
      <4>2. CASE \E r : S = {r}
        <5> HIDE DEF S
        <5>1. PICK r : S = {r}
          BY <4>2
        <5> QED BY <5>1, FS_Singleton
      <4> QED BY <3>2, <4>1, <4>2
    <3> QED BY <3>3 DEF Invitation!Cardinality, Cardinality
  <2> QED BY <2>1, <2>2, <2>3, <2>4, <2>5 DEF Invitation!TypeOK
<1>3. Invitation!OwnActionIsSeen
  BY <1>1 DEF Invitation!OwnActionIsSeen, Invitation!rowsShown, Invitation!invitations,
     Invitation!Made, ListOwn, Late, Invited
<1>4. Invitation!NoOlderMail
  <2> DEFINE q == x3[Invitation!take(x2)]
  <2> SUFFICES ASSUME q.fetch = NULL, ~q.error, NEW i \in Invitation!invitations(x2),
                      Invitation!delivery(i) # NULL
               PROVE  Invitation!delivery(i).id >= x6[i].mail
    BY DEF Invitation!NoOlderMail, Invitation!Idle, Invitation!outboxQuery
  <2>1. /\ q.data # NULL
        /\ Invitation!delivery(i) = Invitation!latestInviteDeliveryByInvitationId(i, q.data)
    BY DEF Invitation!delivery, Invitation!outboxQuery
  <2>2. i \in Invited /\ Invitation!take(x2) = HowMany(x2) /\ HowMany(x2) \in 1..2
    BY ShownIs DEF Invitation!enabled
  <2>3. MailOk(q, HowMany(x2)) /\ MailOwn(q, x6)
    BY <1>1, <2>2 DEF OutboxOk
  <2> HIDE DEF q
  <2>4. AtLeast(q.data, i, x6[i].mail) /\ q.data \in Seq(Mail) /\ Len(q.data) <= 2
    BY <2>1, <2>2, <2>3 DEF MailOk, MailOwn
  <2>5. x6[i].mail \in Nat
    BY <1>1, <2>2 DEF ToldOk
  <2> QED BY <2>1, <2>2, <2>4, <2>5, FirstMail
<1> QED BY <1>2, <1>3, <1>4

-----------------------------------------------------------------------------
(* Mails: one more, and others of the same numbers.                        *)
LEMMA OneMore ==
  ASSUME NEW m, MailsOk(m), NEW i \in Invited \cup {NULL}
  PROVE  /\ MailsOk(Invitation!Mailed(m, i)) /\ Len(Invitation!Mailed(m, i)) = Len(m) + 1
         /\ i \in Invited => AtLeast(Invitation!Mailed(m, i), i, Len(m) + 1)
         /\ \A j \in Invited, v \in Nat : (AtLeast(m, j, v) /\ v <= Len(m))
              => AtLeast(Invitation!Mailed(m, i), j, v)
<1> DEFINE one == [of |-> i, status |-> "PENDING", id |-> Len(m) + 1]
           n == <<one>> \o m
<1>1. one \in Mail /\ m \in Seq(Mail) /\ Len(m) \in Nat
  BY DEF Mail, MailsOk, Invitation!AuthMailOutboxStatus
<1>2. Invitation!Mailed(m, i) = n
  BY DEF Invitation!Mailed
<1>3. one.of = i /\ one.id = Len(m) + 1
  OBVIOUS
<1> HIDE DEF one
<1>4. /\ n \in Seq(Mail) /\ Len(n) = Len(m) + 1 /\ n[1] = one
      /\ \A k \in 2..Len(m) + 1 : n[k] = m[k - 1]
  <2> DEFINE s == <<one>>
  <2>1. s \in Seq(Mail) /\ Len(s) = 1 /\ s[1] = one
    BY <1>1
  <2> HIDE DEF s
  <2>2. s \o m \in Seq(Mail) /\ Len(s \o m) = Len(s) + Len(m)
    BY <1>1, <2>1, ConcatProperties
  <2>4. \A k \in 1..Len(s) + Len(m) : (s \o m)[k] = IF k <= Len(s) THEN s[k] ELSE m[k - Len(s)]
    BY <1>1, <2>1, ConcatProperties
  <2>3. n = s \o m
    BY DEF s
  <2> HIDE DEF n
  <2> QED BY <1>1, <2>1, <2>2, <2>3, <2>4
<1> HIDE DEF n
<1>5. MailsOk(n)
  <2> SUFFICES ASSUME NEW k \in 1..Len(m) + 1 PROVE n[k].id = Len(m) + 1 - k + 1
    BY <1>4 DEF MailsOk
  <2>1. CASE k = 1
    BY <1>1, <1>3, <1>4, <2>1
  <2>2. CASE k # 1
    <3>1. k \in 2..Len(m) + 1 /\ k - 1 \in 1..Len(m)
      BY <1>1, <2>2
    <3>2. m[k - 1].id = Len(m) - (k - 1) + 1
      BY <3>1 DEF MailsOk
    <3> QED BY <1>1, <1>4, <3>1, <3>2
  <2> QED BY <2>1, <2>2
<1>6. i \in Invited => AtLeast(n, i, Len(m) + 1)
  <2> SUFFICES ASSUME i \in Invited, NEW k \in 1..Len(m) + 1, n[k].of = i,
                      \A j \in 1..k - 1 : n[j].of # i
               PROVE  n[k].id >= Len(m) + 1
    BY <1>4 DEF AtLeast
  <2>1. k = 1
    <3>1. 1 \in 1..k - 1 \/ k = 1
      BY <1>1
    <3> QED BY <1>3, <1>4, <3>1
  <2> QED BY <1>1, <1>3, <1>4, <2>1
<1>7. ASSUME NEW j \in Invited, NEW v \in Nat, AtLeast(m, j, v), v <= Len(m)
      PROVE  AtLeast(n, j, v)
  <2> SUFFICES ASSUME NEW k \in 1..Len(m) + 1, n[k].of = j, \A h \in 1..k - 1 : n[h].of # j
               PROVE  n[k].id >= v
    BY <1>4 DEF AtLeast
  <2>1. CASE k = 1
    BY <1>1, <1>3, <1>4, <1>7, <2>1
  <2>2. CASE k # 1
    <3>1. k \in 2..Len(m) + 1 /\ k - 1 \in 1..Len(m)
      BY <1>1, <2>2
    <3>2. n[k] = m[k - 1] /\ m[k - 1].of = j
      BY <1>4, <3>1
    <3>3. \A h \in 1..k - 1 - 1 : m[h].of # j
      <4> SUFFICES ASSUME NEW h \in 1..k - 1 - 1 PROVE m[h].of # j
        OBVIOUS
      <4>1. h + 1 \in 1..k - 1 /\ h + 1 \in 2..Len(m) + 1 /\ h + 1 - 1 = h
        BY <1>1
      <4>2. n[h + 1].of # j /\ n[h + 1] = m[h + 1 - 1]
        BY <1>4, <4>1
      <4> QED BY <4>1, <4>2
    <3> QED BY <1>7, <3>1, <3>2, <3>3 DEF AtLeast
  <2> QED BY <2>1, <2>2
<1> QED BY <1>2, <1>4, <1>5, <1>6, <1>7

(* Mails whose states have changed keep their order and their numbers.     *)
LEMMA MailsTurn ==
  ASSUME NEW m, MailsOk(m), NEW n, n = [k \in 1..Len(m) |-> n[k]],
         \A k \in 1..Len(m) : n[k] \in Mail /\ n[k].of = m[k].of /\ n[k].id = m[k].id
  PROVE  /\ MailsOk(n) /\ Len(n) = Len(m)
         /\ \A j \in Invited, v \in Nat : AtLeast(m, j, v) => AtLeast(n, j, v)
<1>1. m \in Seq(Mail) /\ Len(m) \in Nat
  BY DEF MailsOk
<1>2. n \in [1..Len(m) -> Mail]
  OBVIOUS
<1>3. n \in Seq(Mail) /\ Len(n) = Len(m)
  BY <1>1, <1>2, SeqDef, LenProperties
<1>4. MailsOk(n)
  BY <1>3 DEF MailsOk
<1>5. \A j \in Invited, v \in Nat : AtLeast(m, j, v) => AtLeast(n, j, v)
  <2> SUFFICES ASSUME NEW j \in Invited, NEW v \in Nat, AtLeast(m, j, v),
                      NEW k \in 1..Len(m), n[k].of = j, \A h \in 1..k - 1 : n[h].of # j
               PROVE  n[k].id >= v
    BY <1>3 DEF AtLeast
  <2>1. \A h \in 1..k - 1 : h \in 1..Len(m)
    BY <1>1
  <2>2. \A h \in 1..k - 1 : m[h].of # j
    BY <2>1
  <2> QED BY <2>2 DEF AtLeast
<1> QED BY <1>3, <1>4, <1>5

(* What the server does undoes nothing that was done.                      *)
Furthers(s, z) ==
  /\ Invitation!Made(s) \subseteq Invitation!Made(z)
  /\ \A i \in Invited : s.changed[i] <= z.changed[i]
  /\ Len(s.mails) <= Len(z.mails)
  /\ \A i \in Invited, v \in Nat : (AtLeast(s.mails, i, v) /\ v <= Len(s.mails))
       => AtLeast(z.mails, i, v)

(* An invitation changes: its state, and the mails by m.                   *)
LEMMA Changes ==
  ASSUME NEW s, Serves(s), NEW i \in Invited, NEW status \in Invitation!InvitationStatus
  PROVE  Invitation!Set(s, i, status) =
           [status |-> [s.status EXCEPT ![i] = status],
            changed |-> [s.changed EXCEPT ![i] = s.changed[i] + 1], mails |-> s.mails]
<1> DEFINE a == [s EXCEPT !.status[i] = status]
           z == [a EXCEPT !.changed[i] = @ + 1]
           st == [s.status EXCEPT ![i] = status]
           ch == [s.changed EXCEPT ![i] = s.changed[i] + 1]
<1>1. Invitation!Set(s, i, status) = z
  BY DEF Invitation!Set
<1>2. a = [s EXCEPT !.status = st]
  OBVIOUS
<1>3. a = [status |-> st, changed |-> s.changed, mails |-> s.mails]
  <2> HIDE DEF a, st
  <2> QED BY <1>2 DEF Serves
<1>4. z = [a EXCEPT !.changed = [a.changed EXCEPT ![i] = a.changed[i] + 1]]
  <2> HIDE DEF a
  <2> QED OBVIOUS
<1> HIDE DEF z, a, st
<1>5. z = [status |-> st, changed |-> ch, mails |-> s.mails]
  BY <1>3, <1>4
<1> QED BY <1>1, <1>5 DEF st

(* A change of one invitation, with the mail it may send, takes the server *)
(* further.                                                                *)
LEMMA ChangesOnward ==
  ASSUME NEW s, Serves(s), NEW i \in Invited, NEW status \in Invitation!InvitationStatus,
         NEW m, MailsOk(m), Len(s.mails) <= Len(m),
         \A j \in Invited, v \in Nat : (AtLeast(s.mails, j, v) /\ v <= Len(s.mails)) => AtLeast(m, j, v),
         NEW w, w = Invitation!Set(s, i, status), NEW z, z = [w EXCEPT !.mails = m]
  PROVE  Serves(z) /\ Furthers(s, z) /\ Invitation!Made(z) = Invitation!Made(s) \cup {i}
<1>1. w = [status |-> [s.status EXCEPT ![i] = status],
           changed |-> [s.changed EXCEPT ![i] = s.changed[i] + 1], mails |-> s.mails]
  BY Changes
<1>2. /\ z.status = [s.status EXCEPT ![i] = status] /\ z.mails = m
      /\ z.changed = [s.changed EXCEPT ![i] = s.changed[i] + 1]
      /\ z = [status |-> z.status, changed |-> z.changed, mails |-> z.mails]
  <2> DEFINE st == [s.status EXCEPT ![i] = status]
             ch == [s.changed EXCEPT ![i] = s.changed[i] + 1]
  <2>1. w = [status |-> st, changed |-> ch, mails |-> s.mails]
    BY <1>1
  <2> HIDE DEF st, ch
  <2>2. z = [status |-> st, changed |-> ch, mails |-> m]
    BY <2>1
  <2>3. z.status = st /\ z.changed = ch /\ z.mails = m
    BY <2>2
  <2> QED BY <2>2, <2>3 DEF st, ch
<1>3. status # NULL
  BY InvitationNull
<1>4. /\ z.status \in [Invited -> Invitation!InvitationStatus \cup {NULL}]
      /\ z.changed \in [Invited -> Nat]
      /\ \A j \in Invited : /\ z.status[j] = IF j = i THEN status ELSE s.status[j]
                            /\ s.changed[j] <= z.changed[j]
  <2>1. /\ s.status \in [Invited -> Invitation!InvitationStatus \cup {NULL}]
        /\ s.changed \in [Invited -> Nat]
    BY DEF Serves
  <2>2. /\ z.status = [s.status EXCEPT ![i] = status]
        /\ z.changed = [s.changed EXCEPT ![i] = s.changed[i] + 1]
    BY <1>2
  <2> DEFINE st == z.status
             ch == z.changed
  <2> HIDE DEF st, ch
  <2>3. st = [s.status EXCEPT ![i] = status] /\ ch = [s.changed EXCEPT ![i] = s.changed[i] + 1]
    BY <2>2 DEF st, ch
  <2>4. /\ st \in [Invited -> Invitation!InvitationStatus \cup {NULL}]
        /\ \A j \in Invited : st[j] = IF j = i THEN status ELSE s.status[j]
    BY <2>1, <2>3
  <2>5. /\ ch \in [Invited -> Nat]
        /\ \A j \in Invited : ch[j] = IF j = i THEN s.changed[i] + 1 ELSE s.changed[j]
    BY <2>1, <2>3
  <2>6. \A j \in Invited : s.changed[j] <= ch[j]
    BY <2>1, <2>5
  <2> QED BY <2>4, <2>5, <2>6 DEF st, ch
<1>5. Serves(z)
  BY <1>2, <1>4 DEF Serves
<1>6. Invitation!Made(z) = Invitation!Made(s) \cup {i}
  BY <1>3, <1>4 DEF Invitation!Made, Invited
<1>7. Furthers(s, z)
  BY <1>2, <1>4, <1>6 DEF Furthers
<1> QED BY <1>5, <1>6, <1>7

(* Only the mails change.                                                  *)
LEMMA MailsOnward ==
  ASSUME NEW s, Serves(s), NEW m, MailsOk(m), Len(s.mails) <= Len(m),
         \A j \in Invited, v \in Nat : (AtLeast(s.mails, j, v) /\ v <= Len(s.mails)) => AtLeast(m, j, v),
         NEW z, z = [s EXCEPT !.mails = m]
  PROVE  Serves(z) /\ Furthers(s, z) /\ Invitation!Made(z) = Invitation!Made(s)
<1>1. z = [status |-> s.status, changed |-> s.changed, mails |-> m]
  BY DEF Serves
<1>2. z.status = s.status /\ z.changed = s.changed /\ z.mails = m
  BY <1>1
<1>3. Serves(z)
  BY <1>1, <1>2 DEF Serves
<1>4. \A j \in Invited : s.changed[j] \in Nat
  BY DEF Serves
<1>5. Invitation!Made(z) = Invitation!Made(s)
  BY <1>2 DEF Invitation!Made
<1> QED BY <1>2, <1>3, <1>4, <1>5 DEF Furthers

(* Mails that are cancelled, and one mail that turns.                      *)
LEMMA CancelledMails ==
  ASSUME NEW m, MailsOk(m), NEW i
  PROVE  LET n == Invitation!Cancelled(m, i) IN
         /\ MailsOk(n) /\ Len(n) = Len(m)
         /\ \A j \in Invited, v \in Nat : AtLeast(m, j, v) => AtLeast(n, j, v)
<1> DEFINE n == Invitation!Cancelled(m, i)
<1>1. DOMAIN m = 1..Len(m) /\ \A k \in 1..Len(m) : m[k] \in Mail
  BY DEF MailsOk
<1>2. n = [k \in 1..Len(m) |-> n[k]]
      /\ \A k \in 1..Len(m) : n[k] = m[k] \/ n[k] = [m[k] EXCEPT !.status = "CANCELLED"]
  BY <1>1 DEF Invitation!Cancelled
<1>3. \A k \in 1..Len(m) : n[k] \in Mail /\ n[k].of = m[k].of /\ n[k].id = m[k].id
  <2> HIDE DEF n
  <2> QED BY <1>1, <1>2 DEF Mail, Invitation!AuthMailOutboxStatus
<1> HIDE DEF n
<1>4. /\ MailsOk(n) /\ Len(n) = Len(m)
      /\ \A j \in Invited, v \in Nat : AtLeast(m, j, v) => AtLeast(n, j, v)
  BY <1>2, <1>3, MailsTurn
<1> QED BY <1>4 DEF n

-----------------------------------------------------------------------------
(* What was asked stays as it was asked, whatever the server does next.    *)
LEMMA AskedStays ==
  ASSUME NEW s, Serves(s), NEW z, Serves(z), Furthers(s, z), NEW r, NEW list, NEW mount,
         AskedOk(r, s, list, mount),
         (r.kind = "create" /\ r.state = "sent") => Invitation!Made(z) # Invited
  PROVE  AskedOk(r, z, list, mount)
<1>1. r.state = "ok" =>
       /\ r.of \in Invited /\ r.changed <= z.changed[r.of]
       /\ r.mailed <= Len(z.mails) /\ AtLeast(z.mails, r.of, r.mailed)
  <2> SUFFICES ASSUME r.state = "ok"
               PROVE  /\ r.of \in Invited /\ r.changed <= z.changed[r.of]
                      /\ r.mailed <= Len(z.mails) /\ AtLeast(z.mails, r.of, r.mailed)
    OBVIOUS
  <2>1. /\ r.of \in Invited /\ r.changed <= s.changed[r.of] /\ r.changed \in Nat
        /\ r.mailed \in Nat /\ r.mailed <= Len(s.mails) /\ AtLeast(s.mails, r.of, r.mailed)
    BY DEF AskedOk
  <2>2. /\ s.changed[r.of] \in Nat /\ z.changed[r.of] \in Nat
        /\ Len(s.mails) \in Nat /\ Len(z.mails) \in Nat
    BY <2>1 DEF Serves, MailsOk
  <2>3. s.changed[r.of] <= z.changed[r.of] /\ Len(s.mails) <= Len(z.mails)
    BY <2>1 DEF Furthers
  <2>4. AtLeast(z.mails, r.of, r.mailed)
    BY <2>1 DEF Furthers
  <2> QED BY <2>1, <2>2, <2>3, <2>4
<1> QED BY <1>1 DEF AskedOk, Furthers

(* The server goes further, and nothing that is shown moves.               *)
LEMMA InvitedServer ==
  ASSUME InvitationInv, UNCHANGED <<x2, x3, x4, x6>>, Serves(x1'), Furthers(x1, x1'),
         \A r \in x5' : AskedOk(r, x1', x2, x4), Apart(x5')
  PROVE  InvitationInv'
<1>1. /\ Serves(x1) /\ ToldOk(x6, x1) /\ ListOk(x2, x1) /\ ListOwn(x2, x6) /\ x4 \in Nat
      /\ OutboxOk(x3, x2, x6)
  BY DEF InvitationInv
<1>2. \A i \in Invited : /\ x1.changed[i] \in Nat /\ x1'.changed[i] \in Nat
                         /\ x1.changed[i] <= x1'.changed[i]
  BY <1>1 DEF Serves, Furthers
<1>3. Len(x1.mails) \in Nat /\ Len(x1'.mails) \in Nat /\ Len(x1.mails) <= Len(x1'.mails)
  BY <1>1 DEF Serves, MailsOk, Furthers
<1>4. ToldOk(x6, x1')
  <2> SUFFICES ASSUME NEW i \in Invited
               PROVE  /\ x6[i].changed <= x1'.changed[i] /\ x6[i].mail <= Len(x1'.mails)
                      /\ AtLeast(x1'.mails, i, x6[i].mail)
    BY <1>1 DEF ToldOk
  <2>1. /\ x6[i].changed \in Nat /\ x6[i].mail \in Nat /\ x6[i].changed <= x1.changed[i]
        /\ x6[i].mail <= Len(x1.mails) /\ AtLeast(x1.mails, i, x6[i].mail)
    BY <1>1 DEF ToldOk
  <2>2. AtLeast(x1'.mails, i, x6[i].mail)
    BY <2>1 DEF Furthers
  <2> QED BY <1>2, <1>3, <2>1, <2>2
<1>5. ListOk(x2, x1')
  <2>1. \A i \in Invited : (x2.fetch = "read") =>
            x2.read.changed[i] \in Nat /\ x2.read.changed[i] <= x1.changed[i]
    BY <1>1 DEF ListOk, Invitation!Listed, Invited
  <2>2. \A i \in Invited : (x2.fetch = "read") => x2.read.changed[i] <= x1'.changed[i]
    BY <1>2, <2>1
  <2>3. Invitation!Made(x1) \subseteq Invitation!Made(x1')
    BY DEF Furthers
  <2> QED BY <1>1, <2>2, <2>3 DEF ListOk
<1> QED BY <1>1, <1>4, <1>5 DEF InvitationInv

(* Whom a request is about, and what comes of it.                          *)
LEMMA ResultIs ==
  ASSUME InvitationInv, NEW r \in x5, r.state = "sent",
         NEW i, i = Invitation!Subject(r), NEW s, s = Invitation!Result(r, i), s # NULL
  PROVE  /\ i \in Invited /\ Serves(s) /\ Furthers(x1, s)
         /\ r.kind = "create" => i \notin Invitation!Made(x1)
         /\ r.kind # "create" => i = r.of /\ Invitation!Made(s) = Invitation!Made(x1)
         /\ r.kind \in {"create", "resend"} => AtLeast(s.mails, i, Len(s.mails))
         /\ i \in Invitation!Made(s)
<1>1. Serves(x1) /\ AskedOk(r, x1, x2, x4)
  BY DEF InvitationInv
<1>2. Invitation!Made(x1) \subseteq Invited
  BY DEF Invitation!Made, Invited
<1>5. MailsOk(x1.mails) /\ Len(x1.mails) \in Nat
      /\ {"PENDING", "REVOKED"} \subseteq Invitation!InvitationStatus
  BY <1>1 DEF Serves, MailsOk, Invitation!InvitationStatus
<1>3. CASE r.kind = "create"
  <2> DEFINE free == Invited \ Invitation!Made(x1)
  <2>1. free # {} /\ free \subseteq {1, 2}
    BY <1>1, <1>2, <1>3 DEF AskedOk, Invited
  <2>2. i = CHOOSE n \in free : \A j \in free : n <= j
    BY <1>3 DEF Invitation!Subject, Invited
  <2>3. \E n \in free : \A j \in free : n <= j
    <3> HIDE DEF free
    <3>1. CASE 1 \in free
      BY <2>1, <3>1
    <3>2. CASE 1 \notin free
      <4>1. free = {2}
        BY <2>1, <3>2
      <4> QED BY <4>1
    <3> QED BY <3>1, <3>2
  <2>4. i \in free
    <3> HIDE DEF free
    <3> QED BY <2>2, <2>3
  <2>5. s = [Invitation!Set(x1, i, "PENDING") EXCEPT !.mails = Invitation!Mailed(@, i)]
    BY <1>3 DEF Invitation!Result
  <2> DEFINE m == Invitation!Mailed(x1.mails, i)
  <2>6. MailsOk(x1.mails) /\ Len(x1.mails) \in Nat /\ "PENDING" \in Invitation!InvitationStatus
    BY <1>1 DEF Serves, MailsOk, Invitation!InvitationStatus
  <2> DEFINE w == Invitation!Set(x1, i, "PENDING")
  <2>7. w = Invitation!Set(x1, i, "PENDING") /\ s = [w EXCEPT !.mails = m]
    <3>1. w.mails = x1.mails
      BY <1>1, <2>4, <2>6, Changes
    <3> HIDE DEF w
    <3> QED BY <2>5, <3>1 DEF w
  <2> HIDE DEF w
  <2>8. /\ MailsOk(m) /\ Len(m) = Len(x1.mails) + 1 /\ AtLeast(m, i, Len(m))
        /\ \A j \in Invited, v \in Nat : (AtLeast(x1.mails, j, v) /\ v <= Len(x1.mails)) => AtLeast(m, j, v)
    BY <2>4, <2>6, OneMore
  <2> HIDE DEF m
  <2>10. Len(x1.mails) <= Len(m) /\ i \in Invited
    BY <2>4, <2>6, <2>8
  <2>9. /\ Serves(s) /\ Furthers(x1, s)
        /\ Invitation!Made(s) = Invitation!Made(x1) \cup {i}
    <3>1. "PENDING" \in Invitation!InvitationStatus /\ MailsOk(m)
          /\ \A j \in Invited, v \in Nat : (AtLeast(x1.mails, j, v) /\ v <= Len(x1.mails)) => AtLeast(m, j, v)
      BY <2>6, <2>8
    <3> QED BY <1>1, <2>7, <2>10, <3>1, ChangesOnward
  <2>11. s.mails = m
    BY <1>1, <2>4, <2>6, <2>7, Changes
  <2> QED BY <1>3, <2>4, <2>8, <2>9, <2>11
<1>4. ASSUME r.kind # "create"
      PROVE  i = r.of /\ i \in Invitation!Made(x1) /\ i \in Invited
  BY <1>1, <1>2, <1>4 DEF AskedOk, Invitation!Subject
<1>6. CASE r.kind = "resend"
  <2> DEFINE c == Invitation!Cancelled(x1.mails, i)
             m == Invitation!Mailed(c, i)
  <2>1. s = [Invitation!Set(x1, i, "PENDING") EXCEPT !.mails = Invitation!Mailed(Invitation!Cancelled(@, i), i)]
    BY <1>6 DEF Invitation!Result
  <2>2. /\ MailsOk(c) /\ Len(c) = Len(x1.mails)
        /\ \A j \in Invited, v \in Nat : AtLeast(x1.mails, j, v) => AtLeast(c, j, v)
    BY <1>5, CancelledMails
  <2>3. i \in Invited /\ i = r.of /\ i \in Invitation!Made(x1)
    BY <1>4, <1>6
  <2> DEFINE w == Invitation!Set(x1, i, "PENDING")
  <2>4. w = Invitation!Set(x1, i, "PENDING") /\ s = [w EXCEPT !.mails = m]
    <3>1. w.mails = x1.mails
      BY <1>1, <1>5, <2>3, Changes
    <3> HIDE DEF w
    <3> QED BY <2>1, <3>1 DEF w
  <2> HIDE DEF w
  <2> HIDE DEF c
  <2>5. /\ MailsOk(m) /\ Len(m) = Len(c) + 1 /\ AtLeast(m, i, Len(c) + 1)
        /\ \A j \in Invited, v \in Nat : (AtLeast(c, j, v) /\ v <= Len(c)) => AtLeast(m, j, v)
    BY <2>2, <2>3, OneMore
  <2> HIDE DEF m
  <2>6. /\ Len(x1.mails) <= Len(m)
        /\ \A j \in Invited, v \in Nat : (AtLeast(x1.mails, j, v) /\ v <= Len(x1.mails)) => AtLeast(m, j, v)
    BY <1>5, <2>2, <2>5
  <2>7. /\ Serves(s) /\ Furthers(x1, s)
        /\ Invitation!Made(s) = Invitation!Made(x1) \cup {i}
    BY <1>1, <1>5, <2>3, <2>4, <2>5, <2>6, ChangesOnward
  <2>8. s.mails = m
    BY <1>1, <1>5, <2>3, <2>4, Changes
  <2> QED BY <1>6, <2>3, <2>5, <2>7, <2>8
<1>7. CASE r.kind = "cancel"
  <2> DEFINE m == Invitation!Cancelled(x1.mails, i)
  <2>1. s = [Invitation!Set(x1, i, "REVOKED") EXCEPT !.mails = Invitation!Cancelled(@, i)]
    BY <1>7 DEF Invitation!Result
  <2>2. /\ MailsOk(m) /\ Len(m) = Len(x1.mails)
        /\ \A j \in Invited, v \in Nat : AtLeast(x1.mails, j, v) => AtLeast(m, j, v)
    BY <1>5, CancelledMails
  <2>3. i \in Invited /\ i = r.of /\ i \in Invitation!Made(x1)
    BY <1>4, <1>7
  <2> DEFINE w == Invitation!Set(x1, i, "REVOKED")
  <2>4. w = Invitation!Set(x1, i, "REVOKED") /\ s = [w EXCEPT !.mails = m]
    <3>1. w.mails = x1.mails
      BY <1>1, <1>5, <2>3, Changes
    <3> HIDE DEF w
    <3> QED BY <2>1, <3>1 DEF w
  <2> HIDE DEF w
  <2> HIDE DEF m
  <2>5. /\ Len(x1.mails) <= Len(m) /\ MailsOk(m) /\ "REVOKED" \in Invitation!InvitationStatus
        /\ \A j \in Invited, v \in Nat : (AtLeast(x1.mails, j, v) /\ v <= Len(x1.mails)) => AtLeast(m, j, v)
    BY <1>5, <2>2
  <2>6. /\ Serves(s) /\ Furthers(x1, s)
        /\ Invitation!Made(s) = Invitation!Made(x1) \cup {i}
    BY <1>1, <1>5, <2>3, <2>4, <2>5, ChangesOnward
  <2> QED BY <1>7, <2>3, <2>6
<1>8. CASE r.kind = "reprocess"
  <2> DEFINE m == [k \in DOMAIN x1.mails |->
           IF x1.mails[k].id = r.mail THEN [x1.mails[k] EXCEPT !.status = "PENDING"] ELSE x1.mails[k]]
  <2>1. s = [x1 EXCEPT !.mails = m]
    BY <1>8 DEF Invitation!Result
  <2>2. i \in Invited /\ i = r.of /\ i \in Invitation!Made(x1)
    BY <1>4, <1>8
  <2>3. DOMAIN x1.mails = 1..Len(x1.mails) /\ \A k \in 1..Len(x1.mails) : x1.mails[k] \in Mail
    BY <1>5 DEF MailsOk
  <2>4. m = [k \in 1..Len(x1.mails) |-> m[k]]
        /\ \A k \in 1..Len(x1.mails) : m[k] = x1.mails[k] \/ m[k] = [x1.mails[k] EXCEPT !.status = "PENDING"]
    BY <2>3
  <2> HIDE DEF m
  <2>5. \A k \in 1..Len(x1.mails) : m[k] \in Mail /\ m[k].of = x1.mails[k].of /\ m[k].id = x1.mails[k].id
    BY <2>3, <2>4 DEF Mail, Invitation!AuthMailOutboxStatus
  <2>6. /\ MailsOk(m) /\ Len(m) = Len(x1.mails)
        /\ \A j \in Invited, v \in Nat : AtLeast(x1.mails, j, v) => AtLeast(m, j, v)
    BY <1>5, <2>4, <2>5, MailsTurn
  <2>8. /\ Len(x1.mails) <= Len(m)
        /\ \A j \in Invited, v \in Nat : (AtLeast(x1.mails, j, v) /\ v <= Len(x1.mails)) => AtLeast(m, j, v)
    BY <1>5, <2>6
  <2>7. Serves(s) /\ Furthers(x1, s) /\ Invitation!Made(s) = Invitation!Made(x1)
    BY <1>1, <2>1, <2>6, <2>8, MailsOnward
  <2> QED BY <1>8, <2>2, <2>7
<1>9. r.kind \in {"create", "resend", "cancel", "reprocess"}
  BY DEF Invitation!Result
<1> QED BY <1>3, <1>6, <1>7, <1>8, <1>9

(* One request in the place of another, of the same row and kind.          *)
LEMMA OneForAnother ==
  ASSUME Apart(x5), NEW r \in x5, NEW n, x5' = (x5 \ {r}) \cup {n},
         n.kind = r.kind, n.mount = r.mount, n.kind # "create" => n.of = r.of
  PROVE  Apart(x5') /\ \A o \in x5 \ {r} : r.kind = "create" => o.kind # "create"
<1>1. \A o \in x5 \ {r} : ~Rival(r, o) /\ ~Rival(o, r)
  BY DEF Apart
<1>2. \A o \in x5 \ {r} : ~Rival(n, o) /\ ~Rival(o, n)
  BY <1>1 DEF Rival
<1>3. Apart(x5')
  BY <1>2 DEF Apart
<1> QED BY <1>1, <1>3 DEF Rival

(* The server answers a request.                                           *)
LEMMA ServeStep ==
  ASSUME InvitationInv, NEW r \in x5, Invitation!Serve(r)
  PROVE  InvitationInv'
<1> DEFINE i == Invitation!Subject(r)
           s == Invitation!Result(r, i)
<1>0. /\ Serves(x1) /\ \A o \in x5 : AskedOk(o, x1, x2, x4)
      /\ ListOk(x2, x1) /\ Apart(x5)
  BY DEF InvitationInv
<1>1. r.state = "sent" /\ UNCHANGED <<x2, x3, x4, x6>> /\ AskedOk(r, x1, x2, x4)
  BY <1>0 DEF Invitation!Serve
<1>2. CASE s = NULL
  <2> DEFINE n == [r EXCEPT !.state = "refused"]
  <2>1. x5' = (x5 \ {r}) \cup {n} /\ x1' = x1
    BY <1>2 DEF Invitation!Serve
  <2>2. n = [kind |-> r.kind, of |-> r.of, mail |-> r.mail, mount |-> r.mount, state |-> "refused",
             changed |-> r.changed, mailed |-> r.mailed, id |-> r.id]
    BY <1>1 DEF AskedOk
  <2> HIDE DEF n, s
  <2>3. AskedOk(n, x1, x2, x4)
    BY <1>1, <2>2 DEF AskedOk
  <2>4. Apart(x5')
    BY <1>0, <2>1, <2>2, OneForAnother
  <2>5. Furthers(x1, x1)
    BY <1>0 DEF Furthers, Serves, MailsOk
  <2> QED BY <1>0, <1>1, <2>1, <2>3, <2>4, <2>5, InvitedServer
<1>3. CASE s # NULL
  <2> DEFINE yes == "ok"
             mailed == IF r.kind \in {"create", "resend"} THEN Len(s.mails) ELSE 0
             n1 == [r EXCEPT !.state = yes]
             n2 == [n1 EXCEPT !.of = i]
             n3 == [n2 EXCEPT !.changed = s.changed[i]]
             n == [n3 EXCEPT !.mailed = mailed]
  <2>1. x5' = (x5 \ {r}) \cup {n} /\ x1' = s
    BY <1>3 DEF Invitation!Serve
  <2>2. /\ i \in Invited /\ Serves(s) /\ Furthers(x1, s)
        /\ r.kind = "create" => i \notin Invitation!Made(x1)
        /\ r.kind # "create" => i = r.of /\ Invitation!Made(s) = Invitation!Made(x1)
        /\ r.kind \in {"create", "resend"} => AtLeast(s.mails, i, Len(s.mails))
        /\ i \in Invitation!Made(s)
    <3>1. i = Invitation!Subject(r) /\ s = Invitation!Result(r, i) /\ s # NULL /\ r.state = "sent"
      BY <1>1, <1>3
    <3> HIDE DEF i, s
    <3> QED BY <3>1, ResultIs
  <2>3. /\ s.changed[i] \in Nat /\ Len(s.mails) \in Nat /\ MailsOk(s.mails)
    BY <2>2 DEF Serves, MailsOk
  <2> HIDE DEF s, i, yes
  <2>4. mailed \in Nat /\ mailed <= Len(s.mails) /\ AtLeast(s.mails, i, mailed)
    <3>1. CASE r.kind \in {"create", "resend"}
      BY <2>2, <2>3, <3>1
    <3>2. CASE r.kind \notin {"create", "resend"}
      <4>1. mailed = 0
        BY <3>2
      <4>2. \A k \in 1..Len(s.mails) : s.mails[k].id >= 0
        BY <2>3 DEF MailsOk
      <4> QED BY <2>3, <4>1, <4>2 DEF AtLeast
    <3> QED BY <3>1, <3>2
  <2> HIDE DEF mailed
  <2>5. n = [kind |-> r.kind, of |-> i, mail |-> r.mail, mount |-> r.mount, state |-> yes,
             changed |-> s.changed[i], mailed |-> mailed, id |-> r.id]
    <3>1. n1 = [kind |-> r.kind, of |-> r.of, mail |-> r.mail, mount |-> r.mount, state |-> yes,
                changed |-> r.changed, mailed |-> r.mailed, id |-> r.id]
      BY <1>1 DEF AskedOk
    <3> HIDE DEF n1
    <3>2. n2 = [kind |-> r.kind, of |-> i, mail |-> r.mail, mount |-> r.mount, state |-> yes,
                changed |-> r.changed, mailed |-> r.mailed, id |-> r.id]
      BY <3>1
    <3> HIDE DEF n2
    <3>3. n3 = [kind |-> r.kind, of |-> i, mail |-> r.mail, mount |-> r.mount, state |-> yes,
                changed |-> s.changed[i], mailed |-> r.mailed, id |-> r.id]
      BY <3>2
    <3> HIDE DEF n3
    <3> QED BY <3>3
  <2> HIDE DEF n
  <2>6. Apart(x5') /\ \A o \in x5 \ {r} : r.kind = "create" => o.kind # "create"
    <3>1. n.kind = r.kind /\ n.mount = r.mount /\ n.of = i
      BY <2>5
    <3> QED BY <1>0, <2>1, <2>2, <3>1, OneForAnother
  <2>7. AskedOk(n, s, x2, x4)
    <3>1. r.kind = "create" => (x2.fetch = "read" => x2.read.status[i] = NULL)
      BY <1>0, <2>2 DEF ListOk, Invitation!Made, Invited
    <3>2. s.changed[i] <= s.changed[i] /\ yes = "ok"
      BY <2>3 DEF yes
    <3> QED BY <1>1, <2>2, <2>3, <2>4, <2>5, <3>1, <3>2 DEF AskedOk
  <2>8. ASSUME NEW o \in x5 \ {r}
        PROVE  AskedOk(o, s, x2, x4)
    <3>1. (o.kind = "create" /\ o.state = "sent") => Invitation!Made(s) # Invited
      BY <1>0, <2>2, <2>6 DEF AskedOk
    <3>2. AskedOk(o, x1, x2, x4)
      BY <1>0
    <3> QED BY <1>0, <2>2, <3>1, <3>2, AskedStays
  <2>9. \A o \in x5' : AskedOk(o, s, x2, x4)
    BY <2>1, <2>7, <2>8
  <2> QED BY <1>1, <2>1, <2>2, <2>6, <2>9, InvitedServer
<1> QED BY <1>2, <1>3

(* What others do.                                                         *)
LEMMA OthersActStep ==
  ASSUME InvitationInv, Invitation!OthersAct
  PROVE  InvitationInv'
<1>0. Serves(x1) /\ (\A o \in x5 : AskedOk(o, x1, x2, x4)) /\ Apart(x5)
  BY DEF InvitationInv
<1>1. UNCHANGED <<x2, x3, x4, x5, x6>>
  BY DEF Invitation!OthersAct
<1>2. ASSUME Serves(x1'), Furthers(x1, x1'), Invitation!Made(x1') = Invitation!Made(x1)
      PROVE  InvitationInv'
  <2>1. \A o \in x5 : AskedOk(o, x1', x2, x4)
    <3> SUFFICES ASSUME NEW o \in x5 PROVE AskedOk(o, x1', x2, x4)
      OBVIOUS
    <3>1. AskedOk(o, x1, x2, x4)
      BY <1>0
    <3>2. (o.kind = "create" /\ o.state = "sent") => Invitation!Made(x1') # Invited
      BY <1>2, <3>1 DEF AskedOk
    <3> QED BY <1>0, <1>2, <3>1, <3>2, AskedStays
  <2> QED BY <1>0, <1>1, <1>2, <2>1, InvitedServer
<1>3. MailsOk(x1.mails) /\ Len(x1.mails) \in Nat /\ DOMAIN x1.mails = 1..Len(x1.mails)
      /\ \A k \in 1..Len(x1.mails) : x1.mails[k] \in Mail
  BY <1>0 DEF Serves, MailsOk
<1>4. ASSUME NEW k \in DOMAIN x1.mails, NEW s \in {"SENT", "DEAD"},
             x1' = [x1 EXCEPT !.mails[k].status = s]
      PROVE  InvitationInv'
  <2> DEFINE m == [x1.mails EXCEPT ![k] = [x1.mails[k] EXCEPT !.status = s]]
  <2>1. x1' = [x1 EXCEPT !.mails = m]
    BY <1>4
  <2>2. m = [h \in 1..Len(x1.mails) |-> m[h]]
        /\ \A h \in 1..Len(x1.mails) : m[h] = x1.mails[h] \/ m[h] = [x1.mails[h] EXCEPT !.status = s]
    BY <1>3
  <2> HIDE DEF m
  <2>3. \A h \in 1..Len(x1.mails) : m[h] \in Mail /\ m[h].of = x1.mails[h].of /\ m[h].id = x1.mails[h].id
    BY <1>3, <2>2 DEF Mail, Invitation!AuthMailOutboxStatus
  <2>4. /\ MailsOk(m) /\ Len(m) = Len(x1.mails)
        /\ \A j \in Invited, v \in Nat : AtLeast(x1.mails, j, v) => AtLeast(m, j, v)
    BY <1>3, <2>2, <2>3, MailsTurn
  <2>5. /\ Len(x1.mails) <= Len(m)
        /\ \A j \in Invited, v \in Nat : (AtLeast(x1.mails, j, v) /\ v <= Len(x1.mails)) => AtLeast(m, j, v)
    BY <1>3, <2>4
  <2>6. Serves(x1') /\ Furthers(x1, x1') /\ Invitation!Made(x1') = Invitation!Made(x1)
    BY <1>0, <2>1, <2>4, <2>5, MailsOnward
  <2> QED BY <1>2, <2>6
<1>5. CASE x1' = [x1 EXCEPT !.mails = Invitation!Mailed(@, NULL)]
  <2> DEFINE m == Invitation!Mailed(x1.mails, NULL)
  <2>1. x1' = [x1 EXCEPT !.mails = m]
    BY <1>5
  <2>2. /\ MailsOk(m) /\ Len(m) = Len(x1.mails) + 1
        /\ \A j \in Invited, v \in Nat : (AtLeast(x1.mails, j, v) /\ v <= Len(x1.mails)) => AtLeast(m, j, v)
    BY <1>3, OneMore
  <2> HIDE DEF m
  <2>3. Len(x1.mails) <= Len(m)
    BY <1>3, <2>2
  <2>4. Serves(x1') /\ Furthers(x1, x1') /\ Invitation!Made(x1') = Invitation!Made(x1)
    BY <1>0, <2>1, <2>2, <2>3, MailsOnward
  <2> QED BY <1>2, <2>4
<1>6. ASSUME NEW i \in Invited, NEW s \in {"ACCEPTED", "EXPIRED"}, x1.status[i] = "PENDING",
             x1' = Invitation!Set(x1, i, s)
      PROVE  InvitationInv'
  <2>1. s \in Invitation!InvitationStatus
    BY DEF Invitation!InvitationStatus
  <2> DEFINE w == Invitation!Set(x1, i, s)
  <2>2. w = Invitation!Set(x1, i, s) /\ x1' = [w EXCEPT !.mails = x1.mails]
    <3>1. w = [status |-> [x1.status EXCEPT ![i] = s],
               changed |-> [x1.changed EXCEPT ![i] = x1.changed[i] + 1], mails |-> x1.mails]
      BY <1>0, <2>1, Changes
    <3>2. w = [w EXCEPT !.mails = x1.mails]
      <4> DEFINE st == [x1.status EXCEPT ![i] = s]
                 ch == [x1.changed EXCEPT ![i] = x1.changed[i] + 1]
      <4>1. w = [status |-> st, changed |-> ch, mails |-> x1.mails]
        BY <3>1
      <4> HIDE DEF w, st, ch
      <4> QED BY <4>1
    <3> QED BY <1>6, <3>2
  <2> HIDE DEF w
  <2>3. Len(x1.mails) <= Len(x1.mails)
        /\ \A j \in Invited, v \in Nat : (AtLeast(x1.mails, j, v) /\ v <= Len(x1.mails)) => AtLeast(x1.mails, j, v)
    BY <1>3
  <2>4. /\ Serves(x1') /\ Furthers(x1, x1')
        /\ Invitation!Made(x1') = Invitation!Made(x1) \cup {i}
    BY <1>0, <1>3, <2>1, <2>2, <2>3, ChangesOnward
  <2>5. i \in Invitation!Made(x1)
    <3>1. NULL # "PENDING"
      BY InvitationNull DEF Invitation!InvitationStatus
    <3> QED BY <1>6, <3>1 DEF Invitation!Made, Invited
  <2> QED BY <1>2, <2>4, <2>5
<1> QED BY <1>4, <1>5, <1>6 DEF Invitation!OthersAct, Invited

-----------------------------------------------------------------------------
(* Requests that are made and that are forgotten.                          *)
LEMMA RequestsEnd ==
  ASSUME InvitationInv, UNCHANGED <<x1, x2, x3, x4, x6>>, x5' \subseteq x5
  PROVE  InvitationInv'
<1>1. \A r \in x5' : AskedOk(r, x1', x2, x4)
  BY DEF InvitationInv
<1>2. Apart(x5')
  BY DEF InvitationInv, Apart
<1>3. Serves(x1') /\ Furthers(x1, x1')
  BY DEF InvitationInv, Furthers, Serves, MailsOk
<1> QED BY <1>1, <1>2, <1>3, InvitedServer

(* A request that is made is of a row that is shown, or of a new one.      *)
LEMMA RequestMade ==
  ASSUME InvitationInv, NEW kind \in {"create", "cancel", "resend", "reprocess"}, NEW i, NEW mail,
         Invitation!Request(kind, i, mail), UNCHANGED x8,
         kind = "create" => Invitation!Made(x1) # Invited /\ ~Invitation!creating,
         kind # "create" => Invitation!InviteRow(i)
  PROVE  InvitationInv'
<1> DEFINE n == [kind |-> kind, of |-> i, mail |-> mail, mount |-> x4,
                 state |-> "sent", changed |-> 0, mailed |-> 0, id |-> x7]
<1>0. /\ Serves(x1) /\ ListOk(x2, x1) /\ Apart(x5) /\ x4 \in Nat
      /\ \A o \in x5 : AskedOk(o, x1, x2, x4)
  BY DEF InvitationInv
<1>1. x5' = x5 \cup {n} /\ UNCHANGED <<x1, x2, x3, x4, x6>>
  BY DEF Invitation!Request
<1>2. /\ n.kind = kind /\ n.of = i /\ n.mount = x4 /\ n.state = "sent" /\ n.changed = 0
      /\ n.mailed = 0
      /\ n = [kind |-> n.kind, of |-> n.of, mail |-> n.mail, mount |-> n.mount,
              state |-> n.state, changed |-> n.changed, mailed |-> n.mailed, id |-> n.id]
  OBVIOUS
<1> HIDE DEF n
<1>3. kind # "create" => i \in Invitation!Made(x1) /\ x2.data # NULL
  BY <1>0 DEF Invitation!InviteRow, ListOk, Invitation!invitations
<1>4. AskedOk(n, x1, x2, x4)
  BY <1>0, <1>2, <1>3 DEF AskedOk
<1>5. \A o \in x5 : ~Rival(n, o) /\ ~Rival(o, n)
  BY <1>2 DEF Rival, Invitation!creating, Invitation!InviteRow, Invitation!busy
<1>6. Apart(x5')
  BY <1>0, <1>1, <1>5 DEF Apart
<1>7. \A r \in x5' : AskedOk(r, x1', x2, x4)
  BY <1>0, <1>1, <1>4
<1>8. Serves(x1') /\ Furthers(x1, x1')
  BY <1>0, <1>1 DEF Furthers, Serves, MailsOk
<1> QED BY <1>1, <1>6, <1>7, <1>8, InvitedServer

-----------------------------------------------------------------------------
(* Reads: asked again, answered and failed.                                *)
LEMMA MailAskedAgain ==
  ASSUME NEW q, q = [data |-> q.data, fetch |-> q.fetch, read |-> q.read, error |-> q.error,
                     invalidated |-> q.invalidated],
         NEW n, n = Invitation!Ask(q)
  PROVE  /\ n = [data |-> n.data, fetch |-> n.fetch, read |-> n.read, error |-> n.error,
                 invalidated |-> n.invalidated]
         /\ n.data = q.data /\ n.fetch = "asked"
<1> DEFINE e == q.error /\ q.data # NULL
           n1 == [q EXCEPT !.fetch = "asked"]
           n2 == [n1 EXCEPT !.read = NULL]
<1>1. n = [n2 EXCEPT !.error = e]
  BY DEF Invitation!Ask
<1> HIDE DEF e
<1>2. n1 = [data |-> q.data, fetch |-> "asked", read |-> q.read, error |-> q.error,
            invalidated |-> q.invalidated]
  OBVIOUS
<1> HIDE DEF n1
<1>3. n2 = [data |-> q.data, fetch |-> "asked", read |-> NULL, error |-> q.error,
            invalidated |-> q.invalidated]
  BY <1>2
<1> HIDE DEF n2
<1>4. n = [data |-> q.data, fetch |-> "asked", read |-> NULL, error |-> e,
           invalidated |-> q.invalidated]
  BY <1>1, <1>3
<1> QED BY <1>4

(* A read of mails that fails.                                             *)
LEMMA MailFailed ==
  ASSUME NEW q, q = [data |-> q.data, fetch |-> q.fetch, read |-> q.read, error |-> q.error,
                     invalidated |-> q.invalidated],
         NEW n, n = Invitation!Fail(q)
  PROVE  /\ n = [data |-> n.data, fetch |-> n.fetch, read |-> n.read, error |-> n.error,
                 invalidated |-> n.invalidated]
         /\ n.data = q.data /\ n.fetch = NULL /\ n.error
<1> DEFINE yes == TRUE
           n1 == [q EXCEPT !.fetch = NULL]
           n2 == [n1 EXCEPT !.read = NULL]
           n3 == [n2 EXCEPT !.error = yes]
<1>1. n = [n3 EXCEPT !.invalidated = yes]
  BY DEF Invitation!Fail
<1> HIDE DEF yes
<1>2. n1 = [data |-> q.data, fetch |-> NULL, read |-> q.read, error |-> q.error,
            invalidated |-> q.invalidated]
  OBVIOUS
<1> HIDE DEF n1
<1>3. n2 = [data |-> q.data, fetch |-> NULL, read |-> NULL, error |-> q.error,
            invalidated |-> q.invalidated]
  BY <1>2
<1> HIDE DEF n2
<1>4. n3 = [data |-> q.data, fetch |-> NULL, read |-> NULL, error |-> yes,
            invalidated |-> q.invalidated]
  BY <1>3
<1> HIDE DEF n3
<1>5. n = [data |-> q.data, fetch |-> NULL, read |-> NULL, error |-> yes,
           invalidated |-> yes]
  BY <1>1, <1>4
<1>6. n.data = q.data /\ n.fetch = NULL /\ n.error = yes
  BY <1>5
<1>7. n.error
  BY <1>6 DEF yes
<1>8. n = [data |-> n.data, fetch |-> n.fetch, read |-> n.read, error |-> n.error,
           invalidated |-> n.invalidated]
  BY <1>5
<1> QED BY <1>6, <1>7, <1>8

(* A read of mails that is shown.                                          *)
LEMMA MailAnswered ==
  ASSUME NEW q, NEW n, n = Invitation!Answer(q)
  PROVE  /\ n = [data |-> n.data, fetch |-> n.fetch, read |-> n.read, error |-> n.error,
                 invalidated |-> n.invalidated]
         /\ n.data = q.read /\ n.fetch = NULL
BY DEF Invitation!Answer

(* A step of the list.                                                     *)
LEMMA InvitesMove ==
  ASSUME InvitationInv, UNCHANGED <<x1, x5, x6>>, x4' \in Nat, x4 <= x4',
         ListOk(x2', x1), ListOwn(x2', x6), OutboxOk(x3', x2', x6),
         x2.data # NULL => x2'.data # NULL,
         x2'.fetch = "read" => x2'.read.changed = x1.changed
  PROVE  InvitationInv'
<1>1. \A r \in x5 : AskedOk(r, x1, x2', x4')
  <2> SUFFICES ASSUME NEW r \in x5 PROVE AskedOk(r, x1, x2', x4')
    OBVIOUS
  <2>1. AskedOk(r, x1, x2, x4) /\ x4 \in Nat
    BY DEF InvitationInv
  <2>2. r.mount \in 0..x4'
    BY <2>1 DEF AskedOk
  <2>3. (r.state = "ok" /\ x2'.fetch = "read") => x2'.read.changed[r.of] >= r.changed
    <3>1. r.state = "ok" => /\ r.changed <= x1.changed[r.of] /\ x1.changed[r.of] \in Nat
                            /\ r.changed \in Nat
      BY <2>1 DEF AskedOk, InvitationInv, Serves
    <3> QED BY <3>1
  <2> QED BY <2>1, <2>2, <2>3 DEF AskedOk
<1>2. Serves(x1') /\ ToldOk(x6', x1') /\ Apart(x5') /\ ListOk(x2', x1')
  BY DEF InvitationInv
<1>3. ListOwn(x2', x6') /\ OutboxOk(x3', x2', x6') /\ \A r \in x5' : AskedOk(r, x1', x2', x4')
  BY <1>1
<1> QED BY <1>2, <1>3 DEF InvitationInv

(* The list is shown: mails not read before are asked for.                 *)
LEMMA RenderShows ==
  ASSUME InvitationInv, NEW list, Invitation!Render(list),
         Invitation!invitations(x2) \subseteq Invitation!invitations(list)
  PROVE  OutboxOk(x3', list, x6) /\ x4' \in Nat /\ x4 <= x4' /\ x2' = list
<1> DEFINE h == HowMany(x2)
           g == HowMany(list)
<1>0. OutboxOk(x3, x2, x6) /\ x4 \in Nat
  BY DEF InvitationInv
<1>1. x4' \in Nat /\ x4 <= x4' /\ x2' = list
  BY <1>0 DEF Invitation!Render
<1>2. /\ h \in 0..2 /\ g \in 0..2 /\ h <= g
      /\ Invitation!enabled(x2) <=> h # 0
      /\ Invitation!enabled(list) <=> g # 0
      /\ Invitation!take(x2) = IF h = 0 THEN 1 ELSE h
      /\ Invitation!take(list) = IF g = 0 THEN 1 ELSE g
  BY ShownIs, TwoInvited DEF HowMany
<1> HIDE DEF h, g
<1>3. CASE g = h
  <2>1. x3' = x3
    BY <1>2, <1>3 DEF Invitation!Render
  <2> QED BY <1>0, <1>1, <1>3, <2>1 DEF OutboxOk, h, g
<1>4. CASE g # h
  <2> DEFINE q == x3[g]
             n == Invitation!Ask(q)
  <2>1. g \in 1..2 /\ g > h /\ Invitation!take(list) = g
    BY <1>2, <1>4
  <2>2. q.data = NULL /\ q.fetch = NULL /\ MailOk(q, g)
    BY <1>0, <2>1 DEF OutboxOk, h
  <2>3. Invitation!enabled(list) /\ (~Invitation!enabled(x2) \/ Invitation!take(list) # Invitation!take(x2))
    BY <1>2, <2>1
  <2>4. x3' = [x3 EXCEPT ![g] = n]
    BY <2>1, <2>2, <2>3 DEF Invitation!Render
  <2>5. /\ n = [data |-> n.data, fetch |-> n.fetch, read |-> n.read, error |-> n.error,
                 invalidated |-> n.invalidated]
        /\ n.data = q.data /\ n.fetch = "asked"
    <3> HIDE DEF q
    <3> QED BY <2>2, MailAskedAgain DEF MailOk
  <2> HIDE DEF n
  <2>6. MailOk(n, g) /\ MailOwn(n, x6)
    <3>1. "asked" # "read" /\ "asked" # NULL
      BY InvitationNull
    <3> HIDE DEF q
    <3> QED BY <2>2, <2>5, <3>1 DEF MailOk, MailOwn
  <2>7. x3 = [t \in 1..2 |-> x3[t]]
    BY <1>0 DEF OutboxOk
  <2>8. x3' = [t \in 1..2 |-> x3'[t]] /\ \A t \in 1..2 : x3'[t] = IF t = g THEN n ELSE x3[t]
    BY <2>1, <2>4, <2>7
  <2>9. \A t \in 1..2 :
       /\ MailOk(x3'[t], t)
       /\ t > g => x3'[t].data = NULL /\ x3'[t].fetch = NULL
       /\ t = g => MailOwn(x3'[t], x6)
    <3> SUFFICES ASSUME NEW t \in 1..2
                 PROVE  /\ MailOk(x3'[t], t)
                        /\ t > g => x3'[t].data = NULL /\ x3'[t].fetch = NULL
                        /\ t = g => MailOwn(x3'[t], x6)
      OBVIOUS
    <3>1. CASE t = g
      BY <2>1, <2>6, <2>8, <3>1
    <3>2. CASE t # g
      <4>1. x3'[t] = x3[t] /\ MailOk(x3[t], t) /\ (t > h => x3[t].data = NULL /\ x3[t].fetch = NULL)
        BY <1>0, <2>8, <3>2 DEF OutboxOk, h
      <4>2. t > g => t > h
        BY <1>2, <2>1
      <4> QED BY <3>2, <4>1, <4>2
    <3> QED BY <3>1, <3>2
  <2> QED BY <1>1, <2>8, <2>9 DEF OutboxOk, g
<1> QED BY <1>3, <1>4

(* As many invitations are shown as long as the list is the same one.      *)
LEMMA SameShown ==
  ASSUME NEW q, NEW n, n.data = q.data
  PROVE  Invitation!invitations(n) = Invitation!invitations(q) /\ HowMany(n) = HowMany(q)
BY DEF Invitation!invitations, HowMany

(* The list is read.                                                       *)
LEMMA ListReadStep ==
  ASSUME InvitationInv, Invitation!listInvitations
  PROVE  InvitationInv'
<1> DEFINE d == [status |-> x1.status, changed |-> x1.changed]
           n1 == [x2 EXCEPT !.fetch = "read"]
           n == [n1 EXCEPT !.read = d]
<1>0. /\ Serves(x1) /\ ToldOk(x6, x1) /\ ListOk(x2, x1) /\ OutboxOk(x3, x2, x6) /\ x4 \in Nat
  BY DEF InvitationInv
<1>1. x2' = n /\ UNCHANGED <<x1, x3, x4, x5, x6>>
  BY DEF Invitation!listInvitations
<1>2. /\ d \in Invitation!Listed /\ Invitation!Made(d) = Invitation!Made(x1)
      /\ d.changed = x1.changed
  BY <1>0 DEF Serves, Invitation!Listed, Invitation!Made, Invited
<1> HIDE DEF d
<1>3. n1 = [data |-> x2.data, fetch |-> "read", read |-> x2.read, error |-> x2.error,
            invalidated |-> x2.invalidated]
  BY <1>0 DEF ListOk
<1> HIDE DEF n1
<1>4. n = [data |-> x2.data, fetch |-> "read", read |-> d, error |-> x2.error,
           invalidated |-> x2.invalidated]
  BY <1>3
<1> HIDE DEF n
<1>5. n.data = x2.data /\ n.fetch = "read" /\ n.read = d
      /\ n = [data |-> n.data, fetch |-> n.fetch, read |-> n.read, error |-> n.error,
              invalidated |-> n.invalidated]
  BY <1>4
<1>6. Invitation!invitations(n) \subseteq Invitation!Made(x1)
      /\ Invitation!invitations(n) = Invitation!invitations(x2) /\ HowMany(n) = HowMany(x2)
  BY <1>0, <1>5, SameShown DEF ListOk, Invitation!invitations
<1>7. \A i \in Invited : x1.changed[i] \in Nat
  BY <1>0 DEF Serves
<1>8. ListOk(n, x1)
  BY <1>0, <1>2, <1>5, <1>6, <1>7 DEF ListOk
<1>9. ListOwn(n, x6)
  <2>1. Late(d, x6)
    BY <1>0, <1>2 DEF ToldOk, Late
  <2>2. "read" # NULL
    BY InvitationNull
  <2> QED BY <1>5, <2>1, <2>2 DEF ListOwn
<1>10. OutboxOk(x3', n, x6)
  BY <1>0, <1>1, <1>6 DEF OutboxOk
<1>11. x4' \in Nat /\ x4 <= x4'
  BY <1>0, <1>1
<1> QED BY <1>1, <1>2, <1>5, <1>8, <1>9, <1>10, <1>11, InvitesMove

(* The list that was read is shown.                                        *)
LEMMA ListAnsweredStep ==
  ASSUME InvitationInv, Invitation!ListAnswered
  PROVE  InvitationInv'
<1> DEFINE n == Invitation!Answer(x2)
<1>0. ListOk(x2, x1) /\ ListOwn(x2, x6)
  BY DEF InvitationInv
<1>1. /\ x2.fetch = "read" /\ Invitation!Render(n) /\ UNCHANGED <<x1, x5, x6>>
  BY DEF Invitation!ListAnswered
<1>2. /\ n = [data |-> n.data, fetch |-> n.fetch, read |-> n.read, error |-> n.error,
              invalidated |-> n.invalidated]
      /\ n.data = x2.read /\ n.fetch = NULL
  BY MailAnswered
<1> HIDE DEF n
<1>3. x2.read \in Invitation!Listed /\ n.data # NULL /\ n.fetch # "read"
  BY <1>0, <1>1, <1>2, InvitationNull DEF ListOk
<1>4. Invitation!invitations(x2) \subseteq Invitation!invitations(n)
  BY <1>0, <1>1, <1>2, <1>3 DEF ListOk, Invitation!invitations
<1>5. OutboxOk(x3', n, x6) /\ x4' \in Nat /\ x4 <= x4' /\ x2' = n
  BY <1>1, <1>4, RenderShows
<1>6. ListOk(n, x1) /\ ListOwn(n, x6)
  BY <1>0, <1>1, <1>2, <1>3 DEF ListOk, ListOwn
<1> QED BY <1>1, <1>3, <1>5, <1>6, InvitesMove

(* A read of the list fails.                                               *)
LEMMA ListFailsStep ==
  ASSUME InvitationInv, Invitation!ListFails
  PROVE  InvitationInv'
<1> DEFINE n == Invitation!Fail(x2)
<1>0. ListOk(x2, x1)
  BY DEF InvitationInv
<1>1. Invitation!Render(n) /\ UNCHANGED <<x1, x5, x6>>
  BY DEF Invitation!ListFails
<1>2. /\ n = [data |-> n.data, fetch |-> n.fetch, read |-> n.read, error |-> n.error,
              invalidated |-> n.invalidated]
      /\ n.data = x2.data /\ n.fetch = NULL /\ n.error
  BY <1>0, MailFailed DEF ListOk
<1> HIDE DEF n
<1>3. n.fetch # "read"
  BY <1>2, InvitationNull
<1>4. Invitation!invitations(x2) = Invitation!invitations(n)
  BY <1>2, SameShown
<1>5. OutboxOk(x3', n, x6) /\ x4' \in Nat /\ x4 <= x4' /\ x2' = n
  BY <1>1, <1>4, RenderShows
<1>6. ListOk(n, x1) /\ ListOwn(n, x6)
  BY <1>0, <1>2, <1>3 DEF ListOk, ListOwn
<1> QED BY <1>1, <1>2, <1>3, <1>5, <1>6, InvitesMove

-----------------------------------------------------------------------------
(* A step of one read of mails.                                            *)
LEMMA OutboxMoves ==
  ASSUME InvitationInv, NEW t \in 1..2, t <= HowMany(x2), NEW n, MailOk(n, t),
         t = HowMany(x2) => MailOwn(n, x6), x3' = [x3 EXCEPT ![t] = n], UNCHANGED <<x1, x2, x4, x5, x6>>
  PROVE  InvitationInv'
<1>0. OutboxOk(x3, x2, x6)
  BY DEF InvitationInv
<1>1. x3' = [u \in 1..2 |-> x3'[u]] /\ \A u \in 1..2 : x3'[u] = IF u = t THEN n ELSE x3[u]
  BY <1>0 DEF OutboxOk
<1>2. HowMany(x2) \in 0..2
  BY ShownIs
<1>3. OutboxOk(x3', x2, x6)
  <2> SUFFICES ASSUME NEW u \in 1..2
               PROVE  /\ MailOk(x3'[u], u)
                      /\ u > HowMany(x2) => x3'[u].data = NULL /\ x3'[u].fetch = NULL
                      /\ u = HowMany(x2) => MailOwn(x3'[u], x6)
    BY <1>1 DEF OutboxOk
  <2>1. CASE u = t
    BY <1>1, <1>2, <2>1
  <2>2. CASE u # t
    BY <1>0, <1>1, <2>2 DEF OutboxOk
  <2> QED BY <2>1, <2>2
<1> QED BY <1>3 DEF InvitationInv

(* A read of mails that is under way is one that was asked for.            *)
LEMMA MailAskedFor ==
  ASSUME InvitationInv, NEW t \in 1..2, x3[t].fetch # NULL
  PROVE  t <= HowMany(x2) /\ MailOk(x3[t], t) /\ (t = HowMany(x2) => MailOwn(x3[t], x6))
<1>1. HowMany(x2) \in 0..2
  BY ShownIs
<1> QED BY <1>1 DEF InvitationInv, OutboxOk

(* The first mails of all say the same of what is among them.              *)
LEMMA FirstOnes ==
  ASSUME NEW m, MailsOk(m), NEW l \in Nat, l <= Len(m), NEW n, Len(n) = l,
         \A k \in 1..l : n[k] = m[k], NEW i \in Invited, NEW v \in Nat, AtLeast(m, i, v)
  PROVE  AtLeast(n, i, v)
<1>1. Len(m) \in Nat
  BY DEF MailsOk
<1> SUFFICES ASSUME NEW k \in 1..l, n[k].of = i, \A j \in 1..k - 1 : n[j].of # i
             PROVE  n[k].id >= v
  BY DEF AtLeast
<1>2. k \in 1..Len(m) /\ n[k] = m[k]
  BY <1>1
<1>3. \A j \in 1..k - 1 : j \in 1..l
  BY <1>1
<1>4. \A j \in 1..k - 1 : m[j].of # i
  BY <1>3
<1> QED BY <1>2, <1>4 DEF AtLeast

(* The mails of the rows that are shown are read.                          *)
LEMMA OutboxReadStep ==
  ASSUME InvitationInv, NEW t \in 1..2, Invitation!listMailOutbox(t)
  PROVE  InvitationInv'
<1> DEFINE q == x3[t]
           rows == SubSeq(x1.mails, 1, IF Len(x1.mails) < t THEN Len(x1.mails) ELSE t)
           n1 == [q EXCEPT !.fetch = "read"]
           n == [n1 EXCEPT !.read = rows]
<1>1. q.fetch = "asked" /\ UNCHANGED <<x1, x2, x4, x5, x6>>
      /\ x3' = [x3 EXCEPT ![t].fetch = "read", ![t].read = rows]
  BY DEF Invitation!listMailOutbox
<1>2. t <= HowMany(x2) /\ MailOk(q, t) /\ x3 = [u \in 1..2 |-> x3[u]]
  BY <1>1, MailAskedFor, InvitationNull DEF InvitationInv, OutboxOk
<1>3. MailsOk(x1.mails) /\ t \in Nat
  BY DEF InvitationInv, Serves
<1>4. /\ rows \in Seq(Mail) /\ Len(rows) <= t
      /\ \A i \in Invited, v \in Nat : AtLeast(x1.mails, i, v) => AtLeast(rows, i, v)
  <2> DEFINE l == IF Len(x1.mails) < t THEN Len(x1.mails) ELSE t
  <2>1. rows = SubSeq(x1.mails, 1, l)
    OBVIOUS
  <2>2. l \in Nat /\ l <= Len(x1.mails) /\ l <= t
    <3>1. Len(x1.mails) \in Nat
      BY <1>3 DEF MailsOk
    <3> QED BY <1>3, <3>1
  <2> HIDE DEF rows, l
  <2>3. rows \in Seq(Mail) /\ Len(rows) = l /\ \A k \in 1..l : rows[k] = x1.mails[k]
    <3> DEFINE m == x1.mails
    <3>1. m \in Seq(Mail) /\ Len(m) \in Nat /\ l \in Int /\ 1 \in Int
      BY <1>3, <2>2 DEF MailsOk
    <3>2. \A k \in 1..l : m[k] \in Mail
      BY <2>2, <3>1
    <3> HIDE DEF m
    <3>3. /\ SubSeq(m, 1, l) \in Seq(Mail)
          /\ Len(SubSeq(m, 1, l)) = IF 1 <= l THEN l - 1 + 1 ELSE 0
          /\ \A k \in 1..l - 1 + 1 : SubSeq(m, 1, l)[k] = m[1 + k - 1]
      BY <3>1, <3>2, SubSeqProperties
    <3>4. rows = SubSeq(m, 1, l)
      BY <2>1 DEF m
    <3>5. Len(rows) = l /\ \A k \in 1..l : rows[k] = m[k]
      BY <2>2, <3>3, <3>4
    <3> QED BY <3>3, <3>4, <3>5 DEF m
  <2>4. \A i \in Invited, v \in Nat : AtLeast(x1.mails, i, v) => AtLeast(rows, i, v)
    BY <1>3, <2>2, <2>3, FirstOnes
  <2> QED BY <2>2, <2>3, <2>4
<1> HIDE DEF rows
<1>5. x3' = [x3 EXCEPT ![t] = n]
  <2> DEFINE f == [x3 EXCEPT ![t].fetch = "read"]
  <2>1. f = [x3 EXCEPT ![t] = n1]
    OBVIOUS
  <2>2. x3' = [f EXCEPT ![t].read = rows]
    BY <1>1
  <2> HIDE DEF f, n1
  <2>3. f[t] = n1
    BY <1>2, <2>1
  <2>4. x3' = [f EXCEPT ![t] = n]
    BY <2>2, <2>3
  <2> HIDE DEF n
  <2> QED BY <1>2, <2>1, <2>4
<1> HIDE DEF q
<1>6. n1 = [data |-> q.data, fetch |-> "read", read |-> q.read, error |-> q.error,
            invalidated |-> q.invalidated]
  BY <1>2 DEF MailOk
<1> HIDE DEF n1
<1>7. n = [data |-> q.data, fetch |-> "read", read |-> rows, error |-> q.error,
           invalidated |-> q.invalidated]
  BY <1>6
<1> HIDE DEF n
<1>8. n.data = q.data /\ n.fetch = "read" /\ n.read = rows
      /\ n = [data |-> n.data, fetch |-> n.fetch, read |-> n.read, error |-> n.error,
              invalidated |-> n.invalidated]
  BY <1>7
<1>9. MailOk(n, t)
  BY <1>2, <1>4, <1>8 DEF MailOk
<1>10. MailOwn(n, x6)
  <2>1. \A i \in Invited : x6[i].mail \in Nat /\ AtLeast(x1.mails, i, x6[i].mail)
    BY DEF InvitationInv, ToldOk
  <2>2. "read" # NULL
    BY InvitationNull
  <2> QED BY <1>4, <1>8, <2>1, <2>2 DEF MailOwn
<1> QED BY <1>1, <1>2, <1>5, <1>9, <1>10, OutboxMoves

(* The mails that were read are shown, or their read fails.                *)
LEMMA OutboxEndsStep ==
  ASSUME InvitationInv, NEW t \in 1..2,
         Invitation!OutboxAnswered(t) \/ Invitation!OutboxFails(t)
  PROVE  InvitationInv'
<1>1. CASE Invitation!OutboxAnswered(t)
  <2> DEFINE n == Invitation!Answer(x3[t])
  <2>1. /\ x3' = [x3 EXCEPT ![t] = n] /\ UNCHANGED <<x1, x2, x4, x5, x6>> /\ x3[t].fetch = "read"
    BY <1>1 DEF Invitation!OutboxAnswered, Invitation!OutboxEnds
  <2>2. /\ n = [data |-> n.data, fetch |-> n.fetch, read |-> n.read, error |-> n.error,
                 invalidated |-> n.invalidated]
        /\ n.data = x3[t].read /\ n.fetch = NULL
    BY MailAnswered
  <2> HIDE DEF n
  <2>3. t <= HowMany(x2) /\ MailOk(x3[t], t) /\ (t = HowMany(x2) => MailOwn(x3[t], x6))
    BY <2>1, MailAskedFor, InvitationNull
  <2>4. NULL # "read"
    BY InvitationNull
  <2>5. MailOk(n, t) /\ (t = HowMany(x2) => MailOwn(n, x6))
    BY <2>1, <2>2, <2>3, <2>4 DEF MailOk, MailOwn
  <2> QED BY <2>1, <2>3, <2>5, OutboxMoves
<1>2. CASE Invitation!OutboxFails(t)
  <2> DEFINE n == Invitation!Fail(x3[t])
  <2>1. /\ x3' = [x3 EXCEPT ![t] = n] /\ UNCHANGED <<x1, x2, x4, x5, x6>> /\ x3[t].fetch # NULL
    BY <1>2 DEF Invitation!OutboxFails, Invitation!OutboxEnds
  <2>2. t <= HowMany(x2) /\ MailOk(x3[t], t)
    BY <2>1, MailAskedFor
  <2>3. /\ n = [data |-> n.data, fetch |-> n.fetch, read |-> n.read, error |-> n.error,
                 invalidated |-> n.invalidated]
        /\ n.data = x3[t].data /\ n.fetch = NULL /\ n.error
    BY <2>2, MailFailed DEF MailOk
  <2> HIDE DEF n
  <2>4. NULL # "read"
    BY InvitationNull
  <2>5. MailOk(n, t) /\ MailOwn(n, x6)
    BY <2>2, <2>3, <2>4 DEF MailOk, MailOwn
  <2> QED BY <2>1, <2>2, <2>5, OutboxMoves
<1> QED BY <1>1, <1>2

-----------------------------------------------------------------------------
(* Everything is read again: what is not is a first read that goes on.     *)
LEMMA Invalidated ==
  ASSUME InvitationInv, Invitation!invalidate
  PROVE  /\ ListOk(x2', x1) /\ x2'.data = x2.data
         /\ x2'.fetch = "asked" \/ (x2' = x2 /\ x2.data = NULL /\ x2.fetch # NULL)
         /\ x3' = [t \in 1..2 |-> x3'[t]]
         /\ \A t \in 1..2 :
              /\ MailOk(x3'[t], t)
              /\ t > HowMany(x2') => x3'[t].data = NULL /\ x3'[t].fetch = NULL
              /\ t = HowMany(x2') =>
                   \/ x3'[t].fetch = "asked"
                   \/ x3'[t] = x3[t] /\ x3[t].data = NULL /\ x3[t].fetch # NULL
<1> DEFINE h == HowMany(x2)
<1>0. ListOk(x2, x1) /\ OutboxOk(x3, x2, x6)
  BY DEF InvitationInv
<1>1. "asked" # "read" /\ "asked" # NULL
  BY InvitationNull
<1>2. /\ ListOk(x2', x1) /\ x2'.data = x2.data
      /\ x2'.fetch = "asked" \/ (x2' = x2 /\ x2.data = NULL /\ x2.fetch # NULL)
  <2>1. CASE x2' = x2 /\ x2.data = NULL /\ x2.fetch # NULL
    BY <1>0, <2>1
  <2>2. CASE x2' = Invitation!Ask(x2)
    <3> DEFINE n == Invitation!Ask(x2)
    <3>1. /\ n = [data |-> n.data, fetch |-> n.fetch, read |-> n.read, error |-> n.error,
                   invalidated |-> n.invalidated]
          /\ n.data = x2.data /\ n.fetch = "asked"
      BY <1>0, MailAskedAgain DEF ListOk
    <3> HIDE DEF n
    <3>2. ListOk(n, x1)
      BY <1>0, <1>1, <3>1 DEF ListOk
    <3>3. x2' = n
      BY <2>2 DEF n
    <3> QED BY <3>1, <3>2, <3>3
  <2> QED BY <2>1, <2>2 DEF Invitation!invalidate
<1>3. HowMany(x2') = h
  BY <1>2, SameShown
<1>4. /\ h \in 0..2 /\ (Invitation!enabled(x2) <=> h # 0)
      /\ Invitation!take(x2) = IF h = 0 THEN 1 ELSE h
  BY ShownIs
<1> HIDE DEF h
<1>5. x3' = [t \in 1..2 |-> x3'[t]]
      /\ \A t \in 1..2 : x3'[t] =
           IF h # 0 /\ t = h
           THEN IF x3[t].data = NULL /\ x3[t].fetch # NULL THEN x3[t] ELSE Invitation!Ask(x3[t])
           ELSE [x3[t] EXCEPT !.invalidated = TRUE]
  BY <1>4 DEF Invitation!invalidate
<1>6. ASSUME NEW t \in 1..2
      PROVE  /\ MailOk(x3'[t], t)
             /\ t > h => x3'[t].data = NULL /\ x3'[t].fetch = NULL
             /\ t = h => \/ x3'[t].fetch = "asked"
                         \/ x3'[t] = x3[t] /\ x3[t].data = NULL /\ x3[t].fetch # NULL
  <2> DEFINE q == x3[t]
  <2>1. MailOk(q, t) /\ (t > h => q.data = NULL /\ q.fetch = NULL)
    BY <1>0 DEF OutboxOk, h
  <2>2. CASE t = h /\ x3'[t] = q /\ q.data = NULL /\ q.fetch # NULL
    BY <1>4, <2>1, <2>2
  <2>3. CASE t = h /\ x3'[t] = Invitation!Ask(q)
    <3> DEFINE n == Invitation!Ask(q)
    <3> HIDE DEF q
    <3>1. /\ n = [data |-> n.data, fetch |-> n.fetch, read |-> n.read, error |-> n.error,
                   invalidated |-> n.invalidated]
          /\ n.data = q.data /\ n.fetch = "asked"
      BY <2>1, MailAskedAgain DEF MailOk
    <3>2. x3'[t] = n
      BY <2>3
    <3> HIDE DEF n
    <3>3. MailOk(n, t)
      BY <1>1, <2>1, <3>1 DEF MailOk
    <3>4. ~(t > h)
      BY <1>4, <2>3
    <3> QED BY <3>1, <3>2, <3>3, <3>4
  <2>4. CASE t # h /\ x3'[t] = [q EXCEPT !.invalidated = TRUE]
    <3> DEFINE yes == TRUE
               n == [q EXCEPT !.invalidated = yes]
    <3> HIDE DEF q, yes
    <3>1. n = [data |-> q.data, fetch |-> q.fetch, read |-> q.read, error |-> q.error,
               invalidated |-> yes]
      BY <2>1 DEF MailOk
    <3>2. x3'[t] = n
      BY <2>4 DEF yes
    <3> HIDE DEF n
    <3>3. /\ n.data = q.data /\ n.fetch = q.fetch /\ n.read = q.read
          /\ n = [data |-> n.data, fetch |-> n.fetch, read |-> n.read, error |-> n.error,
                  invalidated |-> n.invalidated]
      BY <3>1
    <3>4. MailOk(n, t)
      BY <2>1, <3>3 DEF MailOk
    <3> QED BY <2>1, <2>4, <3>2, <3>3, <3>4
  <2>5. h = t => h # 0
    OBVIOUS
  <2> QED BY <1>5, <2>2, <2>3, <2>4, <2>5
<1> QED BY <1>2, <1>3, <1>5, <1>6

(* Everything has been asked for again, and the operator may have been     *)
(* told of something: of one row, as far as a read that goes on knows it.  *)
LEMMA ToldAndAsked ==
  ASSUME InvitationInv, Invitation!invalidate, UNCHANGED <<x1, x4>>, ToldOk(x6', x1),
         NEW rs, x5' = rs, Apart(rs), \A r \in rs : AskedOk(r, x1, x2, x4),
         (x2.data = NULL /\ x2.fetch = "read") => Late(x2.read, x6'),
         \A i \in Invited :
           x6'[i].mail = x6[i].mail
           \/ ~(x3[Invitation!take(x2)].data = NULL /\ x3[Invitation!take(x2)].fetch # NULL)
  PROVE  InvitationInv'
<1>1. /\ ListOk(x2', x1) /\ x2'.data = x2.data
      /\ x2'.fetch = "asked" \/ (x2' = x2 /\ x2.data = NULL /\ x2.fetch # NULL)
      /\ x3' = [t \in 1..2 |-> x3'[t]]
      /\ \A t \in 1..2 :
           /\ MailOk(x3'[t], t)
           /\ t > HowMany(x2') => x3'[t].data = NULL /\ x3'[t].fetch = NULL
           /\ t = HowMany(x2') =>
                \/ x3'[t].fetch = "asked"
                \/ x3'[t] = x3[t] /\ x3[t].data = NULL /\ x3[t].fetch # NULL
  BY Invalidated
<1>2. "asked" # "read" /\ "asked" # NULL
  BY InvitationNull
<1>3. HowMany(x2') = HowMany(x2) /\ HowMany(x2) \in 0..2
      /\ (HowMany(x2) # 0 => Invitation!take(x2) = HowMany(x2))
  BY <1>1, SameShown, ShownIs
<1>4. ListOwn(x2', x6')
  BY <1>1, <1>2 DEF ListOwn
<1>5. OutboxOk(x3', x2', x6')
  <2>1. ASSUME NEW t \in 1..2, t = HowMany(x2')
        PROVE  MailOwn(x3'[t], x6')
    <3>1. CASE x3'[t].fetch = "asked"
      BY <1>2, <3>1 DEF MailOwn
    <3>2. CASE x3'[t] = x3[t] /\ x3[t].data = NULL /\ x3[t].fetch # NULL
      <4>1. Invitation!take(x2) = t /\ t = HowMany(x2)
        BY <1>3, <2>1
      <4>2. MailOwn(x3[t], x6)
        BY <4>1 DEF InvitationInv, OutboxOk
      <4>3. \A i \in Invited : x6'[i].mail = x6[i].mail
        BY <3>2, <4>1
      <4> QED BY <3>2, <4>2, <4>3 DEF MailOwn
    <3> QED BY <1>1, <2>1, <3>1, <3>2
  <2> QED BY <1>1, <2>1 DEF OutboxOk
<1>6. \A r \in rs : AskedOk(r, x1, x2', x4)
  BY <1>1, <1>2 DEF AskedOk
<1> QED BY <1>1, <1>4, <1>5, <1>6 DEF InvitationInv

(* The list and the mails are asked for again.                             *)
LEMMA RefreshStep ==
  ASSUME InvitationInv, Invitation!refresh
  PROVE  InvitationInv'
<1>1. Invitation!invalidate /\ UNCHANGED <<x1, x4, x5, x6>>
  BY DEF Invitation!refresh
<1>2. /\ ToldOk(x6', x1) /\ Apart(x5) /\ (\A r \in x5 : AskedOk(r, x1, x2, x4))
      /\ (x2.data = NULL /\ x2.fetch = "read") => Late(x2.read, x6')
  BY <1>1 DEF InvitationInv, ListOwn
<1>3. \A i \in Invited :
        x6'[i].mail = x6[i].mail
        \/ ~(x3[Invitation!take(x2)].data = NULL /\ x3[Invitation!take(x2)].fetch # NULL)
  BY <1>1
<1> QED BY <1>1, <1>2, <1>3, ToldAndAsked

(* The operator is told.                                                   *)
LEMMA DoneStep ==
  ASSUME InvitationInv, NEW r \in x5, Invitation!Done(r)
  PROVE  InvitationInv'
<1> DEFINE i == r.of
           q == x3[Invitation!take(x2)]
           ch == IF r.changed > x6[i].changed THEN r.changed ELSE x6[i].changed
           ml == IF r.mailed > x6[i].mail /\ (q.data # NULL \/ q.fetch = NULL)
                 THEN r.mailed ELSE x6[i].mail
           one == [changed |-> ch, mail |-> ml]
           n == [r EXCEPT !.state = "refreshing"]
<1>0. /\ Serves(x1) /\ ToldOk(x6, x1) /\ ListOwn(x2, x6) /\ ListOk(x2, x1) /\ Apart(x5)
      /\ (\A o \in x5 : AskedOk(o, x1, x2, x4)) /\ AskedOk(r, x1, x2, x4)
  BY DEF InvitationInv
<1>1. /\ r.state = "ok" /\ Invitation!invalidate /\ UNCHANGED <<x1, x4>>
      /\ x5' = (x5 \ {r}) \cup {n}
      /\ x6' = [x6 EXCEPT ![i] = one]
  BY DEF Invitation!Done, Invitation!outboxQuery
<1>2. /\ i \in Invited /\ r.changed \in Nat /\ r.changed <= x1.changed[i]
      /\ r.mailed \in Nat /\ r.mailed <= Len(x1.mails) /\ AtLeast(x1.mails, i, r.mailed)
      /\ x6[i].changed \in Nat /\ x6[i].mail \in Nat /\ x6[i].changed <= x1.changed[i]
      /\ x6[i].mail <= Len(x1.mails) /\ AtLeast(x1.mails, i, x6[i].mail)
  BY <1>0, <1>1 DEF AskedOk, ToldOk
<1>3. /\ ch \in {r.changed, x6[i].changed} /\ ml \in {r.mailed, x6[i].mail}
      /\ ml = x6[i].mail \/ ~(q.data = NULL /\ q.fetch # NULL)
  OBVIOUS
<1> HIDE DEF ch, ml, q
<1>4. one.changed = ch /\ one.mail = ml /\ one \in [changed : Nat, mail : Nat]
  BY <1>2, <1>3
<1> HIDE DEF one
<1>5. x6' \in [Invited -> [changed : Nat, mail : Nat]]
      /\ \A j \in Invited : x6'[j] = IF j = i THEN one ELSE x6[j]
  BY <1>0, <1>1, <1>2, <1>4 DEF ToldOk
<1>6. ToldOk(x6', x1)
  <2> SUFFICES ASSUME NEW j \in Invited
               PROVE  /\ x6'[j].changed <= x1.changed[j] /\ x6'[j].mail <= Len(x1.mails)
                      /\ AtLeast(x1.mails, j, x6'[j].mail)
    BY <1>5 DEF ToldOk
  <2>1. CASE j = i
    BY <1>2, <1>3, <1>4, <1>5, <2>1
  <2>2. CASE j # i
    BY <1>0, <1>5, <2>2 DEF ToldOk
  <2> QED BY <2>1, <2>2
<1>7. n = [kind |-> r.kind, of |-> r.of, mail |-> r.mail, mount |-> r.mount, state |-> "refreshing",
           changed |-> r.changed, mailed |-> r.mailed, id |-> r.id]
  BY <1>0 DEF AskedOk
<1> HIDE DEF n
<1>8. AskedOk(n, x1, x2, x4)
  BY <1>0, <1>7 DEF AskedOk
<1>9. Apart(x5')
  BY <1>0, <1>1, <1>7, OneForAnother
<1>10. \A o \in x5' : AskedOk(o, x1, x2, x4)
  BY <1>0, <1>1, <1>8
<1>11. (x2.data = NULL /\ x2.fetch = "read") => Late(x2.read, x6')
  <2> SUFFICES ASSUME x2.data = NULL, x2.fetch = "read", NEW j \in Invited, x2.read.status[j] # NULL
               PROVE  x2.read.changed[j] >= x6'[j].changed
    BY DEF Late
  <2>1. x2.read.changed[j] >= x6[j].changed
    BY <1>0 DEF ListOwn, Late
  <2>2. CASE j = i
    <3>1. r.kind = "create"
      BY <1>0 DEF AskedOk
    <3>2. x2.read.changed[i] >= r.changed
      BY <1>0, <1>1, <2>2, <3>1 DEF AskedOk
    <3> QED BY <1>2, <1>3, <1>4, <1>5, <2>1, <2>2, <3>2
  <2>3. CASE j # i
    BY <1>5, <2>1, <2>3
  <2> QED BY <2>2, <2>3
<1>12. \A j \in Invited : x6'[j].mail = x6[j].mail \/ ~(q.data = NULL /\ q.fetch # NULL)
  BY <1>3, <1>4, <1>5
<1> QED BY <1>1, <1>6, <1>9, <1>10, <1>11, <1>12, ToldAndAsked DEF q

-----------------------------------------------------------------------------
(* The page when it opens, with up to one invitation.                      *)
LEMMA InvitationInit ==
  ASSUME Invitation!Init
  PROVE  InvitationInv
<1> DEFINE Q(f) == Invitation!Query(f)
<1>0. /\ x2 = Invitation!Query("asked") /\ x3 = [t \in 1..2 |-> Invitation!Query(NULL)]
      /\ x4 = 0 /\ x5 = {} /\ x6 = [i \in Invited |-> [changed |-> 0, mail |-> 0]]
  BY DEF Invitation!Init, Invited
<1>1. ASSUME NEW f
      PROVE  /\ Q(f) = [data |-> Q(f).data, fetch |-> Q(f).fetch, read |-> Q(f).read,
                        error |-> Q(f).error, invalidated |-> Q(f).invalidated]
             /\ Q(f).data = NULL /\ Q(f).fetch = f
  BY DEF Invitation!Query
<1>2. "asked" # "read" /\ "asked" # NULL /\ NULL # "read"
  BY InvitationNull
<1> HIDE DEF Q
<1>3. ListOk(x2, x1) /\ ListOwn(x2, x6) /\ x2.data = NULL
  BY <1>0, <1>1, <1>2 DEF ListOk, ListOwn, Q
<1>4. HowMany(x2) = 0
  BY <1>3, FS_EmptySet DEF HowMany, Invitation!invitations
<1>5. OutboxOk(x3, x2, x6)
  <2>1. x3 = [t \in 1..2 |-> x3[t]] /\ \A t \in 1..2 : x3[t] = Q(NULL)
    BY <1>0 DEF Q
  <2>2. \A t \in 1..2 : MailOk(Q(NULL), t) /\ Q(NULL).data = NULL /\ Q(NULL).fetch = NULL
    BY <1>1, <1>2 DEF MailOk
  <2>3. \A t \in 1..2 : t # HowMany(x2)
    BY <1>4
  <2> QED BY <2>1, <2>2, <2>3 DEF OutboxOk
<1>6. PICK n \in 0..Invitation!Cardinality({1, 2}) - 1 :
       x1 = [status |-> [i \in {1, 2} |-> IF i <= n THEN "PENDING" ELSE NULL],
             changed |-> [i \in {1, 2} |-> 0],
             mails |-> [k \in 1..n |-> [of |-> n - k + 1, status |-> "SENT", id |-> n - k + 1]]]
  BY DEF Invitation!Init
<1>7. n \in 0..1
  <2>1. Cardinality(Invited) \in 0..2
    BY TwoInvited
  <2> QED BY <2>1 DEF Invitation!Cardinality, Cardinality, Invited
<1>8. Serves(x1)
  <2> DEFINE m == [k \in 1..n |-> [of |-> n - k + 1, status |-> "SENT", id |-> n - k + 1]]
  <2>1. x1.mails = m /\ x1.status = [i \in Invited |-> IF i <= n THEN "PENDING" ELSE NULL]
        /\ x1.changed = [i \in Invited |-> 0]
        /\ x1 = [status |-> x1.status, changed |-> x1.changed, mails |-> x1.mails]
    BY <1>6 DEF Invited
  <2>2. m \in [1..n -> Mail] /\ \A k \in 1..n : m[k].id = n - k + 1
    BY <1>7 DEF Mail, Invited, Invitation!AuthMailOutboxStatus
  <2> HIDE DEF m
  <2>3. m \in Seq(Mail) /\ Len(m) = n
    BY <1>7, <2>2, SeqDef, LenProperties
  <2>4. x1.status \in [Invited -> Invitation!InvitationStatus \cup {NULL}]
        /\ x1.changed \in [Invited -> Nat]
    BY <2>1 DEF Invitation!InvitationStatus
  <2> QED BY <2>1, <2>2, <2>3, <2>4 DEF Serves, MailsOk
<1>9. ToldOk(x6, x1)
  <2>1. x6 \in [Invited -> [changed : Nat, mail : Nat]] /\ \A i \in Invited : x6[i].changed = 0 /\ x6[i].mail = 0
    BY <1>0
  <2>2. (\A i \in Invited : x1.changed[i] >= 0) /\ Len(x1.mails) >= 0 /\ \A i \in Invited : AtLeast(x1.mails, i, 0)
    <3>1. Len(x1.mails) \in Nat /\ \A k \in 1..Len(x1.mails) : x1.mails[k].id = Len(x1.mails) - k + 1
      BY <1>8 DEF Serves, MailsOk
    <3>2. \A i \in Invited : x1.changed[i] \in Nat
      BY <1>8 DEF Serves
    <3> QED BY <3>1, <3>2 DEF AtLeast
  <2> QED BY <2>1, <2>2 DEF ToldOk
<1> QED BY <1>0, <1>3, <1>5, <1>8, <1>9 DEF InvitationInv, Apart

(* A step of the page keeps its invariant.                                 *)
LEMMA InvitationStep ==
  ASSUME InvitationInv, Invitation!Next
  PROVE  InvitationInv'
<1>1. CASE Invitation!listInvitations \/ Invitation!ListAnswered \/ Invitation!ListFails \/ Invitation!refresh
  BY <1>1, ListReadStep, ListAnsweredStep, ListFailsStep, RefreshStep
<1>2. ASSUME NEW t \in 1..2,
             Invitation!listMailOutbox(t) \/ Invitation!OutboxAnswered(t) \/ Invitation!OutboxFails(t)
      PROVE  InvitationInv'
  BY <1>2, OutboxReadStep, OutboxEndsStep
<1>3. CASE Invitation!createInvitation
  <2>1. /\ Invitation!Made(x1) # Invited /\ ~Invitation!creating
        /\ Invitation!Request("create", NULL, NULL) /\ UNCHANGED x8
    BY <1>3 DEF Invitation!createInvitation, Invitation!Moves, Invited
  <2> QED BY <2>1, RequestMade
<1>4. ASSUME NEW i \in Invited,
             \/ Invitation!cancelInvitation(i) \/ Invitation!resendInvitation(i)
             \/ Invitation!reprocessMailOutbox(i)
      PROVE  InvitationInv'
  <2>1. Invitation!InviteRow(i) /\ UNCHANGED x8
    BY <1>4 DEF Invitation!cancelInvitation, Invitation!resendInvitation,
       Invitation!reprocessMailOutbox, Invitation!InviteRow, Invitation!Moves
  <2>2. \E kind \in {"cancel", "resend", "reprocess"} : \E mail : Invitation!Request(kind, i, mail)
    BY <1>4 DEF Invitation!cancelInvitation, Invitation!resendInvitation,
       Invitation!reprocessMailOutbox
  <2>3. PICK kind \in {"cancel", "resend", "reprocess"} : \E mail : Invitation!Request(kind, i, mail)
    BY <2>2
  <2>4. PICK mail : Invitation!Request(kind, i, mail)
    BY <2>3
  <2>5. kind \in {"create", "cancel", "resend", "reprocess"} /\ kind # "create"
    OBVIOUS
  <2> QED BY <2>1, <2>4, <2>5, RequestMade
<1>5. ASSUME NEW r \in x5, Invitation!Serve(r) \/ Invitation!Done(r)
      PROVE  InvitationInv'
  BY <1>5, ServeStep, DoneStep
<1>6. ASSUME NEW r \in x5, Invitation!Ended(r) \/ Invitation!Lost(r)
      PROVE  InvitationInv'
  <2>1. UNCHANGED <<x1, x2, x3, x4, x6>> /\ x5' \subseteq x5
    BY <1>6 DEF Invitation!Ended, Invitation!Lost
  <2> QED BY <2>1, RequestsEnd
<1>7. CASE Invitation!OthersAct
  BY <1>7, OthersActStep
<1> QED BY <1>1, <1>2, <1>3, <1>4, <1>5, <1>6, <1>7 DEF Invitation!Next, Invited

-----------------------------------------------------------------------------
(* The desks: each keeps its own invariant while it is on the screen.      *)

DesksInv ==
  /\ screen = "business" => BusinessInv
  /\ screen = "user" => UserInv
  /\ screen = "resource" => ResourceInv
  /\ screen = "queue" => QueueInv(Walked)
  /\ screen = "decided" => QueueInv(Judged)
  /\ screen = "counts" => QueueInv(Counted)
  /\ screen = "party" => PartyInv(Once)
  /\ screen = "again" => PartyInv(Again)

(* The sizes of the queues and the versions of the parties are numbers.    *)
LEMMA SizesAre ==
  /\ Sized(Walked) /\ Sized(Judged) /\ Sized(Counted)
  /\ Once.version \in Nat /\ Again.version \in Nat
BY SizesAssumption, TabsAssumption DEF Sized, Statuses, Walked, Judged, Counted, Once, Again

(* Whichever desk is shown first, it is in order.                          *)
LEMMA DesksInit == Init => DesksInv
<1> SUFFICES ASSUME Init PROVE DesksInv
  OBVIOUS
<1>1. CASE screen = "business" /\ Business!Init
  BY <1>1, BusinessInit DEF DesksInv
<1>2. CASE screen = "user" /\ User!Init
  BY <1>2, UserInit DEF DesksInv
<1>3. CASE screen = "resource" /\ Resource!Init
  BY <1>3, ResourceInit DEF DesksInv
<1>4. CASE screen = "queue" /\ Queue(Walked)!Init
  BY <1>4, QueueInit, SizesAre DEF DesksInv
<1>5. CASE screen = "decided" /\ Queue(Judged)!Init
  BY <1>5, QueueInit, SizesAre DEF DesksInv
<1>6. CASE screen = "counts" /\ Queue(Counted)!Init
  BY <1>6, QueueInit, SizesAre DEF DesksInv
<1>7. CASE screen = "party" /\ PartyPage(Once)!Init
  BY <1>7, PartyInit, SizesAre DEF DesksInv
<1>8. CASE screen = "again" /\ PartyPage(Again)!Init
  BY <1>8, PartyInit, SizesAre DEF DesksInv
<1>9. CASE screen \in {"invitation", "assignment"}
  BY <1>9 DEF DesksInv
<1> QED BY <1>1, <1>2, <1>3, <1>4, <1>5, <1>6, <1>7, <1>8, <1>9 DEF Init

(* A step of the desk that is shown keeps its invariant, and moves nothing *)
(* but what it is about.                                                   *)
LEMMA DesksKeep ==
  DesksInv /\ Next =>
    /\ DesksInv'
    /\ screen = "business" => Business!UntouchedStays
    /\ screen = "user" => User!ProfileStays /\ User!NoNeedlessSummary
    /\ screen = "resource" => Resource!OnlyAskedPages
<1> DEFINE Moved ==
      /\ screen = "business" => Business!UntouchedStays
      /\ screen = "user" => User!ProfileStays /\ User!NoNeedlessSummary
      /\ screen = "resource" => Resource!OnlyAskedPages
<1> SUFFICES ASSUME DesksInv, Next PROVE DesksInv' /\ Moved
  OBVIOUS
<1>1. CASE OnBusiness(Business!Next)
  <2>1. screen = "business" /\ screen' = screen /\ Business!Next /\ BusinessInv
    BY <1>1 DEF OnBusiness, DesksInv
  <2>2. BusinessInv' /\ Business!UntouchedStays
    BY <2>1, BusinessStep
  <2> QED BY <2>1, <2>2 DEF DesksInv
<1>2. CASE OnUser(User!Next)
  <2>1. screen = "user" /\ screen' = screen /\ User!Next /\ UserInv
    BY <1>2 DEF OnUser, DesksInv
  <2>2. UserInv' /\ User!ProfileStays /\ User!NoNeedlessSummary
    BY <2>1, UserStep
  <2> QED BY <2>1, <2>2 DEF DesksInv
<1>3. CASE OnResource(Resource!Next)
  <2>1. screen = "resource" /\ screen' = screen /\ Resource!Next /\ ResourceInv
    BY <1>3 DEF OnResource, DesksInv
  <2>2. ResourceInv' /\ Resource!OnlyAskedPages
    BY <2>1, ResourceStep, PagesAskedFor
  <2> QED BY <2>1, <2>2 DEF DesksInv
<1>4. CASE OnQueue(Queue(Walked)!Next)
  <2>1. screen = "queue" /\ screen' = screen /\ Queue(Walked)!Next /\ QueueInv(Walked)
    BY <1>4 DEF OnQueue, DesksInv
  <2>2. QueueInv(Walked)'
    BY <2>1, QueueStep, SizesAre
  <2> QED BY <2>1, <2>2 DEF DesksInv
<1>5. CASE OnDecided(Queue(Judged)!Next)
  <2>1. screen = "decided" /\ screen' = screen /\ Queue(Judged)!Next /\ QueueInv(Judged)
    BY <1>5 DEF OnDecided, DesksInv
  <2>2. QueueInv(Judged)'
    BY <2>1, QueueStep, SizesAre
  <2> QED BY <2>1, <2>2 DEF DesksInv
<1>6. CASE OnCounts(Queue(Counted)!Next)
  <2>1. screen = "counts" /\ screen' = screen /\ Queue(Counted)!Next /\ QueueInv(Counted)
    BY <1>6 DEF OnCounts, DesksInv
  <2>2. QueueInv(Counted)'
    BY <2>1, QueueStep, SizesAre
  <2> QED BY <2>1, <2>2 DEF DesksInv
<1>7. CASE OnParty(PartyPage(Once)!Next)
  <2>1. screen = "party" /\ screen' = screen /\ PartyPage(Once)!Next /\ PartyInv(Once)
    BY <1>7 DEF OnParty, DesksInv
  <2>2. PartyInv(Once)'
    BY <2>1, PartyStep
  <2> QED BY <2>1, <2>2 DEF DesksInv
<1>8. CASE OnAgain(PartyPage(Again)!Next)
  <2>1. screen = "again" /\ screen' = screen /\ PartyPage(Again)!Next /\ PartyInv(Again)
    BY <1>8 DEF OnAgain, DesksInv
  <2>2. PartyInv(Again)'
    BY <2>1, PartyStep
  <2> QED BY <2>1, <2>2 DEF DesksInv
<1>9. CASE OnInvitation(Invitation!Next) \/ OnAssignment(Assignment!Next)
  <2>1. screen \in {"invitation", "assignment"} /\ screen' = screen
    BY <1>9 DEF OnInvitation, OnAssignment
  <2> QED BY <2>1 DEF DesksInv
<1> HIDE DEF Moved
<1> QED BY <1>1, <1>2, <1>3, <1>4, <1>5, <1>6, <1>7, <1>8, <1>9 DEF Next

(* A step that changes nothing keeps them too.                             *)
LEMMA DesksStay == DesksInv /\ UNCHANGED vars => DesksInv'
<1> SUFFICES ASSUME DesksInv, UNCHANGED vars PROVE DesksInv'
  OBVIOUS
<1> USE DEF vars, After9, After8, After11
<1>1. BusinessInv => BusinessInv'
  BY DEF BusinessInv, ServerEntire, KnownWell, Known, FormIsOfProfile, FormTyped, MutationsEntire
<1>2. UserInv => UserInv'
  <2>1. User!TypeOK => User!TypeOK'
    BY DEF User!TypeOK
  <2> QED BY <2>1 DEF UserInv
<1>3. ResourceInv => ResourceInv'
  BY DEF ResourceInv, ResourceTypes, ResourceDialogs
<1>4. ASSUME NEW c PROVE QueueInv(c) => QueueInv(c)'
  BY DEF QueueInv
<1>5. ASSUME NEW c PROVE PartyInv(c) => PartyInv(c)'
  <2>1. PartyFlags => PartyFlags'
    BY DEF PartyFlags
  <2>2. PartyFigures(c) => PartyFigures(c)'
    BY DEF PartyFigures
  <2>3. PartyRuns(c) => PartyRuns(c)'
    BY DEF PartyRuns, PartyRun
  <2>4. PartyKnown => PartyKnown'
    BY DEF PartyKnown, Version
  <2> QED BY <2>1, <2>2, <2>3, <2>4 DEF PartyInv
<1> QED BY <1>1, <1>2, <1>3, <1>4, <1>5 DEF DesksInv

(* Every desk is in order, whichever is shown and whatever is done there.  *)
THEOREM Invariance == Spec => []DesksInv
<1>1. DesksInv /\ [Next]_vars => DesksInv'
  BY DesksKeep, DesksStay
<1> QED BY <1>1, DesksInit, PTL DEF Spec

(* A dialog waits for its own request and shows its own error, no report   *)
(* that waits is passed over by the walk along the queue, and a party is   *)
(* moved only from the status that was seen (AdminResourceConsole.tsx,     *)
(* reports/page.tsx and admin-reports.api.ts:48, PartyOperationsPanel).    *)
THEOREM NothingActedOnUnseen == Spec => []ActsOnWhatIsShown
<1>1. DesksInv => ActsOnWhatIsShown
  <2> SUFFICES ASSUME DesksInv PROVE ActsOnWhatIsShown
    OBVIOUS
  <2>1. screen = "resource" => Resource!TypeOK /\ Resource!DialogIsOwn /\ Resource!ErrorIsOwn
    BY ResourceHolds DEF DesksInv
  <2>2. screen = "queue" => Queue(Walked)!TypeOK /\ Queue(Walked)!NothingSkipped
    BY QueueHolds, SizesAre DEF DesksInv
  <2>3. screen = "counts" => Queue(Counted)!TypeOK /\ Queue(Counted)!NothingSkipped
    BY QueueHolds, SizesAre DEF DesksInv
  <2>4. screen = "party" => PartyPage(Once)!TypeOK /\ PartyPage(Once)!NoBlindMove
    BY PartyHolds DEF DesksInv
  <2>5. screen = "again" => PartyPage(Again)!TypeOK /\ PartyPage(Again)!NoBlindMove
    BY PartyHolds DEF DesksInv
  <2> QED BY <2>1, <2>2, <2>3, <2>4, <2>5 DEF ActsOnWhatIsShown
<1> QED BY <1>1, Invariance, PTL

(* A draft that is saved changes only what was typed in it, an answer only *)
(* the list it was asked for, a profile is not lost to a read in vain and  *)
(* no summary is read needlessly (BusinessCommerceConsole.tsx,             *)
(* AdminResourceConsole.tsx, the page of a user).                          *)
THEOREM OnlyWhatIsMeant == Spec => NothingElseMoves
<1>1. DesksInv /\ [Next]_vars =>
        [/\ screen = "business" => Business!UntouchedStays
         /\ screen = "user" => User!ProfileStays /\ User!NoNeedlessSummary
         /\ screen = "resource" => Resource!OnlyAskedPages]_vars
  BY DesksKeep
<1> QED BY <1>1, Invariance, PTL DEF Spec, NothingElseMoves

-----------------------------------------------------------------------------
(* What each desk keeps besides, of what its administrator was told.       *)

OwnInv ==
  /\ screen = "business" => BusinessOwn
  /\ screen = "user" => UserOwn
  /\ screen = "resource" => ResourceOwn
  /\ screen = "decided" => QueueOwn(Judged)
  /\ screen = "invitation" => InvitationInv
  /\ screen = "assignment" => AssignmentInv

(* Whichever desk is shown first, nothing has been done there.             *)
LEMMA OwnInit == Init => OwnInv
<1> SUFFICES ASSUME Init PROVE OwnInv
  OBVIOUS
<1>1. CASE screen = "business" /\ Business!Init
  BY <1>1, BusinessOwnInit DEF OwnInv
<1>2. CASE screen = "user" /\ User!Init
  BY <1>2, UserOwnInit DEF OwnInv
<1>3. CASE screen = "resource" /\ Resource!Init
  BY <1>3, ResourceOwnInit DEF OwnInv
<1>4. CASE screen = "decided" /\ Queue(Judged)!Init
  BY <1>4, QueueOwnInit DEF OwnInv
<1>5. CASE screen = "invitation" /\ Invitation!Init
  BY <1>5, InvitationInit DEF OwnInv
<1>6. CASE screen = "assignment" /\ Assignment!Init
  BY <1>6, AssignmentInit DEF OwnInv
<1>7. CASE screen \in {"queue", "counts", "party", "again"}
  BY <1>7 DEF OwnInv
<1> QED BY <1>1, <1>2, <1>3, <1>4, <1>5, <1>6, <1>7 DEF Init

(* A step of the desk that is shown keeps it.                              *)
LEMMA OwnKeep == DesksInv /\ OwnInv /\ Next => OwnInv'
<1> SUFFICES ASSUME DesksInv, OwnInv, Next PROVE OwnInv'
  OBVIOUS
<1>1. CASE OnBusiness(Business!Next)
  <2>1. screen = "business" /\ screen' = screen /\ Business!Next /\ BusinessInv /\ BusinessOwn
    BY <1>1 DEF OnBusiness, DesksInv, OwnInv
  <2> QED BY <2>1, BusinessOwnStep DEF OwnInv
<1>2. CASE OnUser(User!Next)
  <2>1. screen = "user" /\ screen' = screen /\ User!Next /\ UserInv /\ UserOwn
    BY <1>2 DEF OnUser, DesksInv, OwnInv
  <2> QED BY <2>1, UserOwnStep DEF OwnInv
<1>3. CASE OnResource(Resource!Next)
  <2>1. screen = "resource" /\ screen' = screen /\ Resource!Next /\ ResourceInv /\ ResourceOwn
    BY <1>3 DEF OnResource, DesksInv, OwnInv
  <2> QED BY <2>1, ResourceOwnStep DEF OwnInv
<1>4. CASE OnDecided(Queue(Judged)!Next)
  <2>1. /\ screen = "decided" /\ screen' = screen /\ Queue(Judged)!Next
        /\ QueueInv(Judged) /\ QueueOwn(Judged)
    BY <1>4 DEF OnDecided, DesksInv, OwnInv
  <2>2. QueueOwn(Judged)'
    BY <2>1, QueueOwnStep, SizesAre
  <2> QED BY <2>1, <2>2 DEF OwnInv
<1>5. CASE OnInvitation(Invitation!Next)
  <2>1. screen = "invitation" /\ screen' = screen /\ Invitation!Next /\ InvitationInv
    BY <1>5 DEF OnInvitation, OwnInv
  <2> QED BY <2>1, InvitationStep DEF OwnInv
<1>6. CASE OnAssignment(Assignment!Next)
  <2>1. screen = "assignment" /\ screen' = screen /\ Assignment!Next /\ AssignmentInv
    BY <1>6 DEF OnAssignment, OwnInv
  <2> QED BY <2>1, AssignmentStep DEF OwnInv
<1>7. CASE \/ OnQueue(Queue(Walked)!Next) \/ OnCounts(Queue(Counted)!Next)
           \/ OnParty(PartyPage(Once)!Next) \/ OnAgain(PartyPage(Again)!Next)
  <2>1. screen \in {"queue", "counts", "party", "again"} /\ screen' = screen
    BY <1>7 DEF OnQueue, OnCounts, OnParty, OnAgain
  <2> QED BY <2>1 DEF OwnInv
<1> QED BY <1>1, <1>2, <1>3, <1>4, <1>5, <1>6, <1>7 DEF Next

(* A step that changes nothing keeps it too.                               *)
LEMMA OwnStay == OwnInv /\ UNCHANGED vars => OwnInv'
<1> SUFFICES ASSUME OwnInv, UNCHANGED vars PROVE OwnInv'
  OBVIOUS
<1> USE DEF vars
<1>1. BusinessOwn => BusinessOwn'
  BY DEF BusinessOwn
<1>2. UserOwn => UserOwn'
  BY DEF UserOwn, User!OwnActionIsSeen, User!detailSuccess
<1>3. ResourceOwn => ResourceOwn'
  BY DEF ResourceOwn
<1>4. ASSUME NEW c PROVE QueueOwn(c) => QueueOwn(c)'
  BY DEF QueueOwn
<1>5. InvitationInv => InvitationInv'
  BY DEF InvitationInv
<1>6. AssignmentInv => AssignmentInv'
  <2>1. ServerOk /\ FirmsOk /\ Told => (ServerOk /\ FirmsOk /\ Told)'
    BY DEF ServerOk, FirmsOk, Told
  <2>2. SearchesOk => SearchesOk'
    BY DEF SearchesOk
  <2>3. PickerOk => PickerOk'
    BY DEF PickerOk, Assignment!selectedBusiness
  <2>4. RunsOk => RunsOk'
    BY DEF RunsOk, RunOk
  <2> QED BY <2>1, <2>2, <2>3, <2>4 DEF AssignmentInv
<1> QED BY <1>1, <1>2, <1>3, <1>4, <1>5, <1>6 DEF OwnInv

(* A desk at rest shows nothing from before what its own administrator was *)
(* told had been done there: a suspended business, an invitation with its  *)
(* latest mail, an assigned user, a user's access, a row of the console, a *)
(* decided report (BusinessCommerceConsole.tsx, InvitationConsole,         *)
(* BusinessAdministratorAssignmentPage, users/[id]/page.tsx,               *)
(* AdminResourceConsole.tsx, reports/page.tsx).                            *)
THEOREM OwnIsSeen == Spec => []OwnActionIsSeen
<1>1. DesksInv /\ OwnInv /\ [Next]_vars => OwnInv'
  BY OwnKeep, OwnStay
<1>2. DesksInv /\ OwnInv => OwnActionIsSeen
  <2> SUFFICES ASSUME DesksInv, OwnInv PROVE OwnActionIsSeen
    OBVIOUS
  <2>1. screen = "business" => Business!TypeOK /\ Business!OwnActionIsSeen
    BY BusinessHolds DEF DesksInv, OwnInv
  <2>2. screen = "invitation" =>
          Invitation!TypeOK /\ Invitation!OwnActionIsSeen /\ Invitation!NoOlderMail
    BY InvitationHolds DEF OwnInv
  <2>3. screen = "assignment" => Assignment!TypeOK /\ Assignment!OwnAssignmentIsSeen
    BY AssignmentHolds DEF OwnInv
  <2>4. screen = "user" => User!TypeOK /\ User!OwnActionIsSeen
    BY DEF DesksInv, OwnInv, UserInv, UserOwn
  <2>5. screen = "resource" => Resource!OwnActionIsSeen
    BY OwnRowsHold DEF DesksInv, OwnInv
  <2>6. screen = "decided" => Queue(Judged)!TypeOK /\ Queue(Judged)!DecidedStays
    BY QueueHolds, DecidedHolds, SizesAre DEF DesksInv, OwnInv
  <2> QED BY <2>1, <2>2, <2>3, <2>4, <2>5, <2>6 DEF OwnActionIsSeen
<1> QED BY <1>1, <1>2, OwnInit, Invariance, PTL DEF Spec
=============================================================================
