----------------------------- MODULE PartyForm -----------------------------
(***************************************************************************)
(* The form a party is created and edited with                             *)
(* (src/src/components/business-mobile/BusinessMobilePartyForm.tsx).  It   *)
(* is filled once, from the party its page had when it was mounted; it     *)
(* shows ages where the server keeps birth years, searches places while it *)
(* is edited, and sends everything it holds in one request.                *)
(*                                                                         *)
(* Texts are filled or empty, times are minutes, and years are counted     *)
(* from some year.                                                         *)
(***************************************************************************)
EXTENDS Integers, FiniteSets

CONSTANTS Places,
          Minutes,   \* bound: the times the fields may hold, 0..Minutes
          MaxYear,   \* bound: the last year
          MaxEdits,  \* bound: fields edited
          MaxSearches, \* bound: searches for a place
          MaxSaves,  \* bound: requests sent
          NULL

Time == 0..Minutes
Years == -MaxYear..MaxYear
Maybe(S) == S \cup {NULL}

(* What the server keeps of a party, as far as the form converts it.       *)
PartyRecord ==
  [startsAt : Time, endsAt : Time, applicationDeadline : Time,
   minBirthYear : Maybe(Years), maxBirthYear : Maybe(Years),
   placeName : Maybe(Places), placeCoords : Maybe(Places)]

InOrder(p) ==
  /\ p.endsAt > p.startsAt /\ p.applicationDeadline <= p.startsAt
  /\ NULL \notin {p.minBirthYear, p.maxBirthYear} => p.minBirthYear <= p.maxBirthYear

VARIABLES
  year,       \* the year on the clock of the browser
  mode,       \* "create" or "edit"
  party,      \* the server's party, or NULL
  loaded,     \* the party the form was filled from, or NULL, and when
  form,       \* the fields
  filled,     \* whether every required text and the capacity are given
  placeResults, searches, \* places on offer, and searches under way
  save,       \* the payload under way, or NULL
  navigating, \* the answer came, and the router is leaving
  edits, searched, saves

vars == <<year, mode, party, loaded, form, filled, placeResults, searches, save,
          navigating, edits, searched, saves>>
counters == <<edits, searched, saves>>

Fields == [startsAt : Maybe(Time), endsAt : Maybe(Time), applicationDeadline : Maybe(Time),
           minAge : Maybe(Int), maxAge : Maybe(Int),
           placeName : Maybe(Places), placeCoords : Maybe(Places)]

TypeOK ==
  /\ year \in 0..MaxYear /\ mode \in {"create", "edit"}
  /\ party = NULL \/ party \in PartyRecord
  /\ form \in Fields /\ filled \in BOOLEAN
  /\ placeResults \subseteq Places /\ searches \in 0..MaxSearches
  /\ save = NULL \/ save \in PartyRecord
  /\ navigating \in BOOLEAN
  /\ loaded = NULL <=> mode = "create"

-----------------------------------------------------------------------------
(* Conversions.                                                            *)

ageFromBirthYear(y) == IF y = NULL THEN NULL ELSE year - y

(* A negative number is no age: positiveInt takes it for none.             *)
birthYearForAge(a) == IF a = NULL \/ a < 0 THEN NULL ELSE year - a

(* Mutant: the oldest and the youngest are not exchanged. *)
formInOrder(p) ==
  [startsAt |-> p.startsAt, endsAt |-> p.endsAt,
   applicationDeadline |-> p.applicationDeadline,
   minAge |-> ageFromBirthYear(p.minBirthYear), maxAge |-> ageFromBirthYear(p.maxBirthYear),
   placeName |-> p.placeName, placeCoords |-> p.placeCoords]

formFromParty(p) ==
  [startsAt |-> p.startsAt, endsAt |-> p.endsAt,
   applicationDeadline |-> p.applicationDeadline,
   minAge |-> ageFromBirthYear(p.maxBirthYear), maxAge |-> ageFromBirthYear(p.minBirthYear),
   placeName |-> p.placeName, placeCoords |-> p.placeCoords]

emptyForm ==
  [startsAt |-> NULL, endsAt |-> NULL, applicationDeadline |-> NULL,
   minAge |-> NULL, maxAge |-> NULL, placeName |-> NULL, placeCoords |-> NULL]

payload ==
  [startsAt |-> form.startsAt, endsAt |-> form.endsAt,
   applicationDeadline |-> form.applicationDeadline,
   minBirthYear |-> birthYearForAge(form.maxAge),
   maxBirthYear |-> birthYearForAge(form.minAge),
   placeName |-> form.placeName, placeCoords |-> form.placeCoords]

(* A field that is undefined is not in the request: the server keeps its   *)
(* own.                                                                    *)
Patched(p, sent) ==
  [sent EXCEPT !.placeName = IF @ = NULL THEN p.placeName ELSE @,
               !.placeCoords = IF @ = NULL THEN p.placeCoords ELSE @]

-----------------------------------------------------------------------------
(* Editing.  The fields stay in reach while the request is under way and   *)
(* until the router has left.                                              *)

Edit(field, v) ==
  /\ edits < MaxEdits /\ edits' = edits + 1
  /\ form' = [form EXCEPT ![field] = v]
  /\ UNCHANGED <<year, mode, party, loaded, filled, placeResults, searches, save,
                 navigating, searched, saves>>

EditSome ==
  \/ \E t \in Maybe(Time) :
       \E f \in {"startsAt", "endsAt", "applicationDeadline"} : Edit(f, t)
  \/ \E a \in Maybe(0..MaxYear) : \E f \in {"minAge", "maxAge"} : Edit(f, a)
  \/ Edit("placeName", NULL)

Fill ==
  /\ edits < MaxEdits /\ edits' = edits + 1 /\ filled' = ~filled
  /\ UNCHANGED <<year, mode, party, loaded, form, placeResults, searches, save,
                 navigating, searched, saves>>

(* The button waits for the search under way, the Enter key does not.      *)
searchPlaces ==
  /\ searched < MaxSearches /\ searched' = searched + 1 /\ searches' = searches + 1
  /\ UNCHANGED <<year, mode, party, loaded, form, filled, placeResults, save,
                 navigating, edits, saves>>

(* The results of whichever search is answered, none if it failed.         *)
SearchAnswered(found) ==
  /\ searches > 0 /\ searches' = searches - 1 /\ placeResults' = found
  /\ UNCHANGED <<year, mode, party, loaded, form, filled, save, navigating, counters>>

(* Mutant: the place is taken over without its coordinates. *)
choosePlaceName(p) ==
  /\ p \in placeResults /\ placeResults' = {}
  /\ form' = [form EXCEPT !.placeName = p]
  /\ UNCHANGED <<year, mode, party, loaded, filled, searches, save, navigating, counters>>

(* All of a place at once.                                                 *)
choosePlace(p) ==
  /\ p \in placeResults /\ placeResults' = {}
  /\ form' = [form EXCEPT !.placeName = p, !.placeCoords = p]
  /\ UNCHANGED <<year, mode, party, loaded, filled, searches, save, navigating, counters>>

-----------------------------------------------------------------------------
(* Saving.                                                                 *)

valid ==
  /\ filled /\ NULL \notin {form.startsAt, form.endsAt, form.applicationDeadline}
  /\ form.endsAt > form.startsAt /\ form.applicationDeadline <= form.startsAt

(* An age that is no positive number is none.                              *)
Age(a) == IF a = NULL \/ a < 0 THEN NULL ELSE a

(* Mutant: the ages are not compared. *)
agesUnchecked == TRUE

agesInOrder ==
  NULL \notin {Age(form.minAge), Age(form.maxAge)} => form.minAge <= form.maxAge

submit ==
  /\ valid /\ save = NULL /\ agesInOrder
  /\ saves < MaxSaves /\ saves' = saves + 1 /\ save' = payload
  /\ UNCHANGED <<year, mode, party, loaded, form, filled, placeResults, searches,
                 navigating, edits, searched>>

Saved ==
  /\ save # NULL /\ save' = NULL
  /\ party' = IF mode = "edit" THEN Patched(party, save) ELSE save
  /\ navigating' = TRUE
  /\ UNCHANGED <<year, mode, loaded, form, filled, placeResults, searches, counters>>

SaveFails ==
  /\ save # NULL /\ save' = NULL
  /\ UNCHANGED <<year, mode, party, loaded, form, filled, placeResults, searches,
                 navigating, counters>>

(* Mutant: the fields of the created party are kept. *)
NavigateKeeping ==
  /\ navigating /\ navigating' = FALSE /\ mode' = "edit"
  /\ UNCHANGED <<year, party, loaded, form, filled, placeResults, searches, save, counters>>

(* A created party's page mounts the form again; an edited one is there    *)
(* already, with the fields as they are.                                   *)
Navigate ==
  /\ navigating /\ navigating' = FALSE
  /\ IF mode = "create"
     THEN /\ mode' = "edit" /\ save' = NULL
          /\ form' = formFromParty(party) /\ loaded' = [party |-> party, year |-> year]
          /\ filled' = TRUE /\ placeResults' = {} /\ searches' = 0
     ELSE UNCHANGED <<mode, form, loaded, filled, placeResults, searches, save>>
  /\ UNCHANGED <<year, party, counters>>

NewYear ==
  /\ year < MaxYear /\ year' = year + 1
  /\ UNCHANGED <<mode, party, loaded, form, filled, placeResults, searches, save,
                 navigating, counters>>

(* The parties there are: no limit, or one in the past.                    *)
Init ==
  /\ year \in {MaxYear - 1} \cap Nat
  /\ \/ /\ mode = "create" /\ party = NULL /\ loaded = NULL
        /\ form = emptyForm /\ filled = FALSE
     \/ /\ mode = "edit"
        /\ party \in {p \in PartyRecord : /\ InOrder(p) /\ p.placeName = p.placeCoords
                                         /\ {p.minBirthYear, p.maxBirthYear} \subseteq Maybe(0..year)}
        /\ loaded = [party |-> party, year |-> year]
        /\ form = formFromParty(party) /\ filled = TRUE
  /\ placeResults = {} /\ searches = 0 /\ save = NULL /\ navigating = FALSE
  /\ edits = 0 /\ searched = 0 /\ saves = 0

Next ==
  \/ EditSome \/ Fill \/ searchPlaces \/ submit \/ Saved \/ SaveFails \/ Navigate \/ NewYear
  \/ \E found \in SUBSET Places : SearchAnswered(found)
  \/ \E p \in Places : choosePlace(p)

Spec == Init /\ [][Next]_vars

-----------------------------------------------------------------------------
(* Whatever was edited while searches and saves were under way, a party is *)
(* sent with its times in order and its youngest not older than its        *)
(* oldest: ages in order are birth years in order the other way round.     *)
SentInOrder == save # NULL => InOrder(save)

(* Saving a party that was opened and not edited, within the year, leaves  *)
(* it as it was.                                                           *)
UneditedStays ==
  save # NULL /\ loaded # NULL /\ edits = 0 /\ searched = 0 /\ saves = 1 /\ loaded.year = year
    => Patched(loaded.party, save) = loaded.party

(* The page of a party that exists.                                        *)
Editing == mode = "edit"

(* Unless its name was edited by hand, the place that is sent is one       *)
(* place: the name and the coordinates never come from two answers.        *)
PlaceIsOne ==
  save # NULL /\ edits = 0 => save.placeName = save.placeCoords

(* What they rest on: no age is older than the years there are; a form     *)
(* that nobody touched holds the party it was filled from, by the ages of  *)
(* that year; a new form that nobody touched cannot be sent.               *)
AgeIn(y, b) == IF b = NULL THEN NULL ELSE y - b
AsLoaded ==
  /\ form = [startsAt |-> loaded.party.startsAt, endsAt |-> loaded.party.endsAt,
             applicationDeadline |-> loaded.party.applicationDeadline,
             minAge |-> AgeIn(loaded.year, loaded.party.maxBirthYear),
             maxAge |-> AgeIn(loaded.year, loaded.party.minBirthYear),
             placeName |-> loaded.party.placeName, placeCoords |-> loaded.party.placeCoords]
  /\ \A b \in {loaded.party.minBirthYear, loaded.party.maxBirthYear} : b = NULL \/ b <= loaded.year
FormInv ==
  /\ TypeOK /\ edits \in Nat /\ searched \in 0..MaxSearches /\ searches <= searched
  /\ \A a \in {form.minAge, form.maxAge} : a = NULL \/ a <= year + MaxYear
  /\ searched = 0 => placeResults = {}
  /\ mode = "edit" \/ navigating => party \in PartyRecord
  /\ mode = "edit" => loaded \in [party : PartyRecord, year : 0..year]
  /\ mode = "create" /\ edits = 0 => ~filled /\ save = NULL /\ ~navigating
  /\ edits = 0 => form.placeName = form.placeCoords
  /\ mode = "edit" /\ edits = 0 /\ searched = 0 => AsLoaded
  /\ (mode = "edit" /\ edits = 0 /\ searched = 0 /\ save # NULL /\ loaded.year = year)
       => Patched(loaded.party, save) = loaded.party
  /\ SentInOrder /\ PlaceIsOne
=============================================================================
