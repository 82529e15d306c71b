------------------------------- MODULE SeedMarket -------------------------------
(***************************************************************************)
(* The script that writes the market seed into the databases themselves    *)
(* (src/scripts/seed-d1-market.mjs): the category into one, the business   *)
(* and its parties with what belongs to them into another, what the app    *)
(* searches into a third, and the list of the admin, rebuilt as a new      *)
(* generation, into a fourth.  Every statement is a process of wrangler    *)
(* that succeeds or ends the run; the ledger is written at the very end.   *)
(*                                                                         *)
(* External: the databases; the worker that takes events to the search and *)
(* publishes generations of the list, numbered by the time, of which no    *)
(* two are the same; other operators.  The clock of the operator's machine *)
(* may be behind.  One list stands for the three, a batch is a statement,  *)
(* and a run that was killed is one whose last statement has failed.  Runs *)
(* follow one another.                                                     *)
(***************************************************************************)
EXTENDS Integers, Sequences, FiniteSets

CONSTANTS Category, Business, \* one of each
          Parties,            \* the titles of the business's parties
          Foreign,            \* the title of another party
          MaxRuns, MaxFaults, MaxMoves, \* bounds: runs, runs that fail, what others do
          NULL

VARIABLES
  platform,   \* ids of categories: <<name, the run that made it>>
  businesses, \* ids
  parties,    \* [id, business, category]
  extras,     \* parties with their transition, inclusions and event
  catalog,    \* parties the app finds
  admin,      \* the list: its rows, which generation is read and how many it has
  ledger,     \* the file: of each name, the id noted
  run,
  last,       \* the parties of the last run that was complete
  now, runs, faults, moves

data == <<platform, businesses, parties, extras, catalog>>
bounds == <<runs, faults, moves>>
vars == <<data, admin, ledger, run, last, now, bounds>>

Names == {Category, Business} \cup Parties
PartyIds == {party.id : party \in parties}
There == platform \cup businesses \cup PartyIds
Live == {row \in admin.rows : row.generation = admin.generation}

(* Mutant: the parties are written before their business. *)
ChildrenFirst ==
  <<"categories", "parties", "businesses", "extras", "catalog", "generation", "rows", "watermark",
    "clear", "snapshots", "publish", "save">>

(* Mutant: what is searched is written first. *)
SearchFirst ==
  <<"categories", "businesses", "catalog", "parties", "extras", "generation", "rows", "watermark",
    "clear", "snapshots", "publish", "save">>

(* What main does, in its order.                                           *)
Steps ==
  <<"categories", "businesses", "parties", "extras", "catalog", "generation", "rows", "watermark",
    "clear", "snapshots", "publish", "save">>

TypeOK ==
  /\ catalog \cup extras \subseteq PartyIds
  /\ \A n \in Names : ledger[n] # NULL => ledger[n] \in There
  /\ run # NULL => run.at \in 1..Len(Steps) /\ run.rows \subseteq PartyIds
-----------------------------------------------------------------------------
At(step) == run # NULL /\ Steps[run.at] = step
Through == [run EXCEPT !.at = run.at + 1, !.done = {}]
Tick == now' = now + 2

(* Mutant: only the ledger says what there is. *)
LedgerOnly(n) == ledger[n]

(* The row there is by that name, or the one in the ledger.                *)
known(n) ==
  IF \E id \in There : id[1] = n THEN CHOOSE id \in There : id[1] = n ELSE ledger[n]

(* A run reads what there is and makes ids for what there is not.          *)
Start ==
  /\ run = NULL /\ runs < MaxRuns /\ runs' = runs + 1
  /\ run' = [at |-> 1, ids |-> [n \in Names |-> IF known(n) # NULL THEN known(n) ELSE <<n, runs + 1>>],
             made |-> {n \in Names : known(n) = NULL}, done |-> {}, generation |-> 0, rows |-> {}]
  /\ UNCHANGED <<data, admin, ledger, last, now, faults, moves>>

Table(step) ==
  CASE step = "categories" -> {Category} [] step = "businesses" -> {Business} [] OTHER -> Parties

(* d1ExecBatched: what is left to be written in the step.                  *)
Due == (Table(Steps[run.at]) \cap run.made) \ run.done

Write(n) ==
  /\ run # NULL /\ run.at <= 5 /\ n \in Due
  /\ run' = [run EXCEPT !.done = @ \cup {n}]
  /\ LET id == run.ids[n] IN
     CASE At("categories") -> platform' = platform \cup {id} /\ UNCHANGED <<businesses, parties, extras, catalog>>
       [] At("businesses") -> businesses' = businesses \cup {id} /\ UNCHANGED <<platform, parties, extras, catalog>>
       [] At("parties") ->
            /\ parties' = parties \cup
                 {[id |-> id, business |-> run.ids[Business], category |-> run.ids[Category]]}
            /\ UNCHANGED <<platform, businesses, extras, catalog>>
       [] At("extras") -> extras' = extras \cup {id} /\ UNCHANGED <<platform, businesses, parties, catalog>>
       [] At("catalog") -> catalog' = catalog \cup {id} /\ UNCHANGED <<platform, businesses, parties, extras>>
  /\ UNCHANGED <<admin, ledger, last, now, bounds>>

WriteEnds ==
  /\ run # NULL /\ run.at <= 5 /\ Due = {} /\ run' = Through
  /\ UNCHANGED <<data, admin, ledger, last, now, bounds>>

-----------------------------------------------------------------------------
(* The list is read and rebuilt, above the generation there is by then.    *)
Generation ==
  /\ At("generation") /\ Tick
  /\ \E clock \in {0, now} : run' = [Through EXCEPT !.generation = clock]
  /\ UNCHANGED <<data, admin, ledger, last, bounds>>

Rows ==
  /\ At("rows") /\ run' = [Through EXCEPT !.rows = PartyIds]
  /\ UNCHANGED <<data, admin, ledger, last, now, bounds>>

Watermark ==
  /\ At("watermark")
  /\ run' = IF admin.generation >= run.generation THEN [Through EXCEPT !.generation = admin.generation + 1]
            ELSE Through
  /\ UNCHANGED <<data, admin, ledger, last, now, bounds>>

(* Mutant: what an earlier run has left of a generation stays. *)
ClearNothing ==
  /\ At("clear") /\ run' = Through
  /\ UNCHANGED <<data, admin, ledger, last, now, bounds>>

Clear ==
  /\ At("clear") /\ run' = Through
  /\ admin' = [admin EXCEPT !.rows = {row \in @ : row.generation # run.generation}]
  /\ UNCHANGED <<data, ledger, last, now, bounds>>

Insert(id) ==
  /\ At("snapshots") /\ id \in run.rows \ run.done /\ run' = [run EXCEPT !.done = @ \cup {id}]
  /\ admin' = [admin EXCEPT !.rows = @ \cup {[id |-> id, generation |-> run.generation, by |-> runs]}]
  /\ UNCHANGED <<data, ledger, last, now, bounds>>

InsertEnds ==
  /\ At("snapshots") /\ run.rows \subseteq run.done /\ run' = Through
  /\ UNCHANGED <<data, admin, ledger, last, now, bounds>>

Above(generation) == {row \in admin.rows : row.generation >= generation}

Publish ==
  /\ At("publish") /\ run' = Through
  /\ admin' = IF run.generation > admin.generation
              THEN [generation |-> run.generation, count |-> Cardinality(run.rows), rows |-> Above(run.generation)]
              ELSE [admin EXCEPT !.rows = Above(run.generation)]
  /\ UNCHANGED <<data, ledger, last, now, bounds>>

(* A party that was found by its title is not noted.                       *)
saveState ==
  /\ At("save") /\ run' = NULL
  /\ ledger' = [n \in Names |-> IF n \in Parties \ run.made THEN ledger[n] ELSE run.ids[n]]
  /\ last' = {run.ids[n] : n \in run.made \cap Parties}
  /\ UNCHANGED <<data, admin, now, bounds>>

(* Mutant: the search is not worth a run. *)
FailsBeforeSearch ==
  /\ run # NULL /\ faults < MaxFaults /\ faults' = faults + 1
  /\ run' = IF At("catalog") THEN Through ELSE NULL
  /\ UNCHANGED <<data, admin, ledger, last, now, runs, moves>>

(* A statement fails, served or not, and with it the run.                  *)
Fails ==
  /\ run # NULL /\ faults < MaxFaults /\ faults' = faults + 1 /\ run' = NULL
  /\ UNCHANGED <<data, admin, ledger, last, now, runs, moves>>

-----------------------------------------------------------------------------
Move == moves < MaxMoves /\ moves' = moves + 1

(* An operator makes a party of a business that is not of the seed, and it *)
(* has its event.                                                          *)
OthersAct ==
  /\ <<Foreign, 0>> \notin PartyIds /\ Move
  /\ parties' = parties \cup {[id |-> <<Foreign, 0>>, business |-> NULL, category |-> NULL]}
  /\ extras' = extras \cup {<<Foreign, 0>>}
  /\ UNCHANGED <<platform, businesses, catalog, admin, ledger, run, last, now, runs, faults>>

(* The worker takes an event to the search, and publishes the list.        *)
Relay(id) ==
  /\ id \in extras \ catalog /\ catalog' = catalog \cup {id}
  /\ UNCHANGED <<platform, businesses, parties, extras, admin, ledger, run, last, now, bounds>>

Worker ==
  /\ Move /\ now > admin.generation /\ Tick
  /\ admin' = [generation |-> now, count |-> Cardinality(PartyIds),
               rows |-> Above(now) \cup {[id |-> id, generation |-> now, by |-> 0] : id \in PartyIds}]
  /\ UNCHANGED <<data, ledger, run, last, runs, faults>>

(* Nothing is there, or what the other script has made and noted of it.    *)
Init ==
  /\ \E made \in {{}} \cup {{Category, Business, p} : p \in Parties} :
       /\ ledger = [n \in Names |-> IF n \in made THEN <<n, 0>> ELSE NULL]
       /\ platform = {<<n, 0>> : n \in made \cap {Category}}
       /\ businesses = {<<n, 0>> : n \in made \cap {Business}}
       /\ parties = {[id |-> <<n, 0>>, business |-> <<Business, 0>>, category |-> <<Category, 0>>] :
                       n \in made \cap Parties}
       /\ extras = {<<n, 0>> : n \in made \cap Parties} /\ catalog = extras
  /\ admin = [generation |-> 0, count |-> 0, rows |-> {}] /\ run = NULL /\ last = {}
  /\ now = 2 /\ runs = 0 /\ faults = 0 /\ moves = 0

Next ==
  \/ Start \/ (\E n \in Names : Write(n)) \/ WriteEnds
  \/ Generation \/ Rows \/ Watermark \/ Clear \/ InsertEnds \/ Publish \/ saveState \/ Fails
  \/ \E id \in PartyIds : Insert(id) \/ Relay(id)
  \/ OthersAct \/ Worker

Spec == Init /\ [][Next]_vars
-----------------------------------------------------------------------------
(* However often a run was ended between any two statements, and whatever  *)
(* the ledger has missed: there is one row of each name.                   *)
OneOfEach == \A n \in Names : Cardinality({id \in There : id[1] = n}) <= 1

(* No party is ever without its business or its category.                  *)
ParentsFirst ==
  \A party \in parties : party.id[1] \in Parties =>
    party.business \in businesses /\ party.category \in platform

(* The list that is read is whole, whenever a rebuild was ended and begun  *)
(* again, beside the worker's.                                             *)
SnapshotIsWhole == Cardinality(Live) = admin.count

(* What a run that is complete has made is found by the app and has its    *)
(* event.                                                                  *)
MadeIsFound == last \subseteq catalog \cap extras

-----------------------------------------------------------------------------
Ids == (Names \cup {Foreign}) \X Nat
RowsOf(generation) == {row \in admin.rows : row.generation = generation}

(* What is there: of each name one at most, each party with its parents;   *)
(* and what the ledger has noted is there.                                 *)
DataFits ==
  /\ platform \subseteq {Category} \X Nat /\ businesses \subseteq {Business} \X Nat
  /\ PartyIds \subseteq (Parties \cup {Foreign}) \X Nat /\ IsFiniteSet(PartyIds)
  /\ \A a, b \in There : (a[1] \in Names /\ a[1] = b[1]) => a = b
  /\ ParentsFirst /\ MadeIsFound /\ catalog \cup extras \subseteq PartyIds
  /\ \A n \in Names : ledger[n] # NULL => ledger[n] \in There /\ ledger[n][1] = n

(* What is there by a name is what the run has for it, and what it is to   *)
(* make is made in the order of the steps.                                 *)
Past(k, n) == n \in run.made /\ (run.at > k \/ (run.at = k /\ n \in run.done))
RunFits ==
  /\ run \in [at : 1..12, ids : [Names -> Ids], made : SUBSET Names, done : SUBSET (Names \cup Ids),
              generation : Nat, rows : SUBSET PartyIds]
  /\ \A n \in Names : /\ run.ids[n][1] = n /\ (n \notin run.made => run.ids[n] \in There)
                      /\ \A id \in There : id[1] = n => id = run.ids[n]
  /\ Past(1, Category) => run.ids[Category] \in platform
  /\ Past(2, Business) => run.ids[Business] \in businesses
  /\ \A n \in Parties : /\ Past(3, n) => run.ids[n] \in PartyIds
                        /\ Past(4, n) => run.ids[n] \in extras
                        /\ Past(5, n) => run.ids[n] \in catalog

(* The list that is read is whole.  The one that a run rebuilds is of a    *)
(* generation that nobody takes after it, and has the run's rows only,     *)
(* unless the worker has published above it meanwhile.                     *)
ListFits ==
  /\ {now, admin.generation, runs} \subseteq Nat /\ admin.generation < now /\ SnapshotIsWhole
  /\ \A row \in admin.rows : row.generation \in Nat /\ row.generation < now
Written(ids) == {[id |-> id, generation |-> run.generation, by |-> runs] : id \in ids}
RebuildFits ==
  /\ run.generation < now /\ (run.at \in {7, 8} => admin.generation + 1 < now)
  /\ run.at \in {9, 10, 11} => run.generation # admin.generation
  /\ run.at = 10 => run.done \subseteq run.rows
  /\ run.generation > admin.generation =>
       /\ run.at = 10 => RowsOf(run.generation) = Written(run.done)
       /\ run.at = 11 => RowsOf(run.generation) = Written(run.rows)

(* Inductive.                                                              *)
MarketInv == DataFits /\ ListFits /\ (run # NULL => RunFits /\ RebuildFits)
=============================================================================
