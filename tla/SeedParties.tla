------------------------------- MODULE SeedParties -------------------------------
(***************************************************************************)
(* The script that registers the parties of the market seed through the    *)
(* admin API (src/scripts/seed-parties.mjs).  What it has made it notes in *)
(* a ledger, a file that is written when the run ends, and which the next  *)
(* run reads; a run creates categories, businesses and parties in their    *)
(* order and then opens the parties it has created.                        *)
(*                                                                         *)
(* The API is external: a request is refused, or served and its answer is  *)
(* lost; it opens parties by a projection that follows, and only at the    *)
(* version it is told.  A 401 is followed by a login and the same request, *)
(* which changes nothing here; a cover image that cannot be uploaded ends  *)
(* the run like a refusal.  The process may be killed at any step.         *)
(***************************************************************************)
EXTENDS Integers, Sequences, FiniteSets

CONSTANTS Items,               \* categories, businesses, parties, in the order of the data
          Categories, Parties, \* those of them that are categories, parties
          TRANSITION_ATTEMPTS,
          MaxRuns,   \* bound: runs
          MaxFaults, \* bound: requests refused, answers lost, processes killed
          MaxMoves,  \* bound: what other operators change
          NULL

ItemSet == {Items[i] : i \in 1..Len(Items)}

VARIABLES
  server, \* the resources there are, each an entry of the sequence: its position is its id;
          \* foreign is the status that somebody else has given it last
  ledger, \* the file: of each item, the id noted for it
  run,    \* the process, when there is one
  last,   \* the last run that ended, and how
  lost,   \* of each item, creations that no ledger can know of
  runs, faults, moves

vars == <<server, ledger, run, last, lost, runs, faults, moves>>

Copies(item) == {id \in DOMAIN server : server[id].item = item}
Targets(limit) ==
  {item \in ItemSet : item \in Parties =>
     limit = NULL \/ \E k \in 1..Len(Items) : Items[k] = item /\ k <= limit}

TypeOK ==
  /\ \A item \in ItemSet : ledger[item] # NULL => ledger[item] \in Copies(item)
  /\ run # NULL =>
       /\ run.at \in 1..Len(Items) + 1 /\ run.attempt \in 1..TRANSITION_ATTEMPTS
       /\ \A k \in DOMAIN run.pending : server[run.pending[k].id].item \in Parties
-----------------------------------------------------------------------------
NoFault == UNCHANGED <<faults, moves>>
Fault == faults < MaxFaults /\ faults' = faults + 1 /\ UNCHANGED moves

(* A run begins: the ledger is read, then which categories there are.      *)
(* Nothing says how far behind that answer is.                             *)
Start(status, limit) ==
  /\ run = NULL /\ runs < MaxRuns /\ runs' = runs + 1
  /\ \E known \in SUBSET {id \in DOMAIN server : server[id].item \in Categories} :
       run' = [status |-> status, limit |-> limit, at |-> 1, pending |-> <<>>, attempt |-> 1, held |-> {}, made |-> {},
               state |-> [item \in ItemSet |->
                 IF \E id \in known : server[id].item = item
                 THEN CHOOSE id \in known : server[id].item = item ELSE ledger[item]]]
  /\ NoFault /\ UNCHANGED <<server, ledger, last, lost>>

Item == Items[run.at]
Creating == run # NULL /\ run.at <= Len(Items)
Promoting == run # NULL /\ run.at > Len(Items) /\ run.pending # <<>>

End(how) ==
  /\ run' = NULL
  /\ last' = [how |-> how, status |-> run.status, limit |-> run.limit, held |-> run.held,
              made |-> run.made]

(* Mutant: the ledger is written by a run that has succeeded. *)
SavedWell(how) == ledger' = (IF how = "completed" THEN run.state ELSE ledger) /\ End(how)

(* The ledger is written, however the run has ended.                       *)
saveState(how) == ledger' = run.state /\ End(how)

(* What is noted is kept, and what the limit leaves out is passed over.    *)
Keep ==
  /\ Creating /\ (run.state[Item] # NULL \/ Item \notin Targets(run.limit))
  /\ run' = [run EXCEPT !.at = run.at + 1]
  /\ NoFault /\ UNCHANGED <<server, ledger, last, lost, runs>>

Made == Append(server, [item |-> Item, status |-> "DRAFT", version |-> 0, projected |-> FALSE, foreign |-> NULL])

(* Mutant: what is to be created is noted first. *)
NotedFirst ==
  /\ Creating /\ run.state[Item] = NULL /\ Item \in Targets(run.limit)
  /\ run' = [run EXCEPT !.state[Item] = Len(server) + 1, !.at = @ + 1]
  /\ NoFault /\ UNCHANGED <<server, ledger, last, lost, runs>>

(* A category, a business or a party is created and its answer noted; a    *)
(* party is to be opened later.                                            *)
Create ==
  /\ Creating /\ run.state[Item] = NULL /\ Item \in Targets(run.limit)
  /\ server' = Made
  /\ run' = [run EXCEPT !.state = [run.state EXCEPT ![Item] = Len(server) + 1], !.at = run.at + 1,
       !.made = run.made \cup {Len(server) + 1},
       !.pending = IF Item \in Parties /\ run.status = "RECRUITING"
                   THEN Append(run.pending, [id |-> Len(server) + 1, version |-> 0]) ELSE run.pending]
  /\ NoFault /\ UNCHANGED <<ledger, last, lost, runs>>

(* It is refused, or served and the answer is lost: the run ends.          *)
CreateFails ==
  /\ Creating /\ run.state[Item] = NULL /\ Item \in Targets(run.limit) /\ Fault
  /\ \/ UNCHANGED <<server, lost>>
     \/ server' = Made /\ lost' = [lost EXCEPT ![Item] = lost[Item] + 1]
  /\ saveState("failed") /\ UNCHANGED runs

-----------------------------------------------------------------------------
Entry == run.pending[1]
Party == server[Entry.id]
Next1 == [run EXCEPT !.pending = Tail(run.pending), !.attempt = 1]

(* A resource gets a status, and with it a new version.                    *)
Turned(id, to, foreign) ==
  [server EXCEPT ![id] = [item |-> server[id].item, status |-> to, version |-> server[id].version + 1,
                          projected |-> server[id].projected, foreign |-> foreign]]
Opened == Turned(Entry.id, "RECRUITING", Party.foreign)

(* Mutant: what is not known is asked for again until it is. *)
NotProjectedYet ==
  /\ Promoting /\ ~Party.projected /\ UNCHANGED run
  /\ NoFault /\ UNCHANGED <<server, ledger, last, lost, runs>>

(* The party is not known yet: it is tried again later, and held back when *)
(* that was the last time.                                                 *)
NotProjected ==
  /\ Promoting /\ ~Party.projected
  /\ run' = IF run.attempt = TRANSITION_ATTEMPTS THEN [Next1 EXCEPT !.held = run.held \cup {Entry.id}]
            ELSE [run EXCEPT !.attempt = run.attempt + 1]
  /\ NoFault /\ UNCHANGED <<server, ledger, last, lost, runs>>

(* Mutant: the version is not told. *)
PromoteAny ==
  /\ Promoting /\ Party.projected
  /\ server' = Opened
  /\ run' = Next1
  /\ NoFault /\ UNCHANGED <<ledger, last, lost, runs>>

promoteToRecruiting ==
  /\ Promoting /\ Party.projected /\ Party.version = Entry.version
  /\ server' = Opened
  /\ run' = Next1
  /\ NoFault /\ UNCHANGED <<ledger, last, lost, runs>>

(* Somebody has changed it: the run ends with what is left undone.         *)
Conflict ==
  /\ Promoting /\ Party.projected /\ Party.version # Entry.version
  /\ saveState("failed") /\ NoFault /\ UNCHANGED <<server, lost, runs>>

PromoteFails ==
  /\ Promoting /\ Fault
  /\ \/ UNCHANGED server
     \/ Party.projected /\ Party.version = Entry.version /\ server' = Opened
  /\ saveState("failed") /\ UNCHANGED <<lost, runs>>

(* Mutant: the parties are opened by the run that comes next. *)
CompleteEarly ==
  /\ run # NULL /\ run.at > Len(Items) /\ saveState("completed")
  /\ NoFault /\ UNCHANGED <<server, lost, runs>>

Complete ==
  /\ run # NULL /\ run.at > Len(Items) /\ run.pending = <<>> /\ saveState("completed")
  /\ NoFault /\ UNCHANGED <<server, lost, runs>>

(* The process is killed, and what it had not noted in the file is gone.   *)
Kill ==
  /\ run # NULL /\ Fault /\ End("killed")
  /\ lost' = [item \in ItemSet |->
       lost[item] + IF \E id \in run.made : server[id].item = item THEN 1 ELSE 0]
  /\ UNCHANGED <<server, ledger, runs>>

-----------------------------------------------------------------------------
(* The projection follows, and other operators open or cancel parties.     *)
Project(id) ==
  /\ ~server[id].projected /\ server[id].item \in Parties
  /\ server' = [server EXCEPT ![id].projected = TRUE]
  /\ NoFault /\ UNCHANGED <<ledger, run, last, lost, runs>>

OthersAct(id) ==
  /\ server[id].item \in Parties /\ moves < MaxMoves /\ moves' = moves + 1 /\ UNCHANGED faults
  /\ \E to \in {"RECRUITING", "CANCELLED"} \ {server[id].status} : server' = Turned(id, to, to)
  /\ UNCHANGED <<ledger, run, last, lost, runs>>

Init ==
  /\ server = <<>> /\ ledger = [item \in ItemSet |-> NULL] /\ run = NULL /\ last = NULL
  /\ lost = [item \in ItemSet |-> 0] /\ runs = 0 /\ faults = 0 /\ moves = 0

Next ==
  \/ \E status \in {"RECRUITING", "DRAFT"}, limit \in {NULL, Len(Items) - 1} : Start(status, limit)
  \/ Keep \/ Create \/ CreateFails \/ NotProjected \/ promoteToRecruiting \/ Conflict
  \/ PromoteFails \/ Complete \/ Kill
  \/ \E id \in DOMAIN server : Project(id) \/ OthersAct(id)

Spec == Init /\ [][Next]_vars

(* The process goes on.                                                    *)
GoesOn == Keep \/ Create \/ NotProjected \/ promoteToRecruiting \/ Conflict \/ Complete
-----------------------------------------------------------------------------
(* A resource is there more than once only where an answer was lost or a   *)
(* process killed before the ledger was written, once for each: no run     *)
(* that fails on its own makes the next one create again what there is.    *)
(* Categories are asked for besides, of which the answer may be old.       *)
DuplicatesWereLost ==
  \A item \in ItemSet : Cardinality(Copies(item)) <= 1 + lost[item]

(* A party that somebody else has changed is never opened by the script.   *)
OthersAreLeftAlone ==
  \A id \in DOMAIN server : server[id].foreign \in {NULL, server[id].status}

(* A run that says it is complete has every target in its ledger, and has  *)
(* opened every party it made, or has said that it was held back.          *)
CompletedIsWhole ==
  (last # NULL /\ last.how = "completed") =>
    /\ \A item \in Targets(last.limit) : ledger[item] # NULL
    /\ last.status = "RECRUITING" =>
         \A id \in last.made : (server[id].item \in Parties /\ server[id].status = "DRAFT") => id \in last.held

(* A run goes on.                                                          *)
Running == run # NULL
-----------------------------------------------------------------------------
Resources == [item : ItemSet, status : {"DRAFT", "RECRUITING", "CANCELLED"}, version : Nat,
              projected : BOOLEAN, foreign : {NULL, "RECRUITING", "CANCELLED"}]
Runs == [status : {"RECRUITING", "DRAFT"}, limit : Int \cup {NULL}, at : 1..Len(Items) + 1,
         pending : Seq([id : Nat, version : {0}]), attempt : 1..TRANSITION_ATTEMPTS,
         held : SUBSET Nat, made : SUBSET Nat, state : [ItemSet -> Nat \cup {NULL}]]

(* What somebody else has changed has another version than it had when it  *)
(* was made.                                                               *)
ServerFits ==
  /\ server \in Seq(Resources) /\ OthersAreLeftAlone
  /\ \A id \in DOMAIN server : server[id].foreign # NULL => server[id].version # 0

(* What is noted is there, and what the ledger has a run has too.          *)
NotedFits(noted) ==
  /\ noted \in [ItemSet -> Nat \cup {NULL}]
  /\ \A item \in ItemSet : noted[item] # NULL => noted[item] \in Copies(item)

(* A run has what is behind it, and is yet to open what it has made.       *)
RunFits ==
  /\ run \in Runs /\ NotedFits(run.state) /\ run.made \subseteq DOMAIN server
  /\ \A item \in ItemSet : ledger[item] # NULL => run.state[item] # NULL
  /\ \A k \in 1..Len(Items) :
       (k < run.at /\ Items[k] \in Targets(run.limit)) => run.state[Items[k]] # NULL
  /\ \A k \in DOMAIN run.pending :
       run.pending[k].id \in DOMAIN server /\ server[run.pending[k].id].item \in Parties
  /\ run.status = "RECRUITING" => \A id \in run.made :
       (server[id].item \in Parties /\ server[id].status = "DRAFT") =>
          id \in run.held \/ \E k \in DOMAIN run.pending : run.pending[k].id = id

(* Of each item there is one that is noted, and those that were lost: what *)
(* a run has made it has noted, and the ledger has all that it has not.    *)
Own(item) == run # NULL /\ \E id \in run.made : server[id].item = item
One(noted) == IF noted = NULL THEN 0 ELSE 1
CountsFit ==
  /\ lost \in [ItemSet -> Nat]
  /\ \A item \in ItemSet :
       /\ run # NULL => Cardinality(Copies(item)) <= lost[item] + One(run.state[item])
       /\ ~Own(item) => Cardinality(Copies(item)) <= lost[item] + One(ledger[item])

(* Inductive.                                                              *)
PartiesInv ==
  /\ ServerFits /\ NotedFits(ledger) /\ CountsFit /\ (run # NULL => RunFits)
  /\ (last # NULL => last.made \subseteq DOMAIN server) /\ CompletedIsWhole
=============================================================================
