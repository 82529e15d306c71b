---------------------------- MODULE FunnelSteps ----------------------------
(***************************************************************************)
(* A funnel: from the table Google answers to the steps that are drawn     *)
(* (src/src/features/analytics/analytics-funnel.ts).  A row has the label  *)
(* of a step, the value of the breakdown or the reserved total, and its    *)
(* users; Google leaves out what nobody has reached.                       *)
(***************************************************************************)
EXTENDS Integers, FiniteSets, TLC

CONSTANTS Steps,      \* how many steps the funnel has
          Platforms,  \* the values of the breakdown
          FUNNEL_TOTAL_VALUE

VARIABLES
  breakdown,  \* is the funnel split by platform
  numbered,   \* do the labels begin with the number of their step
  truth,      \* the users of every <<step, value>> that has some
  rows,       \* the rows still to be taken
  appearance, \* the labels without a number, in the order they came
  totals, grouped \* the maps of shapeFunnel

vars == <<breakdown, numbered, truth, rows, appearance, totals, grouped>>

Indexes == 0..(Steps - 1)
Values == Platforms \cup {FUNNEL_TOTAL_VALUE}

TypeOK ==
  /\ breakdown \in BOOLEAN /\ numbered \in BOOLEAN /\ rows \subseteq DOMAIN truth
  /\ DOMAIN totals \subseteq Indexes /\ DOMAIN grouped \subseteq Indexes \X Platforms
  /\ DOMAIN appearance \subseteq Indexes

-----------------------------------------------------------------------------
(* Mutant: the steps are numbered as their rows come. *)
stepIndexByRow(step) == IF step \in DOMAIN appearance THEN appearance[step] ELSE Cardinality(DOMAIN appearance)

(* The index of a label: the number it begins with, else the order in      *)
(* which the labels came.                                                  *)
stepIndexOf(step) ==
  IF numbered THEN step
  ELSE IF step \in DOMAIN appearance THEN appearance[step] ELSE Cardinality(DOMAIN appearance)

(* Mutant: the total is one more value of the breakdown. *)
isTotalNever(value) == ~breakdown

(* Without a breakdown every row is a total.                               *)
isTotal(value) == ~breakdown \/ value = FUNNEL_TOTAL_VALUE

(* Numbered labels come in any order, the others in that of the funnel.    *)
Take ==
  \E r \in rows :
    LET index == stepIndexOf(r[1]) IN
    /\ numbered \/ \A s \in rows : r[1] <= s[1]
    /\ rows' = rows \ {r}
    /\ appearance' = IF numbered THEN appearance ELSE (r[1] :> index) @@ appearance
    /\ totals' = IF isTotal(r[2]) THEN (index :> truth[r]) @@ totals ELSE totals
    /\ grouped' = IF isTotal(r[2]) THEN grouped ELSE (<<index, r[2]>> :> truth[r]) @@ grouped
    /\ UNCHANGED <<breakdown, numbered, truth>>

-----------------------------------------------------------------------------
UsersIn(map, index) == IF index \in DOMAIN map THEN map[index] ELSE 0

(* Mutant: a share of the step before. *)
stepOfBefore(map, index) ==
  LET users == UsersIn(map, index)
      before == UsersIn(map, IF index = 0 THEN 0 ELSE index - 1)
  IN [users |-> users, shareOfFirst |-> IF before > 0 THEN <<users, before>> ELSE <<0, 1>>,
      completionRate |-> IF index = Steps - 1 \/ index \notin DOMAIN map THEN "none" ELSE "read"]

(* Mutant: the last step has a next one. *)
stepNoLast(map, index) ==
  LET users == UsersIn(map, index)
      first == UsersIn(map, 0)
  IN [users |-> users, shareOfFirst |-> IF first > 0 THEN <<users, first>> ELSE <<0, 1>>,
      completionRate |-> IF index \in DOMAIN map THEN "read" ELSE "none"]

(* A step: its users, as a share of those of the first one, and the rate   *)
(* at which they go on, which the last one has not.                        *)
step(map, index) ==
  LET users == UsersIn(map, index)
      first == UsersIn(map, 0)
  IN [users |-> users, shareOfFirst |-> IF first > 0 THEN <<users, first>> ELSE <<0, 1>>,
      completionRate |-> IF index = Steps - 1 \/ index \notin DOMAIN map THEN "none" ELSE "read"]

platformMap(value) == [i \in {k \in Indexes : <<k, value>> \in DOMAIN grouped} |-> grouped[<<i, value>>]]

shapeFunnel ==
  [steps |-> [i \in Indexes |-> step(totals, i)],
   breakdown |-> IF breakdown
                 THEN [v \in {g[2] : g \in DOMAIN grouped} |-> [i \in Indexes |-> step(platformMap(v), i)]]
                 ELSE <<>>]

(* The funnel is closed: nobody is in a step who was not in the one before. *)
(* Google answers what somebody has reached, or, without numbers, all.     *)
Init ==
  /\ breakdown \in BOOLEAN /\ numbered \in BOOLEAN
  /\ \E reached \in [IF breakdown THEN Values ELSE {FUNNEL_TOTAL_VALUE} -> 0..Steps] :
       LET cells == {c \in Indexes \X DOMAIN reached : c[1] < reached[c[2]]}
       IN /\ \A v \in DOMAIN reached : ~numbered => reached[v] = Steps
          /\ truth = [c \in cells |-> (IF c[1] = 0 THEN 10 * Steps ELSE 2 * Steps - c[1])
                                       + IF c[2] = FUNNEL_TOTAL_VALUE THEN Steps ELSE 0]
          /\ rows = cells
  /\ appearance = <<>> /\ totals = <<>> /\ grouped = <<>>

Next == Take

Spec == Init /\ [][Next]_vars

-----------------------------------------------------------------------------
Truth(index, value) == IF <<index, value>> \in DOMAIN truth THEN truth[<<index, value>>] ELSE 0

(* Every step shows its own users and every row of the breakdown those of  *)
(* its platform: a total is never taken for a platform, nor a step that    *)
(* nobody has reached for the next one (analytics-funnel.ts:26, 67).       *)
OwnUsers ==
  rows = {} =>
    /\ \A i \in Indexes : shapeFunnel.steps[i].users = Truth(i, FUNNEL_TOTAL_VALUE)
    /\ breakdown => \A v \in Platforms, i \in Indexes :
         IF v \in DOMAIN shapeFunnel.breakdown THEN shapeFunnel.breakdown[v][i].users = Truth(i, v)
         ELSE Truth(i, v) = 0

(* The bars of a closed funnel never grow from one step to the next, and   *)
(* none is longer than the first (FunnelPanel.tsx:163).                    *)
BarsFall ==
  rows = {} => \A i \in Indexes :
    LET bar(k) == shapeFunnel.steps[k].shareOfFirst
    IN /\ bar(i)[1] <= bar(i)[2]
       /\ i > 0 => bar(i)[1] * bar(i - 1)[2] <= bar(i - 1)[1] * bar(i)[2]

(* The last step never reads as a total loss (analytics-funnel.ts:89), and *)
(* no other step that was answered is without its rate.                    *)
RatesWhereTheyMean ==
  rows = {} => \A i \in Indexes :
    (shapeFunnel.steps[i].completionRate = "read") =
      (i < Steps - 1 /\ Truth(i, FUNNEL_TOTAL_VALUE) > 0)
=============================================================================
