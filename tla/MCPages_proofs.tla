--------------------------- MODULE MCPages_proofs ---------------------------
(***************************************************************************)
(* What is proved of the pages and the scripts for every set of people,    *)
(* applicants, places, tabs, e-mails and passwords, every list of seed     *)
(* items, every size of a window and every bound: at the door the notice   *)
(* is true, a closed scanner holds no camera and a run reads one token; a  *)
(* form sends what it was made; what is said to be done is done, by the    *)
(* editor, the wizard, the sign-in and the scripts; and no answer takes    *)
(* away what it is not about.  The invariant (PagesInv) says of each page  *)
(* what the page in front of it rests on:                                  *)
(*   - at the door, a mutation sees of the dialog its own participant or   *)
(*     nobody, and who was served is in;                                   *)
(*   - at the scanner, a run that has read its token is over;              *)
(*   - a form that nobody touched holds the party it was filled from;      *)
(*   - a choice takes no more files than its list of images has room for;  *)
(*   - whoever awaits a page of the list is still on the page it was asked *)
(*     from, and the view the hook noted is the one that is shown;         *)
(*   - a save of the editor is of what stood in the form at the press;     *)
(*   - the request of the wizard fits the step it was sent from;           *)
(*   - on the way to a page, what was redirected and what still can be     *)
(*     stay within the bound;                                              *)
(*   - a sign-in that can lock the form is of the form that is shown, and  *)
(*     none is in the script while the script is not there;                *)
(*   - a run that fills the market has of each name the one id there is,   *)
(*     and rebuilds the list at a generation nobody else takes;            *)
(*   - of each item that is registered there is one that is noted, and     *)
(*     those that were lost, and a run is yet to open what it has made.    *)
(* A lemma for each action, or for each page, shows that it is kept.       *)
(***************************************************************************)
EXTENDS MCPages, FiniteSetTheorems, SequenceTheorems, WellFoundedInduction, TLAPS

(* A window that does not show everything can grow by its size.            *)
LEMMA WindowGrows ==
  ASSUME NEW Whole, IsFiniteSet(Whole), NEW size \in Nat \ {0}, NEW n \in Nat \ {0},
         NEW S \in SUBSET Whole, n * size < Cardinality(S)
  PROVE  n + 1 \in 1..(Cardinality(Whole) + 1) /\ n * size + size = (n + 1) * size
<1>1. Cardinality(S) <= Cardinality(Whole) /\ Cardinality(S) \in Nat
      /\ Cardinality(Whole) \in Nat
  BY FS_Subset, FS_CardinalityType
<1>2. n <= n * size
  OBVIOUS
<1>3. n * size \in Nat
  OBVIOUS
<1> QED BY <1>1, <1>2, <1>3

(* A set of numbers that is not empty has a least member.                  *)
LEMMA LeastExists ==
  ASSUME NEW S, S \subseteq Nat, S # {}
  PROVE  \E s \in S : \A t \in S : s <= t
<1>1. PICK s \in S : \A t \in S : ~(<<t, s>> \in OpToRel(<, Nat))
  BY NatLessThanWellFounded, WFMin
<1>2. \A t \in S : <<t, s>> \in OpToRel(<, Nat) <=> t < s
  BY DEF OpToRel
<1>3. \A t \in S : ~(t < s)
  BY <1>1, <1>2, Zenon
<1>4. \A t \in S : t \in Nat
  OBVIOUS
<1>5. \A t \in S : s <= t
  BY <1>3, <1>4
<1> QED BY <1>5

(* How many members of K come up to i.                                     *)
RankOf(K, i) == Cardinality({j \in K : j <= i})

(* The ranks of the members of a part of 1..n count that part: each has    *)
(* one, no two the same, and none is left out.  (By the pigeonhole.)       *)
LEMMA Ranks ==
  ASSUME NEW n \in Nat, NEW K \in SUBSET (1..n)
  PROVE  /\ IsFiniteSet(K) /\ Cardinality(K) \in Nat /\ Cardinality(K) <= n
         /\ \A i \in K : RankOf(K, i) \in 1..Cardinality(K)
         /\ \A i, h \in K : RankOf(K, i) = RankOf(K, h) => i = h
         /\ \A k \in 1..Cardinality(K) : \E i \in K : RankOf(K, i) = k
<1> DEFINE f == [i \in K |-> RankOf(K, i)]
           R == 1..Cardinality(K)
<1>1. IsFiniteSet(K) /\ Cardinality(K) \in Nat /\ Cardinality(K) <= n
  <2>1. IsFiniteSet(1..n) /\ Cardinality(1..n) = n
    BY FS_Interval
  <2> QED BY <2>1, FS_Subset, FS_CardinalityType
<1>2. ASSUME NEW i \in K
      PROVE  IsFiniteSet({j \in K : j <= i}) /\ RankOf(K, i) \in R
  <2>1. {j \in K : j <= i} \in SUBSET K /\ {i} \in SUBSET {j \in K : j <= i}
    OBVIOUS
  <2>2. IsFiniteSet({j \in K : j <= i}) /\ RankOf(K, i) <= Cardinality(K)
    BY <1>1, <2>1, FS_Subset DEF RankOf
  <2>3. Cardinality({i}) <= RankOf(K, i) /\ Cardinality({i}) = 1
    BY <2>1, <2>2, FS_Subset, FS_Singleton DEF RankOf
  <2>4. RankOf(K, i) \in Nat
    BY <2>2, FS_CardinalityType DEF RankOf
  <2> QED BY <1>1, <2>2, <2>3, <2>4
<1>3. ASSUME NEW i \in K, NEW h \in K, i < h PROVE RankOf(K, i) # RankOf(K, h)
  <2>1. {j \in K : j <= i} \in SUBSET {j \in K : j <= h}
    <3>1. \A j \in K : j \in Int
      OBVIOUS
    <3>2. \A j \in K : j <= i => j <= h
      BY <3>1, <1>3
    <3> QED BY <3>2
  <2>2. h \in {j \in K : j <= h} /\ h \notin {j \in K : j <= i}
    BY <1>3
  <2> QED BY <1>2, <2>1, <2>2, FS_Subset DEF RankOf
<1>4. ASSUME NEW i \in K, NEW h \in K, RankOf(K, i) = RankOf(K, h) PROVE i = h
  <2>1. i \in Int /\ h \in Int
    OBVIOUS
  <2> QED BY <2>1, <1>3, <1>4
<1>5. f \in Injection(K, R)
  BY <1>2, <1>4 DEF Injection, IsInjective
<1>6. IsFiniteSet(R) /\ Cardinality(R) = Cardinality(K)
  BY <1>1, FS_Interval
<1>7. f \in Surjection(K, R)
  BY <1>5, <1>6, FS_Injection
<1> QED BY <1>1, <1>2, <1>4, <1>7 DEF Surjection

-----------------------------------------------------------------------------
(* The pages count with the operator that each of them takes from          *)
(* FiniteSets: it is the same one.                                         *)
LEMMA CheckInCounts == ASSUME NEW S PROVE CheckIn!Cardinality(S) = Cardinality(S)
BY Zenon DEF CheckIn!Cardinality, Cardinality

(* Likewise for the scanner.                                               *)
LEMMA QrScannerCounts == ASSUME NEW S PROVE QrScanner!Cardinality(S) = Cardinality(S)
BY Zenon DEF QrScanner!Cardinality, Cardinality

(* The bounds are numbers.                                                 *)
LEMMA Numbers ==
  /\ PAGE_SIZE \in Nat \ {0} /\ MaxOps \in Nat /\ MaxFaults \in Nat
  /\ MaxOpens \in Nat /\ MaxTyped \in Nat
BY PeopleAssumption, BoundsAssumption

(* The sizes of the window, counted with the one operator.                 *)
LEMMA CountsAre == CheckIn!Counts = {n * PAGE_SIZE : n \in 1..(Cardinality(People) + 1)}
<1>1. CheckIn!Cardinality(People) = Cardinality(People)
  BY CheckInCounts
<1> QED BY <1>1, Zenon DEF CheckIn!Counts

(* The first page is such a size.                                          *)
LEMMA FirstWindow == PAGE_SIZE \in CheckIn!Counts
<1>1. Cardinality(People) \in Nat
  BY PeopleAssumption, FS_CardinalityType
<1>2. PAGE_SIZE = 1 * PAGE_SIZE /\ 1 \in 1..(Cardinality(People) + 1)
  BY <1>1, Numbers
<1> QED BY <1>2, CountsAre, Zenon

(* The door opens with nobody named and nothing under way.                 *)
LEMMA CheckInInit == CheckIn!Init => CheckIn!NoticeInv
<1> SUFFICES ASSUME CheckIn!Init PROVE CheckIn!NoticeInv
  OBVIOUS
<1>1. x7 \in [key : CheckIn!Filters, count : CheckIn!Counts]
  BY FirstWindow DEF CheckIn!Init, CheckIn!Filters
<1>2. CheckIn!TypeOK
  BY <1>1 DEF CheckIn!Init, CheckIn!TypeOK, CheckIn!Filters
<1> QED BY <1>2 DEF CheckIn!Init, CheckIn!NoticeInv, CheckIn!NoticeIsTrue

(* Every step at the door keeps the invariant: one case per action.        *)
LEMMA CheckInKeeps == CheckIn!NoticeInv /\ CheckIn!Next => CheckIn!NoticeInv'
<1> SUFFICES ASSUME CheckIn!NoticeInv, CheckIn!Next PROVE CheckIn!NoticeInv'
  OBVIOUS
<1> USE DEF CheckIn!NoticeInv, CheckIn!TypeOK, CheckIn!NoticeIsTrue, CheckIn!Sees
<1>1. CASE CheckIn!Refetch \/ CheckIn!StatusReads \/ CheckIn!StatusAnswered \/ CheckIn!StatusFails
  BY <1>1 DEF CheckIn!Refetch, CheckIn!StatusReads, CheckIn!StatusAnswered, CheckIn!StatusFails,
     CheckIn!page, CheckIn!status
<1>2. CASE \E f \in CheckIn!Filters : CheckIn!Filter(f)
  BY <1>2 DEF CheckIn!Filter, CheckIn!status
<1>3. CASE CheckIn!ShowMore
  <2>1. CheckIn!visibleCount \in CheckIn!Counts
    BY FirstWindow DEF CheckIn!visibleCount
  <2>2. PICK n \in 1..(Cardinality(People) + 1) : CheckIn!visibleCount = n * PAGE_SIZE
    BY <2>1, CountsAre, Zenon
  <2> HIDE DEF CheckIn!NoticeInv, CheckIn!TypeOK, CheckIn!NoticeIsTrue, CheckIn!Sees
  <2>3. CheckIn!visibleCount < Cardinality(CheckIn!filteredParticipants)
        /\ x7' = [key |-> x6, count |-> CheckIn!visibleCount + PAGE_SIZE]
        /\ UNCHANGED <<x1, CheckIn!status, x6, x8, x11, x12, x9, x10, x13, x14>>
    BY <1>3, CheckInCounts DEF CheckIn!ShowMore
  <2>4. n + 1 \in 1..(Cardinality(People) + 1)
    <3>1. CheckIn!filteredParticipants \in SUBSET People
      BY DEF CheckIn!filteredParticipants
    <3> QED BY <2>2, <2>3, <3>1, WindowGrows, PeopleAssumption
  <2>5. CheckIn!visibleCount + PAGE_SIZE = (n + 1) * PAGE_SIZE
    BY <2>2, Numbers
  <2>6. CheckIn!visibleCount + PAGE_SIZE \in CheckIn!Counts
    BY <2>4, <2>5, CountsAre, Zenon
  <2>7. x7' \in [key : CheckIn!Filters, count : CheckIn!Counts]
    BY <2>3, <2>6 DEF CheckIn!NoticeInv, CheckIn!TypeOK
  <2> USE DEF CheckIn!NoticeInv, CheckIn!TypeOK, CheckIn!NoticeIsTrue, CheckIn!Sees
  <2> QED BY <2>3, <2>7 DEF CheckIn!status
<1>4. CASE (\E p \in People : CheckIn!Select(p)) \/ CheckIn!CloseDialog
  <2>1. x8' \in People \cup {NULL} /\ x9' = CheckIn!reset
    BY <1>4 DEF CheckIn!Select, CheckIn!CloseDialog
  <2>2. UNCHANGED <<x1, CheckIn!status, x6, x7, x10, x11, x12, x13, x14>>
    BY <1>4 DEF CheckIn!Select, CheckIn!CloseDialog
  <2>3. ASSUME NEW m \in x9'
        PROVE  \E k \in x9 : /\ m \in CheckIn!Manual /\ m.user = k.user /\ m.applied = k.applied
                            /\ ~m.observed /\ m.closure = CheckIn!Sees(k)
    <3>1. PICK k \in x9 :
            m = [k EXCEPT !.observed = FALSE, !.closure = IF k.observed THEN x8 ELSE @]
      BY <2>1 DEF CheckIn!reset
    <3>2. k \in CheckIn!Manual /\ CheckIn!Sees(k) \in {NULL, k.user}
      OBVIOUS
    <3>3. m = [user |-> k.user, closure |-> CheckIn!Sees(k), observed |-> FALSE,
               serial |-> k.serial, applied |-> k.applied]
      BY <3>1, <3>2 DEF CheckIn!Manual
    <3>4. CheckIn!Sees(k) \in People \cup {NULL}
      BY <3>2 DEF CheckIn!Manual
    <3> QED BY <3>2, <3>3, <3>4 DEF CheckIn!Manual
  <2>4. x9' \subseteq CheckIn!Manual
    BY <2>3
  <2> QED BY <2>1, <2>2, <2>3, <2>4 DEF CheckIn!status
<1>6. CASE CheckIn!checkInManually
  <2> DEFINE new == [user |-> x8, closure |-> NULL, observed |-> TRUE,
                     serial |-> x13 + 1, applied |-> FALSE]
  <2>1. /\ x8 # NULL /\ x9' = x9 \cup {new} /\ x13' = x13 + 1
        /\ UNCHANGED <<x1, CheckIn!status, CheckIn!page, x10, x14>>
    BY <1>6 DEF CheckIn!checkInManually
  <2>2. /\ new \in CheckIn!Manual /\ ~new.applied /\ new.user = x8 /\ new.observed
        /\ x8 \in People
    BY <2>1 DEF CheckIn!Manual
  <2> HIDE DEF new
  <2>3. x9' \subseteq CheckIn!Manual
    BY <2>1, <2>2
  <2>4. x8' = x8
    BY <2>1 DEF CheckIn!page
  <2>5. \A m \in x9' : (IF m.observed THEN x8' ELSE m.closure) \in {NULL, m.user}
    BY <2>1, <2>2, <2>4
  <2>6. CheckIn!TypeOK'
    BY <2>1, <2>3 DEF CheckIn!status, CheckIn!page, CheckIn!Manual
  <2> QED BY <2>1, <2>2, <2>3, <2>5, <2>6 DEF CheckIn!status, CheckIn!page
<1>7. ASSUME NEW m \in x9, CheckIn!Applied(m) PROVE CheckIn!NoticeInv'
  BY <1>7 DEF CheckIn!Applied, CheckIn!status, CheckIn!page, CheckIn!Manual
<1>8. ASSUME NEW m \in x9, CheckIn!ManualSucceeds(m) PROVE CheckIn!NoticeInv'
  BY <1>8 DEF CheckIn!ManualSucceeds, CheckIn!Manual, CheckIn!InvalidateStatus, CheckIn!Fetch
<1>9. ASSUME NEW m \in x9, CheckIn!ManualFails(m) PROVE CheckIn!NoticeInv'
  BY <1>9 DEF CheckIn!ManualFails, CheckIn!status, CheckIn!page
<1>10. CASE CheckIn!ToggleQr \/ CheckIn!NoticeEnds
  BY <1>10 DEF CheckIn!ToggleQr, CheckIn!NoticeEnds, CheckIn!status
<1>11. CASE \E p \in People : CheckIn!checkInByQr(p)
  <2>1. PICK p \in People : CheckIn!checkInByQr(p)
    BY <1>11
  <2> DEFINE new == [user |-> p, serial |-> x13 + 1, applied |-> FALSE]
  <2>2. x10' = x10 \cup {new} /\ x13' = x13 + 1
        /\ UNCHANGED <<x1, CheckIn!status, CheckIn!page, x9, x14>>
    BY <2>1 DEF CheckIn!checkInByQr
  <2>3. new \in CheckIn!Tokens /\ ~new.applied
    BY <2>1 DEF CheckIn!Tokens
  <2> HIDE DEF new
  <2> QED BY <2>2, <2>3 DEF CheckIn!status, CheckIn!page
<1>12. ASSUME NEW m \in x10, CheckIn!QrApplied(m) PROVE CheckIn!NoticeInv'
  BY <1>12 DEF CheckIn!QrApplied, CheckIn!status, CheckIn!page, CheckIn!Tokens
<1>13. ASSUME NEW m \in x10, CheckIn!QrSucceeds(m) PROVE CheckIn!NoticeInv'
  BY <1>13 DEF CheckIn!QrSucceeds, CheckIn!Tokens, CheckIn!InvalidateStatus, CheckIn!Fetch
<1>14. ASSUME NEW m \in x10, CheckIn!QrFails(m) PROVE CheckIn!NoticeInv'
  BY <1>14 DEF CheckIn!QrFails, CheckIn!status, CheckIn!page
<1> QED BY <1>1, <1>2, <1>3, <1>4, <1>6, <1>7, <1>8, <1>9, <1>10, <1>11, <1>12, <1>13, <1>14
   DEF CheckIn!Next, CheckIn!Operator, CheckIn!Requests, CheckIn!Failures

(* There are MaxOpens runs.                                                *)
LEMMA RunsAreFinite ==
  IsFiniteSet(QrScanner!Runs) /\ Cardinality(QrScanner!Runs) = MaxOpens
<1>1. \A n \in Nat : IsFiniteSet(1..n) /\ Cardinality(1..n) = n
  BY FS_Interval
<1> QED BY <1>1, Numbers DEF QrScanner!Runs

(* At most that many have read their token.                                *)
LEMMA HaveReadFits ==
  IsFiniteSet(QrScanner!HaveRead) /\ Cardinality(QrScanner!HaveRead) \in 0..MaxOpens
<1>1. QrScanner!HaveRead \in SUBSET QrScanner!Runs
  BY DEF QrScanner!HaveRead
<1>2. IsFiniteSet(QrScanner!HaveRead) /\ Cardinality(QrScanner!HaveRead) <= Cardinality(QrScanner!Runs)
  BY <1>1, RunsAreFinite, FS_Subset
<1>3. Cardinality(QrScanner!HaveRead) \in Nat
  BY <1>2, FS_CardinalityType
<1> QED BY <1>2, <1>3, RunsAreFinite, Numbers

(* The scanner starts with no run.                                         *)
LEMMA QrScannerInit == QrScanner!Init => QrScanner!RunInv
<1> SUFFICES ASSUME QrScanner!Init PROVE QrScanner!RunInv
  OBVIOUS
<1>1. x1 = 0 /\ x2 = FALSE /\ x8 = 0 /\ x9 = 0 /\ x10 = 0
  BY DEF QrScanner!Init
<1>2. x2 \in BOOLEAN
  BY <1>1, Zenon
<1>3. /\ x3 \in [QrScanner!Runs -> QrScanner!Phases] /\ x4 \in [QrScanner!Runs -> BOOLEAN]
      /\ x5 \in [QrScanner!Runs -> BOOLEAN] /\ x6 \in [QrScanner!Runs -> BOOLEAN]
      /\ x7 \in [QrScanner!Runs -> Nat]
      /\ \A r \in QrScanner!Runs : x3[r] = "none" /\ ~x4[r] /\ ~x5[r] /\ x7[r] = 0
  BY DEF QrScanner!Init, QrScanner!Phases
<1>4. QrScanner!TypeOK
  BY <1>1, <1>2, <1>3, Numbers DEF QrScanner!TypeOK
<1>5. x9 <= Cardinality(QrScanner!HaveRead) + x8
  BY <1>1, HaveReadFits
<1> QED BY <1>3, <1>4, <1>5, QrScannerCounts DEF QrScanner!RunInv, QrScanner!CameraReleased

(* What is known of a state in which the invariant holds.                  *)
LEMMA RunTypes ==
  ASSUME QrScanner!RunInv
  PROVE  /\ x1 \in 0..MaxOpens /\ x2 \in BOOLEAN
         /\ x3 \in [QrScanner!Runs -> QrScanner!Phases]
         /\ x4 \in [QrScanner!Runs -> BOOLEAN] /\ x5 \in [QrScanner!Runs -> BOOLEAN]
         /\ x6 \in [QrScanner!Runs -> BOOLEAN] /\ x7 \in [QrScanner!Runs -> Nat]
         /\ x8 \in 0..MaxTyped /\ x9 \in Nat /\ x10 \in {0, 1}
         /\ x2 => x1 > 0 /\ ~x4[x1]
         /\ \A r \in QrScanner!Runs : x5[r] => ~x4[r]
         /\ \A r \in QrScanner!Runs : r > x1 => x3[r] = "none" /\ ~x4[r]
         /\ x9 <= Cardinality(QrScanner!HaveRead) + x8
<1>1. QrScanner!TypeOK /\ QrScanner!CameraReleased
  BY DEF QrScanner!RunInv
<1>2. x9 \in Nat
  BY <1>1, Numbers DEF QrScanner!TypeOK
<1> QED BY <1>1, <1>2, QrScannerCounts DEF QrScanner!RunInv, QrScanner!TypeOK,
   QrScanner!CameraReleased

(* A step that reads no token keeps the invariant when it keeps its parts. *)
LEMMA NoTokenRead ==
  ASSUME QrScanner!RunInv, UNCHANGED x7, x9' <= x9 + (x8' - x8), x8' \in 0..MaxTyped,
         x9' \in Nat, x10' \in {0, 1}, x1' \in 0..MaxOpens, x2' \in BOOLEAN,
         x3' \in [QrScanner!Runs -> QrScanner!Phases],
         x4' \in [QrScanner!Runs -> BOOLEAN], x5' \in [QrScanner!Runs -> BOOLEAN],
         x6' \in [QrScanner!Runs -> BOOLEAN],
         x2' => x1' > 0 /\ ~x4'[x1'],
         \A r \in QrScanner!Runs : x5'[r] => ~x4'[r],
         \A r \in QrScanner!Runs : r > x1' => x3'[r] = "none" /\ ~x4'[r],
         \A r \in QrScanner!Runs : x3[r] = "done" => x3'[r] = "done"
  PROVE  QrScanner!RunInv'
<1>1. QrScanner!HaveRead' = QrScanner!HaveRead
  BY DEF QrScanner!HaveRead
<1>2. Cardinality(QrScanner!HaveRead') = Cardinality(QrScanner!HaveRead)
  BY <1>1, Zenon
<1>3. x9 <= Cardinality(QrScanner!HaveRead) + x8 /\ x8 \in Nat /\ x9 \in Nat
  BY RunTypes, Numbers
<1>4. x9' <= Cardinality(QrScanner!HaveRead) + x8' /\ x9' <= MaxOpens + MaxTyped
  <2> DEFINE read == Cardinality(QrScanner!HaveRead)
  <2>1. read \in Int /\ read <= MaxOpens
    BY HaveReadFits, Numbers
  <2> HIDE DEF read
  <2>2. x9' <= read + x8' /\ x9' <= MaxOpens + MaxTyped
    <3>1. x9 <= read + x8 /\ x8' \in Int /\ x8' <= MaxTyped
      BY <1>3, Numbers DEF read
    <3>2. \A a, b, c, d, e \in Int :
            a <= b + (c - d) /\ b <= e + d /\ e <= MaxOpens /\ c <= MaxTyped
              => a <= e + c /\ a <= MaxOpens + MaxTyped
      BY Numbers
    <3>3. x9 \in Int /\ x8 \in Int
      BY <1>3
    <3>4. x9' \in Int
      OBVIOUS
    <3>5. x9' <= x9 + (x8' - x8)
      OBVIOUS
    <3> QED BY <2>1, <3>1, <3>2, <3>3, <3>4, <3>5
  <2> QED BY <2>2 DEF read
<1>5. QrScanner!TypeOK'
  BY <1>4, RunTypes, Numbers DEF QrScanner!TypeOK
<1>6. x9' <= Cardinality(QrScanner!HaveRead') + x8'
  BY <1>2, <1>4
<1>7. \A r \in QrScanner!Runs : x7'[r] > 0 => x7'[r] = 1 /\ x3'[r] = "done"
  BY DEF QrScanner!RunInv
<1> QED BY <1>5, <1>6, <1>7, QrScannerCounts DEF QrScanner!RunInv, QrScanner!CameraReleased

(* The scanner is opened and closed, and the page's check-ins go and come. *)
LEMMA PageKeepsRuns ==
  QrScanner!RunInv /\ (\/ QrScanner!Open \/ QrScanner!Close \/ QrScanner!Type
                       \/ QrScanner!Succeeds \/ QrScanner!Refused) => QrScanner!RunInv'
<1> SUFFICES ASSUME QrScanner!RunInv PROVE
      (\/ QrScanner!Open \/ QrScanner!Close \/ QrScanner!Type
       \/ QrScanner!Succeeds \/ QrScanner!Refused) => QrScanner!RunInv'
  OBVIOUS
<1> USE RunTypes, Numbers
<1>1. ASSUME QrScanner!Open PROVE QrScanner!RunInv'
  <2>1. x1 + 1 \in QrScanner!Runs /\ x1' = x1 + 1 /\ x2' = TRUE
        /\ UNCHANGED <<x4, x5, x7, x8, x9>> /\ x10' = 0 /\ ~x4[x1 + 1] /\ x3[x1 + 1] = "none"
    BY <1>1 DEF QrScanner!Open, QrScanner!Runs
  <2>2. \E p \in {"asking", "done"} : x3' = [x3 EXCEPT ![x1 + 1] = p]
    BY <1>1, <2>1 DEF QrScanner!Open, QrScanner!Wait
  <2>3. x6' \in [QrScanner!Runs -> BOOLEAN]
    BY <1>1 DEF QrScanner!Open
  <2>4. x3' \in [QrScanner!Runs -> QrScanner!Phases]
        /\ \A r \in QrScanner!Runs : r # x1 + 1 => x3'[r] = x3[r]
    BY <2>2 DEF QrScanner!Phases
  <2>5. x1' \in 0..MaxOpens /\ x2' \in BOOLEAN /\ (x2' => x1' > 0 /\ ~x4'[x1'])
    BY <2>1 DEF QrScanner!Runs
  <2>6. ASSUME NEW r \in QrScanner!Runs, r > x1' PROVE x3'[r] = "none" /\ ~x4'[r]
    <3>1. r > x1 /\ r # x1 + 1
      BY <2>1, <2>6 DEF QrScanner!Runs
    <3> QED BY <2>1, <2>4, <3>1
  <2>7. \A r \in QrScanner!Runs : x3[r] = "done" => x3'[r] = "done"
    BY <2>1, <2>4
  <2>8. x9' <= x9 + (x8' - x8)
    BY <2>1
  <2> QED BY <2>1, <2>3, <2>4, <2>5, <2>6, <2>7, <2>8, NoTokenRead
<1>2. ASSUME x2, QrScanner!CleanUp, UNCHANGED <<x1, x6, x7, x8>>, x9' \in Nat, x9' <= x9,
             x10' \in {0, 1}
      PROVE  QrScanner!RunInv'
  <2>1. x1 \in QrScanner!Runs /\ x2' = FALSE /\ x4' = [x4 EXCEPT ![x1] = TRUE]
        /\ x5' = [x5 EXCEPT ![x1] = FALSE]
    BY <1>2 DEF QrScanner!CleanUp, QrScanner!Runs
  <2>2. /\ x4' \in [QrScanner!Runs -> BOOLEAN] /\ x5' \in [QrScanner!Runs -> BOOLEAN]
        /\ \A r \in QrScanner!Runs : x5'[r] => ~x4'[r]
        /\ \A r \in QrScanner!Runs : r # x1 => x4'[r] = x4[r]
    BY <2>1
  <2>3. x3' = x3 \/ x3' = [x3 EXCEPT ![x1] = "done"]
    BY <1>2 DEF QrScanner!CleanUp, QrScanner!Wait
  <2>4. /\ x3' \in [QrScanner!Runs -> QrScanner!Phases]
        /\ \A r \in QrScanner!Runs : x3[r] = "done" => x3'[r] = "done"
        /\ \A r \in QrScanner!Runs : r # x1 => x3'[r] = x3[r]
    BY <2>3 DEF QrScanner!Phases
  <2>5. x2' \in BOOLEAN /\ ~x2'
    BY <2>1
  <2>6. \A r \in QrScanner!Runs : r > x1' => x3'[r] = "none" /\ ~x4'[r]
    BY <1>2, <2>2, <2>4 DEF QrScanner!Runs
  <2>7. x9' <= x9 + (x8' - x8)
    BY <1>2
  <2> QED BY <1>2, <2>2, <2>4, <2>5, <2>6, <2>7, NoTokenRead
<1>3. ASSUME UNCHANGED <<x1, x2, x3, x4, x5, x6, x7>>, x8' \in 0..MaxTyped, x9' \in Nat,
             x9' <= x9 + (x8' - x8), x10' \in {0, 1}
      PROVE  QrScanner!RunInv'
  BY <1>3, NoTokenRead
<1>4. QrScanner!Close => QrScanner!RunInv'
  BY <1>2 DEF QrScanner!Close
<1>5. QrScanner!Succeeds => QrScanner!RunInv'
  <2> SUFFICES ASSUME QrScanner!Succeeds PROVE QrScanner!RunInv'
    OBVIOUS
  <2>1. x9' \in Nat /\ x9' <= x9 /\ x9' <= x9 + (x8' - x8) /\ x8' \in 0..MaxTyped
        /\ x10' \in {0, 1}
    BY DEF QrScanner!Succeeds, QrScanner!Answered
  <2> QED BY <1>2, <1>3, <2>1 DEF QrScanner!Succeeds
<1>6. QrScanner!Refused \/ QrScanner!Type => QrScanner!RunInv'
  BY <1>3 DEF QrScanner!Refused, QrScanner!Answered, QrScanner!Type
<1> QED BY <1>1, <1>4, <1>5, <1>6

(* A run is answered by the camera, or looks at a frame, and reads none.   *)
LEMMA CameraKeepsRuns ==
  ASSUME QrScanner!RunInv, NEW r \in QrScanner!Runs,
         \/ QrScanner!CameraGranted(r) \/ QrScanner!CameraRefused(r)
         \/ QrScanner!Plays(r) \/ QrScanner!ReadsNothing(r) \/ QrScanner!Tick(r)
  PROVE  QrScanner!RunInv'
<1> USE RunTypes, Numbers
<1>1. UNCHANGED <<x1, x2, x4, x7, x8, x9, x10>>
  BY DEF QrScanner!CameraGranted, QrScanner!CameraRefused, QrScanner!Plays,
     QrScanner!ReadsNothing, QrScanner!Tick
<1>2. x3[r] # "done" /\ x3[r] # "none"
      /\ \E p \in {"done", "playing", "detecting", "frame"} : x3' = [x3 EXCEPT ![r] = p]
  BY DEF QrScanner!CameraGranted, QrScanner!CameraRefused, QrScanner!Plays,
     QrScanner!ReadsNothing, QrScanner!Tick, QrScanner!Wait
<1>3. x6' = x6 \/ x6' = [x6 EXCEPT ![r] = ~x4[r]]
  BY DEF QrScanner!CameraGranted, QrScanner!CameraRefused, QrScanner!Plays,
     QrScanner!ReadsNothing, QrScanner!Tick, QrScanner!SetCameraError
<1>4. x5' = x5 \/ x5' = [x5 EXCEPT ![r] = ~x4[r]]
  BY DEF QrScanner!CameraGranted, QrScanner!CameraRefused, QrScanner!Plays,
     QrScanner!ReadsNothing, QrScanner!Tick
<1>5. x4[r] \in BOOLEAN /\ (~x4[r]) \in BOOLEAN
  OBVIOUS
<1>6. x6' \in [QrScanner!Runs -> BOOLEAN]
  BY <1>3, <1>5
<1>7. x5' \in [QrScanner!Runs -> BOOLEAN] /\ \A k \in QrScanner!Runs : x5'[k] => ~x4'[k]
  BY <1>1, <1>4, <1>5
<1>8. /\ x3' \in [QrScanner!Runs -> QrScanner!Phases]
      /\ \A k \in QrScanner!Runs : x3[k] = "done" => x3'[k] = "done"
      /\ \A k \in QrScanner!Runs : x3[k] = "none" => x3'[k] = "none"
  BY <1>2 DEF QrScanner!Phases
<1>9. \A k \in QrScanner!Runs : k > x1' => x3'[k] = "none" /\ ~x4'[k]
  BY <1>1, <1>8
<1>10. x9' <= x9 + (x8' - x8)
  BY <1>1
<1> QED BY <1>1, <1>6, <1>7, <1>8, <1>9, <1>10, NoTokenRead

(* A run reads its token.                                                  *)
LEMMA ReadKeepsRuns ==
  ASSUME QrScanner!RunInv, NEW r \in QrScanner!Runs, QrScanner!Reads(r)
  PROVE  QrScanner!RunInv'
<1> USE RunTypes, Numbers
<1>1. /\ x3[r] = "detecting" /\ x7' = [x7 EXCEPT ![r] = @ + 1]
      /\ x3' = [x3 EXCEPT ![r] = "done"] /\ x9' = x9 + 1 /\ x10' = 1
      /\ UNCHANGED <<x1, x2, x4, x5, x6, x8>>
  BY DEF QrScanner!Reads, QrScanner!Wait
<1>2. x7[r] = 0
  BY <1>1 DEF QrScanner!RunInv
<1>3. x7' \in [QrScanner!Runs -> Nat] /\ x7'[r] = 1
      /\ \A k \in QrScanner!Runs : k # r => x7'[k] = x7[k]
  BY <1>1, <1>2
<1>4. QrScanner!HaveRead' = QrScanner!HaveRead \cup {r} /\ r \notin QrScanner!HaveRead
  BY <1>2, <1>3 DEF QrScanner!HaveRead
<1>5. Cardinality(QrScanner!HaveRead \cup {r}) = Cardinality(QrScanner!HaveRead) + 1
  BY <1>4, HaveReadFits, FS_AddElement
<1>6. Cardinality(QrScanner!HaveRead') = Cardinality(QrScanner!HaveRead \cup {r})
  BY <1>4, Zenon
<1>7. Cardinality(QrScanner!HaveRead \cup {r}) <= MaxOpens
  <2>1. QrScanner!HaveRead \cup {r} \in SUBSET QrScanner!Runs
    BY DEF QrScanner!HaveRead
  <2> QED BY <2>1, RunsAreFinite, FS_Subset
<1>8. x9' <= Cardinality(QrScanner!HaveRead') + x8' /\ x9' \in 0..(MaxOpens + MaxTyped)
  BY <1>1, <1>5, <1>6, <1>7, HaveReadFits
<1>9. /\ x3' \in [QrScanner!Runs -> QrScanner!Phases] /\ x3'[r] = "done"
      /\ \A k \in QrScanner!Runs : k # r => x3'[k] = x3[k]
  BY <1>1 DEF QrScanner!Phases
<1>10. QrScanner!TypeOK'
  BY <1>1, <1>3, <1>8, <1>9 DEF QrScanner!TypeOK
<1>11. \A k \in QrScanner!Runs : x7'[k] > 0 => x7'[k] = 1 /\ x3'[k] = "done"
  BY <1>3, <1>9 DEF QrScanner!RunInv
<1>12. \A k \in QrScanner!Runs : k > x1' => x3'[k] = "none" /\ ~x4'[k]
  BY <1>1, <1>9
<1>13. QrScanner!CameraReleased'
  BY <1>1 DEF QrScanner!CameraReleased
<1> QED BY <1>8, <1>10, <1>11, <1>12, <1>13, QrScannerCounts DEF QrScanner!RunInv

(* Every step of the scanner keeps the invariant.                          *)
LEMMA QrScannerKeeps == QrScanner!RunInv /\ QrScanner!Next => QrScanner!RunInv'
BY PageKeepsRuns, CameraKeepsRuns, ReadKeepsRuns DEF QrScanner!Next, QrScanner!Camera

-----------------------------------------------------------------------------
(* A party that is patched with what was sent is a party, and it is the    *)
(* same one when nothing that was sent differs from it.                    *)
LEMMA PatchedFits ==
  ASSUME NEW P, NEW y, NEW e, NEW q, NEW v,
         NEW p \in Form(P, y, e, q, v)!PartyRecord, NEW sent \in Form(P, y, e, q, v)!PartyRecord
  PROVE  /\ Form(P, y, e, q, v)!Patched(p, sent) \in Form(P, y, e, q, v)!PartyRecord
         /\ (/\ sent.startsAt = p.startsAt /\ sent.endsAt = p.endsAt
             /\ sent.applicationDeadline = p.applicationDeadline
             /\ sent.minBirthYear = p.minBirthYear /\ sent.maxBirthYear = p.maxBirthYear
             /\ sent.placeName \in {NULL, p.placeName} /\ sent.placeCoords \in {NULL, p.placeCoords})
              => Form(P, y, e, q, v)!Patched(p, sent) = p
<1> DEFINE name == IF sent.placeName = NULL THEN p.placeName ELSE sent.placeName
           coords == IF sent.placeCoords = NULL THEN p.placeCoords ELSE sent.placeCoords
<1>1. Form(P, y, e, q, v)!Patched(p, sent) =
        [startsAt |-> sent.startsAt, endsAt |-> sent.endsAt,
         applicationDeadline |-> sent.applicationDeadline,
         minBirthYear |-> sent.minBirthYear, maxBirthYear |-> sent.maxBirthYear,
         placeName |-> name, placeCoords |-> coords]
  <2>1. Form(P, y, e, q, v)!Patched(p, sent) =
          [[sent EXCEPT !.placeName = name] EXCEPT !.placeCoords = coords]
    BY DEF Form!Patched
  <2> HIDE DEF name, coords
  <2>2. [sent EXCEPT !.placeName = name] =
          [startsAt |-> sent.startsAt, endsAt |-> sent.endsAt,
           applicationDeadline |-> sent.applicationDeadline,
           minBirthYear |-> sent.minBirthYear, maxBirthYear |-> sent.maxBirthYear,
           placeName |-> name, placeCoords |-> sent.placeCoords]
    BY DEF Form!PartyRecord
  <2> QED BY <2>1, <2>2
<1> QED BY <1>1 DEF Form!PartyRecord

(* What a form sends that can be submitted is a party with its times and   *)
(* its ages in order: an age and the birth year it stands for run in       *)
(* opposite directions.                                                    *)
LEMMA PayloadFits ==
  ASSUME NEW P, NEW y \in Nat, NEW e \in Nat, NEW q \in Nat, NEW v \in Nat,
         NULL \notin Int, Minutes \in Nat,
         Form(P, y, e, q, v)!FormInv, Form(P, y, e, q, v)!valid,
         Form(P, y, e, q, v)!agesInOrder
  PROVE  LET sent == Form(P, y, e, q, v)!payload
         IN /\ sent \in Form(P, y, e, q, v)!PartyRecord
            /\ Form(P, y, e, q, v)!InOrder(sent)
<1> DEFINE sent == Form(P, y, e, q, v)!payload
<1> USE DEF Form!FormInv, Form!TypeOK, Form!Fields, Form!Maybe
<1>1. /\ x5.startsAt \in Form(P, y, e, q, v)!Time /\ x5.endsAt \in Form(P, y, e, q, v)!Time
      /\ x5.applicationDeadline \in Form(P, y, e, q, v)!Time
      /\ x5.endsAt > x5.startsAt /\ x5.applicationDeadline <= x5.startsAt
  BY DEF Form!valid
<1>2. ASSUME NEW a \in {x5.minAge, x5.maxAge}
      PROVE  Form(P, y, e, q, v)!birthYearForAge(a) \in Form(P, y, e, q, v)!Maybe(Form(P, y, e, q, v)!Years)
  BY DEF Form!birthYearForAge, Form!Years
<1>3. sent \in Form(P, y, e, q, v)!PartyRecord
  BY <1>1, <1>2 DEF Form!payload, Form!PartyRecord
<1>4. NULL \notin {sent.minBirthYear, sent.maxBirthYear} => sent.minBirthYear <= sent.maxBirthYear
  BY DEF Form!payload, Form!birthYearForAge, Form!agesInOrder, Form!Age
<1> QED BY <1>1, <1>3, <1>4 DEF Form!InOrder, Form!payload

(* A form that was filled from a party in this year and not edited sends   *)
(* that party.                                                             *)
LEMMA PayloadStays ==
  ASSUME NEW P, NEW y \in Nat, NEW e \in Nat, NEW q \in Nat, NEW v \in Nat,
         NULL \notin Int, Minutes \in Nat,
         Form(P, y, e, q, v)!FormInv, Form(P, y, e, q, v)!AsLoaded, x4.year = x1,
         x4 \in [party : Form(P, y, e, q, v)!PartyRecord, year : 0..x1],
         Form(P, y, e, q, v)!payload \in Form(P, y, e, q, v)!PartyRecord
  PROVE  Form(P, y, e, q, v)!Patched(x4.party, Form(P, y, e, q, v)!payload) = x4.party
<1> DEFINE sent == Form(P, y, e, q, v)!payload
<1>1. ASSUME NEW b \in Form(P, y, e, q, v)!Maybe(Form(P, y, e, q, v)!Years), b = NULL \/ b <= x1
      PROVE  Form(P, y, e, q, v)!birthYearForAge(Form(P, y, e, q, v)!AgeIn(x1, b)) = b
  BY <1>1 DEF Form!birthYearForAge, Form!AgeIn, Form!Maybe, Form!Years, Form!FormInv, Form!TypeOK
<1>2. x4.party \in Form(P, y, e, q, v)!PartyRecord
  OBVIOUS
<1>3. /\ x4.party.minBirthYear \in Form(P, y, e, q, v)!Maybe(Form(P, y, e, q, v)!Years)
      /\ x4.party.maxBirthYear \in Form(P, y, e, q, v)!Maybe(Form(P, y, e, q, v)!Years)
  BY <1>2 DEF Form!PartyRecord
<1>4. sent.minBirthYear = x4.party.minBirthYear /\ sent.maxBirthYear = x4.party.maxBirthYear
  BY <1>1, <1>3 DEF Form!AsLoaded, Form!payload
<1>5. /\ sent.startsAt = x4.party.startsAt /\ sent.endsAt = x4.party.endsAt
      /\ sent.applicationDeadline = x4.party.applicationDeadline
      /\ sent.placeName = x4.party.placeName /\ sent.placeCoords = x4.party.placeCoords
  BY DEF Form!AsLoaded, Form!payload
<1> QED BY <1>2, <1>4, <1>5, PatchedFits

(* Every step of the form keeps the invariant: one case per action.        *)
LEMMA FormKeeps ==
  ASSUME NEW P, NEW y \in Nat, NEW e \in Nat, NEW q \in Nat, NEW v \in Nat,
         NULL \notin Int, Minutes \in Nat,
         NULL \notin [party : Form(P, y, e, q, v)!PartyRecord, year : Int],
         Form(P, y, e, q, v)!FormInv, Form(P, y, e, q, v)!Next
  PROVE  Form(P, y, e, q, v)!FormInv'
<1> USE DEF Form!FormInv, Form!TypeOK, Form!SentInOrder, Form!PlaceIsOne, Form!AsLoaded
<1>1. CASE Form(P, y, e, q, v)!Fill
  BY <1>1 DEF Form!Fill
<1>2. CASE Form(P, y, e, q, v)!searchPlaces
  BY <1>2 DEF Form!searchPlaces
<1>3. CASE \E found \in SUBSET P : Form(P, y, e, q, v)!SearchAnswered(found)
  BY <1>3 DEF Form!SearchAnswered, Form!counters
<1>4. CASE Form(P, y, e, q, v)!SaveFails
  BY <1>4 DEF Form!SaveFails, Form!counters
<1>5. CASE Form(P, y, e, q, v)!NewYear
  BY <1>5 DEF Form!NewYear, Form!counters, Form!Maybe, Form!Fields
<1>6. CASE Form(P, y, e, q, v)!EditSome
  BY <1>6 DEF Form!EditSome, Form!Edit, Form!Maybe, Form!Fields, Form!Time
<1>7. CASE \E p \in P : Form(P, y, e, q, v)!choosePlace(p)
  <2>1. PICK p \in P : Form(P, y, e, q, v)!choosePlace(p)
    BY <1>7
  <2>2. x7 # {} /\ x12 # 0
    BY <2>1 DEF Form!choosePlace
  <2>3. x5' = [startsAt |-> x5.startsAt, endsAt |-> x5.endsAt,
               applicationDeadline |-> x5.applicationDeadline, minAge |-> x5.minAge,
               maxAge |-> x5.maxAge, placeName |-> p, placeCoords |-> p]
    BY <2>1 DEF Form!choosePlace, Form!Fields
  <2>4. x5' \in Form(P, y, e, q, v)!Fields
    BY <2>3 DEF Form!Fields, Form!Maybe
  <2>5. /\ x5'.minAge = x5.minAge /\ x5'.maxAge = x5.maxAge /\ x5'.placeName = x5'.placeCoords
        /\ x7' = {} /\ UNCHANGED <<x1, x2, x3, x4, x6, x8, x9, x10, x11, x12, x13>>
    BY <2>1, <2>3 DEF Form!choosePlace, Form!counters
  <2> QED BY <2>2, <2>4, <2>5
<1>8. CASE Form(P, y, e, q, v)!submit
  <2> DEFINE sent == Form(P, y, e, q, v)!payload
  <2>1. /\ x9' = sent /\ x6
        /\ UNCHANGED <<x1, x2, x3, x4, x5, x6, x7, x8, x10, x11, x12>>
    BY <1>8 DEF Form!submit, Form!valid
  <2>2. sent \in Form(P, y, e, q, v)!PartyRecord /\ Form(P, y, e, q, v)!InOrder(sent)
    BY <1>8, PayloadFits DEF Form!submit
  <2>3. sent.placeName = x5.placeName /\ sent.placeCoords = x5.placeCoords
    BY DEF Form!payload
  <2>4. x2 = "edit" /\ x11 = 0 /\ x12 = 0 /\ x4.year = x1
          => Form(P, y, e, q, v)!Patched(x4.party, sent) = x4.party
    BY <2>2, PayloadStays
  <2>5. x11 = 0 => x2 = "edit"
    BY <2>1
  <2> HIDE DEF sent
  <2> QED BY <2>1, <2>2, <2>3, <2>4, <2>5
<1>9. CASE Form(P, y, e, q, v)!Saved
  <2>1. x9 \in Form(P, y, e, q, v)!PartyRecord /\ x9' = NULL /\ x10' = TRUE
        /\ UNCHANGED <<x1, x2, x4, x5, x6, x7, x8, x11, x12, x13>>
    BY <1>9 DEF Form!Saved, Form!counters
  <2>2. x3' \in Form(P, y, e, q, v)!PartyRecord
    BY <1>9, <2>1, PatchedFits DEF Form!Saved
  <2>3. x2 = "create" => x11 # 0
    BY <1>9 DEF Form!Saved
  <2> QED BY <2>1, <2>2, <2>3
<1>10. CASE Form(P, y, e, q, v)!Navigate
  <2>1. x10 /\ x10' = FALSE /\ UNCHANGED <<x1, x3, x11, x12, x13>> /\ x3 \in Form(P, y, e, q, v)!PartyRecord
    BY <1>10 DEF Form!Navigate, Form!counters
  <2>2. CASE x2 # "create"
    BY <2>1, <2>2, <1>10 DEF Form!Navigate
  <2>3. CASE x2 = "create"
    <3>1. /\ x2' = "edit" /\ x9' = NULL /\ x5' = Form(P, y, e, q, v)!formFromParty(x3)
          /\ x4' = [party |-> x3, year |-> x1] /\ x6' = TRUE /\ x7' = {} /\ x8' = 0
      BY <2>3, <1>10 DEF Form!Navigate
    <3>2. x11 # 0
      BY <2>1, <2>3
    <3>3. /\ x3.minBirthYear \in Form(P, y, e, q, v)!Maybe(Form(P, y, e, q, v)!Years)
          /\ x3.maxBirthYear \in Form(P, y, e, q, v)!Maybe(Form(P, y, e, q, v)!Years)
      BY <2>1 DEF Form!PartyRecord
    <3>4. ASSUME NEW b \in Form(P, y, e, q, v)!Maybe(Form(P, y, e, q, v)!Years)
          PROVE  /\ Form(P, y, e, q, v)!ageFromBirthYear(b) \in Int \cup {NULL}
                 /\ \/ Form(P, y, e, q, v)!ageFromBirthYear(b) = NULL
                    \/ Form(P, y, e, q, v)!ageFromBirthYear(b) <= x1 + y
      BY DEF Form!ageFromBirthYear, Form!Maybe, Form!Years
    <3>5. x5' \in Form(P, y, e, q, v)!Fields
          /\ \A a \in {x5'.minAge, x5'.maxAge} : a = NULL \/ a <= x1 + y
      BY <2>1, <3>1, <3>3, <3>4 DEF Form!formFromParty, Form!Fields, Form!Maybe, Form!PartyRecord
    <3>6. x4' \in [party : Form(P, y, e, q, v)!PartyRecord, year : 0..x1] /\ x4' # NULL
      BY <2>1, <3>1
    <3>7. x2' \in {"create", "edit"} /\ x6' \in BOOLEAN /\ x10' \in BOOLEAN
      BY <2>1, <3>1
    <3>8. x8' \in 0..q /\ x8' <= x12'
      BY <2>1, <3>1
    <3>9. Form(P, y, e, q, v)!TypeOK'
      BY <2>1, <3>1, <3>5, <3>6, <3>7, <3>8
    <3> QED BY <2>1, <3>1, <3>2, <3>5, <3>6, <3>8, <3>9
  <2> QED BY <2>2, <2>3
<1> QED BY <1>1, <1>2, <1>3, <1>4, <1>5, <1>6, <1>7, <1>8, <1>9, <1>10 DEF Form!Next

(* The form is opened empty, or filled from a party of the server whose    *)
(* birth years have come.                                                  *)
LEMMA FormInit ==
  ASSUME NEW P, NEW y \in Nat, NEW e \in Nat, NEW q \in Nat, NEW v \in Nat,
         NULL \notin Int, Minutes \in Nat,
         NULL \notin [party : Form(P, y, e, q, v)!PartyRecord, year : Int],
         Form(P, y, e, q, v)!Init
  PROVE  Form(P, y, e, q, v)!FormInv
<1>1. x1 \in 0..y /\ x7 = {} /\ x8 = 0 /\ x9 = NULL /\ x10 = FALSE /\ x11 = 0 /\ x12 = 0
  BY DEF Form!Init
<1>2. x10 \in BOOLEAN
  BY <1>1
<1>3. CASE /\ x2 = "create" /\ x3 = NULL /\ x4 = NULL
           /\ x5 = Form(P, y, e, q, v)!emptyForm /\ x6 = FALSE
  <2>1. x5 \in Form(P, y, e, q, v)!Fields /\ x5.minAge = NULL /\ x5.maxAge = NULL
        /\ x5.placeName = x5.placeCoords
    BY <1>3 DEF Form!emptyForm, Form!Fields, Form!Maybe
  <2>2. x6 \in BOOLEAN
    BY <1>3
  <2> QED BY <1>1, <1>2, <1>3, <2>1, <2>2
    DEF Form!FormInv, Form!TypeOK, Form!SentInOrder, Form!PlaceIsOne
<1>4. CASE /\ x2 = "edit"
           /\ x3 \in {p \in Form(P, y, e, q, v)!PartyRecord :
                        /\ Form(P, y, e, q, v)!InOrder(p) /\ p.placeName = p.placeCoords
                        /\ {p.minBirthYear, p.maxBirthYear} \subseteq Form(P, y, e, q, v)!Maybe(0..x1)}
           /\ x4 = [party |-> x3, year |-> x1]
           /\ x5 = Form(P, y, e, q, v)!formFromParty(x3) /\ x6 = TRUE
  <2>1. x3 \in Form(P, y, e, q, v)!PartyRecord /\ x3.placeName = x3.placeCoords
        /\ \A b \in {x3.minBirthYear, x3.maxBirthYear} : b = NULL \/ b \in 0..x1
    BY <1>4 DEF Form!Maybe
  <2>2. ASSUME NEW b \in {x3.minBirthYear, x3.maxBirthYear}
        PROVE  /\ Form(P, y, e, q, v)!ageFromBirthYear(b) \in Int \cup {NULL}
               /\ \/ Form(P, y, e, q, v)!ageFromBirthYear(b) = NULL
                  \/ Form(P, y, e, q, v)!ageFromBirthYear(b) <= x1 + y
               /\ Form(P, y, e, q, v)!ageFromBirthYear(b) = Form(P, y, e, q, v)!AgeIn(x1, b)
               /\ b = NULL \/ b <= x1
    BY <1>1, <2>1 DEF Form!ageFromBirthYear, Form!AgeIn
  <2>3. x5 = [startsAt |-> x3.startsAt, endsAt |-> x3.endsAt,
              applicationDeadline |-> x3.applicationDeadline,
              minAge |-> Form(P, y, e, q, v)!AgeIn(x1, x3.maxBirthYear),
              maxAge |-> Form(P, y, e, q, v)!AgeIn(x1, x3.minBirthYear),
              placeName |-> x3.placeName, placeCoords |-> x3.placeCoords]
    BY <1>4, <2>2 DEF Form!formFromParty
  <2>4. x4.party = x3 /\ x4.year = x1 /\ x4 # NULL
        /\ x4 \in [party : Form(P, y, e, q, v)!PartyRecord, year : 0..x1]
    BY <1>1, <1>4, <2>1
  <2>5. Form(P, y, e, q, v)!AsLoaded
    BY <2>2, <2>3, <2>4 DEF Form!AsLoaded
  <2>6. x5 \in Form(P, y, e, q, v)!Fields /\ x5.placeName = x5.placeCoords
        /\ \A a \in {x5.minAge, x5.maxAge} : a = NULL \/ a <= x1 + y
    BY <2>1, <2>2, <2>3 DEF Form!Fields, Form!Maybe, Form!PartyRecord
  <2>7. x6 \in BOOLEAN
    BY <1>4
  <2> QED BY <1>1, <1>2, <1>4, <2>1, <2>4, <2>5, <2>6, <2>7
    DEF Form!FormInv, Form!TypeOK, Form!SentInOrder, Form!PlaceIsOne
<1> QED BY <1>3, <1>4 DEF Form!Init

-----------------------------------------------------------------------------
(* Likewise for the applications.                                          *)
LEMMA ApplicationsCounts == ASSUME NEW S PROVE Applications!Cardinality(S) = Cardinality(S)
BY Zenon DEF Applications!Cardinality, Cardinality

(* The sizes of the window over the applications. *)
Windows == {n * WINDOW_SIZE : n \in 1..(Cardinality(Applicants) + 1)}

(* The sizes of the window, counted with the one operator.                 *)
LEMMA WindowsAre ==
  Windows = {n * WINDOW_SIZE : n \in 1..(Applications!Cardinality(Applicants) + 1)}
<1>1. Applications!Cardinality(Applicants) = Cardinality(Applicants)
  BY ApplicationsCounts
<1> QED BY <1>1, Zenon DEF Windows

(* The page starts with one window and nothing under way.                  *)
LEMMA ApplicationsInit == Applications!Init => Applications!TypeOK
<1> SUFFICES ASSUME Applications!Init PROVE Applications!TypeOK
  OBVIOUS
<1>1. Cardinality(Applicants) \in Nat
  BY ApplicantsAssumption, FS_CardinalityType
<1>2. WINDOW_SIZE = 1 * WINDOW_SIZE /\ 1 \in 1..(Cardinality(Applicants) + 1)
  BY <1>1, ApplicantsAssumption
<1>3. WINDOW_SIZE \in Windows
  BY <1>2, Zenon DEF Windows
<1>4. x5 \in BOOLEAN /\ x9 \in BOOLEAN
  BY DEF Applications!Init
<1> QED BY <1>3, <1>4, WindowsAre DEF Applications!Init, Applications!TypeOK, Applications!Statuses

(* Every step on the applications keeps their type.                        *)
LEMMA ApplicationsKeep == Applications!TypeOK /\ Applications!Next => Applications!TypeOK'
<1> SUFFICES ASSUME Applications!TypeOK, Applications!Next PROVE Applications!TypeOK'
  OBVIOUS
<1> USE WindowsAre DEF Applications!TypeOK, Applications!query, Applications!view
<1>2. CASE Applications!Reads \/ Applications!Answered \/ Applications!ListFails \/ Applications!Retry
  BY <1>2 DEF Applications!Reads, Applications!Answered, Applications!ListFails,
     Applications!Retry, Applications!Pending
<1>3. CASE Applications!ShowMore
  <2>1. /\ x2 \in SUBSET Applicants /\ x6 < Cardinality(x2) /\ x6' = x6 + WINDOW_SIZE
        /\ UNCHANGED <<x1, x2, x3, x4, x5, x7, x8, x9, x10>>
    BY <1>3, ApplicationsCounts DEF Applications!ShowMore, Applications!Free
  <2>2. PICK n \in 1..(Cardinality(Applicants) + 1) : x6 = n * WINDOW_SIZE
    BY Zenon DEF Windows
  <2>3. n \in Nat \ {0}
    BY ApplicantsAssumption, FS_CardinalityType
  <2>4. x6' = (n + 1) * WINDOW_SIZE /\ n + 1 \in 1..(Cardinality(Applicants) + 1)
    BY <2>1, <2>2, <2>3, WindowGrows, ApplicantsAssumption
  <2>5. x6' \in Windows
    BY <2>4, Zenon DEF Windows
  <2> QED BY <2>1, <2>5
<1>4. CASE Applications!CloseSheet \/ Applications!TypeReason \/ Applications!CloseReject
  BY <1>4 DEF Applications!CloseSheet, Applications!TypeReason, Applications!CloseReject
<1>5. ASSUME NEW a \in Applicants, Applications!OpenSheet(a) \/ Applications!Reject(a)
      PROVE  Applications!TypeOK'
  BY <1>5 DEF Applications!OpenSheet, Applications!Reject
<1>6. ASSUME NEW a \in Applicants, NEW to \in {"APPROVED", "REJECTED"},
             NEW why \in BOOLEAN, why <=> to = "REJECTED", Applications!Mutate(a, to, why)
      PROVE  Applications!TypeOK'
  BY <1>6 DEF Applications!Mutate, Applications!Reviews, Applications!Statuses
<1>7. CASE (\E a \in Applicants : Applications!Approve(a)) \/ Applications!ConfirmReject
  BY <1>6, <1>7 DEF Applications!Approve, Applications!ConfirmReject
<1>8. CASE Applications!ServerDecides
  BY <1>8 DEF Applications!ServerDecides, Applications!Reviews, Applications!Statuses
<1>9. CASE Applications!onSuccess \/ Applications!onError
  BY <1>9 DEF Applications!onSuccess, Applications!onError, Applications!InvalidateApplicants,
     Applications!SheetAfter
<1> QED BY <1>2, <1>3, <1>4, <1>5, <1>7, <1>8, <1>9
  DEF Applications!Next, Applications!Operator, Applications!Requests

(* The end of a review closes its own sheet or none.                       *)
LEMMA SheetsStay == Applications!TypeOK /\ Applications!Next => Applications!SheetStays
<1> SUFFICES ASSUME Applications!TypeOK, Applications!Next, x10 # NULL, x10' = NULL, x7 # x10.who
             PROVE  x7' = x7
  BY DEF Applications!SheetStays
<1> USE DEF Applications!query, Applications!view
<1>1. x10 \in Applications!Reviews
  BY DEF Applications!TypeOK
<1> QED
  BY <1>1 DEF Applications!Next, Applications!Operator, Applications!Requests, Applications!Reads,
     Applications!Answered, Applications!ListFails, Applications!Retry, Applications!ShowMore,
     Applications!CloseSheet, Applications!TypeReason, Applications!CloseReject,
     Applications!OpenSheet, Applications!Reject, Applications!Mutate, Applications!Approve,
     Applications!ConfirmReject, Applications!ServerDecides, Applications!onSuccess,
     Applications!onError, Applications!SheetAfter

-----------------------------------------------------------------------------
(* Likewise for the images.                                                *)
LEMMA ImagesCounts == ASSUME NEW S PROVE Images!Cardinality(S) = Cardinality(S)
BY Zenon DEF Images!Cardinality, Cardinality

(* The bounds of the images are numbers, and a file can be chosen.         *)
LEMMA ImageBounds == maxFiles \in Nat /\ maxFiles >= 1 /\ MaxChoices \in Nat
BY FilesAssumption, BoundsAssumption

(* The list starts empty or with one image, and nothing is chosen.         *)
LEMMA ImagesInit == Images!Init => Images!RoomInv
<1> SUFFICES ASSUME Images!Init PROVE Images!RoomInv
  OBVIOUS
<1>1. <<0, 1>> \in Images!Addresses
  BY ImageBounds DEF Images!Addresses
<1>2. x1 \in Seq(Images!Addresses) /\ Len(x1) <= maxFiles
      /\ \A i \in DOMAIN x1 : x1[i] \in Images!Addresses
  <2>1. CASE x1 = <<>>
    BY <2>1, ImageBounds
  <2>2. CASE x1 = <<<<0, 1>>>>
    BY <1>1, <2>2, ImageBounds
  <2> QED BY <2>1, <2>2 DEF Images!Init
<1>3. {x3, x4, x5, x6} \subseteq BOOLEAN /\ x3 = FALSE /\ x2 = {} /\ x7 = 0
  BY DEF Images!Init
<1> QED BY <1>2, <1>3, ImageBounds DEF Images!RoomInv, Images!TypeOK

(* What is known of a choice of files.                                     *)
LEMMA ChoiceTypes ==
  ASSUME Images!RoomInv, NEW c \in x2
  PROVE  /\ c.serial \in 1..MaxChoices /\ c.base \in Seq(Images!Addresses)
         /\ c.stage \in Seq({"chosen", "optimized", "ticket", "stored", "failed"})
         /\ Len(c.base) \in Nat /\ Len(c.stage) \in 1..maxFiles
         /\ Len(c.base) + Len(c.stage) <= maxFiles /\ DOMAIN c.stage = 1..Len(c.stage)
<1>1. c \in Images!ChoiceRecords
  BY DEF Images!RoomInv
<1>2. c.stage \in Seq({"chosen", "optimized", "ticket", "stored", "failed"})
      /\ c.base \in Seq(Images!Addresses) /\ c.serial \in 1..MaxChoices
  BY <1>1 DEF Images!ChoiceRecords
<1> QED BY <1>2, LenProperties DEF Images!RoomInv, Images!TypeOK

(* What a choice has uploaded are images, no more than its files, and each *)
(* of its stored files is among them: the k-th is the one of rank k.       *)
LEMMA UploadedAre ==
  ASSUME Images!RoomInv, NEW c \in x2
  PROVE  /\ Images!uploaded(c) \in Seq(Images!Addresses)
         /\ Len(Images!uploaded(c)) \in 0..Len(c.stage)
         /\ \A i \in Images!Stored(c) :
              \E k \in 1..Len(Images!uploaded(c)) : Images!uploaded(c)[k] = <<c.serial, i>>
<1> DEFINE K == Images!Stored(c)
           n == Len(c.stage)
           At(k) == CHOOSE i \in K : RankOf(K, i) = k
           u == [k \in 1..Cardinality(K) |-> <<c.serial, At(k)>>]
<1>0. n \in 1..maxFiles /\ DOMAIN c.stage = 1..n
  BY ChoiceTypes
<1>1. n \in Nat /\ n <= maxFiles /\ K \in SUBSET (1..n)
  <2>1. K \in SUBSET (1..n)
    BY <1>0 DEF Images!Stored
  <2> HIDE DEF K, n
  <2> QED BY <1>0, <2>1, ImageBounds
<1>2. Images!uploaded(c) = u
  <2>1. \A S : Images!Cardinality(S) = Cardinality(S)
    BY ImagesCounts
  <2>2. \A i : RankOf(K, i) = Images!Cardinality({j \in K : j <= i})
    BY <2>1 DEF RankOf
  <2>3. \A k : (CHOOSE i \in K : Images!Cardinality({j \in K : j <= i}) = k) = At(k)
    BY <2>2
  <2>4. Images!uploaded(c) = [k \in 1..Cardinality(K) |-> <<c.serial, At(k)>>]
    <3> HIDE DEF At
    <3>1. Images!uploaded(c) =
            [k \in 1..Images!Cardinality(K) |->
               <<c.serial, CHOOSE i \in K : Images!Cardinality({j \in K : j <= i}) = k>>]
      BY DEF Images!uploaded
    <3>2. Images!Cardinality(K) = Cardinality(K)
      BY <2>1
    <3> QED BY <3>1, <3>2, <2>3
  <2> QED BY <2>4
<1> HIDE DEF K, n
<1>3. Cardinality(K) \in Nat /\ Cardinality(K) <= n
  BY <1>1, Ranks
<1>4. ASSUME NEW k \in 1..Cardinality(K) PROVE At(k) \in K /\ RankOf(K, At(k)) = k
  BY <1>1, Ranks
<1>5. ASSUME NEW i \in K PROVE RankOf(K, i) \in 1..Cardinality(K) /\ At(RankOf(K, i)) = i
  <2>1. RankOf(K, i) \in 1..Cardinality(K)
    BY <1>1, Ranks
  <2>2. At(RankOf(K, i)) \in K /\ RankOf(K, At(RankOf(K, i))) = RankOf(K, i)
    BY <1>4, <2>1
  <2> QED BY <1>1, <2>1, <2>2, Ranks
<1> HIDE DEF At
<1>6. ASSUME NEW k \in 1..Cardinality(K) PROVE <<c.serial, At(k)>> \in Images!Addresses
  <2>1. At(k) \in 1..maxFiles /\ c.serial \in 0..MaxChoices
    <3>1. At(k) \in 1..n /\ c.serial \in 1..MaxChoices
      BY <1>1, <1>4, ChoiceTypes
    <3>2. \A i \in 1..n : i \in 1..maxFiles
      BY <1>1, ImageBounds
    <3> QED BY <3>1, <3>2, ImageBounds
  <2> QED BY <2>1 DEF Images!Addresses
<1>7. u \in [1..Cardinality(K) -> Images!Addresses]
  BY <1>6
<1>8. /\ u \in Seq(Images!Addresses) /\ Len(u) = Cardinality(K)
      /\ \A k \in 1..Cardinality(K) : u[k] = <<c.serial, At(k)>>
  BY <1>3, <1>7, SeqDef, LenProperties
<1> HIDE DEF u
<1>9. \A i \in K : RankOf(K, i) \in 1..Len(u) /\ u[RankOf(K, i)] = <<c.serial, i>>
  BY <1>5, <1>8
<1> QED BY <1>1, <1>2, <1>3, <1>8, <1>9 DEF K, n

(* The cut to maxFiles of a settled choice cuts nothing: the choice took   *)
(* no more files than there was room for.                                  *)
LEMMA ResultIs ==
  ASSUME Images!RoomInv, NEW c \in x2
  PROVE  /\ Images!Result(c) = c.base \o Images!uploaded(c)
         /\ Images!Result(c) \in Seq(Images!Addresses) /\ Len(Images!Result(c)) <= maxFiles
<1> DEFINE all == c.base \o Images!uploaded(c)
<1>1. all \in Seq(Images!Addresses) /\ Len(all) = Len(c.base) + Len(Images!uploaded(c))
  BY ChoiceTypes, UploadedAre, ConcatProperties
<1>2. Len(all) \in Nat /\ Len(all) <= maxFiles
  <2>1. Len(c.base) \in Nat /\ Len(c.stage) \in 1..maxFiles
        /\ Len(c.base) + Len(c.stage) <= maxFiles
    BY ChoiceTypes
  <2>2. Len(Images!uploaded(c)) \in 0..Len(c.stage)
    BY UploadedAre
  <2> HIDE DEF all
  <2>3. \A b \in Nat, t \in 1..maxFiles : \A u \in 0..t :
          b + t <= maxFiles => b + u \in Nat /\ b + u <= maxFiles
    BY ImageBounds
  <2> QED BY <1>1, <2>1, <2>2, <2>3
<1> HIDE DEF all
<1>3. SubSeq(all, 1, Len(all)) = all
  BY <1>1, <1>2, SubSeqFull
<1>4. SubSeq(all, 1, IF Len(all) < maxFiles THEN Len(all) ELSE maxFiles) = all
  <2>1. (IF Len(all) < maxFiles THEN Len(all) ELSE maxFiles) = Len(all)
    BY <1>2, ImageBounds
  <2> QED BY <1>3, <2>1
<1> QED BY <1>1, <1>2, <1>4 DEF Images!Result, all

(* A file that goes on leaves its choice with its number, base and size.   *)
LEMMA ChoicesStay ==
  ASSUME Images!RoomInv, NEW c \in x2, NEW i \in DOMAIN c.stage,
         NEW s \in {"optimized", "ticket", "stored", "failed"},
         x2' = Images!At(c, i, s), UNCHANGED <<x1, x3, x4, x5, x6, x7>>
  PROVE  Images!RoomInv' /\ \A d \in x2 : \E e \in x2' : e.serial = d.serial
<1> DEFINE e == [c EXCEPT !.stage[i] = s]
<1>1. c \in Images!ChoiceRecords
  BY DEF Images!RoomInv
<1>2. e = [serial |-> c.serial, base |-> c.base, stage |-> [c.stage EXCEPT ![i] = s]]
  <2>1. c = [serial |-> c.serial, base |-> c.base, stage |-> c.stage]
    BY <1>1 DEF Images!ChoiceRecords
  <2> QED BY <2>1
<1>3. [c.stage EXCEPT ![i] = s] \in Seq({"chosen", "optimized", "ticket", "stored", "failed"})
      /\ Len([c.stage EXCEPT ![i] = s]) = Len(c.stage)
  <2>1. c.stage \in Seq({"chosen", "optimized", "ticket", "stored", "failed"})
        /\ i \in 1..Len(c.stage)
    BY ChoiceTypes
  <2> QED BY <2>1, ExceptSeq
<1>4. x2' = (x2 \ {c}) \cup {e}
  BY DEF Images!At
<1>5. e \in Images!ChoiceRecords /\ e.serial = c.serial /\ Len(e.base) + Len(e.stage) <= maxFiles
      /\ Len(e.base) <= maxFiles /\ Len(e.stage) \in 1..maxFiles
  <2>1. c.serial \in 1..MaxChoices /\ c.base \in Seq(Images!Addresses)
        /\ Len(c.base) \in Nat /\ Len(c.stage) \in 1..maxFiles
        /\ Len(c.base) + Len(c.stage) <= maxFiles
    BY ChoiceTypes
  <2>2. Len(c.base) <= maxFiles
    <3>1. \A b \in Nat, t \in 1..maxFiles : b + t <= maxFiles => b <= maxFiles
      BY ImageBounds
    <3> QED BY <2>1, <3>1
  <2> QED BY <1>2, <1>3, <2>1, <2>2 DEF Images!ChoiceRecords
<1> HIDE DEF e
<1> QED BY <1>4, <1>5 DEF Images!RoomInv, Images!TypeOK

(* Every step of the images keeps the invariant, and no stored image gets  *)
(* lost with its choice.                                                   *)
LEMMA ImagesKeep ==
  Images!RoomInv /\ Images!Next => Images!RoomInv' /\ Images!StoredIsKept
<1> SUFFICES ASSUME Images!RoomInv, Images!Next PROVE Images!RoomInv' /\ Images!StoredIsKept
  OBVIOUS
<1>1. ASSUME \A d \in x2 : \E e \in x2' : e.serial = d.serial PROVE Images!StoredIsKept
  BY <1>1 DEF Images!StoredIsKept
<1>2. CASE \E n \in 1..(maxFiles + 1) : Images!handleFiles(n)
  <2>1. PICK n \in 1..(maxFiles + 1) : Images!handleFiles(n)
    BY <1>2
  <2> DEFINE m == IF n < maxFiles - Len(x1) THEN n ELSE maxFiles - Len(x1)
             new == [serial |-> x7 + 1, base |-> x1, stage |-> [i \in 1..m |-> "chosen"]]
  <2>2. /\ x7 < MaxChoices /\ x7' = x7 + 1 /\ maxFiles - Len(x1) > 0
        /\ x2' = x2 \cup {new} /\ x3' = TRUE /\ UNCHANGED <<x1, x4, x5, x6>>
    BY <2>1 DEF Images!handleFiles, Images!slots
  <2>3. Len(x1) \in Nat /\ Len(x1) <= maxFiles
    BY LenProperties DEF Images!RoomInv, Images!TypeOK
  <2>4. m \in 1..maxFiles /\ Len(x1) + m <= maxFiles
    BY <2>2, <2>3, ImageBounds
  <2> HIDE DEF m
  <2>5. [i \in 1..m |-> "chosen"] \in Seq({"chosen", "optimized", "ticket", "stored", "failed"})
        /\ Len([i \in 1..m |-> "chosen"]) = m
    <3>1. [i \in 1..m |-> "chosen"] \in [1..m -> {"chosen", "optimized", "ticket", "stored", "failed"}]
      OBVIOUS
    <3> QED BY <2>4, <3>1, SeqDef, LenProperties
  <2>6. x7 + 1 \in 1..MaxChoices
    BY <2>2, ImageBounds DEF Images!RoomInv
  <2>7. new \in Images!ChoiceRecords /\ Len(new.base) + Len(new.stage) <= maxFiles
        /\ Len(new.base) <= maxFiles /\ Len(new.stage) \in 1..maxFiles
    BY <2>3, <2>4, <2>5, <2>6 DEF Images!ChoiceRecords, Images!RoomInv
  <2> HIDE DEF new
  <2>8. x3' \in BOOLEAN /\ x7' \in 0..MaxChoices
    BY <2>2, <2>6
  <2> QED BY <1>1, <2>2, <2>7, <2>8 DEF Images!RoomInv, Images!TypeOK
<1>3. ASSUME NEW c \in x2, NEW i \in DOMAIN c.stage,
             Images!uploadOptimized(c, i) \/ Images!FileFails(c, i)
      PROVE  Images!RoomInv' /\ Images!StoredIsKept
  <2>1. c.stage[i] \in {"chosen", "optimized", "ticket"}
        /\ UNCHANGED <<x1, x3, x4, x5, x6, x7>>
    BY <1>3 DEF Images!uploadOptimized, Images!FileFails
  <2>2. \E s \in {"optimized", "ticket", "stored", "failed"} : x2' = Images!At(c, i, s)
    BY <1>3, <2>1 DEF Images!uploadOptimized, Images!FileFails, Images!After
  <2> QED BY <1>1, <2>1, <2>2, ChoicesStay
<1>4. ASSUME NEW c \in x2, Images!Settle(c) PROVE Images!RoomInv' /\ Images!StoredIsKept
  <2>1. x2' = x2 \ {c} /\ x3' = FALSE /\ UNCHANGED <<x5, x7>>
        /\ IF Images!uploaded(c) = <<>> THEN UNCHANGED <<x1, x4, x6>>
           ELSE x1' = Images!Result(c) /\ x4' = x4 /\ x6' = FALSE
    BY <1>4 DEF Images!Settle, Images!FocusEffect, Images!RoomInv, Images!TypeOK
  <2>2. x1' \in Seq(Images!Addresses) /\ Len(x1') <= maxFiles
    BY <2>1, ResultIs DEF Images!RoomInv, Images!TypeOK
  <2>3. \A i \in DOMAIN x1' : x1'[i] \in Images!Addresses
    BY <2>2, LenProperties
  <2>4. {x3', x4', x5', x6'} \subseteq BOOLEAN
    BY <2>1 DEF Images!RoomInv, Images!TypeOK
  <2>5. Images!RoomInv'
    BY <2>1, <2>2, <2>3, <2>4 DEF Images!RoomInv, Images!TypeOK
  <2>6. ASSUME NEW d \in x2, ~(\E e \in x2' : e.serial = d.serial), NEW i \in Images!Stored(d)
        PROVE  Images!Contains(x1', <<d.serial, i>>)
    <3>1. d = c
      BY <2>1, <2>6
    <3>2. PICK k \in 1..Len(Images!uploaded(c)) : Images!uploaded(c)[k] = <<c.serial, i>>
      BY <2>6, <3>1, UploadedAre
    <3>3. Len(Images!uploaded(c)) \in Nat /\ Len(c.base) \in Nat
      BY ChoiceTypes, UploadedAre
    <3>4. Images!uploaded(c) # <<>>
      BY <3>2, <3>3
    <3>5. x1' = c.base \o Images!uploaded(c)
      BY <2>1, <3>4, ResultIs
    <3>6. x1'[Len(c.base) + k] = <<c.serial, i>>
          /\ Len(x1') = Len(c.base) + Len(Images!uploaded(c))
      BY <3>2, <3>3, <3>5, ChoiceTypes, UploadedAre, ConcatProperties
    <3>7. Len(c.base) + k \in 1..Len(x1')
      BY <3>2, <3>3, <3>6
    <3> QED BY <3>1, <3>6, <3>7 DEF Images!Contains
  <2> QED BY <2>5, <2>6 DEF Images!StoredIsKept
<1>5. CASE Images!Frame \/ Images!Blur
  <2>1. UNCHANGED <<x1, x2, x3, x7>> /\ {x4', x5', x6'} \subseteq BOOLEAN
    BY <1>5 DEF Images!Frame, Images!Blur, Images!RoomInv, Images!TypeOK
  <2> QED BY <1>1, <2>1 DEF Images!RoomInv, Images!TypeOK
<1>6. ASSUME NEW i \in DOMAIN x1, Images!removeAt(i) PROVE Images!RoomInv' /\ Images!StoredIsKept
  <2>1. UNCHANGED <<x2, x3, x7>> /\ {x4', x5', x6'} \subseteq BOOLEAN
        /\ x1' = SubSeq(x1, 1, i - 1) \o SubSeq(x1, i + 1, Len(x1))
    BY <1>6 DEF Images!removeAt, Images!RemoveAt
  <2>2. x1 \in Seq(Images!Addresses) /\ Len(x1) \in Nat /\ Len(x1) <= maxFiles
        /\ i \in 1..Len(x1)
    BY LenProperties DEF Images!RoomInv, Images!TypeOK
  <2>3. SubSeq(x1, 1, i - 1) \in Seq(Images!Addresses) /\ Len(SubSeq(x1, 1, i - 1)) = i - 1
    BY <2>2, SubSeqProperties
  <2>4. SubSeq(x1, i + 1, Len(x1)) \in Seq(Images!Addresses)
        /\ Len(SubSeq(x1, i + 1, Len(x1))) = Len(x1) - i
    BY <2>2, SubSeqProperties
  <2>5. x1' \in Seq(Images!Addresses) /\ Len(x1') <= maxFiles
    <3>1. x1' \in Seq(Images!Addresses) /\ Len(x1') = (i - 1) + (Len(x1) - i)
      BY <2>1, <2>3, <2>4, ConcatProperties
    <3>2. \A n \in Nat : n <= maxFiles /\ i \in 1..n => (i - 1) + (n - i) <= maxFiles
      BY ImageBounds
    <3> QED BY <2>2, <3>1, <3>2
  <2>6. \A k \in DOMAIN x1' : x1'[k] \in Images!Addresses
    BY <2>5, LenProperties
  <2> QED BY <1>1, <2>1, <2>5, <2>6 DEF Images!RoomInv, Images!TypeOK
<1> QED BY <1>2, <1>3, <1>4, <1>5, <1>6 DEF Images!Next, Images!Network

-----------------------------------------------------------------------------
(* Min is the least of a set of numbers.                                   *)
LEMMA MinIs ==
  ASSUME NEW S, S \subseteq Nat, S # {}
  PROVE  PartyList!Min(S) \in S /\ \A t \in S : PartyList!Min(S) <= t
BY LeastExists DEF PartyList!Min

(* Max is the greatest of a set of numbers with a bound: the least seen    *)
(* from there.                                                             *)
LEMMA MaxIs ==
  ASSUME NEW n \in Nat, NEW S, S \subseteq 0..n, S # {}
  PROVE  PartyList!Max(S) \in S /\ \A t \in S : t <= PartyList!Max(S)
<1> DEFINE T == {n - s : s \in S}
<1>1. \A s \in S : s \in 0..n
  OBVIOUS
<1>2. T \subseteq Nat /\ T # {}
  <2>1. \A s \in S : n - s \in Nat
    BY <1>1
  <2> QED BY <2>1
<1>3. PICK u \in T : \A t \in T : u <= t
  BY <1>2, LeastExists
<1>4. PICK s \in S : u = n - s
  OBVIOUS
<1>5. \A t \in S : n - s <= n - t
  BY <1>3, <1>4
<1>6. \A t \in S : t <= s
  BY <1>1, <1>5
<1> QED BY <1>6 DEF PartyList!Max

(* The bounds of the list are numbers.                                     *)
LEMMA PageLimits == MaxPages \in Nat /\ MaxMoves \in Nat /\ MaxFaults \in Nat
BY BoundsAssumption

(* A list of the server has its pages.                                     *)
LEMMA BooksFit ==
  ASSUME x1 \in [PartyList!Lifecycles -> PartyList!Books], NEW l \in PartyList!Lifecycles
  PROVE  Len(x1[l]) \in 1..MaxPages
<1>1. PICK n \in 1..MaxPages : x1[l] \in [1..n -> SUBSET PartyList!Held("ALL")]
  BY DEF PartyList!Books
<1>2. n \in Nat
  BY PageLimits
<1>3. x1[l] \in Seq(SUBSET PartyList!Held("ALL")) /\ Len(x1[l]) = n
  BY <1>1, <1>2, SeqDef, LenProperties
<1> QED BY <1>1, <1>3

(* A tab has its list.                                                     *)
LEMMA LifecycleOf ==
  ASSUME NEW t \in Tabs PROVE PartyList!operatorLifecycleForTab(t) \in PartyList!Lifecycles
BY DEF PartyList!Lifecycles

(* The pages of a tab that are loaded and have rows of it.                 *)
Found(t) ==
  PartyList!matchingOperatorPages(t, x3[PartyList!operatorLifecycleForTab(t)].pages)

(* The invariant of the list without the focus.                            *)
ListData ==
  /\ x1 \in [PartyList!Lifecycles -> PartyList!Books] /\ x2 \in Tabs
  /\ x3 \in [PartyList!Lifecycles -> PartyList!Queries]
  /\ x4 \in [Tabs -> 1..MaxPages \cup {NULL}]
  /\ x5 \in [PartyList!Lifecycles -> {NULL} \cup [tab : Tabs, from : Nat]]
  /\ x8 \in 0..MaxMoves /\ x9 \in 0..MaxFaults
  /\ \A l \in PartyList!Lifecycles :
       /\ x3[l].pages <= Len(x1[l])
       /\ x3[l].fetch = "next" => x3[l].pages < Len(x1[l])
       /\ x5[l] # NULL => x3[l].fetch = "next"
  /\ PartyList!query.pages = 0 => PartyList!query.fetch # NULL \/ PartyList!query.error # NULL
  /\ \A l \in PartyList!Lifecycles, t \in Tabs : x5[l] # NULL /\ x5[l].tab = t =>
       PartyList!operatorLifecycleForTab(t) = l /\ x5[l].from = PartyList!PageOf(t)

(* Where the focus can be.                                                 *)
FocusType == x6 \in {"more", "previous", "retry", "item", "fallback", "tab", NULL}

(* What the hook notes: the view that is shown, unless a page that failed  *)
(* is to be tried again.                                                   *)
Noted ==
  \/ x7 \in {NULL, PartyList!view}
  \/ x7.tab = x2 /\ PartyList!isNextPageError /\ ~PartyList!isFetchingNextPage

(* What is known of the queries in a state in which the invariant holds.   *)
LEMMA ListTypes ==
  ASSUME ListData
  PROVE  /\ PartyList!lifecycle \in PartyList!Lifecycles
         /\ \A l \in PartyList!Lifecycles :
              /\ x3[l].pages \in Nat /\ x3[l].fetch \in {NULL, "all", "next"}
              /\ x3[l].error \in {NULL, "all", "next"}
              /\ x3[l] = [pages |-> x3[l].pages, fetch |-> x3[l].fetch, error |-> x3[l].error]
              /\ Len(x1[l]) \in 1..MaxPages /\ x3[l].pages <= MaxPages
              /\ x5[l] # NULL => x5[l].tab \in Tabs /\ x5[l].from \in Nat
<1>1. PartyList!lifecycle \in PartyList!Lifecycles
  BY LifecycleOf DEF ListData, PartyList!lifecycle
<1>2. ASSUME NEW l \in PartyList!Lifecycles PROVE Len(x1[l]) \in 1..MaxPages
  BY BooksFit DEF ListData
<1>3. ASSUME NEW l \in PartyList!Lifecycles
      PROVE  /\ x3[l].pages \in Nat /\ x3[l].fetch \in {NULL, "all", "next"}
             /\ x3[l].error \in {NULL, "all", "next"}
             /\ x3[l] = [pages |-> x3[l].pages, fetch |-> x3[l].fetch, error |-> x3[l].error]
             /\ x5[l] # NULL => x5[l].tab \in Tabs /\ x5[l].from \in Nat
  BY DEF ListData, PartyList!Queries
<1>4. ASSUME NEW l \in PartyList!Lifecycles PROVE x3[l].pages <= MaxPages
  BY <1>2, <1>3, PageLimits DEF ListData
<1> QED BY <1>1, <1>2, <1>3, <1>4

(* The pages found are among those that are loaded, and with fewer loaded  *)
(* they are those of them.                                                 *)
LEMMA FoundAre ==
  ASSUME ListData, NEW t \in Tabs
  PROVE  /\ Found(t) \subseteq 1..x3[PartyList!operatorLifecycleForTab(t)].pages
         /\ Found(t) \subseteq 1..MaxPages /\ Found(t) \subseteq Nat
         /\ \A n \in Nat : n <= x3[PartyList!operatorLifecycleForTab(t)].pages
              => PartyList!matchingOperatorPages(t, n) = {k \in Found(t) : k <= n}
<1> DEFINE l == PartyList!operatorLifecycleForTab(t)
<1>1. l \in PartyList!Lifecycles /\ x3[l].pages \in Nat /\ x3[l].pages <= MaxPages
  BY LifecycleOf, ListTypes, PageLimits
<1>2. Found(t) \subseteq 1..x3[l].pages
  BY DEF Found, PartyList!matchingOperatorPages
<1>3. 1..x3[l].pages \subseteq 1..MaxPages /\ 1..x3[l].pages \subseteq Nat
  BY <1>1, PageLimits
<1>4. ASSUME NEW n \in Nat, n <= x3[l].pages
      PROVE  PartyList!matchingOperatorPages(t, n) = {k \in Found(t) : k <= n}
  <2>1. \A k : k \in 1..n <=> k \in 1..x3[l].pages /\ k <= n
    BY <1>1, <1>4
  <2> QED BY <2>1 DEF Found, PartyList!matchingOperatorPages
<1> QED BY <1>2, <1>3, <1>4

(* The page of a tab is a number, and one that was found if any was.       *)
LEMMA PageOfIs ==
  ASSUME ListData, NEW t \in Tabs
  PROVE  /\ PartyList!PageOf(t) \in Nat
         /\ Found(t) # {} => PartyList!PageOf(t) \in Found(t)
<1>1. Found(t) # {} => PartyList!Min(Found(t)) \in Found(t)
  BY FoundAre, MinIs
<1>2. PartyList!PageOf(t) =
        IF x4[t] # NULL /\ x4[t] \in Found(t) THEN x4[t]
        ELSE IF Found(t) = {} THEN 1 ELSE PartyList!Min(Found(t))
  BY DEF PartyList!PageOf, Found
<1> QED BY <1>1, <1>2, FoundAre

(* What is shown is the page of the tab that is pressed.                   *)
LEMMA ShownIs ==
  /\ PartyList!matching = Found(x2) /\ PartyList!currentPage = PartyList!PageOf(x2)
  /\ PartyList!view = [tab |-> x2, page |-> PartyList!PageOf(x2), rows |-> Found(x2) # {}]
BY DEF PartyList!matching, Found, PartyList!query, PartyList!lifecycle, PartyList!currentPage,
   PartyList!PageOf, PartyList!view

(* A tab keeps its page while as many pages of its list are loaded and     *)
(* none is asked for.                                                      *)
LEMMA SamePage ==
  ASSUME NEW t, x1' = x1, x4'[t] = x4[t],
         x3'[PartyList!operatorLifecycleForTab(t)].pages = x3[PartyList!operatorLifecycleForTab(t)].pages
  PROVE  Found(t)' = Found(t) /\ PartyList!PageOf(t)' = PartyList!PageOf(t)
<1>1. Found(t)' = Found(t)
  BY DEF Found, PartyList!matchingOperatorPages
<1> QED BY <1>1 DEF PartyList!PageOf, Found

(* A step that changes one list, and the request for a page of it, keeps   *)
(* the invariant of the data: it moves the page of no tab that waits.      *)
LEMMA DataStep ==
  ASSUME ListData, x1' = x1, x2' \in Tabs, NEW l \in PartyList!Lifecycles,
         NEW q \in PartyList!Queries, x3' = [x3 EXCEPT ![l] = q],
         q.pages <= Len(x1[l]), q.fetch = "next" => q.pages < Len(x1[l]),
         x4' \in [Tabs -> 1..MaxPages \cup {NULL}],
         NEW a \in {NULL} \cup [tab : Tabs, from : Nat], x5' = [x5 EXCEPT ![l] = a],
         a # NULL => /\ q.fetch = "next" /\ q.pages = x3[l].pages
                     /\ PartyList!operatorLifecycleForTab(a.tab) = l
                     /\ a.from = PartyList!PageOf(a.tab),
         \A t \in Tabs : x4'[t] # x4[t] => x5'[PartyList!operatorLifecycleForTab(t)] = NULL,
         PartyList!query'.pages = 0 => PartyList!query'.fetch # NULL \/ PartyList!query'.error # NULL,
         x8' \in 0..MaxMoves, x9' \in 0..MaxFaults
  PROVE  ListData'
<1>1. x3' \in [PartyList!Lifecycles -> PartyList!Queries]
      /\ x5' \in [PartyList!Lifecycles -> {NULL} \cup [tab : Tabs, from : Nat]]
  BY DEF ListData
<1>2. /\ x3'[l] = q /\ x5'[l] = a
      /\ \A k \in PartyList!Lifecycles : k # l => x3'[k] = x3[k] /\ x5'[k] = x5[k]
  BY DEF ListData
<1>3. ASSUME NEW k \in PartyList!Lifecycles
      PROVE  /\ x3'[k].pages <= Len(x1'[k])
             /\ x3'[k].fetch = "next" => x3'[k].pages < Len(x1'[k])
             /\ x5'[k] # NULL => x3'[k].fetch = "next"
  <2>1. CASE k = l
    BY <1>2, <2>1
  <2>2. CASE k # l
    BY <1>2, <2>2 DEF ListData
  <2> QED BY <2>1, <2>2
<1>4. ASSUME NEW k \in PartyList!Lifecycles, NEW t \in Tabs, x5'[k] # NULL, x5'[k].tab = t
      PROVE  PartyList!operatorLifecycleForTab(t) = k /\ x5'[k].from = PartyList!PageOf(t)'
  <2>1. PartyList!operatorLifecycleForTab(t) = k /\ x5'[k].from = PartyList!PageOf(t)
        /\ x3'[k].pages = x3[k].pages
    <3>1. CASE k = l
      BY <1>2, <1>4, <3>1
    <3>2. CASE k # l
      BY <1>2, <1>4, <3>2 DEF ListData
    <3> QED BY <3>1, <3>2
  <2>2. x4'[t] = x4[t]
    BY <1>4, <2>1
  <2> QED BY <2>1, <2>2, SamePage
<1> QED BY <1>1, <1>3, <1>4 DEF ListData

(* So does turning to another page, when nobody awaits one.                *)
LEMMA DataStays ==
  ASSUME ListData, UNCHANGED <<x1, x2, x3, x5>>, x4' \in [Tabs -> 1..MaxPages \cup {NULL}],
         \A t \in Tabs : x4'[t] # x4[t] => x5[PartyList!operatorLifecycleForTab(t)] = NULL,
         x8' \in 0..MaxMoves, x9' \in 0..MaxFaults
  PROVE  ListData'
<1>1. PartyList!query' = PartyList!query
  BY DEF PartyList!query, PartyList!lifecycle
<1>2. ASSUME NEW k \in PartyList!Lifecycles, NEW t \in Tabs, x5[k] # NULL, x5[k].tab = t
      PROVE  PartyList!operatorLifecycleForTab(t) = k /\ x5[k].from = PartyList!PageOf(t)'
  <2>1. PartyList!operatorLifecycleForTab(t) = k /\ x5[k].from = PartyList!PageOf(t)
    BY <1>2 DEF ListData
  <2>2. x4'[t] = x4[t]
    BY <1>2, <2>1
  <2> QED BY <2>1, <2>2, SamePage
<1> QED BY <1>1, <1>2 DEF ListData

(* What is shown stays while the tab, its page and the pages of its list   *)
(* do.                                                                     *)
LEMMA SameView ==
  ASSUME x1' = x1, x2' = x2, x4'[x2] = x4[x2],
         x3'[PartyList!lifecycle].pages = x3[PartyList!lifecycle].pages
  PROVE  /\ PartyList!view' = PartyList!view /\ Found(x2)' = Found(x2)
         /\ PartyList!PageOf(x2)' = PartyList!PageOf(x2)
         /\ PartyList!matching' = PartyList!matching
<1>1. Found(x2)' = Found(x2) /\ PartyList!PageOf(x2)' = PartyList!PageOf(x2)
  <2>1. ASSUME NEW t, x2 = t, x2' = t
       PROVE  Found(t)' = Found(t) /\ PartyList!PageOf(t)' = PartyList!PageOf(t)
    BY <2>1, SamePage DEF PartyList!lifecycle
  <2> QED BY <2>1
<1>2. PartyList!matching' = Found(x2)'
  BY DEF PartyList!matching, Found, PartyList!query, PartyList!lifecycle
<1>3. PartyList!currentPage' = PartyList!PageOf(x2)'
  BY DEF PartyList!matching, PartyList!query, PartyList!lifecycle, PartyList!currentPage,
     PartyList!PageOf
<1> QED BY <1>1, <1>2, <1>3, ShownIs DEF PartyList!view

(* What keeps the focus is where the focus can be.                         *)
LEMMA KeptIs ==
  FocusType => PartyList!Kept \in {"more", "previous", "retry", "item", "fallback", "tab", NULL}
BY DEF FocusType, PartyList!Kept

(* The hook's effect keeps the focus true, and hands it on when the view   *)
(* it was noted on is no longer shown.                                     *)
LEMMA EffectKeeps ==
  ASSUME FocusType, Noted, PartyList!Effect, x2' = x2,
         PartyList!isFetchingNextPage' =>
           PartyList!view' = PartyList!view
           /\ (PartyList!isFetchingNextPage \/ ~PartyList!isNextPageError)
  PROVE  /\ FocusType' /\ Noted'
         /\ (x7 # NULL /\ x7 = PartyList!view /\ PartyList!view' # PartyList!view
             /\ ~PartyList!isNextPageError') => x6' = PartyList!FirstItem
<1>1. PartyList!FirstItem \in {"more", "previous", "retry", "item", "fallback", "tab", NULL}
  BY KeptIs DEF PartyList!FirstItem
<1>2. FocusType'
  BY <1>1, KeptIs DEF FocusType, PartyList!Effect
<1>3. x7' \in {NULL, x7}
  BY DEF PartyList!Effect
<1>4. Noted'
  <2>1. CASE x7' = NULL
    BY <2>1 DEF Noted
  <2>2. CASE x7' # NULL
    <3>1. x7' = x7 /\ x7 # NULL /\ x7.tab = x2'
      BY <1>3, <2>2 DEF PartyList!Effect
    <3>2. CASE PartyList!isFetchingNextPage'
      BY <3>1, <3>2 DEF Noted
    <3>3. CASE ~PartyList!isFetchingNextPage' /\ PartyList!isNextPageError'
      BY <3>1, <3>3 DEF Noted
    <3>4. CASE ~PartyList!isFetchingNextPage' /\ ~PartyList!isNextPageError'
      <4>1. x7 = PartyList!view'
        BY <2>2, <3>1, <3>4 DEF PartyList!Effect
      <4> QED BY <3>1, <4>1 DEF Noted
    <3> QED BY <3>2, <3>3, <3>4
  <2> QED BY <2>1, <2>2
<1>5. ASSUME x7 # NULL, x7 = PartyList!view, PartyList!view' # PartyList!view, ~PartyList!isNextPageError'
      PROVE  x6' = PartyList!FirstItem
  <2>1. x7.tab = x2'
    BY <1>5 DEF PartyList!view
  <2> QED BY <1>5, <2>1 DEF PartyList!Effect
<1> QED BY <1>2, <1>4, <1>5

(* So does the effect after a button was pressed.                          *)
LEMMA EffectOfKeeps ==
  ASSUME NEW button \in {"more", "previous", "retry"}, PartyList!EffectOf(button), x2' = x2, FocusType,
         PartyList!view' = PartyList!view \/ ~PartyList!isFetchingNextPage'
  PROVE  /\ FocusType' /\ Noted'
         /\ (PartyList!view' # PartyList!view /\ ~PartyList!isNextPageError') => x6' = PartyList!FirstItem
<1>1. PartyList!FirstItem \in {"more", "previous", "retry", "item", "fallback", "tab", NULL}
  BY KeptIs DEF PartyList!FirstItem
<1>2. FocusType'
  BY <1>1 DEF FocusType, PartyList!EffectOf
<1>3. PartyList!view.tab = x2
  BY DEF PartyList!view
<1>4. Noted'
  BY <1>3 DEF PartyList!EffectOf, Noted
<1> QED BY <1>2, <1>4 DEF PartyList!EffectOf

(* A request that begins changes its field of the query only.              *)
LEMMA FetchSet ==
  ASSUME ListData, NEW l \in PartyList!Lifecycles, NEW f
  PROVE  [x3 EXCEPT ![l].fetch = f] =
           [x3 EXCEPT ![l] = [pages |-> x3[l].pages, fetch |-> f, error |-> x3[l].error]]
<1> DEFINE r == x3[l]
<1>1. r = [pages |-> r.pages, fetch |-> r.fetch, error |-> r.error] /\ x3[l] = r
  BY ListTypes
<1> HIDE DEF r
<1>2. [r EXCEPT !.fetch = f] = [pages |-> r.pages, fetch |-> f, error |-> r.error]
  BY <1>1
<1>3. [x3 EXCEPT ![l].fetch = f] = [x3 EXCEPT ![l] = [r EXCEPT !.fetch = f]]
  BY <1>1 DEF ListData
<1> QED BY <1>1, <1>2, <1>3

(* Likewise a request that takes over or ends, with its error.             *)
LEMMA QuerySet ==
  ASSUME ListData, NEW l \in PartyList!Lifecycles, NEW f, NEW e
  PROVE  [x3[l] EXCEPT !.fetch = f, !.error = e] =
           [pages |-> x3[l].pages, fetch |-> f, error |-> e]
<1> DEFINE r == x3[l]
<1>1. r = [pages |-> r.pages, fetch |-> r.fetch, error |-> r.error]
  BY ListTypes
<1> HIDE DEF r
<1>2. [r EXCEPT !.fetch = f] = [pages |-> r.pages, fetch |-> f, error |-> r.error]
  BY <1>1
<1>3. [r EXCEPT !.fetch = f, !.error = e] = [[r EXCEPT !.fetch = f] EXCEPT !.error = e]
  OBVIOUS
<1>4. [[pages |-> r.pages, fetch |-> f, error |-> r.error] EXCEPT !.error = e] =
        [pages |-> r.pages, fetch |-> f, error |-> e]
  OBVIOUS
<1> QED BY <1>2, <1>3, <1>4, Zenon DEF r

(* The invariant of the module is that of the data and that of the focus.  *)
LEMMA ListInvIs ==
  /\ PartyList!ListInv => ListData /\ FocusType /\ Noted
  /\ ListData /\ FocusType /\ Noted => PartyList!ListInv
<1>1. PartyList!ListInv => ListData /\ FocusType /\ Noted
  BY DEF PartyList!ListInv, PartyList!TypeOK, ListData, FocusType, Noted
<1>2. ListData /\ FocusType /\ Noted => PartyList!ListInv
  <2> SUFFICES ASSUME ListData, FocusType, Noted PROVE PartyList!ListInv
    OBVIOUS
  <2>1. \A l \in PartyList!Lifecycles :
          /\ x3[l].pages \in 0..Len(x1[l]) /\ x3[l].fetch \in {NULL, "all", "next"}
          /\ x3[l].error \in {NULL, "all", "next"}
    BY ListTypes DEF ListData
  <2>2. PartyList!TypeOK
    BY <2>1 DEF ListData, FocusType, PartyList!TypeOK
  <2> QED BY <2>2 DEF PartyList!ListInv, ListData, Noted
<1> QED BY <1>1, <1>2

(* What a step of the list promises.                                       *)
Promised == PartyList!NothingSkipped /\ PartyList!PageHasFocus

(* A step that shows what was shown has kept its promises.                 *)
LEMMA StillPromised ==
  ASSUME ListData, PartyList!view' = PartyList!view PROVE Promised
<1>1. PartyList!currentPage' = PartyList!currentPage /\ PartyList!currentPage \in Nat
  BY ShownIs, PageOfIs DEF PartyList!view, ListData
<1>2. PartyList!NothingSkipped
  BY <1>1 DEF PartyList!NothingSkipped
<1> QED BY <1>2 DEF Promised, PartyList!PageHasFocus

(* Where there are rows, the focus goes to the first of them.              *)
LEMMA ItemIsFirst ==
  ASSUME PartyList!matching' # {}, PartyList!query'.pages \in Nat
  PROVE  PartyList!FirstItem = "item"
<1>1. PICK k \in 1..PartyList!query'.pages :
        PartyList!partyRowsForTab(x1'[PartyList!lifecycle'][k], x2') # {}
  BY DEF PartyList!matching, PartyList!matchingOperatorPages, PartyList!lifecycle
<1>2. x1'[PartyList!lifecycle'][k] # {} /\ PartyList!query'.pages # 0
  BY <1>1 DEF PartyList!partyRowsForTab
<1>3. PartyList!Ready'
  BY <1>2 DEF PartyList!Ready, PartyList!isLoading, PartyList!isError
<1> QED BY <1>3 DEF PartyList!FirstItem

(* The pages found stay while as many of the list are loaded.              *)
LEMMA FoundStays ==
  ASSUME x1' = x1, NEW t,
         x3'[PartyList!operatorLifecycleForTab(t)].pages = x3[PartyList!operatorLifecycleForTab(t)].pages
  PROVE  Found(t)' = Found(t)
BY DEF Found, PartyList!matchingOperatorPages

(* What is shown after a step is the page that the tab then has.           *)
LEMMA PrimedShown ==
  ASSUME NEW t, x2' = t
  PROVE  /\ PartyList!matching' = Found(t)' /\ PartyList!currentPage' = PartyList!PageOf(t)'
         /\ PartyList!view' = [tab |-> t, page |-> PartyList!PageOf(t)', rows |-> Found(t)' # {}]
<1>1. PartyList!matching' = Found(t)'
  BY DEF PartyList!matching, Found, PartyList!query, PartyList!lifecycle
<1>2. PartyList!currentPage' = PartyList!PageOf(t)'
  BY DEF PartyList!matching, PartyList!query, PartyList!lifecycle, PartyList!currentPage,
     PartyList!PageOf
<1> QED BY <1>1, <1>2 DEF PartyList!view

(* A page that is asked for and there is shown.                            *)
LEMMA Turned ==
  ASSUME ListData, x1' = x1, x2' = x2, NEW m \in Found(x2), x4' = [x4 EXCEPT ![x2] = m],
         x3'[PartyList!lifecycle].pages = x3[PartyList!lifecycle].pages
  PROVE  PartyList!currentPage' = m /\ PartyList!matching' = Found(x2)
<1>1. ASSUME NEW t, t = x2 PROVE Found(t)' = Found(t) /\ PartyList!PageOf(t)' = m
  <2>1. Found(t)' = Found(t)
    BY <1>1, FoundStays DEF PartyList!lifecycle
  <2>2. m \in Nat /\ m # NULL
    BY FoundAre, NullAssumption DEF ListData
  <2>3. x4'[t] = m
    BY <1>1 DEF ListData
  <2> QED BY <1>1, <2>1, <2>2, <2>3 DEF PartyList!PageOf, Found
<1> QED BY <1>1, PrimedShown

(* Between a page and the nearest one before or after it there is none     *)
(* with rows.                                                              *)
LEMMA NextIsNext ==
  ASSUME ListData, x1' = x1, x2' = x2, PartyList!query'.pages \in Nat,
         NEW m \in PartyList!matching', PartyList!currentPage' = m, PartyList!matching' \subseteq Nat,
         \/ m > PartyList!currentPage /\ \A k \in PartyList!matching' : k > PartyList!currentPage => m <= k
         \/ m < PartyList!currentPage /\ \A k \in PartyList!matching' : k < PartyList!currentPage => k <= m
  PROVE  PartyList!NothingSkipped
<1>1. PartyList!currentPage \in Nat
  BY ShownIs, PageOfIs DEF ListData
<1>2. m \in Nat
  OBVIOUS
<1>3. ASSUME NEW k \in 1..PartyList!query'.pages,
             \/ k > PartyList!currentPage /\ k < m
             \/ k < PartyList!currentPage /\ k > m,
             PartyList!partyRowsForTab(x1[PartyList!lifecycle][k], x2) # {}
      PROVE  FALSE
  <2>1. k \in PartyList!matching' /\ k \in Nat
    BY <1>3 DEF PartyList!matching, PartyList!matchingOperatorPages, PartyList!lifecycle
  <2> QED BY <1>1, <1>2, <1>3, <2>1
<1> QED BY <1>3 DEF PartyList!NothingSkipped

(* A tab is pressed.                                                       *)
LEMMA TabPressed ==
  ASSUME ListData, FocusType, Noted, NEW t \in Tabs, PartyList!setTab(t)
  PROVE  ListData' /\ FocusType' /\ Noted' /\ Promised
<1> DEFINE l == PartyList!operatorLifecycleForTab(t)
           e == IF x3[l].pages = 0 THEN NULL ELSE IF x3[l].error = NULL THEN NULL ELSE "all"
<1>1. /\ x8 < MaxMoves /\ x8' = x8 + 1 /\ t # x2 /\ x2' = t
      /\ x6' = "tab" /\ x7' = NULL /\ UNCHANGED <<x1, x4, x5, x9>>
      /\ \/ x3[l].fetch = NULL /\ l # PartyList!lifecycle
            /\ x3' = [x3 EXCEPT ![l] = [x3[l] EXCEPT !.fetch = "all", !.error = e]]
         \/ (x3[l].pages > 0 \/ l = PartyList!lifecycle \/ x3[l].fetch # NULL) /\ UNCHANGED x3
  BY DEF PartyList!setTab
<1>2. l \in PartyList!Lifecycles /\ PartyList!query' = x3'[l]
  BY <1>1, LifecycleOf DEF PartyList!query, PartyList!lifecycle
<1>3. x8' \in 0..MaxMoves /\ x9' \in 0..MaxFaults
  BY <1>1, PageLimits DEF ListData
<1>4. \E q \in PartyList!Queries :
         /\ x3' = [x3 EXCEPT ![l] = q] /\ q.pages = x3[l].pages
         /\ q.fetch = "next" => x3[l].fetch = "next"
         /\ x3[l].fetch = "next" => q.fetch = "next"
         /\ x3'[l].pages = 0 => x3'[l].fetch # NULL \/ x3'[l].error # NULL
  <2>1. CASE x3' = [x3 EXCEPT ![l] = [x3[l] EXCEPT !.fetch = "all", !.error = e]] /\ x3[l].fetch = NULL
    <3> DEFINE q == [pages |-> x3[l].pages, fetch |-> "all", error |-> e]
    <3>1. x3' = [x3 EXCEPT ![l] = q]
      <4> HIDE DEF e, l
      <4>1. [x3[l] EXCEPT !.fetch = "all", !.error = e] = q
        BY <1>2, QuerySet
      <4> QED BY <2>1, <4>1
    <3>2. q \in PartyList!Queries
      BY <1>2, ListTypes DEF PartyList!Queries
    <3>3. x3'[l] = q
      BY <1>2, <3>1 DEF ListData
    <3>4. q.pages = x3[l].pages /\ q.fetch = "all" /\ "all" # NULL /\ x3[l].fetch # "next"
      BY <2>1, NullAssumption
    <3> HIDE DEF q, e, l
    <3>5. q.fetch # "next" /\ x3'[l].fetch # NULL
      BY <3>3, <3>4
    <3> QED BY <3>1, <3>2, <3>4, <3>5
  <2>2. CASE UNCHANGED x3 /\ (x3[l].pages > 0 \/ l = PartyList!lifecycle \/ x3[l].fetch # NULL)
    <3>1. x3' = [x3 EXCEPT ![l] = x3[l]] /\ x3[l] \in PartyList!Queries
      BY <1>2, <2>2 DEF ListData
    <3>2. x3[l].pages = 0 => x3[l].fetch # NULL \/ x3[l].error # NULL
      BY <2>2 DEF ListData, PartyList!query
    <3> QED BY <2>2, <3>1, <3>2
  <2> QED BY <1>1, <2>1, <2>2
<1>5. PICK q \in PartyList!Queries :
         /\ x3' = [x3 EXCEPT ![l] = q] /\ q.pages = x3[l].pages
         /\ q.fetch = "next" => x3[l].fetch = "next"
         /\ x3[l].fetch = "next" => q.fetch = "next"
         /\ x3'[l].pages = 0 => x3'[l].fetch # NULL \/ x3'[l].error # NULL
  BY <1>4
<1>6. ListData'
  <2> DEFINE a == x5[l]
  <2>1. a \in {NULL} \cup [tab : Tabs, from : Nat] /\ x5' = [x5 EXCEPT ![l] = a]
    BY <1>1, <1>2 DEF ListData
  <2>2. a # NULL => /\ q.fetch = "next" /\ q.pages = x3[l].pages
                    /\ PartyList!operatorLifecycleForTab(a.tab) = l
                    /\ a.from = PartyList!PageOf(a.tab)
    BY <1>2, <1>5, ListTypes DEF ListData
  <2>3. q.pages <= Len(x1[l]) /\ (q.fetch = "next" => q.pages < Len(x1[l]))
    BY <1>2, <1>5 DEF ListData
  <2>4. x4' \in [Tabs -> 1..MaxPages \cup {NULL}] /\ x4' = x4 /\ x1' = x1 /\ x2' \in Tabs
    BY <1>1 DEF ListData
  <2> HIDE DEF a, l
  <2> QED BY <1>2, <1>3, <1>5, <2>1, <2>2, <2>3, <2>4, DataStep
<1>7. FocusType' /\ Noted'
  BY <1>1 DEF FocusType, Noted
<1>8. Promised
  BY <1>1 DEF Promised, PartyList!NothingSkipped, PartyList!PageHasFocus
<1> QED BY <1>6, <1>7, <1>8

(* A step that changes what is under way in one list, and no page of it,   *)
(* keeps everything that is shown.                                         *)
LEMMA SwapKeeps ==
  ASSUME ListData, UNCHANGED <<x1, x2, x4>>, NEW l \in PartyList!Lifecycles,
         NEW q \in PartyList!Queries, x3' = [x3 EXCEPT ![l] = q], q.pages = x3[l].pages,
         q.fetch = "next" => q.pages < Len(x1[l]),
         NEW a \in {NULL} \cup [tab : Tabs, from : Nat], x5' = [x5 EXCEPT ![l] = a],
         a # NULL => /\ q.fetch = "next" /\ PartyList!operatorLifecycleForTab(a.tab) = l
                     /\ a.from = PartyList!PageOf(a.tab),
         l = PartyList!lifecycle /\ q.pages = 0 => q.fetch # NULL \/ q.error # NULL,
         x8' \in 0..MaxMoves, x9' \in 0..MaxFaults
  PROVE  /\ ListData' /\ PartyList!view' = PartyList!view /\ Promised
         /\ PartyList!matching' = PartyList!matching
         /\ PartyList!query' = IF l = PartyList!lifecycle THEN q ELSE PartyList!query
<1>1. PartyList!lifecycle' = PartyList!lifecycle /\ PartyList!lifecycle \in PartyList!Lifecycles
  BY ListTypes DEF PartyList!lifecycle
<1>2. /\ x3'[l] = q
      /\ \A k \in PartyList!Lifecycles : k # l => x3'[k] = x3[k]
  BY DEF ListData
<1>3. PartyList!query' = IF l = PartyList!lifecycle THEN q ELSE PartyList!query
  BY <1>1, <1>2 DEF PartyList!query
<1>4. PartyList!view' = PartyList!view /\ PartyList!matching' = PartyList!matching
  <2>1. x3'[PartyList!lifecycle].pages = x3[PartyList!lifecycle].pages
    BY <1>1, <1>2
  <2> QED BY <2>1, SameView
<1>5. PartyList!query'.pages = 0 => PartyList!query'.fetch # NULL \/ PartyList!query'.error # NULL
  BY <1>3 DEF ListData
<1>6. ListData'
  <2>1. x4' \in [Tabs -> 1..MaxPages \cup {NULL}] /\ x2' \in Tabs /\ q.pages <= Len(x1[l])
    BY DEF ListData
  <2> QED BY <1>5, <2>1, DataStep
<1> QED BY <1>3, <1>4, <1>6, StillPromised

(* One more move, or fault, is within the bounds when there was one left.  *)
LEMMA MovesFit ==
  ASSUME ListData
  PROVE  /\ x8 < MaxMoves => x8 + 1 \in 0..MaxMoves
         /\ x9 < MaxFaults => x9 + 1 \in 0..MaxFaults
BY PageLimits DEF ListData

(* Nobody waits for a page that was not asked for.                         *)
LEMMA NobodyWaits ==
  ASSUME ListData, NEW l \in PartyList!Lifecycles, x3[l].fetch # "next"
  PROVE  x5[l] = NULL /\ x5 = [x5 EXCEPT ![l] = NULL]
BY DEF ListData

(* The first read is tried again.                                          *)
LEMMA Rescued ==
  ASSUME ListData, FocusType, Noted, PartyList!Retry
  PROVE  ListData' /\ FocusType' /\ Noted' /\ Promised
<1> DEFINE l == PartyList!lifecycle
           e == IF x3[l].pages = 0 THEN NULL ELSE "all"
           q == [pages |-> x3[l].pages, fetch |-> "all", error |-> e]
<1>1. /\ x3[l].fetch = NULL /\ x8 < MaxMoves /\ x8' = x8 + 1
      /\ x3' = [x3 EXCEPT ![l] = [x3[l] EXCEPT !.fetch = "all", !.error = e]]
      /\ UNCHANGED <<x1, x2, x4, x5, x9>> /\ PartyList!Effect
  BY DEF PartyList!Retry, PartyList!query
<1>2. l \in PartyList!Lifecycles /\ e \in {NULL, "all", "next"}
  BY ListTypes
<1>3. x3' = [x3 EXCEPT ![l] = q]
  <2> HIDE DEF e, l
  <2>1. [x3[l] EXCEPT !.fetch = "all", !.error = e] = q
    BY <1>2, QuerySet
  <2> QED BY <1>1, <2>1
<1>4. q \in PartyList!Queries /\ q.fetch = "all" /\ q.pages = x3[l].pages /\ "all" # NULL
  <2> HIDE DEF e
  <2> QED BY <1>2, ListTypes, NullAssumption DEF PartyList!Queries
<1>5. x5' = [x5 EXCEPT ![l] = NULL]
  BY <1>1, <1>2, NobodyWaits, NullAssumption
<1>6. x8' \in 0..MaxMoves /\ x9' \in 0..MaxFaults
  BY <1>1, MovesFit DEF ListData
<1>7. /\ ListData' /\ Promised /\ PartyList!query'.fetch = "all"
  <2>1. q.fetch # NULL /\ q.fetch # "next"
    BY <1>4
  <2> HIDE DEF q, e
  <2>2. ListData' /\ Promised /\ PartyList!query' = q
    <3>1. UNCHANGED <<x1, x2, x4>> /\ l \in PartyList!Lifecycles
      BY <1>1, <1>2
    <3> HIDE DEF l
    <3>2. NULL \in {NULL} \cup [tab : Tabs, from : Nat]
      OBVIOUS
    <3>3. ListData' /\ Promised /\ PartyList!query' = IF l = PartyList!lifecycle THEN q ELSE PartyList!query
      BY <1>3, <1>4, <1>5, <1>6, <2>1, <3>1, <3>2, SwapKeeps
    <3> QED BY <3>3 DEF l
  <2> QED BY <1>4, <2>2
<1>8. ~PartyList!isFetchingNextPage'
  BY <1>7 DEF PartyList!isFetchingNextPage
<1> QED BY <1>1, <1>7, <1>8, EffectKeeps

(* The search of the open parties asks for a page.                         *)
LEMMA Scanned ==
  ASSUME ListData, FocusType, Noted, PartyList!Scan
  PROVE  ListData' /\ FocusType' /\ Noted' /\ Promised
<1> DEFINE l == PartyList!lifecycle
           q == [pages |-> x3[l].pages, fetch |-> "next", error |-> x3[l].error]
<1>1. /\ x3[l].fetch # "next" /\ x3[l].error = NULL /\ x3[l].pages < Len(x1[l])
      /\ x3' = [x3 EXCEPT ![l].fetch = "next"]
      /\ UNCHANGED <<x1, x2, x4, x5, x8, x9>> /\ PartyList!Effect
  BY DEF PartyList!Scan, PartyList!query, PartyList!needsDetailedOpenScan, PartyList!hasMore,
     PartyList!isFetchingNextPage
<1>2. l \in PartyList!Lifecycles
  BY ListTypes
<1>3. x3' = [x3 EXCEPT ![l] = q]
  BY <1>1, <1>2, FetchSet
<1>4. q \in PartyList!Queries /\ q.fetch = "next" /\ q.pages = x3[l].pages /\ "next" # NULL
      /\ q.error = NULL
  BY <1>1, <1>2, ListTypes, NullAssumption DEF PartyList!Queries
<1>5. x5' = [x5 EXCEPT ![l] = NULL]
  BY <1>1, <1>2, NobodyWaits
<1>6. x8' \in 0..MaxMoves /\ x9' \in 0..MaxFaults
  BY <1>1 DEF ListData
<1>7. ListData' /\ Promised /\ PartyList!view' = PartyList!view
  <2>1. q.fetch # NULL
    BY <1>4
  <2> HIDE DEF q
  <2> QED BY <1>1, <1>2, <1>3, <1>4, <1>5, <1>6, <2>1, SwapKeeps
<1>8. ~PartyList!isNextPageError
  BY <1>1, NullAssumption DEF PartyList!isNextPageError, PartyList!query
<1> QED BY <1>1, <1>7, <1>8, EffectKeeps

(* "More" without a page that is loaded: one is asked for.                 *)
LEMMA MoreAsked ==
  ASSUME ListData, FocusType, Noted, PartyList!loadMore, PartyList!after = {}
  PROVE  ListData' /\ FocusType' /\ Noted' /\ Promised
<1> DEFINE l == PartyList!lifecycle
           e == IF x3[l].error = NULL THEN NULL ELSE "next"
           q == [pages |-> x3[l].pages, fetch |-> "next", error |-> e]
           ask == [tab |-> x2, from |-> PartyList!currentPage]
           b == IF PartyList!isNextPageError THEN "retry" ELSE "more"
<1>1. /\ x8 < MaxMoves /\ x8' = x8 + 1 /\ ~PartyList!isFetchingNextPage
      /\ UNCHANGED <<x1, x2, x4, x9>> /\ PartyList!EffectOf(b)
      /\ \/ /\ PartyList!hasMore /\ x3' = [x3 EXCEPT ![l] = [x3[l] EXCEPT !.fetch = "next", !.error = e]]
            /\ x5' = [x5 EXCEPT ![l] = ask]
         \/ UNCHANGED <<x3, x5>>
  BY DEF PartyList!loadMore, PartyList!query
<1>2. l \in PartyList!Lifecycles /\ e \in {NULL, "all", "next"} /\ b \in {"more", "previous", "retry"}
  BY ListTypes
<1>3. x8' \in 0..MaxMoves /\ x9' \in 0..MaxFaults
  BY <1>1, MovesFit DEF ListData
<1>4. ListData' /\ Promised /\ PartyList!view' = PartyList!view
  <2>1. CASE /\ PartyList!hasMore /\ x3' = [x3 EXCEPT ![l] = [x3[l] EXCEPT !.fetch = "next", !.error = e]]
             /\ x5' = [x5 EXCEPT ![l] = ask]
    <3>1. x3' = [x3 EXCEPT ![l] = q]
      <4> HIDE DEF e, l
      <4>1. [x3[l] EXCEPT !.fetch = "next", !.error = e] = q
        BY <1>2, QuerySet
      <4> QED BY <2>1, <4>1
    <3>2. q \in PartyList!Queries /\ q.fetch = "next" /\ q.pages = x3[l].pages /\ "next" # NULL
      <4> HIDE DEF e
      <4> QED BY <1>2, ListTypes, NullAssumption DEF PartyList!Queries
    <3>3. q.pages < Len(x1[l])
      BY <2>1 DEF PartyList!hasMore, PartyList!query
    <3>4. ask \in [tab : Tabs, from : Nat] /\ ask.from = PartyList!PageOf(ask.tab)
          /\ PartyList!operatorLifecycleForTab(ask.tab) = l
      BY ShownIs, PageOfIs DEF ListData, PartyList!lifecycle
    <3>5. q.fetch # NULL
      BY <3>2
    <3> HIDE DEF q, e, ask
    <3> QED BY <1>1, <1>2, <1>3, <2>1, <3>1, <3>2, <3>3, <3>4, <3>5, SwapKeeps
  <2>2. CASE UNCHANGED <<x3, x5>>
    <3>1. x3' = [x3 EXCEPT ![l] = x3[l]] /\ x5' = [x5 EXCEPT ![l] = NULL]
          /\ x3[l] \in PartyList!Queries /\ x3[l].fetch # "next"
      BY <1>1, <1>2, <2>2, NobodyWaits DEF ListData, PartyList!isFetchingNextPage, PartyList!query
    <3>2. x3[l].pages = 0 => x3[l].fetch # NULL \/ x3[l].error # NULL
      BY DEF ListData, PartyList!query
    <3> QED BY <1>1, <1>2, <1>3, <3>1, <3>2, SwapKeeps
  <2> QED BY <1>1, <2>1, <2>2
<1> HIDE DEF b
<1> QED BY <1>1, <1>2, <1>4, EffectOfKeeps

(* A page that is loaded is shown: the nearest after, or before.           *)
LEMMA PageTurned ==
  ASSUME ListData, FocusType, UNCHANGED <<x1, x2, x3, x5, x9>>, ~PartyList!isFetchingNextPage,
         x8 < MaxMoves, x8' = x8 + 1,
         NEW m \in Found(x2), x4' = [x4 EXCEPT ![x2] = m],
         \/ m > PartyList!currentPage /\ \A k \in Found(x2) : k > PartyList!currentPage => m <= k
         \/ m < PartyList!currentPage /\ \A k \in Found(x2) : k < PartyList!currentPage => k <= m,
         NEW button \in {"more", "previous", "retry"}, PartyList!EffectOf(button)
  PROVE  ListData' /\ FocusType' /\ Noted' /\ Promised
<1> DEFINE l == PartyList!lifecycle
<1>1. l \in PartyList!Lifecycles /\ PartyList!query' = PartyList!query /\ PartyList!query.pages \in Nat
  BY ListTypes DEF PartyList!query, PartyList!lifecycle
<1>2. x8' \in 0..MaxMoves /\ x9' \in 0..MaxFaults
  BY MovesFit DEF ListData
<1>3. PartyList!currentPage' = m /\ PartyList!matching' = Found(x2)
  BY Turned
<1>4. Found(x2) \subseteq Nat /\ m \in 1..MaxPages
  BY FoundAre DEF ListData
<1>5. PartyList!NothingSkipped
  BY <1>1, <1>3, <1>4, NextIsNext
<1>6. ListData'
  <2>1. x4' \in [Tabs -> 1..MaxPages \cup {NULL}] /\ \A t \in Tabs : t # x2 => x4'[t] = x4[t]
    BY <1>4 DEF ListData
  <2>2. x5[PartyList!operatorLifecycleForTab(x2)] = NULL
    BY <1>1, NobodyWaits DEF PartyList!isFetchingNextPage, PartyList!query, PartyList!lifecycle
  <2>3. \A t \in Tabs : x4'[t] # x4[t] => x5[PartyList!operatorLifecycleForTab(t)] = NULL
    BY <2>1, <2>2
  <2> QED BY <1>2, <2>1, <2>3, DataStays
<1>7. FocusType' /\ Noted'
      /\ (PartyList!view' # PartyList!view /\ ~PartyList!isNextPageError' => x6' = PartyList!FirstItem)
  <2>1. ~PartyList!isFetchingNextPage'
    BY <1>1 DEF PartyList!isFetchingNextPage
  <2> QED BY <2>1, EffectOfKeeps
<1>8. PartyList!FirstItem = "item"
  BY <1>1, <1>3, ItemIsFirst
<1> QED BY <1>5, <1>6, <1>7, <1>8 DEF Promised, PartyList!PageHasFocus

(* "More" with a page that is loaded.                                      *)
LEMMA MoreShows ==
  ASSUME ListData, FocusType, PartyList!loadMore, PartyList!after # {}
  PROVE  ListData' /\ FocusType' /\ Noted' /\ Promised
<1> DEFINE m == PartyList!Min(PartyList!after)
           b == IF PartyList!isNextPageError THEN "retry" ELSE "more"
<1>1. /\ x8 < MaxMoves /\ x8' = x8 + 1 /\ ~PartyList!isFetchingNextPage
      /\ UNCHANGED <<x1, x2, x3, x5, x9>> /\ PartyList!EffectOf(b)
      /\ x4' = [x4 EXCEPT ![x2] = m]
  BY DEF PartyList!loadMore, PartyList!showOperatorPage
<1>2. PartyList!after = {k \in Found(x2) : k > PartyList!currentPage} /\ Found(x2) \subseteq Nat
  BY ShownIs, FoundAre DEF PartyList!after, ListData
<1>3. m \in PartyList!after /\ \A k \in PartyList!after : m <= k
  BY <1>2, MinIs
<1>4. m \in Found(x2) /\ m > PartyList!currentPage
      /\ \A k \in Found(x2) : k > PartyList!currentPage => m <= k
  BY <1>2, <1>3
<1>5. b \in {"more", "previous", "retry"}
  OBVIOUS
<1> HIDE DEF m, b
<1> QED BY <1>1, <1>4, <1>5, PageTurned

(* The page before is shown.                                               *)
LEMMA PreviousShows ==
  ASSUME ListData, FocusType, PartyList!showPreviousPage
  PROVE  ListData' /\ FocusType' /\ Noted' /\ Promised
<1> DEFINE m == PartyList!Max(PartyList!before)
<1>1. /\ x8 < MaxMoves /\ x8' = x8 + 1 /\ ~PartyList!isFetchingNextPage /\ PartyList!before # {}
      /\ UNCHANGED <<x1, x2, x3, x5, x9>> /\ PartyList!EffectOf("previous")
      /\ x4' = [x4 EXCEPT ![x2] = m]
  BY DEF PartyList!showPreviousPage, PartyList!PreviousShown
<1>2. PartyList!before = {k \in Found(x2) : k < PartyList!currentPage} /\ Found(x2) \subseteq 1..MaxPages
  BY ShownIs, FoundAre DEF PartyList!before, ListData
<1>3. PartyList!before \subseteq 0..MaxPages
  BY <1>2, PageLimits
<1>4. m \in PartyList!before /\ \A k \in PartyList!before : k <= m
  BY <1>1, <1>3, MaxIs, PageLimits
<1>5. m \in Found(x2) /\ m < PartyList!currentPage
      /\ \A k \in Found(x2) : k < PartyList!currentPage => k <= m
  BY <1>2, <1>4
<1> HIDE DEF m
<1> QED BY <1>1, <1>5, PageTurned

(* The answer changes the page of the tab that asked only. *)
LEMMA AnsweredIs ==
  ASSUME ListData, NEW l \in PartyList!Lifecycles, NEW q \in PartyList!Queries,
         q.pages <= Len(x1[l]), PartyList!Answered(l, q)
  PROVE  /\ x4' \in [Tabs -> 1..MaxPages \cup {NULL}]
         /\ \A t \in Tabs : x4'[t] # x4[t] =>
              /\ x5[l] # NULL /\ t = x5[l].tab /\ PartyList!operatorLifecycleForTab(t) = l
              /\ l = PartyList!lifecycle => q.error = NULL
<1> DEFINE observed == [x3 EXCEPT ![l] = q][PartyList!lifecycle]
           found == {k \in 1..observed.pages :
                       /\ x5[l] # NULL /\ k > x5[l].from
                       /\ PartyList!partyRowsForTab(x1[PartyList!lifecycle][k], x5[l].tab) # {}}
<1>1. \/ UNCHANGED x4
      \/ /\ x5[l] # NULL /\ observed.error = NULL /\ found # {}
         /\ x4' = [x4 EXCEPT ![x5[l].tab] = PartyList!Min(found)]
  BY DEF PartyList!Answered
<1>2. observed = IF l = PartyList!lifecycle THEN q ELSE x3[PartyList!lifecycle]
  BY ListTypes DEF ListData
<1>3. observed.pages \in Nat /\ observed.pages <= MaxPages
  <2>1. CASE l = PartyList!lifecycle
    <3>1. q.pages \in Nat /\ Len(x1[l]) \in 1..MaxPages
      BY ListTypes DEF PartyList!Queries
    <3> HIDE DEF observed
    <3> QED BY <1>2, <2>1, <3>1, PageLimits
  <2>2. CASE l # PartyList!lifecycle
    <3> HIDE DEF observed
    <3> QED BY <1>2, <2>2, ListTypes
  <2> QED BY <2>1, <2>2
<1>4. CASE UNCHANGED x4
  BY <1>4 DEF ListData
<1>5. CASE /\ x5[l] # NULL /\ observed.error = NULL /\ found # {}
           /\ x4' = [x4 EXCEPT ![x5[l].tab] = PartyList!Min(found)]
  <2>1. found \subseteq 1..observed.pages
    OBVIOUS
  <2> HIDE DEF found, observed
  <2>2. found \subseteq 1..MaxPages /\ found \subseteq Nat
    BY <1>3, <2>1, PageLimits
  <2>3. PartyList!Min(found) \in 1..MaxPages
    BY <1>5, <2>2, MinIs
  <2>4. x5[l].tab \in Tabs /\ PartyList!operatorLifecycleForTab(x5[l].tab) = l
    BY <1>5, ListTypes DEF ListData
  <2>5. x4' \in [Tabs -> 1..MaxPages \cup {NULL}] /\ \A t \in Tabs : t # x5[l].tab => x4'[t] = x4[t]
    BY <1>5, <2>3, <2>4 DEF ListData
  <2> QED BY <1>2, <1>5, <2>4, <2>5
<1> QED BY <1>1, <1>4, <1>5

(* Pages that come later leave a tab on its page.                          *)
LEMMA PageStays ==
  ASSUME ListData, NEW t \in Tabs, x1' = x1, x4'[t] = x4[t], Found(t) # {},
         x4[t] \in Found(t) \cup {NULL},
         x3'[PartyList!operatorLifecycleForTab(t)].pages \in Nat,
         x3[PartyList!operatorLifecycleForTab(t)].pages
           <= x3'[PartyList!operatorLifecycleForTab(t)].pages
  PROVE  PartyList!PageOf(t)' = PartyList!PageOf(t)
<1> DEFINE l == PartyList!operatorLifecycleForTab(t)
           S == Found(t)
           T == {k \in 1..x3'[l].pages : PartyList!partyRowsForTab(x1[l][k], t) # {}}
<1>1. l \in PartyList!Lifecycles /\ x3[l].pages \in Nat /\ x3'[l].pages \in Nat
      /\ x3[l].pages <= x3'[l].pages
  BY LifecycleOf, ListTypes
<1>2. Found(t)' = T
  BY DEF Found, PartyList!matchingOperatorPages
<1>3. S = {k \in T : k <= x3[l].pages}
  <2>1. \A k : k \in 1..x3[l].pages <=> k \in 1..x3'[l].pages /\ k <= x3[l].pages
    BY <1>1
  <2> QED BY <2>1 DEF Found, PartyList!matchingOperatorPages
<1>4. T \subseteq Nat
  BY <1>1
<1>5. S # {} /\ x4[t] \in S \cup {NULL}
  OBVIOUS
<1>6. PartyList!PageOf(t) = IF x4[t] # NULL /\ x4[t] \in S THEN x4[t]
                            ELSE IF S = {} THEN 1 ELSE PartyList!Min(S)
  BY DEF PartyList!PageOf, Found
<1>7. PartyList!PageOf(t)' = IF x4[t] # NULL /\ x4[t] \in T THEN x4[t]
                             ELSE IF T = {} THEN 1 ELSE PartyList!Min(T)
  BY <1>2 DEF PartyList!PageOf, Found
<1> DEFINE n == x3[l].pages
<1>8. n \in Nat /\ S = {k \in T : k <= n}
  BY <1>1, <1>3
<1> HIDE DEF S, T, n
<1>9. PartyList!Min(S) \in S /\ PartyList!Min(T) \in T
      /\ (\A k \in S : PartyList!Min(S) <= k) /\ \A k \in T : PartyList!Min(T) <= k
  BY <1>4, <1>5, <1>8, MinIs
<1>10. PartyList!Min(T) = PartyList!Min(S)
  <2>1. \A k \in T : k \in Nat
    BY <1>4
  <2>2. PartyList!Min(S) \in T /\ PartyList!Min(S) <= n
    BY <1>8, <1>9
  <2>3. PartyList!Min(T) <= PartyList!Min(S)
    BY <1>9, <2>2
  <2>4. PartyList!Min(T) <= n
    BY <1>8, <1>9, <2>1, <2>2, <2>3
  <2>5. PartyList!Min(T) \in S
    BY <1>8, <1>9, <2>4
  <2>6. PartyList!Min(S) <= PartyList!Min(T)
    BY <1>9, <2>5
  <2> QED BY <1>9, <2>1, <2>2, <2>3, <2>6
<1>11. S \subseteq T /\ T # {}
  BY <1>5, <1>8
<1> QED BY <1>5, <1>6, <1>7, <1>10, <1>11

(* The end of a request for another list leaves what is shown. *)
LEMMA ElsewhereKeeps ==
  ASSUME ListData, FocusType, Noted, UNCHANGED <<x1, x2, x8>>, PartyList!Effect,
         NEW l \in PartyList!Lifecycles, l # PartyList!lifecycle,
         x3'[PartyList!lifecycle] = x3[PartyList!lifecycle], x4'[x2] = x4[x2]
  PROVE  FocusType' /\ Noted' /\ Promised
<1>1. PartyList!query' = PartyList!query
  BY DEF PartyList!query, PartyList!lifecycle
<1>2. PartyList!view' = PartyList!view
  BY SameView
<1>3. PartyList!isFetchingNextPage' = PartyList!isFetchingNextPage
      /\ PartyList!isNextPageError' = PartyList!isNextPageError
  BY <1>1 DEF PartyList!isFetchingNextPage, PartyList!isNextPageError
<1>4. CASE PartyList!isFetchingNextPage => ~PartyList!isNextPageError \/ PartyList!isFetchingNextPage
  BY <1>2, <1>3, EffectKeeps, StillPromised
<1> QED BY <1>4

(* A page comes: for another list, or for the one that is shown, whose tab *)
(* then moves on to the first page after its own or stays.                 *)
LEMMA PageCame ==
  ASSUME ListData, FocusType, Noted,
         NEW l \in PartyList!Lifecycles, PartyList!PageArrives(l)
  PROVE  ListData' /\ FocusType' /\ Noted' /\ Promised
<1> DEFINE q == [pages |-> x3[l].pages + 1, fetch |-> NULL, error |-> NULL]
<1>1. /\ x3[l].fetch = "next" /\ x3' = [x3 EXCEPT ![l] = q] /\ PartyList!Answered(l, q)
      /\ x5' = [x5 EXCEPT ![l] = NULL] /\ UNCHANGED <<x1, x2, x8, x9>> /\ PartyList!Effect
  BY DEF PartyList!PageArrives
<1>2. /\ q \in PartyList!Queries /\ q.pages = x3[l].pages + 1 /\ q.fetch = NULL /\ q.error = NULL
      /\ q.pages <= Len(x1[l]) /\ q.pages \in Nat /\ q.fetch # "next" /\ q.pages # 0
  BY <1>1, ListTypes, NullAssumption DEF PartyList!Queries, ListData
<1>3. /\ x4' \in [Tabs -> 1..MaxPages \cup {NULL}]
      /\ \A t \in Tabs : x4'[t] # x4[t] =>
           x5[l] # NULL /\ t = x5[l].tab /\ PartyList!operatorLifecycleForTab(t) = l
  BY <1>1, <1>2, AnsweredIs
<1>4. x3'[l] = q /\ (\A k \in PartyList!Lifecycles : k # l => x3'[k] = x3[k]) /\ x5'[l] = NULL
  BY <1>1 DEF ListData
<1>5. PartyList!lifecycle' = PartyList!lifecycle /\ PartyList!lifecycle \in PartyList!Lifecycles
      /\ PartyList!lifecycle = PartyList!operatorLifecycleForTab(x2) /\ x2 \in Tabs
      /\ PartyList!query' = x3'[PartyList!lifecycle]
  BY <1>1, ListTypes DEF PartyList!lifecycle, PartyList!query, ListData
<1>6. PartyList!query'.pages = 0 => PartyList!query'.fetch # NULL \/ PartyList!query'.error # NULL
  BY <1>2, <1>4, <1>5 DEF ListData, PartyList!query
<1>7. ListData'
  <2> HIDE DEF q
  <2>1. \A t \in Tabs : x4'[t] # x4[t] => x5'[PartyList!operatorLifecycleForTab(t)] = NULL
    BY <1>3, <1>4
  <2>2. x8' \in 0..MaxMoves /\ x9' \in 0..MaxFaults /\ x2' \in Tabs
        /\ NULL \in {NULL} \cup [tab : Tabs, from : Nat]
    BY <1>1 DEF ListData
  <2> QED BY <1>1, <1>2, <1>3, <1>6, <2>1, <2>2, DataStep
<1>8. CASE l # PartyList!lifecycle
  <2>1. x4'[x2] = x4[x2] /\ x3'[PartyList!lifecycle] = x3[PartyList!lifecycle]
    BY <1>3, <1>4, <1>5, <1>8
  <2> QED BY <1>1, <1>7, <1>8, <2>1, ElsewhereKeeps
<1>9. CASE l = PartyList!lifecycle
  <2> DEFINE S == Found(x2)
             T == {k \in 1..q.pages : PartyList!partyRowsForTab(x1[l][k], x2) # {}}
             c == PartyList!currentPage
  <2>1. PartyList!query' = q /\ PartyList!matching' = T /\ T \subseteq Nat
    <3>1. PartyList!query' = q
      BY <1>4, <1>5, <1>9
    <3>2. PartyList!matching' = T
      BY <1>1, <1>5, <1>9, <3>1 DEF PartyList!matching, PartyList!matchingOperatorPages
    <3> QED BY <1>2, <3>1, <3>2
  <2>2. S = {k \in T : k <= x3[l].pages} /\ PartyList!matching = S /\ c = PartyList!PageOf(x2)
    <3>1. \A k : k \in 1..x3[l].pages <=> k \in 1..(x3[l].pages + 1) /\ k <= x3[l].pages
      <4>1. x3[l].pages \in Nat
        BY ListTypes
      <4>2. \A p \in Nat : \A k : k \in 1..p <=> k \in 1..(p + 1) /\ k <= p
        OBVIOUS
      <4> QED BY <4>1, <4>2
    <3>2. S = {k \in 1..x3[l].pages : PartyList!partyRowsForTab(x1[l][k], x2) # {}}
      BY <1>5, <1>9 DEF Found, PartyList!matchingOperatorPages
    <3> QED BY <3>1, <3>2, ShownIs
  <2>3. ~PartyList!isFetchingNextPage' /\ ~PartyList!isNextPageError'
    BY <1>2, <2>1, NullAssumption DEF PartyList!isFetchingNextPage, PartyList!isNextPageError
  <2>4. FocusType' /\ Noted'
        /\ (x7 # NULL /\ x7 = PartyList!view /\ PartyList!view' # PartyList!view
             => x6' = PartyList!FirstItem)
    BY <1>1, <2>3, EffectKeeps
  <2>5. x7 \in {NULL, PartyList!view}
    BY <1>1, <1>9 DEF Noted, PartyList!isFetchingNextPage, PartyList!query
  <2>6. PartyList!PageHasFocus
    <3>1. S # {} => PartyList!FirstItem = "item"
      <4> HIDE DEF q, T
      <4> QED BY <1>2, <2>1, <2>2, ItemIsFirst
    <3> QED BY <1>1, <2>2, <2>4, <2>5, <3>1, ShownIs DEF PartyList!PageHasFocus
  <2>7. PartyList!NothingSkipped
    <3> SUFFICES ASSUME S # {}, x4[x2] \in S \cup {NULL} PROVE PartyList!NothingSkipped
      BY <2>2, ShownIs DEF PartyList!NothingSkipped
    <3>1. c \in Nat /\ x3[l].pages \in Nat
      BY <2>2, ListTypes, PageOfIs, <1>5
    <3>2. CASE x4'[x2] = x4[x2]
      <4>1. x3'[PartyList!operatorLifecycleForTab(x2)].pages \in Nat
            /\ x3[PartyList!operatorLifecycleForTab(x2)].pages
                 <= x3'[PartyList!operatorLifecycleForTab(x2)].pages
        BY <1>2, <1>4, <1>5, <1>9, <3>1
      <4>2. ASSUME NEW t, t = x2 PROVE PartyList!PageOf(t)' = PartyList!PageOf(t)
        BY <1>1, <1>5, <3>2, <4>1, <4>2, PageStays
      <4>3. ASSUME NEW t, t = x2 PROVE PartyList!currentPage' = PartyList!PageOf(t)'
        BY <1>1, <4>3, PrimedShown
      <4>4. PartyList!currentPage' = c
        BY <2>2, <4>2, <4>3
      <4>5. \A k \in 1..PartyList!query'.pages : ~(k > c /\ k < c) /\ ~(k < c /\ k > c)
        BY <1>2, <2>1, <3>1
      <4> QED BY <4>4, <4>5 DEF PartyList!NothingSkipped
    <3>3. CASE x4'[x2] # x4[x2]
      <4>1. x5[l] # NULL /\ x2 = x5[l].tab /\ x5[l].from = c
        BY <1>3, <1>5, <2>2, <3>3 DEF ListData
      <4> DEFINE found == {k \in 1..q.pages : k > c /\ PartyList!partyRowsForTab(x1[l][k], x2) # {}}
      <4>2. found # {} /\ x4' = [x4 EXCEPT ![x2] = PartyList!Min(found)]
        <5>1. [x3 EXCEPT ![l] = q][PartyList!lifecycle] = q
          BY <1>1, <1>4, <1>9
        <5> HIDE DEF q
        <5> QED BY <1>1, <1>9, <3>3, <4>1, <5>1 DEF PartyList!Answered
      <4> DEFINE m == PartyList!Min(found)
      <4>3. found = {k \in T : k > c}
        OBVIOUS
      <4> HIDE DEF found, T, q
      <4>4. m \in found /\ \A k \in found : m <= k
        BY <2>1, <4>2, <4>3, MinIs
      <4>5. m \in T /\ m > c /\ (\A k \in T : k > c => m <= k) /\ m # NULL
        <5>1. m \in T /\ m > c /\ \A k \in T : k > c => m <= k
          BY <4>3, <4>4
        <5> HIDE DEF m
        <5>2. m \in Nat
          BY <2>1, <5>1
        <5>3. m # NULL
          BY <5>2, NullAssumption
        <5> QED BY <5>1, <5>3
      <4>6. PartyList!currentPage' = m
        <5>1. x4'[x2'] = m
          BY <1>1, <1>5, <4>2 DEF ListData
        <5> HIDE DEF m
        <5> QED BY <2>1, <4>5, <5>1 DEF PartyList!currentPage
      <4> HIDE DEF m
      <4>7. PartyList!query'.pages \in Nat
        BY <1>2, <2>1
      <4> QED BY <1>1, <2>1, <4>5, <4>6, <4>7, NextIsNext
    <3> QED BY <3>2, <3>3
  <2> QED BY <1>7, <2>4, <2>6, <2>7 DEF Promised
<1> QED BY <1>8, <1>9

(* A list comes, for the first time or again.                              *)
LEMMA ListCame ==
  ASSUME ListData, FocusType, Noted,
         NEW l \in PartyList!Lifecycles, PartyList!ListArrives(l)
  PROVE  ListData' /\ FocusType' /\ Noted' /\ Promised
<1> DEFINE n == PartyList!Max({x3[l].pages, 1})
           q == [pages |-> n, fetch |-> NULL, error |-> NULL]
<1>1. /\ x3[l].fetch = "all" /\ x3' = [x3 EXCEPT ![l] = q]
      /\ UNCHANGED <<x1, x2, x4, x5, x8, x9>> /\ PartyList!Effect
  BY DEF PartyList!ListArrives
<1>2. n \in Nat /\ n <= Len(x1[l]) /\ n >= 1 /\ (x3[l].pages # 0 => n = x3[l].pages)
  <2> DEFINE p == x3[l].pages
  <2>1. p \in Nat /\ p <= Len(x1[l]) /\ Len(x1[l]) \in 1..MaxPages
    BY ListTypes DEF ListData
  <2> HIDE DEF p
  <2>2. {p, 1} \subseteq 0..(p + 1) /\ p + 1 \in Nat /\ {p, 1} # {}
    BY <2>1
  <2>3. PartyList!Max({p, 1}) \in {p, 1} /\ \A k \in {p, 1} : k <= PartyList!Max({p, 1})
    BY <2>2, MaxIs
  <2> DEFINE m == PartyList!Max({p, 1})
  <2>4. m \in {p, 1} /\ p <= m /\ 1 <= m
    BY <2>3
  <2> HIDE DEF m
  <2>5. m \in Nat /\ m <= Len(x1[l]) /\ m >= 1 /\ (p # 0 => m = p)
    BY <2>1, <2>4, PageLimits
  <2> QED BY <2>5 DEF m, p
<1> HIDE DEF n
<1>3. /\ q \in PartyList!Queries /\ q.fetch # "next" /\ q.pages = n /\ q.pages # 0
      /\ q.fetch = NULL
  BY <1>2, NullAssumption DEF PartyList!Queries
<1>4. x5' = [x5 EXCEPT ![l] = NULL]
  BY <1>1, NobodyWaits
<1>5. x3'[l] = q /\ \A k \in PartyList!Lifecycles : k # l => x3'[k] = x3[k]
  BY <1>1 DEF ListData
<1>6. PartyList!lifecycle' = PartyList!lifecycle /\ PartyList!lifecycle \in PartyList!Lifecycles
      /\ PartyList!query' = x3'[PartyList!lifecycle]
  BY <1>1, ListTypes DEF PartyList!lifecycle, PartyList!query
<1>7. PartyList!query'.pages = 0 => PartyList!query'.fetch # NULL \/ PartyList!query'.error # NULL
  BY <1>3, <1>5, <1>6 DEF ListData, PartyList!query
<1>8. ListData'
  <2> HIDE DEF q
  <2>1. x8' \in 0..MaxMoves /\ x9' \in 0..MaxFaults /\ x2' \in Tabs
        /\ x4' \in [Tabs -> 1..MaxPages \cup {NULL}] /\ q.pages <= Len(x1[l])
        /\ NULL \in {NULL} \cup [tab : Tabs, from : Nat]
    BY <1>1, <1>2, <1>3 DEF ListData
  <2> QED BY <1>1, <1>3, <1>4, <1>7, <2>1, DataStep
<1>9. CASE l # PartyList!lifecycle
  <2>1. x4'[x2] = x4[x2] /\ x3'[PartyList!lifecycle] = x3[PartyList!lifecycle]
    BY <1>1, <1>5, <1>6, <1>9
  <2> QED BY <1>1, <1>8, <1>9, <2>1, ElsewhereKeeps
<1>10. CASE l = PartyList!lifecycle
  <2>1. ~PartyList!isFetchingNextPage'
    BY <1>3, <1>5, <1>6, <1>10 DEF PartyList!isFetchingNextPage
  <2>2. CASE x3[l].pages = 0
    <3>1. Found(x2) = {}
      BY <1>10, <2>2 DEF Found, PartyList!matchingOperatorPages, PartyList!lifecycle
    <3>2. ~PartyList!view.rows
      BY <3>1, ShownIs
    <3> QED BY <1>1, <1>8, <2>1, <3>2, EffectKeeps
            DEF Promised, PartyList!NothingSkipped, PartyList!PageHasFocus
  <2>3. CASE x3[l].pages # 0
    <3>1. x3'[PartyList!lifecycle].pages = x3[PartyList!lifecycle].pages
      BY <1>2, <1>3, <1>5, <1>10, <2>3
    <3> QED BY <1>1, <1>8, <2>1, <3>1, SameView, StillPromised, EffectKeeps
  <2> QED BY <2>2, <2>3
<1> QED BY <1>9, <1>10

(* A read fails: what is shown stays.                                      *)
LEMMA ReadFailed ==
  ASSUME ListData, FocusType, Noted,
         NEW l \in PartyList!Lifecycles, PartyList!ReadFails(l)
  PROVE  ListData' /\ FocusType' /\ Noted' /\ Promised
<1> DEFINE q == [pages |-> x3[l].pages, fetch |-> NULL, error |-> x3[l].fetch]
<1>1. /\ x9 < MaxFaults /\ x9' = x9 + 1 /\ x3[l].fetch # NULL
      /\ x3' = [x3 EXCEPT ![l] = q] /\ PartyList!Answered(l, q)
      /\ x5' = [x5 EXCEPT ![l] = NULL] /\ UNCHANGED <<x1, x2, x8>> /\ PartyList!Effect
  <2>1. [x3[l] EXCEPT !.fetch = NULL, !.error = x3[l].fetch] = q
    BY QuerySet
  <2> HIDE DEF q
  <2> QED BY <2>1 DEF PartyList!ReadFails
<1>2. /\ q \in PartyList!Queries /\ q.pages = x3[l].pages /\ q.fetch = NULL /\ q.error # NULL
      /\ q.pages <= Len(x1[l]) /\ q.fetch # "next"
  BY <1>1, ListTypes, NullAssumption DEF PartyList!Queries, ListData
<1>3. /\ x4' \in [Tabs -> 1..MaxPages \cup {NULL}]
      /\ \A t \in Tabs : x4'[t] # x4[t] =>
           /\ x5[l] # NULL /\ t = x5[l].tab /\ PartyList!operatorLifecycleForTab(t) = l
           /\ l # PartyList!lifecycle
  <2> HIDE DEF q
  <2> QED BY <1>1, <1>2, AnsweredIs
<1>4. x3'[l] = q /\ (\A k \in PartyList!Lifecycles : k # l => x3'[k] = x3[k]) /\ x5'[l] = NULL
  BY <1>1 DEF ListData
<1>5. PartyList!lifecycle' = PartyList!lifecycle /\ PartyList!lifecycle \in PartyList!Lifecycles
      /\ PartyList!lifecycle = PartyList!operatorLifecycleForTab(x2) /\ x2 \in Tabs
      /\ PartyList!query' = x3'[PartyList!lifecycle]
  BY <1>1, ListTypes DEF PartyList!lifecycle, PartyList!query, ListData
<1>6. PartyList!query'.pages = 0 => PartyList!query'.fetch # NULL \/ PartyList!query'.error # NULL
  BY <1>2, <1>4, <1>5 DEF ListData, PartyList!query
<1>7. ListData'
  <2> HIDE DEF q
  <2>1. \A t \in Tabs : x4'[t] # x4[t] => x5'[PartyList!operatorLifecycleForTab(t)] = NULL
    BY <1>3, <1>4
  <2>2. x8' \in 0..MaxMoves /\ x9' \in 0..MaxFaults /\ x2' \in Tabs
        /\ NULL \in {NULL} \cup [tab : Tabs, from : Nat]
    BY <1>1, MovesFit DEF ListData
  <2> QED BY <1>1, <1>2, <1>3, <1>6, <2>1, <2>2, DataStep
<1>8. x4'[x2] = x4[x2]
  BY <1>3, <1>5
<1>9. CASE l # PartyList!lifecycle
  <2>1. x3'[PartyList!lifecycle] = x3[PartyList!lifecycle]
    BY <1>4, <1>5, <1>9
  <2> QED BY <1>1, <1>7, <1>8, <1>9, <2>1, ElsewhereKeeps
<1>10. CASE l = PartyList!lifecycle
  <2>1. ~PartyList!isFetchingNextPage'
    BY <1>2, <1>4, <1>5, <1>10 DEF PartyList!isFetchingNextPage
  <2>2. x3'[PartyList!lifecycle].pages = x3[PartyList!lifecycle].pages
    BY <1>2, <1>4, <1>10
  <2>3. PartyList!view' = PartyList!view
    BY <1>1, <1>8, <2>2, SameView
  <2> QED BY <1>1, <1>7, <2>1, <2>3, StillPromised, EffectKeeps
<1> QED BY <1>9, <1>10

(* Every step of the list keeps the invariant and its promises.            *)
LEMMA ListKeeps ==
  ASSUME PartyList!ListInv, PartyList!Next
  PROVE  PartyList!ListInv' /\ PartyList!NothingSkipped /\ PartyList!PageHasFocus
<1>1. ListData /\ FocusType /\ Noted
  BY ListInvIs
<1>2. ListData' /\ FocusType' /\ Noted' /\ Promised
  <2>1. CASE PartyList!loadMore
    BY <1>1, <2>1, MoreShows, MoreAsked
  <2>2. CASE PartyList!showPreviousPage \/ PartyList!Retry \/ PartyList!Scan
    BY <1>1, <2>2, PreviousShows, Rescued, Scanned
  <2>3. ASSUME NEW t \in Tabs, PartyList!setTab(t)
       PROVE  ListData' /\ FocusType' /\ Noted' /\ Promised
    BY <1>1, <2>3, TabPressed
  <2>4. ASSUME NEW l \in PartyList!Lifecycles,
               PartyList!PageArrives(l) \/ PartyList!ListArrives(l) \/ PartyList!ReadFails(l)
        PROVE  ListData' /\ FocusType' /\ Noted' /\ Promised
    BY <1>1, <2>4, PageCame, ListCame, ReadFailed
  <2> QED BY <2>1, <2>2, <2>3, <2>4 DEF PartyList!Next
<1>3. ListData' /\ FocusType' /\ Noted' => PartyList!ListInv'
  <2> SUFFICES ASSUME ListData', FocusType', Noted' PROVE PartyList!ListInv'
    OBVIOUS
  <2>1. ASSUME NEW l \in PartyList!Lifecycles
        PROVE  /\ x3'[l].pages \in 0..Len(x1'[l]) /\ x3'[l].fetch \in {NULL, "all", "next"}
               /\ x3'[l].error \in {NULL, "all", "next"}
    <3>1. x3'[l] \in PartyList!Queries /\ x3'[l].pages <= Len(x1'[l]) /\ x1' = x1
      BY DEF ListData, PartyList!Next, PartyList!loadMore, PartyList!showPreviousPage,
         PartyList!Retry, PartyList!Scan, PartyList!setTab, PartyList!PageArrives,
         PartyList!ListArrives, PartyList!ReadFails
    <3>2. Len(x1[l]) \in 1..MaxPages
      BY <1>1, ListTypes
    <3> QED BY <3>1, <3>2 DEF PartyList!Queries
  <2>2. PartyList!TypeOK'
    BY <2>1 DEF ListData, FocusType, PartyList!TypeOK
  <2> QED BY <2>2 DEF PartyList!ListInv, ListData, Noted
<1> QED BY <1>2, <1>3 DEF Promised

(* The list starts with a read under way.                                  *)
LEMMA ListInit == ASSUME PartyList!Init PROVE PartyList!ListInv
<1>1. /\ x1 \in [PartyList!Lifecycles -> PartyList!Books] /\ x2 \in Tabs
      /\ x4 = [t \in Tabs |-> NULL] /\ x5 = [l \in PartyList!Lifecycles |-> NULL]
      /\ x3 = [l \in PartyList!Lifecycles |->
                 [pages |-> 0, fetch |-> IF l = PartyList!lifecycle THEN "all" ELSE NULL,
                  error |-> NULL]]
      /\ x6 = NULL /\ x7 = NULL /\ x8 = 0 /\ x9 = 0
  BY DEF PartyList!Init
<1>2. ASSUME NEW l \in PartyList!Lifecycles
      PROVE  /\ x3[l] \in PartyList!Queries /\ x3[l].pages = 0 /\ x3[l].fetch # "next"
             /\ l = PartyList!lifecycle => x3[l].fetch = "all"
             /\ x5[l] = NULL /\ Len(x1[l]) \in 1..MaxPages
  BY <1>1, BooksFit, NullAssumption DEF PartyList!Queries
<1>3. PartyList!lifecycle \in PartyList!Lifecycles
  BY <1>1, LifecycleOf DEF PartyList!lifecycle
<1>4. PartyList!query.fetch # NULL
  BY <1>2, <1>3, NullAssumption DEF PartyList!query
<1>5. x3 \in [PartyList!Lifecycles -> PartyList!Queries]
  BY <1>1, <1>2
<1>6. ListData
  BY <1>1, <1>2, <1>4, <1>5, PageLimits DEF ListData
<1> QED BY <1>1, <1>6, ListInvIs DEF FocusType, Noted

(* The list is called empty with all of it read and nothing found.         *)
LEMMA EmptyIsSo == ASSUME PartyList!ListInv PROVE PartyList!TypeOK /\ PartyList!EmptyIsTrue
<1>1. PartyList!TypeOK
  BY DEF PartyList!ListInv
<1> SUFFICES ASSUME PartyList!Empty, NEW k \in 1..Len(x1[PartyList!lifecycle])
             PROVE  PartyList!partyRowsForTab(x1[PartyList!lifecycle][k], x2) = {}
  BY <1>1 DEF PartyList!EmptyIsTrue
<1>2. /\ ~PartyList!isLoading /\ ~PartyList!isError /\ PartyList!matching = {}
      /\ ~PartyList!hasMore
  BY DEF PartyList!Empty, PartyList!Ready, PartyList!hasNextPage
<1>3. PartyList!query.pages # 0
  BY <1>2 DEF PartyList!isLoading, PartyList!isError, PartyList!ListInv
<1>4. /\ PartyList!query.pages \in 0..Len(x1[PartyList!lifecycle])
      /\ Len(x1[PartyList!lifecycle]) \in 1..MaxPages
  BY ListInvIs, ListTypes DEF PartyList!ListInv, PartyList!TypeOK, PartyList!query
<1>5. PartyList!query.pages = Len(x1[PartyList!lifecycle])
  BY <1>2, <1>3, <1>4 DEF PartyList!hasMore
<1> QED BY <1>2, <1>5 DEF PartyList!matching, PartyList!matchingOperatorPages, PartyList!lifecycle

-----------------------------------------------------------------------------
(* A field of one of the types, that can hold its default; only a text is  *)
(* required.                                                               *)
SoundField(f) ==
  /\ f.type \in {"text", "number", "boolean", "datetime", "select"}
  /\ f.required \in BOOLEAN /\ (f.required => f.type = "text")
  /\ f.default # NULL => f.default \in Editor!Held(f)

(* The fields of every form are of that kind.                              *)
LEMMA FieldsAreSound ==
  ASSUME NEW console \in DOMAIN Editor!resourceConfigs, NEW mode \in {"create", "edit"},
         NEW f \in Editor!resourceConfigs[console][mode]
  PROVE  SoundField(f)
<1> DEFINE Fields ==
      {Editor!text(TRUE), Editor!text(FALSE), Editor!number("0"), Editor!number("30"),
       Editor!select("one"), Editor!select(NULL), Editor!datetime, Editor!boolean(NULL),
       Editor!boolean("true"), Editor!boolean("false")}
<1>1. \A r \in BOOLEAN : SoundField(Editor!text(r))
  BY DEF SoundField, Editor!text
<1>2. SoundField(Editor!number("0")) /\ SoundField(Editor!number("30"))
  BY DEF SoundField, Editor!number, Editor!Held
<1>3. SoundField(Editor!select("one")) /\ SoundField(Editor!select(NULL)) /\ SoundField(Editor!datetime)
  BY DEF SoundField, Editor!select, Editor!datetime, Editor!Held
<1>4. SoundField(Editor!boolean(NULL)) /\ SoundField(Editor!boolean("true"))
      /\ SoundField(Editor!boolean("false"))
  BY DEF SoundField, Editor!boolean, Editor!Held
<1>5. f \in Fields
  <2> DEFINE Forms(c) == c["create"] \subseteq Fields /\ c["edit"] \subseteq Fields
  <2>1. /\ Forms(Editor!couponsConfig)
        /\ Forms(Editor!notificationsConfig)
        /\ Forms(Editor!bannersConfig)
        /\ Forms(Editor!categoriesConfig)
        /\ Forms(Editor!runtimeConfig)
        /\ Forms(Editor!reportReasonsConfig)
        /\ Forms(Editor!reviewTagCategoriesConfig)
        /\ Forms(Editor!reviewTagsConfig)
    <3>1. Forms(Editor!couponsConfig)
      BY DEF Editor!couponsConfig
    <3>2. Forms(Editor!notificationsConfig)
      BY DEF Editor!notificationsConfig
    <3>3. Forms(Editor!bannersConfig)
      BY DEF Editor!bannersConfig
    <3>4. Forms(Editor!categoriesConfig)
      BY DEF Editor!categoriesConfig
    <3>5. Forms(Editor!runtimeConfig)
      BY DEF Editor!runtimeConfig
    <3>6. Forms(Editor!reportReasonsConfig)
      BY DEF Editor!reportReasonsConfig
    <3>7. Forms(Editor!reviewTagCategoriesConfig)
      BY DEF Editor!reviewTagCategoriesConfig
    <3>8. Forms(Editor!reviewTagsConfig)
      BY DEF Editor!reviewTagsConfig
    <3> QED BY <3>1, <3>2, <3>3, <3>4, <3>5, <3>6, <3>7, <3>8
  <2>2. Editor!resourceConfigs[console] \in
          {Editor!couponsConfig, Editor!notificationsConfig, Editor!bannersConfig,
           Editor!categoriesConfig, Editor!runtimeConfig, Editor!reportReasonsConfig,
           Editor!reviewTagCategoriesConfig, Editor!reviewTagsConfig}
    BY DEF Editor!resourceConfigs
  <2> QED BY <2>1, <2>2
<1> QED BY <1>1, <1>2, <1>3, <1>4, <1>5

(* What a control is filled with, it can show.                             *)
LEMMA FilledFits ==
  ASSUME NEW f, SoundField(f), NEW row, row \in Editor!Held(f) \cup {NULL}
  PROVE  Editor!initialValues(f, row) \in Editor!Typed(f) \cup {""}
BY DEF SoundField, Editor!initialValues, Editor!Typed, Editor!Held, Editor!toDateTimeLocalInputValue

(* The field that is followed is one of them.                              *)
LEMMA FieldIsSound == ASSUME x1 \in {"create", "edit"}, x2 \in Editor!Fields(x1) PROVE SoundField(x2)
<1>1. PICK c \in DOMAIN Editor!resourceConfigs : x2 \in Editor!resourceConfigs[c][x1]
  BY DEF Editor!Fields
<1> QED BY <1>1, FieldsAreSound

(* The body of a form that is valid holds a value of the field, or none.   *)
LEMMA BodyFits ==
  ASSUME NEW f, SoundField(f), NEW v \in Editor!Typed(f) \cup {""}, NEW m,
         Editor!validateValues(f, v)
  PROVE  Editor!normalizeValues(f, v, m) \in [sent : BOOLEAN, value : Editor!Held(f) \cup {NULL}]
<1>1. CASE v = ""
  <2>1. ~f.required
    BY <1>1 DEF Editor!validateValues
  <2>2. (m = "edit" /\ f.type = "datetime") \in BOOLEAN
    OBVIOUS
  <2> QED BY <1>1, <2>1, <2>2 DEF Editor!normalizeValues
<1>2. CASE v # ""
  <2>1. v \in Editor!Held(f)
    BY <1>2 DEF SoundField, Editor!Typed, Editor!Held
  <2> QED BY <1>2, <2>1 DEF Editor!normalizeValues
<1> QED BY <1>1, <1>2

(* A value that is there goes out as it is, an emptied time as none.       *)
LEMMA BodyHolds ==
  ASSUME NEW f, NEW v, NEW m
  PROVE  /\ v # "" => /\ Editor!normalizeValues(f, v, m).sent
                       /\ Editor!normalizeValues(f, v, m).value = v
         /\ (v = "" /\ ~f.required /\ m = "edit" /\ f.type = "datetime") =>
              /\ Editor!normalizeValues(f, v, m).sent
              /\ Editor!normalizeValues(f, v, m).value = NULL
BY DEF Editor!normalizeValues

(* An editor is opened with the row in its form.                           *)
LEMMA EditorInit == Editor!Init => Editor!EditorInv
<1> SUFFICES ASSUME Editor!Init PROVE Editor!EditorInv
  OBVIOUS
<1>1. /\ x1 \in {"create", "edit"} /\ x2 \in Editor!Fields(x1) /\ x4 \in {NULL} \cup Editor!Held(x2)
      /\ x3 = x4 /\ x5 = Editor!initialValues(x2, x4) /\ x6 = FALSE /\ x7 = "open"
      /\ x8 = NULL /\ x9 = FALSE
  BY DEF Editor!Init
<1>2. x5 \in Editor!Typed(x2) \cup {""}
  BY <1>1, FieldIsSound, FilledFits
<1>3. {x6, x9} \subseteq BOOLEAN
  BY <1>1
<1> QED BY <1>1, <1>2, <1>3 DEF Editor!EditorInv, Editor!TypeOK

(* Every step of the editor keeps the invariant.                           *)
LEMMA EditorKeeps == Editor!EditorInv /\ Editor!Next => Editor!EditorInv'
<1> SUFFICES ASSUME Editor!EditorInv, Editor!Next PROVE Editor!EditorInv'
  OBVIOUS
<1>1. SoundField(x2)
  BY FieldIsSound DEF Editor!EditorInv, Editor!TypeOK
<1> USE DEF Editor!EditorInv, Editor!TypeOK, Editor!SaveFits
<1>2. CASE Editor!onValueChange
  BY <1>2 DEF Editor!onValueChange
<1>3. CASE Editor!OthersSave
  BY <1>3 DEF Editor!OthersSave
<1>4. CASE Editor!submitEditor
  <2> DEFINE body == Editor!normalizeValues(x2, x5, x1)
             save == [pressed |-> x5, edited |-> x6, applied |-> FALSE, body |-> body]
  <2>1. /\ x7 = "open" /\ x7' = "saving" /\ x8' = save /\ Editor!validateValues(x2, x5)
        /\ UNCHANGED <<x1, x2, x3, x4, x5, x6, x9>>
    BY <1>4 DEF Editor!submitEditor
  <2>2. body \in [sent : BOOLEAN, value : Editor!Held(x2) \cup {NULL}]
    BY <1>1, <2>1, BodyFits
  <2>3. save \in Editor!Save(x2)
    <3> HIDE DEF body
    <3> QED BY <2>2 DEF Editor!Save
  <2>4. /\ save.pressed = x5 /\ save.edited = x6 /\ ~save.applied /\ save.body = body
    OBVIOUS
  <2>5. ~save.edited => save.pressed = Editor!initialValues(x2, x4)
    BY <2>4
  <2> HIDE DEF save
  <2>6. Editor!TypeOK'
    BY <2>1, <2>3
  <2>7. Editor!SaveFits'
    BY <2>1, <2>4, <2>5
  <2> QED BY <2>1, <2>6, <2>7
<1>5. CASE Editor!Applied
  <2> DEFINE save == [pressed |-> x8.pressed, edited |-> x8.edited, applied |-> TRUE, body |-> x8.body]
  <2>1. x7 = "saving" /\ x8 \in Editor!Save(x2)
    BY <1>5 DEF Editor!Applied
  <2>2. x8' = save /\ save \in Editor!Save(x2)
    BY <1>5, <2>1 DEF Editor!Applied, Editor!Save
  <2>3. /\ save.pressed = x8.pressed /\ save.edited = x8.edited /\ save.body = x8.body
    OBVIOUS
  <2> HIDE DEF save
  <2>4. Editor!SaveFits
    BY <2>1
  <2>5. /\ x3' = IF x8.body.sent THEN x8.body.value ELSE IF x1 = "edit" THEN x3 ELSE NULL
        /\ x9' = FALSE /\ UNCHANGED <<x1, x2, x4, x5, x6, x7>>
    BY <1>5 DEF Editor!Applied
  <2>6. x8.body.value \in Editor!Held(x2) \cup {NULL}
    BY <2>1 DEF Editor!Save
  <2>7. x3' \in Editor!Held(x2) \cup {NULL}
    BY <2>5, <2>6
  <2>8. Editor!TypeOK'
    BY <2>1, <2>2, <2>5, <2>7
  <2>9. Editor!SaveFits'
    BY <2>1, <2>2, <2>3, <2>4, <2>5
  <2> QED BY <2>5, <2>8, <2>9
<1>6. CASE Editor!onSuccess
  BY <1>6 DEF Editor!onSuccess
<1>7. CASE Editor!onError \/ Editor!onClose
  BY <1>7 DEF Editor!onError, Editor!onClose
<1>8. CASE Editor!openEditor
  <2>1. /\ x7' = "open" /\ x8' = NULL /\ x6' = FALSE /\ x4' \in {x4, x3}
        /\ x5' = Editor!initialValues(x2, x4') /\ UNCHANGED <<x1, x2, x3, x9>>
    BY <1>8 DEF Editor!openEditor
  <2>2. x4' \in Editor!Held(x2) \cup {NULL}
    BY <2>1
  <2>3. x5' \in Editor!Typed(x2) \cup {""}
    BY <1>1, <2>1, <2>2, FilledFits
  <2>4. x6' \in BOOLEAN
    BY <2>1
  <2> QED BY <2>1, <2>2, <2>3, <2>4
<1> QED BY <1>2, <1>3, <1>4, <1>5, <1>6, <1>7, <1>8 DEF Editor!Next

(* What the invariant says of a save that is done.                         *)
LEMMA SavesAreTrue ==
  ASSUME Editor!EditorInv
  PROVE  Editor!TypedIsSaved /\ Editor!UntouchedStays /\ Editor!ScheduleIsReleased
<1>1. SoundField(x2)
  BY FieldIsSound DEF Editor!EditorInv, Editor!TypeOK
<1> SUFFICES ASSUME Editor!Saved
             PROVE  Editor!TypedIsSaved /\ Editor!UntouchedStays /\ Editor!ScheduleIsReleased
  BY DEF Editor!TypedIsSaved, Editor!UntouchedStays, Editor!ScheduleIsReleased
<1>2. x7 = "saved" /\ ~x9 /\ x8 \in Editor!Save(x2) /\ {x3, x4} \subseteq Editor!Held(x2) \cup {NULL}
  BY DEF Editor!Saved, Editor!EditorInv, Editor!TypeOK
<1>3. Editor!SaveFits
  BY <1>2 DEF Editor!EditorInv
<1>4. PICK body, v : body = x8.body /\ v = x8.pressed
  OBVIOUS
<1>5. body = Editor!normalizeValues(x2, v, x1) /\ (body.sent => x3 = body.value)
  BY <1>2, <1>3, <1>4 DEF Editor!SaveFits
<1>6. v # "" => x3 = v
  BY <1>5, BodyHolds
<1>7. Editor!TypedIsSaved
  BY <1>4, <1>6 DEF Editor!TypedIsSaved
<1>8. Editor!UntouchedStays
  <2> SUFFICES ASSUME ~x8.edited, x4 # NULL PROVE x3 = Editor!toDateTimeLocalInputValue(x4)
    BY DEF Editor!UntouchedStays
  <2>1. x4 \in Editor!Held(x2) /\ v = Editor!initialValues(x2, x4)
    BY <1>2, <1>3, <1>4 DEF Editor!SaveFits
  <2>2. v = Editor!toDateTimeLocalInputValue(x4) /\ v # ""
    BY <1>1, <2>1 DEF SoundField, Editor!initialValues, Editor!Held, Editor!toDateTimeLocalInputValue
  <2> QED BY <1>6, <2>2
<1>9. Editor!ScheduleIsReleased
  <2> SUFFICES ASSUME x1 = "edit", x2.type = "datetime", x8.pressed = "" PROVE x3 = NULL
    BY DEF Editor!ScheduleIsReleased
  <2>1. ~x2.required
    BY <1>1 DEF SoundField
  <2>2. v = ""
    BY <1>4
  <2>3. Editor!normalizeValues(x2, v, x1).sent /\ Editor!normalizeValues(x2, v, x1).value = NULL
    BY <2>1, <2>2, BodyHolds
  <2> QED BY <1>5, <2>3
<1> QED BY <1>7, <1>8, <1>9

-----------------------------------------------------------------------------
(* The wizard starts with nothing sent.                                    *)
LEMMA WizardInit == Wizard!Init => Wizard!WizardInv
<1> SUFFICES ASSUME Wizard!Init PROVE Wizard!WizardInv
  OBVIOUS
<1>1. x12 \in [Emails -> Passwords \cup {NULL}]
  BY DEF Wizard!Init
<1> QED BY <1>1, EmailsAssumption DEF Wizard!Init, Wizard!WizardInv, Wizard!TypeOK, Wizard!DoneIsTrue, Wizard!busy

(* What is sent fits the step it is sent from.                             *)
LEMMA WizardSends ==
  ASSUME Wizard!WizardInv, Wizard!Persist \/ Wizard!Stray
  PROVE  Wizard!WizardInv'
<1> USE EmailsAssumption
<1>1. ASSUME NEW r, Wizard!Send(r),
             x4 # "done", UNCHANGED <<x4, x5, x6>>, Wizard!RequestFits'
      PROVE  Wizard!WizardInv'
  BY <1>1 DEF Wizard!Send, Wizard!WizardInv, Wizard!TypeOK, Wizard!DoneIsTrue, Wizard!busy,
     Wizard!shown, Wizard!page, Wizard!server
<1>2. ASSUME NEW e \in Emails, Wizard!onEmail(e) PROVE Wizard!WizardInv'
  <2> DEFINE r == [kind |-> "request", state |-> "sent", email |-> e]
  <2>1. x4 = "email" /\ Wizard!Send(r) /\ UNCHANGED <<x4, x5, x6>>
    BY <1>2 DEF Wizard!onEmail, Wizard!wizard
  <2>2. r \in Wizard!Sent /\ r.kind = "request"
    BY DEF Wizard!Sent, Wizard!States
  <2>3. x9' = r
    BY <2>1 DEF Wizard!Send
  <2> HIDE DEF r
  <2>4. Wizard!RequestFits'
    BY <2>1, <2>2, <2>3 DEF Wizard!RequestFits
  <2> QED BY <2>1, <2>4, <1>1
<1>3. ASSUME NEW good \in BOOLEAN, Wizard!onCode(good) PROVE Wizard!WizardInv'
  <2> DEFINE r == [kind |-> "verify", state |-> "sent", email |-> x5, good |-> good]
  <2>1. x4 = "code" /\ Wizard!Send(r) /\ UNCHANGED <<x4, x5, x6>>
    BY <1>3 DEF Wizard!onCode, Wizard!wizard
  <2>2. r \in Wizard!Sent /\ r.kind = "verify" /\ r.email = x5
    BY <2>1 DEF Wizard!Sent, Wizard!States, Wizard!WizardInv, Wizard!TypeOK
  <2>3. x9' = r
    BY <2>1 DEF Wizard!Send
  <2> HIDE DEF r
  <2>4. Wizard!RequestFits'
    BY <2>1, <2>2, <2>3 DEF Wizard!RequestFits
  <2> QED BY <2>1, <2>4, <1>1
<1>4. ASSUME Wizard!resendCode PROVE Wizard!WizardInv'
  <2> DEFINE r == [kind |-> "resend", state |-> "sent", email |-> x5]
  <2>1. x4 = "code" /\ Wizard!Send(r) /\ UNCHANGED <<x4, x5, x6>>
    BY <1>4 DEF Wizard!resendCode, Wizard!wizard
  <2>2. r \in Wizard!Sent /\ r.kind = "resend" /\ r.email = x5
    BY <2>1 DEF Wizard!Sent, Wizard!States, Wizard!WizardInv, Wizard!TypeOK
  <2>3. x9' = r
    BY <2>1 DEF Wizard!Send
  <2> HIDE DEF r
  <2>4. Wizard!RequestFits'
    BY <2>1, <2>2, <2>3 DEF Wizard!RequestFits
  <2> QED BY <2>1, <2>4, <1>1
<1>5. ASSUME NEW p \in Passwords, Wizard!onPassword(p) PROVE Wizard!WizardInv'
  <2> DEFINE r == [kind |-> "complete", state |-> "sent", token |-> x6, password |-> p]
  <2>1. x4 = "password" /\ Wizard!Send(r) /\ UNCHANGED <<x4, x5, x6>> /\ x8' = p
    BY <1>5 DEF Wizard!onPassword
  <2>2. r \in Wizard!Sent /\ r.kind = "complete" /\ r.token = x5 /\ r.password = p /\ r.state = "sent"
    BY <2>1 DEF Wizard!Sent, Wizard!States, Wizard!WizardInv, Wizard!TypeOK
  <2>3. x9' = r
    BY <2>1 DEF Wizard!Send
  <2> HIDE DEF r
  <2>4. Wizard!RequestFits'
    BY <2>1, <2>2, <2>3 DEF Wizard!RequestFits
  <2> QED BY <2>1, <2>4, <1>1
<1>6. ASSUME Wizard!changeEmail PROVE Wizard!WizardInv'
  BY <1>6 DEF Wizard!changeEmail, Wizard!WizardInv, Wizard!TypeOK, Wizard!DoneIsTrue, Wizard!busy,
     Wizard!shown, Wizard!page, Wizard!server
<1> QED BY <1>2, <1>3, <1>4, <1>5, <1>6, Zenon DEF Wizard!Persist, Wizard!Stray

(* The server sets the password that was sent, on the account on screen.   *)
LEMMA WizardServes == ASSUME Wizard!WizardInv, Wizard!Serve PROVE Wizard!WizardInv'
<1> USE EmailsAssumption
<1>1. /\ Wizard!busy /\ x9 \in Wizard!Sent /\ Wizard!RequestFits /\ x2 = "anonymous"
      /\ UNCHANGED <<x1, x2, x3, x4, x5, x6, x8>>
  BY DEF Wizard!Serve, Wizard!WizardInv, Wizard!RequestFits, Wizard!page
<1>2. x4 # "done"
  BY <1>1 DEF Wizard!RequestFits, Wizard!Sent
<1>3. ASSUME x9'.kind = x9.kind, x9' \in Wizard!Sent, x12 = x12',
             x9.kind # "complete", x9'.email = x9.email,
             x10' \in [Emails -> BOOLEAN], x11' \in [Emails -> BOOLEAN]
      PROVE  Wizard!WizardInv'
  BY <1>1, <1>2, <1>3 DEF Wizard!WizardInv, Wizard!TypeOK, Wizard!DoneIsTrue, Wizard!busy, Wizard!RequestFits
<1>4. CASE x9.kind \in {"request", "resend"}
  <2> DEFINE ok == x1 = "signup" => x12[x9.email] = NULL
             s == IF ok THEN "ok" ELSE "ADMIN_ACCOUNT_EXISTS"
  <2>1. /\ x9' = [x9 EXCEPT !.state = s]
        /\ x10' = IF ok THEN [x10 EXCEPT ![x9.email] = TRUE] ELSE x10
        /\ x11' = x11 /\ x12' = x12
    BY <1>4 DEF Wizard!Serve
  <2>2. x9 \in [kind : {"request", "resend"}, state : Wizard!States, email : Emails]
    BY <1>1, <1>4 DEF Wizard!Sent
  <2>3. s \in Wizard!States
    BY DEF Wizard!States
  <2> HIDE DEF s
  <2>4. x9' \in Wizard!Sent /\ x9'.kind = x9.kind /\ x9'.email = x9.email
    BY <2>1, <2>2, <2>3 DEF Wizard!Sent
  <2>5. x10' \in [Emails -> BOOLEAN] /\ x11' \in [Emails -> BOOLEAN]
    BY <2>1 DEF Wizard!WizardInv, Wizard!TypeOK
  <2> QED BY <2>1, <2>4, <2>5, <1>3, <1>4
<1>5. CASE x9.kind = "verify"
  <2> DEFINE ok == x9.good /\ x10[x9.email]
             s == IF ok THEN "ok" ELSE "INVALID_OR_EXPIRED_CODE"
  <2>1. /\ x9' = [x9 EXCEPT !.state = s]
        /\ x10' = IF ok THEN [x10 EXCEPT ![x9.email] = FALSE] ELSE x10
        /\ x11' = IF ok THEN [x11 EXCEPT ![x9.email] = TRUE] ELSE x11
        /\ x12' = x12
    BY <1>5 DEF Wizard!Serve
  <2>2. x9 \in [kind : {"verify"}, state : Wizard!States, email : Emails, good : BOOLEAN]
    BY <1>1, <1>5 DEF Wizard!Sent
  <2>3. s \in Wizard!States
    BY DEF Wizard!States
  <2> HIDE DEF s
  <2>4. x9' \in Wizard!Sent /\ x9'.kind = x9.kind /\ x9'.email = x9.email
    BY <2>1, <2>2, <2>3 DEF Wizard!Sent
  <2>5. x10' \in [Emails -> BOOLEAN] /\ x11' \in [Emails -> BOOLEAN]
    BY <2>1 DEF Wizard!WizardInv, Wizard!TypeOK
  <2> QED BY <2>1, <2>4, <2>5, <1>3, <1>5
<1>6. CASE x9.kind = "complete"
  <2> DEFINE ok == x11[x9.token] /\ (x1 = "signup" => x12[x9.token] = NULL)
             s == IF ok THEN "ok" ELSE "INVALID_OR_EXPIRED_SETUP_TOKEN"
  <2>1. /\ x9' = [x9 EXCEPT !.state = s]
        /\ x12' = IF ok THEN [x12 EXCEPT ![x9.token] = x9.password] ELSE x12
        /\ x11' = [x11 EXCEPT ![x9.token] = FALSE]
        /\ x10' = x10
    BY <1>6 DEF Wizard!Serve
  <2>2. x9 \in [kind : {"complete"}, state : Wizard!States, token : Emails, password : Passwords]
    BY <1>1, <1>6 DEF Wizard!Sent
  <2>3. s \in Wizard!States /\ (s = "ok" <=> ok)
    BY DEF Wizard!States
  <2>4. x5 \in Emails /\ x9.token = x5 /\ x9.password = x8 /\ x4 = "password"
    BY <1>1, <1>6, <2>2 DEF Wizard!RequestFits
  <2>5. x11' \in [Emails -> BOOLEAN] /\ x12' \in [Emails -> Passwords \cup {NULL}] /\ x10' \in [Emails -> BOOLEAN]
    BY <2>1, <2>2 DEF Wizard!WizardInv, Wizard!TypeOK
  <2>6. s = "ok" => x12'[x5] = x8
    BY <2>1, <2>3, <2>4 DEF Wizard!WizardInv, Wizard!TypeOK
  <2> HIDE DEF s, ok
  <2>7. /\ x9' \in Wizard!Sent /\ x9'.kind = "complete" /\ x9'.token = x9.token
        /\ x9'.password = x9.password /\ x9'.state = s
    BY <2>1, <2>2, <2>3 DEF Wizard!Sent
  <2> QED BY <1>1, <1>2, <2>4, <2>5, <2>6, <2>7 DEF Wizard!WizardInv, Wizard!TypeOK,
     Wizard!DoneIsTrue, Wizard!busy, Wizard!RequestFits
<1> QED BY <1>1, <1>4, <1>5, <1>6 DEF Wizard!Sent

(* Every step of the wizard keeps the invariant.                           *)
LEMMA WizardKeeps == Wizard!WizardInv /\ Wizard!Next => Wizard!WizardInv'
<1> SUFFICES ASSUME Wizard!WizardInv, Wizard!Next PROVE Wizard!WizardInv'
  OBVIOUS
<1> USE EmailsAssumption DEF Wizard!WizardInv, Wizard!TypeOK, Wizard!DoneIsTrue, Wizard!busy
<1>1. CASE Wizard!Boot \/ Wizard!fetchBootstrapStatus
  BY <1>1 DEF Wizard!Boot, Wizard!fetchBootstrapStatus, Wizard!wizard, Wizard!server,
     Wizard!RequestFits
<1>2. CASE Wizard!Expire
  BY <1>2 DEF Wizard!Expire, Wizard!page, Wizard!wizard, Wizard!RequestFits
<1>3. CASE Wizard!Lost
  BY <1>3 DEF Wizard!Lost, Wizard!page, Wizard!wizard, Wizard!server
<1>4. CASE Wizard!EmailDone
  <2>1. x9.email \in Emails /\ x4 = "email" /\ x2 = "anonymous"
    BY <1>4 DEF Wizard!EmailDone, Wizard!Answered, Wizard!RequestFits, Wizard!Sent
  <2> QED BY <1>4, <2>1 DEF Wizard!EmailDone, Wizard!Answered, Wizard!page, Wizard!server
<1>5. CASE Wizard!ResendDone \/ Wizard!Refused
  BY <1>5 DEF Wizard!ResendDone, Wizard!Refused, Wizard!Answered, Wizard!page, Wizard!wizard, Wizard!server
<1>6. CASE Wizard!CodeDone
  <2>1. x9.email = x5 /\ x4 = "code" /\ x2 = "anonymous"
    BY <1>6 DEF Wizard!CodeDone, Wizard!Answered, Wizard!RequestFits
  <2> QED BY <1>6, <2>1 DEF Wizard!CodeDone, Wizard!Answered, Wizard!page, Wizard!server
<1>7. CASE Wizard!PasswordDone
  <2>1. x12[x5] = x8 /\ x4 = "password" /\ x2 = "anonymous"
    BY <1>7 DEF Wizard!PasswordDone, Wizard!Answered, Wizard!RequestFits
  <2>2. /\ x9' = NULL /\ UNCHANGED <<x1, x5, x6, x8, x10, x11, x12>>
        /\ \/ x1 = "signup" /\ x2' = "authenticated" /\ x4' = x4
           \/ x1 # "signup" /\ x2' = x2 /\ x4' = "done"
    BY <1>7 DEF Wizard!PasswordDone, Wizard!Answered, Wizard!server
  <2> QED BY <2>1, <2>2
<1>8. CASE Wizard!Restart
  <2>1. x4 = "password" /\ x2 = "anonymous"
    BY <1>8 DEF Wizard!Restart, Wizard!Answered, Wizard!RequestFits
  <2> QED BY <1>8, <2>1 DEF Wizard!Restart, Wizard!Answered, Wizard!page, Wizard!server
<1> HIDE DEF Wizard!WizardInv, Wizard!TypeOK, Wizard!DoneIsTrue, Wizard!busy
<1> QED BY <1>1, <1>2, <1>3, <1>4, <1>5, <1>6, <1>7, <1>8, WizardSends, WizardServes DEF Wizard!Next

-----------------------------------------------------------------------------
(* The page starts with no script, no form and no sign-in.                 *)
LEMMA SignInInit == SigningIn!Init => SigningIn!SignInInv
BY NullAssumption DEF SigningIn!Init, SigningIn!SignInInv, SigningIn!TypeOK, SigningIn!OfferedOnceLoaded,
   SigningIn!LoaderFits

(* A sign-in is begun with a number of its own, and locks only its form.   *)
LEMMA BegunKeeps ==
  ASSUME SigningIn!SignInInv, NEW kind \in {"GOOGLE", "APPLE", "PASSWORD"},
         NEW at \in {"popup", "script", "sent"}, SigningIn!Begin(kind, at),
         at = "script" => kind = "APPLE", at = "popup" => kind = "GOOGLE",
         x6' => x6 \/ (kind = "GOOGLE" => at # "popup"),
         UNCHANGED <<x1, x2, x3, x4, x5, x8, x9, x10>>
  PROVE  SigningIn!SignInInv'
<1> DEFINE new == [id |-> x12 + 1, kind |-> kind, page |-> x4, at |-> at, nonce |-> 0,
                   token |-> 0, generation |-> x8]
<1>1. x12' = x12 + 1 /\ x4 # NULL /\ UNCHANGED <<x11, x13>> /\ x7' = x7 \cup {new}
  <2>1. x12' = x12 + 1 /\ x4 # NULL /\ UNCHANGED <<x11, x13>>
        /\ x7' = x7 \cup {[id |-> x12', kind |-> kind, page |-> x4, at |-> at, nonce |-> 0,
                          token |-> 0, generation |-> x8]}
    BY DEF SigningIn!Begin
  <2> QED BY <2>1, Zenon
<1>2. new \in SigningIn!Flows /\ new.id = x12 + 1 /\ new.nonce = new.token /\ new.page = x4
      /\ new.kind = kind /\ new.at = at
      /\ ((kind = "GOOGLE" => at # "popup") => SigningIn!Unlocks(new))
  BY <1>1 DEF SigningIn!SignInInv, SigningIn!Flows, SigningIn!Unlocks
<1> HIDE DEF new
<1>3. x12 \in Nat /\ x12' \in Nat /\ (\A f \in x7 : f.id \in Nat /\ f.id <= x12 /\ f.id # new.id)
      /\ x7' \subseteq SigningIn!Flows
  BY <1>1, <1>2 DEF SigningIn!SignInInv, SigningIn!Flows, SigningIn!Fits
<1>4. \A f \in x7' : SigningIn!Fits(f)'
  BY <1>1, <1>2, <1>3 DEF SigningIn!SignInInv, SigningIn!Fits
<1>5. \A f, g \in x7' : f.id = g.id => f = g
  BY <1>1, <1>3 DEF SigningIn!SignInInv, SigningIn!TypeOK
<1>6. x6' => \E f \in x7' : f.page = x4' /\ SigningIn!Unlocks(f)
  BY <1>1, <1>2 DEF SigningIn!SignInInv
<1> QED BY <1>1, <1>3, <1>4, <1>5, <1>6 DEF SigningIn!SignInInv, SigningIn!TypeOK,
   SigningIn!OfferedOnceLoaded, SigningIn!LoaderFits

(* A sign-in that goes on is still the one it was, and unlocks its form    *)
(* when it ends, if it has locked it.                                      *)
LEMMA MovedKeeps ==
  ASSUME SigningIn!SignInInv, NEW f \in x7, NEW g \in SigningIn!Flows, SigningIn!Becomes(f, g),
         g.id = f.id, g.kind = f.kind, g.page = f.page, g.nonce = g.token, g.at # "script",
         g.at = "popup" => g.kind = "APPLE", SigningIn!Unlocks(f) => SigningIn!Unlocks(g),
         x6' => x6 \/ (f.page = x4 /\ SigningIn!Unlocks(g)),
         x10' \in Nat, UNCHANGED <<x1, x2, x3, x4, x5, x8, x9, x11, x12, x13>>
  PROVE  SigningIn!SignInInv'
<1>1. x7' = (x7 \ {f}) \cup {g}
  BY DEF SigningIn!Becomes
<1>2. x7' \subseteq SigningIn!Flows /\ (\A h \in x7' : SigningIn!Fits(h)')
  BY <1>1 DEF SigningIn!SignInInv, SigningIn!Fits
<1>3. \A h, k \in x7' : h.id = k.id => h = k
  BY <1>1 DEF SigningIn!SignInInv, SigningIn!TypeOK
<1>4. x6' => \E h \in x7' : h.page = x4' /\ SigningIn!Unlocks(h)
  BY <1>1 DEF SigningIn!SignInInv
<1> QED BY <1>2, <1>3, <1>4 DEF SigningIn!SignInInv, SigningIn!TypeOK,
   SigningIn!OfferedOnceLoaded, SigningIn!LoaderFits

(* Likewise when it ends.                                                  *)
LEMMA EndedKeeps ==
  ASSUME SigningIn!SignInInv, NEW f \in x7, x7' = x7 \ {f}, x8' \in Nat,
         x6' => x6 /\ (SigningIn!Unlocks(f) => f.page # x4),
         UNCHANGED <<x1, x2, x3, x4, x5, x10, x11, x12, x13>>
  PROVE  SigningIn!SignInInv'
<1>1. x6' => \E h \in x7' : h.page = x4' /\ SigningIn!Unlocks(h)
  BY DEF SigningIn!SignInInv
<1> QED BY <1>1 DEF SigningIn!Fits, SigningIn!SignInInv, SigningIn!TypeOK,
   SigningIn!OfferedOnceLoaded, SigningIn!LoaderFits

(* So does whatever a sign-in under way can do.                            *)
LEMMA GoingOnKeeps ==
  ASSUME SigningIn!SignInInv, NEW f \in x7,
         SigningIn!onGoogleCredential(f) \/ SigningIn!requestAppleIdToken(f)
           \/ SigningIn!AppleAnswers(f) \/ SigningIn!PopupEnds(f) \/ SigningIn!Refused(f)
           \/ SigningIn!Adopted(f)
  PROVE  SigningIn!SignInInv'
<1>1. f \in SigningIn!Flows /\ f.nonce = f.token /\ x8 \in Nat /\ x10 \in Nat /\ f.page \in Nat
      /\ SigningIn!Fits(f)
  BY DEF SigningIn!SignInInv, SigningIn!Flows, SigningIn!Fits
<1>2. CASE SigningIn!onGoogleCredential(f) \/ SigningIn!AppleAnswers(f)
  <2> DEFINE g == [f EXCEPT !.at = "sent", !.generation = x8]
  <2>1. SigningIn!Becomes(f, g) /\ SigningIn!setLoading(f, TRUE)
        /\ UNCHANGED <<x1, x2, x3, x4, x5, x8, x9, x10, x11, x12, x13>>
    BY <1>2 DEF SigningIn!onGoogleCredential, SigningIn!AppleAnswers, SigningIn!scripts,
       SigningIn!session, SigningIn!bounds
  <2>2. g = [id |-> f.id, kind |-> f.kind, page |-> f.page, at |-> "sent", nonce |-> f.nonce,
             token |-> f.token, generation |-> x8]
    <3> DEFINE h == [f EXCEPT !.at = "sent"]
    <3>1. h = [id |-> f.id, kind |-> f.kind, page |-> f.page, at |-> "sent", nonce |-> f.nonce,
               token |-> f.token, generation |-> f.generation]
      BY <1>1 DEF SigningIn!Flows
    <3>2. g = [h EXCEPT !.generation = x8]
      OBVIOUS
    <3> HIDE DEF h, g
    <3> QED BY <3>1, <3>2
  <2>3. /\ g \in SigningIn!Flows /\ g.id = f.id /\ g.page = f.page /\ g.nonce = g.token
        /\ g.at = "sent" /\ g.kind = f.kind /\ SigningIn!Unlocks(g)
    BY <1>1, <2>2 DEF SigningIn!Flows, SigningIn!Unlocks
  <2> HIDE DEF g
  <2>4. x6' => x6 \/ f.page = x4
    BY <2>1 DEF SigningIn!setLoading
  <2>5. x10' \in Nat
    BY <1>1, <2>1
  <2> QED BY <2>1, <2>3, <2>4, <2>5, MovedKeeps
<1>3. CASE SigningIn!requestAppleIdToken(f)
  <2> DEFINE n == x10 + 1
             g == [f EXCEPT !.at = "popup", !.nonce = n, !.token = n]
  <2>1. SigningIn!Becomes(f, [f EXCEPT !.at = "popup", !.nonce = x10', !.token = x10'])
        /\ x10' = n /\ f.at = "script"
        /\ UNCHANGED <<x1, x2, x3, x4, x5, x6, x8, x9, x11, x12, x13>>
    BY <1>3 DEF SigningIn!requestAppleIdToken, SigningIn!scripts, SigningIn!session, SigningIn!bounds
  <2>2. SigningIn!Becomes(f, g)
    BY <2>1, Zenon
  <2>3. n \in Nat
    BY <1>1
  <2> HIDE DEF n
  <2>4. g = [id |-> f.id, kind |-> f.kind, page |-> f.page, at |-> "popup", nonce |-> n,
             token |-> n, generation |-> f.generation]
    <3> DEFINE h == [f EXCEPT !.at = "popup"]
               k == [h EXCEPT !.nonce = n]
    <3>1. h = [id |-> f.id, kind |-> f.kind, page |-> f.page, at |-> "popup", nonce |-> f.nonce,
               token |-> f.token, generation |-> f.generation]
      BY <1>1 DEF SigningIn!Flows
    <3>2. g = [k EXCEPT !.token = n]
      OBVIOUS
    <3> HIDE DEF h, g
    <3>3. k = [id |-> f.id, kind |-> f.kind, page |-> f.page, at |-> "popup", nonce |-> n,
               token |-> f.token, generation |-> f.generation]
      BY <3>1
    <3> HIDE DEF k
    <3> QED BY <3>2, <3>3
  <2>5. /\ g \in SigningIn!Flows /\ g.id = f.id /\ g.page = f.page /\ g.nonce = g.token
        /\ g.kind = f.kind /\ g.at = "popup"
    BY <1>1, <2>3, <2>4 DEF SigningIn!Flows
  <2>6. f.kind = "APPLE"
    BY <1>1, <2>1 DEF SigningIn!Fits
  <2>7. SigningIn!Unlocks(g)
    BY <2>5, <2>6 DEF SigningIn!Unlocks
  <2> HIDE DEF g
  <2> QED BY <2>1, <2>2, <2>3, <2>5, <2>6, <2>7, MovedKeeps
<1>4. CASE SigningIn!PopupEnds(f)
  <2>1. /\ x7' = x7 \ {f} /\ UNCHANGED <<x1, x2, x3, x4, x5, x8, x9, x10, x11, x12, x13>>
        /\ IF f.kind = "APPLE" THEN SigningIn!setLoading(f, FALSE) ELSE x6' = x6
        /\ f.at = "popup" \/ f.at = "script"
    BY <1>4 DEF SigningIn!PopupEnds, SigningIn!scripts, SigningIn!session, SigningIn!bounds
  <2>2. x6' => x6 /\ (SigningIn!Unlocks(f) => f.page # x4)
    BY <1>1, <2>1 DEF SigningIn!setLoading, SigningIn!Unlocks, SigningIn!Fits
  <2> QED BY <1>1, <2>1, <2>2, EndedKeeps
<1>5. CASE SigningIn!Refused(f)
  <2>1. /\ x7' = x7 \ {f} /\ UNCHANGED <<x1, x2, x3, x4, x5, x10, x11, x12, x13>>
        /\ SigningIn!setLoading(f, FALSE) /\ x8' \in {x8, x8 + 1}
    BY <1>5 DEF SigningIn!Refused, SigningIn!scripts, SigningIn!session, SigningIn!bounds
  <2>2. x6' => x6 /\ f.page # x4
    BY <2>1 DEF SigningIn!setLoading
  <2> QED BY <1>1, <2>1, <2>2, EndedKeeps
<1>6. CASE SigningIn!Adopted(f)
  BY <1>1, <1>6, NullAssumption DEF SigningIn!Fits, SigningIn!Adopted, SigningIn!bounds, SigningIn!SignInInv, SigningIn!TypeOK,
     SigningIn!OfferedOnceLoaded, SigningIn!LoaderFits
<1> QED BY <1>2, <1>3, <1>4, <1>5, <1>6

(* Every step of the sign-in page keeps the invariant.                     *)
LEMMA SigningInKeeps == SigningIn!SignInInv /\ SigningIn!Next => SigningIn!SignInInv'
<1> SUFFICES ASSUME SigningIn!SignInInv, SigningIn!Next PROVE SigningIn!SignInInv'
  OBVIOUS
<1> USE DEF SigningIn!Fits, SigningIn!SignInInv, SigningIn!TypeOK, SigningIn!OfferedOnceLoaded, SigningIn!LoaderFits
<1>1. CASE SigningIn!Mount
  <2>1. /\ x4' = x11 + 1 /\ x11' = x11 + 1 /\ x6' = FALSE /\ x5' = (x1 = "loaded")
        /\ SigningIn!loadGoogleIdentityServices
        /\ UNCHANGED <<x7, x8, x9, x10, x12, x13>>
    BY <1>1 DEF SigningIn!Mount, SigningIn!session
  <2>2. SigningIn!LoaderFits' /\ (x1' = "loaded" <=> x1 = "loaded")
    BY <2>1, NullAssumption DEF SigningIn!loadGoogleIdentityServices
  <2>3. x4' \in Nat /\ x4' # NULL
    BY <2>1, NullAssumption
  <2> QED BY <2>1, <2>2, <2>3
<1>2. CASE SigningIn!Leave
  BY <1>2 DEF SigningIn!Leave, SigningIn!session, SigningIn!bounds
<1>3. CASE SigningIn!OthersLoad
  BY <1>3, NullAssumption DEF SigningIn!OthersLoad, SigningIn!session, SigningIn!bounds
<1>4. CASE SigningIn!GoogleLoads
  BY <1>4, NullAssumption DEF SigningIn!GoogleLoads, SigningIn!session, SigningIn!bounds
<1>5. CASE SigningIn!AppleLoads \/ SigningIn!Logout
  BY <1>5 DEF SigningIn!AppleLoads, SigningIn!Logout, SigningIn!session, SigningIn!bounds, SigningIn!scripts
<1>6. CASE SigningIn!ScriptFails
  BY <1>6, NullAssumption DEF SigningIn!ScriptFails, SigningIn!session, SigningIn!bounds
<1> HIDE DEF SigningIn!Fits, SigningIn!SignInInv, SigningIn!TypeOK, SigningIn!OfferedOnceLoaded, SigningIn!LoaderFits
<1>7. CASE SigningIn!pressGoogle
  BY <1>7, BegunKeeps DEF SigningIn!pressGoogle, SigningIn!scripts, SigningIn!session
<1>8. CASE SigningIn!onApple
  BY <1>8, BegunKeeps DEF SigningIn!onApple, SigningIn!scripts, SigningIn!session
<1>9. CASE SigningIn!onSubmit
  BY <1>9, BegunKeeps DEF SigningIn!onSubmit, SigningIn!scripts, SigningIn!session
<1>10. CASE \E i \in 1..MaxFlows : SigningIn!GoesOn(i)
  BY <1>10, GoingOnKeeps DEF SigningIn!GoesOn
<1> QED BY <1>1, <1>2, <1>3, <1>4, <1>5, <1>6, <1>7, <1>8, <1>9, <1>10 DEF SigningIn!Next

-----------------------------------------------------------------------------
(* The script counts with the one operator too.                            *)
LEMMA MarketCounts ==
  ASSUME NEW S
  PROVE  /\ Market!Cardinality(S) = Cardinality(S)
         /\ Market!IsFiniteSet(S) <=> IsFiniteSet(S)
BY Zenon DEF Market!Cardinality, Cardinality, Market!IsFiniteSet, IsFiniteSet

(* The steps of a run by their numbers.                                    *)
LEMMA StepsAre ==
  /\ Len(Market!Steps) = 12
  /\ \A k \in 1..12 :
            /\ Market!Steps[k] = "categories" <=> k = 1
            /\ Market!Steps[k] = "businesses" <=> k = 2
            /\ Market!Steps[k] = "parties" <=> k = 3
            /\ Market!Steps[k] = "extras" <=> k = 4
            /\ Market!Steps[k] = "catalog" <=> k = 5
            /\ Market!Steps[k] = "generation" <=> k = 6
            /\ Market!Steps[k] = "rows" <=> k = 7
            /\ Market!Steps[k] = "watermark" <=> k = 8
            /\ Market!Steps[k] = "clear" <=> k = 9
            /\ Market!Steps[k] = "snapshots" <=> k = 10
            /\ Market!Steps[k] = "publish" <=> k = 11
            /\ Market!Steps[k] = "save" <=> k = 12
<1>1. Len(Market!Steps) = 12
  BY DEF Market!Steps
<1>2. /\ Market!Steps[1] = "categories" /\ Market!Steps[2] = "businesses"
      /\ Market!Steps[3] = "parties" /\ Market!Steps[4] = "extras" /\ Market!Steps[5] = "catalog"
      /\ Market!Steps[6] = "generation" /\ Market!Steps[7] = "rows"
      /\ Market!Steps[8] = "watermark" /\ Market!Steps[9] = "clear"
      /\ Market!Steps[10] = "snapshots" /\ Market!Steps[11] = "publish" /\ Market!Steps[12] = "save"
  BY DEF Market!Steps
<1>3. ASSUME NEW k \in 1..12
      PROVE  k = 1 \/ k = 2 \/ k = 3 \/ k = 4 \/ k = 5 \/ k = 6 \/ k = 7 \/ k = 8 \/ k = 9
               \/ k = 10 \/ k = 11 \/ k = 12
  OBVIOUS
<1> QED BY <1>1, <1>2, <1>3

(* A run that goes on to its next step.                                    *)
LEMMA ThroughIs ==
  ASSUME Market!RunFits
  PROVE  Market!Through = [at |-> x8.at + 1, ids |-> x8.ids, made |-> x8.made, done |-> {},
                           generation |-> x8.generation, rows |-> x8.rows]
<1> DEFINE h == [x8 EXCEPT !.at = x8.at + 1]
<1>1. h = [at |-> x8.at + 1, ids |-> x8.ids, made |-> x8.made, done |-> x8.done,
           generation |-> x8.generation, rows |-> x8.rows]
  BY DEF Market!RunFits
<1>2. Market!Through = [h EXCEPT !.done = {}]
  BY DEF Market!Through
<1> HIDE DEF h
<1> QED BY <1>1, <1>2

(* A row of one writer and one generation for each id of a set.            *)
RowsFor(S, g, by) == {[id |-> id, generation |-> g, by |-> by] : id \in S}

(* A set of rows has as many as there are ids in it.                       *)
LEMMA RowsCount ==
  ASSUME NEW S, IsFiniteSet(S), NEW g, NEW by
  PROVE  Cardinality(RowsFor(S, g, by)) = Cardinality(S)
<1> DEFINE row(id) == [id |-> id, generation |-> g, by |-> by]
           T == {row(id) : id \in S}
           f == [id \in S |-> row(id)]
<1>1. \A id \in S : row(id).id = id
  OBVIOUS
<1> HIDE DEF row
<1>2. f \in Bijection(S, T)
  BY <1>1 DEF Bijection, Injection, Surjection, IsInjective
<1>3. Cardinality(S) = Cardinality(T)
  <2> HIDE DEF f, T
  <2> QED BY <1>2, FS_Bijection DEF ExistsBijection
<1>4. T = RowsFor(S, g, by)
  BY DEF row, RowsFor
<1> HIDE DEF T
<1> QED BY <1>3, <1>4

(* A set without two members has one at most.                              *)
LEMMA OneAtMost ==
  ASSUME NEW S, \A a, b \in S : a = b
  PROVE  Cardinality(S) <= 1
<1>1. CASE S = {}
  BY <1>1, FS_EmptySet
<1>2. CASE S # {}
  <2>1. PICK a \in S : TRUE
    BY <1>2
  <2>2. S = {a}
    BY <2>1
  <2> QED BY <2>2, FS_Singleton
<1> QED BY <1>1, <1>2

(* Nothing is there, or what the other script has made.                    *)
LEMMA MarketInit == Market!Init => Market!MarketInv
<1> SUFFICES ASSUME Market!Init PROVE Market!MarketInv
  OBVIOUS
<1>1. PICK made \in {{}} \cup {{category, business, p} : p \in Titles} :
       /\ x7 = [n \in Market!Names |-> IF n \in made THEN <<n, 0>> ELSE NULL]
       /\ x1 = {<<n, 0>> : n \in made \cap {category}}
       /\ x2 = {<<n, 0>> : n \in made \cap {business}}
       /\ x3 = {[id |-> <<n, 0>>, business |-> <<business, 0>>, category |-> <<category, 0>>] :
                       n \in made \cap Titles}
       /\ x4 = {<<n, 0>> : n \in made \cap Titles} /\ x5 = x4
  BY DEF Market!Init
<1>2. x6 = [generation |-> 0, count |-> 0, rows |-> {}] /\ x8 = NULL /\ x9 = {} /\ x10 = 2 /\ x11 = 0
  BY DEF Market!Init
<1>3. Market!PartyIds = {<<n, 0>> : n \in made \cap Titles}
  <2> DEFINE row(n) == [id |-> <<n, 0>>, business |-> <<business, 0>>, category |-> <<category, 0>>]
  <2>1. x3 = {row(n) : n \in made \cap Titles}
    BY <1>1
  <2>2. \A n : row(n).id = <<n, 0>>
    OBVIOUS
  <2> HIDE DEF row
  <2> QED BY <2>1, <2>2 DEF Market!PartyIds
<1>4. Market!There = {<<n, 0>> : n \in made}
  BY <1>1, <1>3 DEF Market!There
<1>5. IsFiniteSet(Market!PartyIds)
  <2>1. CASE made = {}
    BY <1>3, <2>1, FS_EmptySet
  <2>2. ASSUME NEW p \in Titles, made = {category, business, p} PROVE IsFiniteSet(Market!PartyIds)
    <3>1. Market!PartyIds = {<<p, 0>>}
      BY <1>3, <2>2, SeedAssumption
    <3> QED BY <3>1, FS_Singleton
  <2> QED BY <2>1, <2>2
<1>6. Market!ParentsFirst
  <2> SUFFICES ASSUME NEW party \in x3 PROVE party.business \in x2 /\ party.category \in x1
    BY DEF Market!ParentsFirst
  <2>1. party.business = <<business, 0>> /\ party.category = <<category, 0>> /\ made # {}
    BY <1>1
  <2>2. category \in made /\ business \in made
    BY <2>1
  <2> QED BY <1>1, <2>1, <2>2
<1>7. Market!DataFits
  <2>1. x1 \subseteq {category} \X Nat /\ x2 \subseteq {business} \X Nat
        /\ Market!PartyIds \subseteq (Titles \cup {foreign}) \X Nat
    BY <1>1, <1>3
  <2>2. \A a, b \in Market!There : (a[1] \in Market!Names /\ a[1] = b[1]) => a = b
    BY <1>4
  <2>3. \A n \in Market!Names : x7[n] # NULL => x7[n] \in Market!There /\ x7[n][1] = n
    BY <1>1, <1>4
  <2> QED BY <1>1, <1>2, <1>3, <1>5, <1>6, <2>1, <2>2, <2>3, MarketCounts
         DEF Market!DataFits, Market!MadeIsFound
<1>8. Market!ListFits
  <2>1. Market!Live = {}
    BY <1>2 DEF Market!Live
  <2> QED BY <1>2, <2>1, FS_EmptySet, MarketCounts DEF Market!ListFits, Market!SnapshotIsWhole
<1> QED BY <1>2, <1>7, <1>8 DEF Market!MarketInv

(* The ids that a run has are those of the names.                          *)
LEMMA RunIds ==
  ASSUME Market!RunFits, NEW n \in Market!Names
  PROVE  x8.ids[n] \in {n} \X Nat /\ x8.ids[n][1] = n
<1>1. x8.ids[n] \in Market!Ids /\ x8.ids[n][1] = n
  BY DEF Market!RunFits
<1> QED BY <1>1 DEF Market!Ids

(* What is there is in the table of its name.                              *)
LEMMA InItsTable ==
  ASSUME Market!DataFits, NEW id \in Market!There
  PROVE  /\ id[1] = category => id \in x1
         /\ id[1] = business => id \in x2
         /\ id[1] \in Titles => id \in Market!PartyIds
         /\ id \in Market!Ids
BY SeedAssumption DEF Market!DataFits, Market!There, Market!Ids, Market!Names

(* A run keeps its ids while what it makes is there, and its step comes    *)
(* after what it has made.                                                 *)
LEMMA RunKeeps ==
  ASSUME Market!RunFits, NEW a \in 1..12, NEW d \in SUBSET (Market!Names \cup Market!Ids),
         NEW g \in Nat, NEW r \in SUBSET (Market!PartyIds'),
         x8' = [at |-> a, ids |-> x8.ids, made |-> x8.made, done |-> d, generation |-> g, rows |-> r],
         \A id \in Market!There' : \/ id \in Market!There \/ id[1] \notin Market!Names
                                   \/ \E n \in Market!Names : id = x8.ids[n],
         x1 \subseteq x1', x2 \subseteq x2', Market!PartyIds \subseteq Market!PartyIds',
         x4 \subseteq x4', x5 \subseteq x5',
         Market!Past(1, category)' => Market!Past(1, category) \/ x8.ids[category] \in x1',
         Market!Past(2, business)' => Market!Past(2, business) \/ x8.ids[business] \in x2',
         \A n \in Titles :
           /\ Market!Past(3, n)' => Market!Past(3, n) \/ x8.ids[n] \in Market!PartyIds'
           /\ Market!Past(4, n)' => Market!Past(4, n) \/ x8.ids[n] \in x4'
           /\ Market!Past(5, n)' => Market!Past(5, n) \/ x8.ids[n] \in x5'
  PROVE  Market!RunFits'
<1>1. /\ x8'.ids = x8.ids /\ x8'.made = x8.made
      /\ x8' \in [at : 1..12, ids : [Market!Names -> Market!Ids], made : SUBSET Market!Names,
                  done : SUBSET (Market!Names \cup Market!Ids), generation : Nat,
                  rows : SUBSET (Market!PartyIds')]
  <2>1. x8.ids \in [Market!Names -> Market!Ids] /\ x8.made \in SUBSET Market!Names
    BY DEF Market!RunFits
  <2> QED BY <2>1
<1>2. Market!There \subseteq Market!There'
  BY DEF Market!There
<1>3. ASSUME NEW n \in Market!Names
      PROVE  /\ x8'.ids[n][1] = n /\ (n \notin x8'.made => x8'.ids[n] \in Market!There')
             /\ \A id \in Market!There' : id[1] = n => id = x8'.ids[n]
  <2>1. /\ x8.ids[n][1] = n /\ (n \notin x8.made => x8.ids[n] \in Market!There)
        /\ \A id \in Market!There : id[1] = n => id = x8.ids[n]
    BY DEF Market!RunFits
  <2>2. ASSUME NEW id \in Market!There', id[1] = n PROVE id = x8.ids[n]
    <3>1. CASE id \in Market!There
      BY <2>1, <2>2, <3>1
    <3>2. ASSUME NEW m \in Market!Names, id = x8.ids[m] PROVE id = x8.ids[n]
      <4>1. x8.ids[m][1] = m
        BY DEF Market!RunFits
      <4> QED BY <4>1, <3>2, <2>2
    <3> QED BY <3>1, <3>2, <2>2
  <2> QED BY <1>1, <1>2, <2>1, <2>2
<1>4. /\ Market!Past(1, category)' => x8'.ids[category] \in x1'
      /\ Market!Past(2, business)' => x8'.ids[business] \in x2'
  BY <1>1 DEF Market!RunFits
<1>5. ASSUME NEW n \in Titles
      PROVE  /\ Market!Past(3, n)' => x8'.ids[n] \in Market!PartyIds'
             /\ Market!Past(4, n)' => x8'.ids[n] \in x4'
             /\ Market!Past(5, n)' => x8'.ids[n] \in x5'
  BY <1>1 DEF Market!RunFits
<1> HIDE DEF Market!Past
<1> QED BY <1>1, <1>3, <1>4, <1>5 DEF Market!RunFits

(* A run is somewhere among its steps.                                     *)
LEMMA AtIs ==
  ASSUME Market!RunFits, x8 # NULL
  PROVE  /\ x8.at \in 1..12
         /\ Market!At("categories") <=> x8.at = 1
         /\ Market!At("businesses") <=> x8.at = 2
         /\ Market!At("parties") <=> x8.at = 3
         /\ Market!At("extras") <=> x8.at = 4
         /\ Market!At("catalog") <=> x8.at = 5
         /\ Market!At("generation") <=> x8.at = 6
         /\ Market!At("rows") <=> x8.at = 7
         /\ Market!At("watermark") <=> x8.at = 8
         /\ Market!At("clear") <=> x8.at = 9
         /\ Market!At("snapshots") <=> x8.at = 10
         /\ Market!At("publish") <=> x8.at = 11
         /\ Market!At("save") <=> x8.at = 12
<1>1. x8.at \in 1..12
  BY DEF Market!RunFits
<1> QED BY <1>1, StepsAre, Zenon DEF Market!At

(* The list is not about the seed.                                         *)
LEMMA ListStays == ASSUME Market!ListFits, UNCHANGED <<x6, x10, x11>> PROVE Market!ListFits'
BY DEF Market!ListFits, Market!SnapshotIsWhole, Market!Live

(* Nor is the seed about the list.                                         *)
LEMMA SeedStays ==
  ASSUME Market!DataFits, UNCHANGED <<x1, x2, x3, x4, x5, x7, x9>> PROVE Market!DataFits'
BY DEF Market!DataFits, Market!ParentsFirst, Market!MadeIsFound, Market!There, Market!PartyIds

(* A step of the run that writes no table.                                 *)
LEMMA RunGoesOn ==
  ASSUME Market!RunFits, NEW a \in 6..12, NEW d \in SUBSET (Market!Names \cup Market!Ids),
         NEW g \in Nat, NEW r \in SUBSET Market!PartyIds,
         x8' = [at |-> a, ids |-> x8.ids, made |-> x8.made, done |-> d, generation |-> g, rows |-> r],
         x8.at \in 6..12, UNCHANGED <<x1, x2, x3, x4, x5>>
  PROVE  Market!RunFits'
<1>1. Market!There' = Market!There /\ Market!PartyIds' = Market!PartyIds
  BY DEF Market!There, Market!PartyIds
<1>2. x8'.made = x8.made /\ a \in 1..12
  OBVIOUS
<1>3. ASSUME NEW k \in 1..5, NEW n, Market!Past(k, n)' PROVE Market!Past(k, n)
  BY <1>2, <1>3 DEF Market!Past
<1>4. \A n \in Titles :
        /\ Market!Past(3, n)' => Market!Past(3, n)
        /\ Market!Past(4, n)' => Market!Past(4, n)
        /\ Market!Past(5, n)' => Market!Past(5, n)
  BY <1>3
<1>5. (Market!Past(1, category)' => Market!Past(1, category))
      /\ (Market!Past(2, business)' => Market!Past(2, business))
  BY <1>3
<1> QED BY <1>1, <1>2, <1>4, <1>5, RunKeeps

(* A rebuild that is not under way says nothing.                           *)
LEMMA RebuildStays ==
  ASSUME Market!RebuildFits, UNCHANGED <<x6, x10, x11>>, x8'.generation = x8.generation,
         x8'.at \notin 7..11
  PROVE  Market!RebuildFits'
BY DEF Market!RebuildFits

(* What a run finds by a name, when it begins.                             *)
LEMMA KnownIs ==
  ASSUME Market!DataFits, NEW n \in Market!Names
  PROVE  \/ Market!known(n) = NULL /\ \A id \in Market!There : id[1] # n
         \/ /\ Market!known(n) # NULL /\ Market!known(n) \in Market!There
            /\ Market!known(n)[1] = n
<1>1. ASSUME NEW id \in Market!There PROVE id # NULL
  BY InItsTable, SeedAssumption DEF Market!Ids, Market!Names
<1>2. CASE \E id \in Market!There : id[1] = n
  <2>1. Market!known(n) \in Market!There /\ Market!known(n)[1] = n
    BY <1>2 DEF Market!known
  <2> QED BY <1>1, <2>1
<1>3. CASE ~ \E id \in Market!There : id[1] = n
  <2>1. Market!known(n) = x7[n]
    BY <1>3 DEF Market!known
  <2> QED BY <1>3, <2>1 DEF Market!DataFits
<1> QED BY <1>2, <1>3

(* A run begins with what there is.                                        *)
LEMMA Starting == ASSUME Market!MarketInv, Market!Start PROVE Market!MarketInv'
<1> DEFINE ids == [n \in Market!Names |->
                     IF Market!known(n) # NULL THEN Market!known(n) ELSE <<n, x11 + 1>>]
           made == {n \in Market!Names : Market!known(n) = NULL}
<1>1. /\ x8' = [at |-> 1, ids |-> ids, made |-> made, done |-> {}, generation |-> 0, rows |-> {}]
      /\ x11' = x11 + 1 /\ UNCHANGED <<x1, x2, x3, x4, x5, x6, x7, x9, x10>>
  BY DEF Market!Start, Market!data
<1>2. Market!DataFits /\ Market!ListFits
  BY DEF Market!MarketInv
<1>3. ASSUME NEW n \in Market!Names
      PROVE  /\ ids[n] \in Market!Ids /\ ids[n][1] = n /\ (n \notin made => ids[n] \in Market!There)
             /\ \A id \in Market!There : id[1] = n => id = ids[n]
  <2>1. CASE Market!known(n) = NULL /\ \A id \in Market!There : id[1] # n
    <3>1. ids[n] = <<n, x11 + 1>> /\ x11 + 1 \in Nat /\ n \in made
      BY <1>2, <2>1 DEF Market!ListFits
    <3> QED BY <2>1, <3>1 DEF Market!Ids
  <2>2. CASE /\ Market!known(n) # NULL /\ Market!known(n) \in Market!There
             /\ Market!known(n)[1] = n
    <3>1. ids[n] = Market!known(n) /\ n \notin made
      BY <2>2
    <3> QED BY <1>2, <2>2, <3>1, InItsTable DEF Market!DataFits
  <2> QED BY <1>2, <2>1, <2>2, KnownIs
<1>4. /\ ids \in [Market!Names -> Market!Ids] /\ made \in SUBSET Market!Names
      /\ Market!PartyIds' = Market!PartyIds /\ Market!There' = Market!There
  BY <1>1, <1>3 DEF Market!PartyIds, Market!There
<1> HIDE DEF ids, made
<1>5. Market!RunFits'
  <2>1. /\ x8'.ids = ids /\ x8'.made = made /\ x8'.at = 1 /\ x8'.done = {}
        /\ x8' \in [at : 1..12, ids : [Market!Names -> Market!Ids], made : SUBSET Market!Names,
                    done : SUBSET (Market!Names \cup Market!Ids), generation : Nat,
                    rows : SUBSET (Market!PartyIds')]
    BY <1>1, <1>4
  <2>2. \A k \in 1..5 : \A n : ~Market!Past(k, n)'
    BY <2>1 DEF Market!Past
  <2>3. /\ ~Market!Past(1, category)' /\ ~Market!Past(2, business)'
        /\ \A n : ~Market!Past(3, n)' /\ ~Market!Past(4, n)' /\ ~Market!Past(5, n)'
    BY <2>2
  <2> QED BY <1>3, <1>4, <2>1, <2>3 DEF Market!RunFits
<1>6. Market!RebuildFits'
  BY <1>1, <1>2 DEF Market!RebuildFits, Market!ListFits
<1>7. Market!ListFits'
  BY <1>1, <1>2 DEF Market!ListFits, Market!SnapshotIsWhole, Market!Live
<1> QED BY <1>1, <1>2, <1>5, <1>6, <1>7, SeedStays DEF Market!MarketInv

(* The tables of the steps.                                                *)
LEMMA TableIs ==
  /\ Market!Table(Market!Steps[1]) = {category} /\ Market!Table(Market!Steps[2]) = {business}
  /\ Market!Table(Market!Steps[3]) = Titles /\ Market!Table(Market!Steps[4]) = Titles
  /\ Market!Table(Market!Steps[5]) = Titles
BY StepsAre DEF Market!Table

(* What a run notes as written is its own.                                 *)
LEMMA NotedIs ==
  ASSUME Market!RunFits, NEW n \in Market!Names, x8' = [x8 EXCEPT !.done = @ \cup {n}]
  PROVE  /\ x8' = [at |-> x8.at, ids |-> x8.ids, made |-> x8.made, done |-> x8.done \cup {n},
                   generation |-> x8.generation, rows |-> x8.rows]
         /\ x8.at \in 1..12 /\ x8.generation \in Nat /\ x8.rows \in SUBSET Market!PartyIds
         /\ x8.done \cup {n} \in SUBSET (Market!Names \cup Market!Ids)
BY DEF Market!RunFits

(* The rest of the seed stays what it is when a row of the run is added.   *)
LEMMA DataKeeps ==
  ASSUME Market!DataFits, Market!RunFits', UNCHANGED <<x7, x9>>,
         x1 \subseteq x1', x1' \subseteq {category} \X Nat,
         x2 \subseteq x2', x2' \subseteq {business} \X Nat,
         Market!PartyIds \subseteq Market!PartyIds',
         Market!PartyIds' \subseteq (Titles \cup {foreign}) \X Nat, IsFiniteSet(Market!PartyIds'),
         \A party \in x3' : party \in x3 \/ (party.business \in x2 /\ party.category \in x1),
         x4 \subseteq x4', x4' \subseteq Market!PartyIds',
         x5 \subseteq x5', x5' \subseteq Market!PartyIds'
  PROVE  Market!DataFits'
<1>1. Market!There \subseteq Market!There'
  BY DEF Market!There
<1>2. \A a, b \in Market!There' : (a[1] \in Market!Names /\ a[1] = b[1]) => a = b
  BY DEF Market!RunFits
<1>3. Market!ParentsFirst'
  BY DEF Market!DataFits, Market!ParentsFirst
<1>4. Market!MadeIsFound'
  BY DEF Market!DataFits, Market!MadeIsFound
<1>5. \A n \in Market!Names : x7'[n] # NULL => x7'[n] \in Market!There' /\ x7'[n][1] = n
  BY <1>1 DEF Market!DataFits
<1> QED BY <1>2, <1>3, <1>4, <1>5, MarketCounts DEF Market!DataFits

(* A row is written: it is the one of its name, and its parents are there. *)
LEMMA Writing ==
  ASSUME Market!MarketInv, NEW n \in Market!Names, Market!Write(n) PROVE Market!MarketInv'
<1> DEFINE id == x8.ids[n]
<1>1. /\ x8 # NULL /\ x8.at <= 5 /\ n \in Market!Due /\ x8' = [x8 EXCEPT !.done = @ \cup {n}]
      /\ UNCHANGED <<x6, x7, x9, x10, x11>>
  BY DEF Market!Write, Market!bounds
<1>2. Market!DataFits /\ Market!ListFits /\ Market!RunFits /\ Market!RebuildFits
  BY <1>1 DEF Market!MarketInv
<1>3. /\ x8' = [at |-> x8.at, ids |-> x8.ids, made |-> x8.made, done |-> x8.done \cup {n},
                generation |-> x8.generation, rows |-> x8.rows]
      /\ x8.at \in 1..12 /\ x8.generation \in Nat /\ x8.rows \in SUBSET Market!PartyIds
      /\ x8.done \cup {n} \in SUBSET (Market!Names \cup Market!Ids)
  BY <1>1, <1>2, NotedIs
<1>4. x8'.at = x8.at /\ x8'.ids = x8.ids /\ x8'.made = x8.made /\ x8'.done = x8.done \cup {n}
      /\ x8'.generation = x8.generation
  BY <1>3
<1>5. id \in {n} \X Nat /\ id[1] = n
  BY <1>2, RunIds
<1>6. Market!ListFits' /\ Market!RebuildFits'
  BY <1>1, <1>2, <1>3, <1>4, ListStays, RebuildStays
<1>7. /\ IsFiniteSet(Market!PartyIds) /\ Market!PartyIds \subseteq (Titles \cup {foreign}) \X Nat
      /\ x1 \subseteq {category} \X Nat /\ x2 \subseteq {business} \X Nat
      /\ x4 \subseteq Market!PartyIds /\ x5 \subseteq Market!PartyIds
  BY <1>2, MarketCounts DEF Market!DataFits
<1>8. /\ \A k \in 1..5 : \A m : Market!Past(k, m)' => Market!Past(k, m) \/ (k = x8.at /\ m = n)
      /\ \A k \in 1..5 : x8.at < k => \A m : ~Market!Past(k, m)'
  BY <1>3, <1>4 DEF Market!Past
<1>9. ASSUME NEW m \in Titles
      PROVE  /\ Market!Past(3, m)' => Market!Past(3, m) \/ (x8.at = 3 /\ m = n)
             /\ Market!Past(4, m)' => Market!Past(4, m) \/ (x8.at = 4 /\ m = n)
             /\ Market!Past(5, m)' => Market!Past(5, m) \/ (x8.at = 5 /\ m = n)
  BY <1>8
<1>10. /\ Market!Past(1, category)' => Market!Past(1, category) \/ (x8.at = 1 /\ category = n)
       /\ Market!Past(2, business)' => Market!Past(2, business) \/ (x8.at = 2 /\ business = n)
  BY <1>8
<1>11. ASSUME x1 \subseteq x1', x1' \subseteq {category} \X Nat,
              x2 \subseteq x2', x2' \subseteq {business} \X Nat,
              Market!PartyIds \subseteq Market!PartyIds',
              Market!PartyIds' \subseteq (Titles \cup {foreign}) \X Nat,
              IsFiniteSet(Market!PartyIds'),
              \A party \in x3' : party \in x3 \/ (party.business \in x2 /\ party.category \in x1),
              x4 \subseteq x4', x4' \subseteq Market!PartyIds',
              x5 \subseteq x5', x5' \subseteq Market!PartyIds',
              Market!There' \subseteq Market!There \cup {id},
              x8.at = 1 => id \in x1', x8.at = 2 => id \in x2',
              x8.at = 3 => id \in Market!PartyIds', x8.at = 4 => id \in x4',
              x8.at = 5 => id \in x5'
       PROVE  Market!MarketInv'
  <2> HIDE DEF Market!Past
  <2>1. Market!RunFits'
    <3>1. \A i \in Market!There' : i \in Market!There \/ \E m \in Market!Names : i = x8.ids[m]
      BY <1>11
    <3>2. x8.rows \in SUBSET (Market!PartyIds')
      BY <1>3, <1>11
    <3>3. /\ Market!Past(1, category)' => Market!Past(1, category) \/ x8.ids[category] \in x1'
          /\ Market!Past(2, business)' => Market!Past(2, business) \/ x8.ids[business] \in x2'
      BY <1>10, <1>11
    <3>4. \A m \in Titles :
           /\ Market!Past(3, m)' => Market!Past(3, m) \/ x8.ids[m] \in Market!PartyIds'
           /\ Market!Past(4, m)' => Market!Past(4, m) \/ x8.ids[m] \in x4'
           /\ Market!Past(5, m)' => Market!Past(5, m) \/ x8.ids[m] \in x5'
      BY <1>9, <1>11
    <3> QED BY <1>2, <1>3, <1>11, <3>1, <3>2, <3>3, <3>4, RunKeeps
  <2>2. Market!DataFits'
    BY <1>1, <1>2, <1>11, <2>1, DataKeeps
  <2> QED BY <1>6, <2>1, <2>2 DEF Market!MarketInv
<1>12. n \in x8.made /\ n \in Market!Table(Market!Steps[x8.at])
  BY <1>1 DEF Market!Due
<1>13. x8.at = 1 \/ x8.at = 2 \/ x8.at = 3 \/ x8.at = 4 \/ x8.at = 5
  BY <1>1, <1>3
<1> HIDE DEF id
<1>14. CASE x8.at = 1
  <2>1. n = category /\ x1' = x1 \cup {id} /\ UNCHANGED <<x2, x3, x4, x5>>
    BY <1>1, <1>2, <1>12, <1>14, AtIs, TableIs DEF Market!Write, id
  <2>2. Market!PartyIds' = Market!PartyIds /\ Market!There' = Market!There \cup {id}
    BY <2>1 DEF Market!PartyIds, Market!There
  <2> QED BY <1>5, <1>7, <1>11, <1>14, <2>1, <2>2
<1>15. CASE x8.at = 2
  <2>1. n = business /\ x2' = x2 \cup {id} /\ UNCHANGED <<x1, x3, x4, x5>>
    BY <1>1, <1>2, <1>12, <1>15, AtIs, TableIs DEF Market!Write, id
  <2>2. Market!PartyIds' = Market!PartyIds /\ Market!There' = Market!There \cup {id}
    BY <2>1 DEF Market!PartyIds, Market!There
  <2> QED BY <1>5, <1>7, <1>11, <1>15, <2>1, <2>2
<1>16. CASE x8.at = 3
  <2> DEFINE new == [id |-> id, business |-> x8.ids[business], category |-> x8.ids[category]]
  <2>1. n \in Titles /\ x3' = x3 \cup {new} /\ UNCHANGED <<x1, x2, x4, x5>>
    BY <1>1, <1>2, <1>12, <1>16, AtIs, TableIs DEF Market!Write, id
  <2>5. new.business = x8.ids[business] /\ new.category = x8.ids[category] /\ new.id = id
    OBVIOUS
  <2> HIDE DEF new
  <2>2. Market!PartyIds' = Market!PartyIds \cup {id} /\ Market!There' = Market!There \cup {id}
    BY <2>1, <2>5 DEF Market!PartyIds, Market!There
  <2>3. business \in Market!Names /\ category \in Market!Names
    BY DEF Market!Names
  <2>4. x8.ids[business] \in x2
    <3>1. CASE business \in x8.made
      <4>1. Market!Past(2, business)
        BY <1>16, <3>1 DEF Market!Past
      <4> QED BY <1>2, <4>1 DEF Market!RunFits
    <3>2. CASE business \notin x8.made
      <4>1. x8.ids[business] \in Market!There /\ x8.ids[business][1] = business
        BY <1>2, <2>3, <3>2 DEF Market!RunFits
      <4> QED BY <1>2, <4>1, InItsTable
    <3> QED BY <3>1, <3>2
  <2>7. x8.ids[category] \in x1
    <3>1. CASE category \in x8.made
      <4>1. Market!Past(1, category)
        BY <1>16, <3>1 DEF Market!Past
      <4> QED BY <1>2, <4>1 DEF Market!RunFits
    <3>2. CASE category \notin x8.made
      <4>1. x8.ids[category] \in Market!There /\ x8.ids[category][1] = category
        BY <1>2, <2>3, <3>2 DEF Market!RunFits
      <4> QED BY <1>2, <4>1, InItsTable
    <3> QED BY <3>1, <3>2
  <2>6. IsFiniteSet(Market!PartyIds')
    BY <1>7, <2>2, FS_AddElement
  <2> QED BY <1>5, <1>7, <1>11, <1>16, <2>1, <2>2, <2>4, <2>5, <2>6, <2>7
<1>17. CASE x8.at = 4 \/ x8.at = 5
  <2>1. /\ n \in Titles /\ UNCHANGED <<x1, x2, x3>>
        /\ \/ x8.at = 4 /\ x4' = x4 \cup {id} /\ x5' = x5
           \/ x8.at = 5 /\ x5' = x5 \cup {id} /\ x4' = x4
    <3>1. CASE x8.at = 4
      BY <1>1, <1>2, <1>12, <3>1, AtIs, TableIs DEF Market!Write, id
    <3>2. CASE x8.at = 5
      BY <1>1, <1>2, <1>12, <3>2, AtIs, TableIs DEF Market!Write, id
    <3> QED BY <1>17, <3>1, <3>2
  <2>2. Market!PartyIds' = Market!PartyIds /\ Market!There' = Market!There
    BY <2>1 DEF Market!PartyIds, Market!There
  <2>3. Market!Past(3, n)
    BY <1>12, <1>17 DEF Market!Past
  <2>4. id \in Market!PartyIds
    BY <1>2, <2>1, <2>3 DEF Market!RunFits, id
  <2> QED BY <1>5, <1>7, <1>11, <1>17, <2>1, <2>2, <2>4
<1> QED BY <1>13, <1>14, <1>15, <1>16, <1>17

(* A table is done when all of it that was to be made has been.            *)
LEMMA WritingEnds == ASSUME Market!MarketInv, Market!WriteEnds PROVE Market!MarketInv'
<1>1. /\ x8 # NULL /\ x8.at <= 5 /\ Market!Due = {} /\ x8' = Market!Through
      /\ UNCHANGED <<x1, x2, x3, x4, x5, x6, x7, x9, x10, x11>>
  BY DEF Market!WriteEnds, Market!bounds, Market!data
<1>2. Market!DataFits /\ Market!ListFits /\ Market!RunFits /\ Market!RebuildFits
  BY <1>1 DEF Market!MarketInv
<1>3. /\ x8' = [at |-> x8.at + 1, ids |-> x8.ids, made |-> x8.made, done |-> {},
                generation |-> x8.generation, rows |-> x8.rows]
      /\ x8.at \in 1..5 /\ x8.generation \in Nat /\ x8.rows \in SUBSET Market!PartyIds
  BY <1>1, <1>2, ThroughIs DEF Market!RunFits
<1>4. /\ x8'.at = x8.at + 1 /\ x8'.ids = x8.ids /\ x8'.made = x8.made /\ x8'.done = {}
      /\ x8'.generation = x8.generation
  BY <1>3
<1>5. ASSUME NEW m \in x8.made, m \in Market!Table(Market!Steps[x8.at]) PROVE m \in x8.done
  BY <1>1, <1>5 DEF Market!Due
<1>6. ASSUME NEW k \in 1..5, NEW m \in Market!Table(Market!Steps[k]), Market!Past(k, m)'
      PROVE  Market!Past(k, m)
  <2>1. m \in x8.made /\ x8.at >= k
    BY <1>3, <1>4, <1>6 DEF Market!Past
  <2>2. CASE x8.at > k
    BY <2>1, <2>2 DEF Market!Past
  <2>3. CASE x8.at = k
    BY <1>5, <1>6, <2>1, <2>3 DEF Market!Past
  <2> QED BY <1>3, <2>1, <2>2, <2>3
<1>7. (Market!Past(1, category)' => Market!Past(1, category))
      /\ (Market!Past(2, business)' => Market!Past(2, business))
  BY <1>6, TableIs
<1>8. \A m \in Titles :
        /\ Market!Past(3, m)' => Market!Past(3, m)
        /\ Market!Past(4, m)' => Market!Past(4, m)
        /\ Market!Past(5, m)' => Market!Past(5, m)
  BY <1>6, TableIs
<1>9. Market!There' = Market!There /\ Market!PartyIds' = Market!PartyIds
  BY <1>1 DEF Market!There, Market!PartyIds
<1>10. Market!RunFits'
  <2>1. x8.at + 1 \in 1..12
    BY <1>3
  <2> QED BY <1>1, <1>2, <1>3, <1>7, <1>8, <1>9, <2>1, RunKeeps
<1>11. Market!ListFits' /\ Market!RebuildFits'
  BY <1>1, <1>2, <1>3, <1>4, ListStays, RebuildStays
<1>12. Market!DataFits'
  BY <1>1, <1>2, SeedStays
<1> QED BY <1>10, <1>11, <1>12 DEF Market!MarketInv

(* A step that rebuilds the list, or saves, leaves the seed alone.         *)
LEMMA RebuildKeepsData ==
  ASSUME Market!MarketInv, x8 # NULL, x8.at \in 6..12,
         NEW a \in 6..12, NEW d \in SUBSET (Market!Names \cup Market!Ids), NEW g \in Nat,
         NEW r \in SUBSET Market!PartyIds,
         x8' = [at |-> a, ids |-> x8.ids, made |-> x8.made, done |-> d, generation |-> g, rows |-> r],
         UNCHANGED <<x1, x2, x3, x4, x5, x7, x9>>
  PROVE  Market!DataFits' /\ Market!RunFits'
         /\ x8'.at = a /\ x8'.done = d /\ x8'.generation = g /\ x8'.rows = r
<1>1. Market!DataFits /\ Market!RunFits
  BY DEF Market!MarketInv
<1>2. Market!DataFits'
  BY <1>1, SeedStays
<1>3. Market!RunFits'
  BY <1>1, RunGoesOn
<1> QED BY <1>2, <1>3

(* The list is read: above what the clock says, and a tick later.          *)
LEMMA Generating == ASSUME Market!MarketInv, Market!Generation PROVE Market!MarketInv'
<1>1. PICK clock \in {0, x10} : x8' = [Market!Through EXCEPT !.generation = clock]
  BY DEF Market!Generation
<1>2. x8 # NULL /\ Market!DataFits /\ Market!RunFits /\ Market!ListFits
  BY DEF Market!Generation, Market!At, Market!MarketInv
<1>3. x8.at = 6 /\ x10' = x10 + 2 /\ UNCHANGED <<x1, x2, x3, x4, x5, x6, x7, x9, x11>>
  BY <1>2, AtIs DEF Market!Generation, Market!Tick, Market!data, Market!bounds
<1>4. clock \in Nat /\ x10 \in Nat /\ x6.generation \in Nat
  BY <1>2 DEF Market!ListFits
<1>5. /\ x8' = [at |-> 7, ids |-> x8.ids, made |-> x8.made, done |-> {},
                generation |-> clock, rows |-> x8.rows]
      /\ x8.rows \in SUBSET Market!PartyIds
  <2>1. Market!Through = [at |-> x8.at + 1, ids |-> x8.ids, made |-> x8.made, done |-> {},
                          generation |-> x8.generation, rows |-> x8.rows]
    BY <1>2, ThroughIs
  <2>2. x8.rows \in SUBSET Market!PartyIds /\ x8.generation \in Nat
    BY <1>2 DEF Market!RunFits
  <2> QED BY <1>1, <1>3, <2>1, <2>2
<1>6. /\ Market!DataFits' /\ Market!RunFits' /\ x8'.at = 7 /\ x8'.generation = clock
      /\ x8'.done = {} /\ x8'.rows = x8.rows
  BY <1>2, <1>3, <1>4, <1>5, RebuildKeepsData
<1>7. Market!RebuildFits'
  BY <1>2, <1>3, <1>4, <1>6 DEF Market!RebuildFits, Market!ListFits
<1>8. Market!ListFits'
  <2>1. Market!SnapshotIsWhole'
    BY <1>2, <1>3 DEF Market!ListFits, Market!SnapshotIsWhole, Market!Live
  <2>2. ASSUME NEW row \in x6.rows PROVE row.generation < x10 + 2
    BY <1>2, <1>4 DEF Market!ListFits
  <2> QED BY <1>2, <1>3, <1>4, <2>1, <2>2 DEF Market!ListFits
<1> QED BY <1>6, <1>7, <1>8 DEF Market!MarketInv

(* The rows are those there are now.                                       *)
LEMMA Reading == ASSUME Market!MarketInv, Market!Rows PROVE Market!MarketInv'
<1>2. x8 # NULL /\ Market!DataFits /\ Market!RunFits /\ Market!ListFits /\ Market!RebuildFits
  BY DEF Market!Rows, Market!At, Market!MarketInv
<1>3. /\ x8.at = 7 /\ x8' = [Market!Through EXCEPT !.rows = Market!PartyIds]
      /\ UNCHANGED <<x1, x2, x3, x4, x5, x6, x7, x9, x10, x11>>
  BY <1>2, AtIs DEF Market!Rows, Market!data, Market!bounds
<1>5. /\ x8' = [at |-> 8, ids |-> x8.ids, made |-> x8.made, done |-> {},
                generation |-> x8.generation, rows |-> Market!PartyIds]
      /\ x8.generation \in Nat
  <2>1. Market!Through = [at |-> x8.at + 1, ids |-> x8.ids, made |-> x8.made, done |-> {},
                          generation |-> x8.generation, rows |-> x8.rows]
    BY <1>2, ThroughIs
  <2>2. x8.rows \in SUBSET Market!PartyIds /\ x8.generation \in Nat
    BY <1>2 DEF Market!RunFits
  <2> QED BY <1>3, <2>1, <2>2
<1>6. /\ Market!DataFits' /\ Market!RunFits' /\ x8'.at = 8 /\ x8'.generation = x8.generation
  <2> DEFINE r == Market!PartyIds
  <2>1. r \in SUBSET Market!PartyIds
    OBVIOUS
  <2>2. x8' = [at |-> 8, ids |-> x8.ids, made |-> x8.made, done |-> {},
               generation |-> x8.generation, rows |-> r]
    BY <1>5
  <2> HIDE DEF r
  <2>3. x8.generation \in Nat /\ x8.at \in 6..12
    BY <1>3, <1>5
  <2>4. UNCHANGED <<x1, x2, x3, x4, x5, x7, x9>>
    BY <1>3
  <2> QED BY <1>2, <2>1, <2>2, <2>3, <2>4, RebuildKeepsData
<1>7. Market!RebuildFits'
  BY <1>2, <1>3, <1>6 DEF Market!RebuildFits
<1> QED BY <1>2, <1>3, <1>6, <1>7, ListStays DEF Market!MarketInv

(* The generation is raised above the one that is read.                    *)
LEMMA Raising == ASSUME Market!MarketInv, Market!Watermark PROVE Market!MarketInv'
<1> DEFINE g == IF x6.generation >= x8.generation THEN x6.generation + 1 ELSE x8.generation
<1>2. x8 # NULL /\ Market!DataFits /\ Market!RunFits /\ Market!ListFits /\ Market!RebuildFits
  BY DEF Market!Watermark, Market!At, Market!MarketInv
<1>3. /\ x8.at = 8 /\ UNCHANGED <<x1, x2, x3, x4, x5, x6, x7, x9, x10, x11>>
      /\ x8' = IF x6.generation >= x8.generation
               THEN [Market!Through EXCEPT !.generation = x6.generation + 1] ELSE Market!Through
  BY <1>2, AtIs DEF Market!Watermark, Market!data, Market!bounds
<1>5. /\ x8' = [at |-> 9, ids |-> x8.ids, made |-> x8.made, done |-> {},
                generation |-> g, rows |-> x8.rows]
      /\ x8.rows \in SUBSET Market!PartyIds
  <2>1. Market!Through = [at |-> x8.at + 1, ids |-> x8.ids, made |-> x8.made, done |-> {},
                          generation |-> x8.generation, rows |-> x8.rows]
    BY <1>2, ThroughIs
  <2>2. x8.rows \in SUBSET Market!PartyIds /\ x8.generation \in Nat
    BY <1>2 DEF Market!RunFits
  <2>3. CASE x6.generation >= x8.generation
    <3>1. x8' = [Market!Through EXCEPT !.generation = g] /\ x8.at = 8
      BY <1>3, <2>3
    <3> HIDE DEF g
    <3> QED BY <2>1, <2>2, <3>1
  <2>4. CASE ~(x6.generation >= x8.generation)
    <3>1. x8' = Market!Through /\ g = x8.generation /\ x8.at = 8
      BY <1>3, <2>4
    <3> HIDE DEF g
    <3> QED BY <2>1, <2>2, <3>1
  <2> QED BY <2>3, <2>4
<1>4. g \in Nat /\ g < x10 /\ g > x6.generation /\ x6.generation \in Nat
  <2>1. x8.generation \in Nat /\ x6.generation \in Nat /\ x10 \in Nat
        /\ x8.generation < x10 /\ x6.generation + 1 < x10
    BY <1>2, <1>3 DEF Market!RunFits, Market!ListFits, Market!RebuildFits
  <2> QED BY <2>1
<1> HIDE DEF g
<1>6. /\ Market!DataFits' /\ Market!RunFits' /\ x8'.at = 9 /\ x8'.generation = g
  BY <1>2, <1>3, <1>4, <1>5, RebuildKeepsData
<1>7. Market!RebuildFits'
  BY <1>2, <1>3, <1>4, <1>6 DEF Market!RebuildFits
<1> QED BY <1>2, <1>3, <1>6, <1>7, ListStays DEF Market!MarketInv

(* What an earlier run has left of the generation goes.                    *)
LEMMA Clearing == ASSUME Market!MarketInv, Market!Clear PROVE Market!MarketInv'
<1>2. x8 # NULL /\ Market!DataFits /\ Market!RunFits /\ Market!ListFits /\ Market!RebuildFits
  BY DEF Market!Clear, Market!At, Market!MarketInv
<1>3. /\ x8.at = 9 /\ x8' = Market!Through /\ UNCHANGED <<x1, x2, x3, x4, x5, x7, x9, x10, x11>>
      /\ x6' = [x6 EXCEPT !.rows = {row \in @ : row.generation # x8.generation}]
  BY <1>2, AtIs DEF Market!Clear, Market!data, Market!bounds
<1>4. /\ x8' = [at |-> 10, ids |-> x8.ids, made |-> x8.made, done |-> {},
                generation |-> x8.generation, rows |-> x8.rows]
      /\ x8.rows \in SUBSET Market!PartyIds /\ x8.generation \in Nat
  <2>1. Market!Through = [at |-> x8.at + 1, ids |-> x8.ids, made |-> x8.made, done |-> {},
                          generation |-> x8.generation, rows |-> x8.rows]
    BY <1>2, ThroughIs
  <2>2. x8.rows \in SUBSET Market!PartyIds /\ x8.generation \in Nat
    BY <1>2 DEF Market!RunFits
  <2> QED BY <1>3, <2>1, <2>2
<1>5. /\ Market!DataFits' /\ Market!RunFits' /\ x8'.at = 10 /\ x8'.generation = x8.generation
      /\ x8'.done = {} /\ x8'.rows = x8.rows
  BY <1>2, <1>3, <1>4, RebuildKeepsData
<1>6. /\ x6'.generation = x6.generation /\ x6'.count = x6.count
      /\ x6'.rows = {row \in x6.rows : row.generation # x8.generation}
  BY <1>2, <1>3 DEF Market!ListFits
<1>7. Market!RowsOf(x8.generation)' = {} /\ Market!Written({})' = {}
  BY <1>5, <1>6 DEF Market!RowsOf, Market!Written
<1>8. Market!RebuildFits'
  BY <1>2, <1>3, <1>5, <1>6, <1>7 DEF Market!RebuildFits
<1>9. Market!ListFits'
  <2>1. Market!Live' = Market!Live
    BY <1>2, <1>3, <1>6 DEF Market!Live, Market!RebuildFits
  <2> QED BY <1>2, <1>3, <1>6, <2>1 DEF Market!ListFits, Market!SnapshotIsWhole
<1> QED BY <1>5, <1>8, <1>9 DEF Market!MarketInv

(* A row is written of the generation that nobody reads.                   *)
LEMMA Inserting == ASSUME Market!MarketInv, NEW id, Market!Insert(id) PROVE Market!MarketInv'
<1> DEFINE new == [id |-> id, generation |-> x8.generation, by |-> x11]
<1>2. x8 # NULL /\ Market!DataFits /\ Market!RunFits /\ Market!ListFits /\ Market!RebuildFits
  BY DEF Market!Insert, Market!At, Market!MarketInv
<1>3. /\ x8.at = 10 /\ id \in x8.rows \ x8.done /\ x8' = [x8 EXCEPT !.done = @ \cup {id}]
      /\ UNCHANGED <<x1, x2, x3, x4, x5, x7, x9, x10, x11>>
      /\ x6' = [x6 EXCEPT !.rows = @ \cup {new}]
  BY <1>2, AtIs DEF Market!Insert, Market!data, Market!bounds
<1>4. /\ x8' = [at |-> 10, ids |-> x8.ids, made |-> x8.made, done |-> x8.done \cup {id},
                generation |-> x8.generation, rows |-> x8.rows]
      /\ x8.rows \in SUBSET Market!PartyIds /\ x8.generation \in Nat
      /\ x8.done \in SUBSET (Market!Names \cup Market!Ids)
  BY <1>2, <1>3 DEF Market!RunFits
<1>5. id \in Market!Ids
  BY <1>2, <1>3, <1>4 DEF Market!DataFits, Market!Ids, Market!Names
<1>6. /\ Market!DataFits' /\ Market!RunFits' /\ x8'.at = 10 /\ x8'.generation = x8.generation
      /\ x8'.done = x8.done \cup {id} /\ x8'.rows = x8.rows
  <2> DEFINE d == x8.done \cup {id}
  <2>1. d \in SUBSET (Market!Names \cup Market!Ids)
    BY <1>4, <1>5
  <2>2. x8' = [at |-> 10, ids |-> x8.ids, made |-> x8.made, done |-> d,
               generation |-> x8.generation, rows |-> x8.rows]
    BY <1>4
  <2> HIDE DEF d
  <2>3. /\ Market!DataFits' /\ Market!RunFits' /\ x8'.at = 10 /\ x8'.generation = x8.generation
        /\ x8'.done = d /\ x8'.rows = x8.rows
    <3>1. x8.at \in 6..12 /\ UNCHANGED <<x1, x2, x3, x4, x5, x7, x9>>
      BY <1>3
    <3>2. x8.rows \in SUBSET Market!PartyIds /\ x8.generation \in Nat
      BY <1>4
    <3> QED BY <1>2, <2>1, <2>2, <3>1, <3>2, RebuildKeepsData
  <2> QED BY <2>3 DEF d
<1>7. new.generation = x8.generation
  OBVIOUS
<1>8. Market!Written(x8.done \cup {id}) = Market!Written(x8.done) \cup {new}
  BY DEF Market!Written
<1>9. \A S : Market!Written(S)' = Market!Written(S)
  BY <1>3, <1>6 DEF Market!Written
<1> HIDE DEF new
<1>10. /\ x6'.generation = x6.generation /\ x6'.count = x6.count /\ x6'.rows = x6.rows \cup {new}
  BY <1>2, <1>3 DEF Market!ListFits
<1>11. Market!RowsOf(x8.generation)' = Market!RowsOf(x8.generation) \cup {new}
  BY <1>6, <1>7, <1>10 DEF Market!RowsOf
<1>12. Market!RebuildFits'
  <2>1. (x8.done \cup {id}) \subseteq x8.rows
    BY <1>2, <1>3 DEF Market!RebuildFits
  <2>2. x8.generation > x6.generation => Market!RowsOf(x8.generation) = Market!Written(x8.done)
    BY <1>2, <1>3 DEF Market!RebuildFits
  <2>3. x8.generation < x10 /\ x8.generation # x6.generation
    BY <1>2, <1>3 DEF Market!RebuildFits
  <2>4. x8'.generation > x6'.generation =>
          Market!RowsOf(x8.generation)' = Market!Written(x8.done \cup {id})'
    BY <1>6, <1>8, <1>9, <1>10, <1>11, <2>2
  <2> QED BY <1>3, <1>6, <1>10, <2>1, <2>3, <2>4 DEF Market!RebuildFits
<1>13. Market!ListFits'
  <2>1. Market!Live' = Market!Live
    BY <1>2, <1>3, <1>7, <1>10 DEF Market!Live, Market!RebuildFits
  <2>2. \A row \in x6'.rows : row.generation \in Nat /\ row.generation < x10
    BY <1>2, <1>4, <1>7, <1>10 DEF Market!ListFits, Market!RebuildFits
  <2> QED BY <1>2, <1>3, <1>10, <2>1, <2>2 DEF Market!ListFits, Market!SnapshotIsWhole
<1> QED BY <1>6, <1>12, <1>13 DEF Market!MarketInv

(* The rows are all written.                                               *)
LEMMA InsertingEnds == ASSUME Market!MarketInv, Market!InsertEnds PROVE Market!MarketInv'
<1>2. x8 # NULL /\ Market!DataFits /\ Market!RunFits /\ Market!ListFits /\ Market!RebuildFits
  BY DEF Market!InsertEnds, Market!At, Market!MarketInv
<1>3. /\ x8.at = 10 /\ x8.rows \subseteq x8.done /\ x8' = Market!Through
      /\ UNCHANGED <<x1, x2, x3, x4, x5, x6, x7, x9, x10, x11>>
  BY <1>2, AtIs DEF Market!InsertEnds, Market!data, Market!bounds
<1>4. /\ x8' = [at |-> 11, ids |-> x8.ids, made |-> x8.made, done |-> {},
                generation |-> x8.generation, rows |-> x8.rows]
      /\ x8.rows \in SUBSET Market!PartyIds /\ x8.generation \in Nat
  <2>1. Market!Through = [at |-> x8.at + 1, ids |-> x8.ids, made |-> x8.made, done |-> {},
                          generation |-> x8.generation, rows |-> x8.rows]
    BY <1>2, ThroughIs
  <2>2. x8.rows \in SUBSET Market!PartyIds /\ x8.generation \in Nat
    BY <1>2 DEF Market!RunFits
  <2> QED BY <1>3, <2>1, <2>2
<1>5. /\ Market!DataFits' /\ Market!RunFits' /\ x8'.at = 11 /\ x8'.generation = x8.generation
      /\ x8'.rows = x8.rows
  BY <1>2, <1>3, <1>4, RebuildKeepsData
<1>6. x8.done = x8.rows
  BY <1>2, <1>3 DEF Market!RebuildFits
<1>7. Market!RebuildFits'
  <2>1. Market!RowsOf(x8.generation)' = Market!RowsOf(x8.generation)
        /\ Market!Written(x8.rows)' = Market!Written(x8.done)
    BY <1>3, <1>5, <1>6 DEF Market!RowsOf, Market!Written
  <2>2. x8.generation > x6.generation => Market!RowsOf(x8.generation) = Market!Written(x8.done)
    BY <1>2, <1>3 DEF Market!RebuildFits
  <2>3. x8.generation < x10 /\ x8.generation # x6.generation
    BY <1>2, <1>3 DEF Market!RebuildFits
  <2> QED BY <1>3, <1>5, <2>1, <2>2, <2>3 DEF Market!RebuildFits
<1> QED BY <1>2, <1>3, <1>5, <1>7, ListStays DEF Market!MarketInv

(* The rows of a set of parties there are can be counted.                  *)
LEMMA RowsFinite ==
  ASSUME Market!DataFits, NEW S \in SUBSET Market!PartyIds, NEW g, NEW by
  PROVE  Cardinality(RowsFor(S, g, by)) = Cardinality(S)
<1>1. IsFiniteSet(Market!PartyIds)
  BY MarketCounts DEF Market!DataFits
<1>2. IsFiniteSet(S)
  BY <1>1, FS_Subset
<1> QED BY <1>2, RowsCount

(* What is published is the run's own list, whole; or it is late, and only *)
(* what is older than both goes.                                           *)
LEMMA Publishing == ASSUME Market!MarketInv, Market!Publish PROVE Market!MarketInv'
<1>2. x8 # NULL /\ Market!DataFits /\ Market!RunFits /\ Market!ListFits /\ Market!RebuildFits
  BY DEF Market!Publish, Market!At, Market!MarketInv
<1>3. /\ x8.at = 11 /\ x8' = Market!Through /\ UNCHANGED <<x1, x2, x3, x4, x5, x7, x9, x10, x11>>
      /\ x6' = IF x8.generation > x6.generation
               THEN [generation |-> x8.generation, count |-> Market!Cardinality(x8.rows),
                     rows |-> Market!Above(x8.generation)]
               ELSE [x6 EXCEPT !.rows = Market!Above(x8.generation)]
  BY <1>2, AtIs DEF Market!Publish, Market!data, Market!bounds
<1>4. /\ x8' = [at |-> 12, ids |-> x8.ids, made |-> x8.made, done |-> {},
                generation |-> x8.generation, rows |-> x8.rows]
      /\ x8.rows \in SUBSET Market!PartyIds /\ x8.generation \in Nat
  <2>1. Market!Through = [at |-> x8.at + 1, ids |-> x8.ids, made |-> x8.made, done |-> {},
                          generation |-> x8.generation, rows |-> x8.rows]
    BY <1>2, ThroughIs
  <2>2. x8.rows \in SUBSET Market!PartyIds /\ x8.generation \in Nat
    BY <1>2 DEF Market!RunFits
  <2> QED BY <1>3, <2>1, <2>2
<1>5. /\ Market!DataFits' /\ Market!RunFits' /\ x8'.at = 12 /\ x8'.generation = x8.generation
  BY <1>2, <1>3, <1>4, RebuildKeepsData
<1>6. x8.generation < x10
  BY <1>2 DEF Market!RebuildFits
<1>7. Market!RebuildFits'
  BY <1>3, <1>5, <1>6 DEF Market!RebuildFits
<1>8. /\ x10 \in Nat /\ x6.generation \in Nat /\ x6.generation < x10 /\ x11 \in Nat
      /\ \A row \in x6.rows : row.generation \in Nat /\ row.generation < x10
  BY <1>2 DEF Market!ListFits
<1>9. CASE x8.generation > x6.generation
  <2>1. /\ x6'.generation = x8.generation /\ x6'.count = Cardinality(x8.rows)
        /\ x6'.rows = Market!Above(x8.generation)
    BY <1>3, <1>9, MarketCounts
  <2>2. Market!Live' = Market!RowsOf(x8.generation)
    BY <1>4, <1>8, <2>1 DEF Market!Live, Market!RowsOf, Market!Above
  <2>3. Market!RowsOf(x8.generation) = Market!Written(x8.rows)
    BY <1>2, <1>3, <1>9 DEF Market!RebuildFits
  <2>4. Cardinality(Market!Written(x8.rows)) = Cardinality(x8.rows)
    <3>1. Market!Written(x8.rows) = RowsFor(x8.rows, x8.generation, x11)
      BY DEF Market!Written, RowsFor
    <3> QED BY <1>2, <1>4, <3>1, RowsFinite
  <2>5. Market!SnapshotIsWhole'
    BY <2>1, <2>2, <2>3, <2>4, MarketCounts DEF Market!SnapshotIsWhole
  <2>6. Market!ListFits'
    BY <1>3, <1>4, <1>6, <1>8, <2>1, <2>5 DEF Market!ListFits, Market!Above
  <2> QED BY <1>5, <1>7, <2>6 DEF Market!MarketInv
<1>10. CASE ~(x8.generation > x6.generation)
  <2>1. /\ x6'.generation = x6.generation /\ x6'.count = x6.count
        /\ x6'.rows = Market!Above(x8.generation)
    BY <1>2, <1>3, <1>10 DEF Market!ListFits
  <2>2. Market!Live' = Market!Live
    BY <1>4, <1>8, <1>10, <2>1 DEF Market!Live, Market!Above
  <2>3. Market!ListFits'
    BY <1>2, <1>3, <1>8, <2>1, <2>2 DEF Market!ListFits, Market!Above, Market!SnapshotIsWhole
  <2> QED BY <1>5, <1>7, <2>3 DEF Market!MarketInv
<1> QED BY <1>9, <1>10

(* The run is over: what it notes is there, and what it has made is found. *)
LEMMA Saving == ASSUME Market!MarketInv, Market!saveState PROVE Market!MarketInv'
<1>2. x8 # NULL /\ Market!DataFits /\ Market!RunFits /\ Market!ListFits
  BY DEF Market!saveState, Market!At, Market!MarketInv
<1>3. /\ x8.at = 12 /\ x8' = NULL /\ UNCHANGED <<x1, x2, x3, x4, x5, x6, x10, x11>>
      /\ x7' = [n \in Market!Names |-> IF n \in Titles \ x8.made THEN x7[n] ELSE x8.ids[n]]
      /\ x9' = {x8.ids[n] : n \in x8.made \cap Titles}
  BY <1>2, AtIs DEF Market!saveState, Market!data, Market!bounds
<1>4. Market!There' = Market!There /\ Market!PartyIds' = Market!PartyIds
  BY <1>3 DEF Market!There, Market!PartyIds
<1>5. \A k \in 1..5 : \A n \in x8.made : Market!Past(k, n)
  BY <1>3 DEF Market!Past
<1>6. ASSUME NEW n \in Titles, n \in x8.made
      PROVE  x8.ids[n] \in Market!PartyIds /\ x8.ids[n] \in x4 /\ x8.ids[n] \in x5
  <2>1. Market!Past(3, n) /\ Market!Past(4, n) /\ Market!Past(5, n)
    BY <1>5, <1>6
  <2> QED BY <1>2, <2>1 DEF Market!RunFits
<1>7. ASSUME NEW n \in Market!Names
      PROVE  x8.ids[n] \in Market!There /\ x8.ids[n][1] = n
  <2>1. x8.ids[n][1] = n /\ (n \notin x8.made => x8.ids[n] \in Market!There)
    BY <1>2 DEF Market!RunFits
  <2>2. CASE n \in x8.made
    <3>1. Market!Past(1, n) /\ Market!Past(2, n)
      BY <1>5, <2>2
    <3>2. CASE n \in Titles
      BY <1>6, <2>1, <2>2, <3>2 DEF Market!There
    <3>3. CASE n = category
      BY <1>2, <2>1, <3>1, <3>3 DEF Market!RunFits, Market!There
    <3>4. CASE n = business
      BY <1>2, <2>1, <3>1, <3>4 DEF Market!RunFits, Market!There
    <3> QED BY <3>2, <3>3, <3>4 DEF Market!Names
  <2> QED BY <2>1, <2>2
<1>8. \A n \in Market!Names : x7'[n] # NULL => x7'[n] \in Market!There /\ x7'[n][1] = n
  BY <1>2, <1>3, <1>7 DEF Market!DataFits
<1>9. Market!MadeIsFound'
  BY <1>3, <1>6 DEF Market!MadeIsFound
<1>10. Market!ParentsFirst'
  BY <1>2, <1>3 DEF Market!DataFits, Market!ParentsFirst
<1>11. Market!DataFits'
  BY <1>2, <1>3, <1>4, <1>8, <1>9, <1>10 DEF Market!DataFits
<1> QED BY <1>2, <1>3, <1>11, ListStays DEF Market!MarketInv

(* A run that fails leaves what it has written.                            *)
LEMMA Failing == ASSUME Market!MarketInv, Market!Fails PROVE Market!MarketInv'
<1>1. x8' = NULL /\ UNCHANGED <<x1, x2, x3, x4, x5, x6, x7, x9, x10, x11>>
  BY DEF Market!Fails, Market!data
<1>2. Market!DataFits /\ Market!ListFits
  BY DEF Market!MarketInv
<1>3. Market!DataFits' /\ Market!ListFits'
  BY <1>1, <1>2, ListStays, SeedStays
<1> QED BY <1>1, <1>3 DEF Market!MarketInv

(* A run under way keeps what it is as it is.                              *)
LEMMA RunIsItself ==
  ASSUME Market!RunFits
  PROVE  /\ x8 = [at |-> x8.at, ids |-> x8.ids, made |-> x8.made, done |-> x8.done,
                  generation |-> x8.generation, rows |-> x8.rows]
         /\ x8.at \in 1..12 /\ x8.done \in SUBSET (Market!Names \cup Market!Ids)
         /\ x8.generation \in Nat /\ x8.rows \in SUBSET Market!PartyIds
BY DEF Market!RunFits

(* What others make has no name of the seed, so that a run goes on.        *)
LEMMA RunBeside ==
  ASSUME Market!RunFits, UNCHANGED <<x1, x2, x8>>,
         Market!PartyIds \subseteq Market!PartyIds', x4 \subseteq x4', x5 \subseteq x5',
         \A id \in Market!There' : id \in Market!There \/ id[1] \notin Market!Names
  PROVE  Market!RunFits'
<1>1. \A k, n : Market!Past(k, n)' = Market!Past(k, n)
  BY DEF Market!Past
<1> DEFINE a == x8.at
           d == x8.done
           g == x8.generation
           r == x8.rows
<1>2. /\ a \in 1..12 /\ d \in SUBSET (Market!Names \cup Market!Ids) /\ g \in Nat
      /\ r \in SUBSET Market!PartyIds
      /\ x8 = [at |-> a, ids |-> x8.ids, made |-> x8.made, done |-> d, generation |-> g, rows |-> r]
  BY RunIsItself
<1> HIDE DEF a, d, g, r
<1>3. /\ r \in SUBSET (Market!PartyIds')
      /\ x8' = [at |-> a, ids |-> x8.ids, made |-> x8.made, done |-> d, generation |-> g, rows |-> r]
  <2>1. x8' = x8
    OBVIOUS
  <2> QED BY <1>2, <2>1
<1>4. x1 \subseteq x1' /\ x2 \subseteq x2'
  OBVIOUS
<1> HIDE DEF Market!Past
<1> QED BY <1>1, <1>2, <1>3, <1>4, RunKeeps

(* The rebuild of a run does not know of the tables.                       *)
LEMMA RebuildBeside ==
  ASSUME Market!RebuildFits, UNCHANGED <<x6, x8, x10, x11>> PROVE Market!RebuildFits'
BY DEF Market!RebuildFits, Market!RowsOf, Market!Written

(* Another operator makes a party that is not of the seed.                 *)
LEMMA Foreigner == ASSUME Market!MarketInv, Market!OthersAct PROVE Market!MarketInv'
<1> DEFINE new == [id |-> <<foreign, 0>>, business |-> NULL, category |-> NULL]
<1>1. /\ x3' = x3 \cup {new} /\ x4' = x4 \cup {<<foreign, 0>>}
      /\ UNCHANGED <<x1, x2, x5, x6, x7, x8, x9, x10, x11>>
  BY DEF Market!OthersAct
<1>2. Market!DataFits /\ Market!ListFits
  BY DEF Market!MarketInv
<1>3. foreign \notin Market!Names
  BY SeedAssumption DEF Market!Names
<1>4. new.id = <<foreign, 0>>
  OBVIOUS
<1> HIDE DEF new
<1>5. Market!PartyIds' = Market!PartyIds \cup {<<foreign, 0>>}
  BY <1>1, <1>4 DEF Market!PartyIds
<1>6. Market!There' = Market!There \cup {<<foreign, 0>>}
  BY <1>1, <1>5 DEF Market!There
<1>7. Market!DataFits'
  <2>1. x1' \subseteq {category} \X Nat /\ x2' \subseteq {business} \X Nat
        /\ Market!PartyIds' \subseteq (Titles \cup {foreign}) \X Nat
    BY <1>1, <1>2, <1>5 DEF Market!DataFits
  <2>2. Market!IsFiniteSet(Market!PartyIds')
    <3>1. IsFiniteSet(Market!PartyIds)
      BY <1>2, MarketCounts DEF Market!DataFits
    <3>2. IsFiniteSet(Market!PartyIds \cup {<<foreign, 0>>})
      BY <3>1, FS_AddElement
    <3> QED BY <1>5, <3>2, MarketCounts
  <2>3. \A a, b \in Market!There' : (a[1] \in Market!Names /\ a[1] = b[1]) => a = b
    BY <1>2, <1>3, <1>6 DEF Market!DataFits
  <2>4. Market!ParentsFirst'
    <3>1. foreign \notin Titles
      BY SeedAssumption
    <3> QED BY <1>1, <1>2, <1>4, <3>1 DEF Market!DataFits, Market!ParentsFirst
  <2>5. Market!MadeIsFound' /\ (x5' \cup x4') \subseteq Market!PartyIds'
    BY <1>1, <1>2, <1>5 DEF Market!DataFits, Market!MadeIsFound
  <2>6. \A n \in Market!Names : x7'[n] # NULL => x7'[n] \in Market!There' /\ x7'[n][1] = n
    BY <1>1, <1>2, <1>6 DEF Market!DataFits
  <2> QED BY <2>1, <2>2, <2>3, <2>4, <2>5, <2>6 DEF Market!DataFits
<1>8. Market!ListFits'
  BY <1>1, <1>2, ListStays
<1>9. ASSUME x8 # NULL PROVE Market!RunFits' /\ Market!RebuildFits'
  <2>1. Market!RunFits /\ Market!RebuildFits
    BY <1>9 DEF Market!MarketInv
  <2>2. Market!RunFits'
    BY <1>1, <1>3, <1>5, <1>6, <2>1, RunBeside
  <2> QED BY <1>1, <2>1, <2>2, RebuildBeside
<1> QED BY <1>1, <1>7, <1>8, <1>9 DEF Market!MarketInv

(* An event is taken to the search.                                        *)
LEMMA Relaying == ASSUME Market!MarketInv, NEW id, Market!Relay(id) PROVE Market!MarketInv'
<1>1. /\ id \in x4 /\ x5' = x5 \cup {id} /\ UNCHANGED <<x1, x2, x3, x4, x6, x7, x8, x9, x10, x11>>
  BY DEF Market!Relay, Market!bounds
<1>2. Market!DataFits /\ Market!ListFits
  BY DEF Market!MarketInv
<1>3. Market!PartyIds' = Market!PartyIds /\ Market!There' = Market!There
  BY <1>1 DEF Market!PartyIds, Market!There
<1>4. Market!DataFits'
  BY <1>1, <1>2, <1>3 DEF Market!DataFits, Market!ParentsFirst, Market!MadeIsFound
<1>5. Market!ListFits'
  BY <1>1, <1>2, ListStays
<1>6. ASSUME x8 # NULL PROVE Market!RunFits' /\ Market!RebuildFits'
  <2>1. Market!RunFits /\ Market!RebuildFits
    BY <1>6 DEF Market!MarketInv
  <2>2. Market!RunFits'
    BY <1>1, <1>3, <2>1, RunBeside
  <2> QED BY <1>1, <2>1, <2>2, RebuildBeside
<1> QED BY <1>1, <1>4, <1>5, <1>6 DEF Market!MarketInv

(* The worker publishes a list that is whole, of a generation that is new. *)
LEMMA Publisher == ASSUME Market!MarketInv, Market!Worker PROVE Market!MarketInv'
<1> DEFINE new == {[id |-> id, generation |-> x10, by |-> 0] : id \in Market!PartyIds}
           row(id) == [id |-> id, generation |-> x10, by |-> 0]
<1>1. /\ x10' = x10 + 2 /\ UNCHANGED <<x1, x2, x3, x4, x5, x7, x8, x9, x11>>
      /\ x6' = [generation |-> x10, count |-> Market!Cardinality(Market!PartyIds),
                rows |-> Market!Above(x10) \cup new]
  BY DEF Market!Worker, Market!Tick, Market!Move, Market!data
<1>2. Market!DataFits /\ Market!ListFits
  BY DEF Market!MarketInv
<1>3. /\ x10 \in Nat /\ x6.generation \in Nat /\ x6.generation < x10 /\ x11 \in Nat
      /\ \A r \in x6.rows : r.generation \in Nat /\ r.generation < x10
  BY <1>2 DEF Market!ListFits
<1>4. Market!Above(x10) = {}
  BY <1>3 DEF Market!Above
<1>5. /\ new = RowsFor(Market!PartyIds, x10, 0)
      /\ \A r \in new : r.generation = x10
  BY DEF RowsFor
<1> HIDE DEF new
<1>6. /\ x6'.generation = x10 /\ x6'.count = Cardinality(Market!PartyIds) /\ x6'.rows = new
  BY <1>1, <1>4, MarketCounts
<1>7. Market!ListFits'
  <2>1. Market!Live' = new
    BY <1>5, <1>6 DEF Market!Live
  <2>2. Cardinality(new) = Cardinality(Market!PartyIds)
    BY <1>2, <1>5, RowsFinite
  <2>3. Market!SnapshotIsWhole'
    BY <1>6, <2>1, <2>2, MarketCounts DEF Market!SnapshotIsWhole
  <2> QED BY <1>1, <1>3, <1>5, <1>6, <2>3 DEF Market!ListFits
<1>8. Market!DataFits'
  BY <1>1, <1>2, SeedStays
<1>9. ASSUME x8 # NULL PROVE Market!RunFits' /\ Market!RebuildFits'
  <2>1. Market!RunFits /\ Market!RebuildFits
    BY <1>9 DEF Market!MarketInv
  <2>2. Market!PartyIds' = Market!PartyIds /\ Market!There' = Market!There
    BY <1>1 DEF Market!PartyIds, Market!There
  <2>3. Market!RunFits'
    BY <1>1, <2>1, <2>2, RunBeside
  <2>4. x8.generation \in Nat /\ x8.generation < x10 /\ x8' = x8
        /\ (x8.at = 10 => x8.done \subseteq x8.rows)
    BY <1>1, <2>1 DEF Market!RunFits, Market!RebuildFits
  <2>5. Market!RebuildFits'
    BY <1>1, <1>3, <1>6, <2>4 DEF Market!RebuildFits
  <2> QED BY <2>3, <2>5
<1> QED BY <1>1, <1>7, <1>8, <1>9 DEF Market!MarketInv

(* Every step keeps it.                                                    *)
LEMMA MarketKeeps == ASSUME Market!MarketInv, Market!Next PROVE Market!MarketInv'
<1>1. ASSUME NEW n \in Market!Names, Market!Write(n) PROVE Market!MarketInv'
  BY <1>1, Writing
<1>2. ASSUME NEW id \in Market!PartyIds, Market!Insert(id) \/ Market!Relay(id)
      PROVE  Market!MarketInv'
  BY <1>2, Inserting, Relaying
<1> QED BY <1>1, <1>2, Starting, WritingEnds, Generating, Reading, Raising, Clearing,
          InsertingEnds, Publishing, Saving, Failing, Foreigner, Publisher DEF Market!Next

(* What it says of the seed.                                               *)
LEMMA MarketDone ==
  ASSUME Market!MarketInv
  PROVE  /\ Market!TypeOK /\ Market!OneOfEach /\ Market!ParentsFirst
         /\ Market!SnapshotIsWhole /\ Market!MadeIsFound
<1>1. Market!DataFits /\ Market!ListFits /\ (x8 # NULL => Market!RunFits)
  BY DEF Market!MarketInv
<1>2. Market!TypeOK
  BY <1>1, StepsAre DEF Market!DataFits, Market!RunFits, Market!TypeOK
<1>3. ASSUME NEW n \in Market!Names
      PROVE  Market!Cardinality({id \in Market!There : id[1] = n}) <= 1
  <2> DEFINE S == {id \in Market!There : id[1] = n}
  <2>1. \A a, b \in S : a = b
    BY <1>1 DEF Market!DataFits
  <2> HIDE DEF S
  <2>2. Cardinality(S) <= 1
    BY <2>1, OneAtMost
  <2> QED BY <2>2, MarketCounts DEF S
<1> QED BY <1>1, <1>2, <1>3 DEF Market!DataFits, Market!ListFits, Market!OneOfEach

-----------------------------------------------------------------------------
(* So does the other script.                                               *)
LEMMA RegisteringCounts ==
  ASSUME NEW S PROVE Registering!Cardinality(S) = Cardinality(S)
BY Zenon DEF Registering!Cardinality, Cardinality

(* What there is of an item can be counted.                                *)
LEMMA CopiesCount ==
  ASSUME Registering!ServerFits, NEW item
  PROVE  /\ IsFiniteSet(Registering!Copies(item))
         /\ Registering!Copies(item) \subseteq 1..Len(x1)
         /\ Cardinality(Registering!Copies(item)) \in Nat
<1>1. Len(x1) \in Nat /\ DOMAIN x1 = 1..Len(x1)
  BY DEF Registering!ServerFits
<1>2. Registering!Copies(item) \subseteq 1..Len(x1)
  BY <1>1 DEF Registering!Copies
<1>3. IsFiniteSet(1..Len(x1))
  BY <1>1, FS_Interval
<1> QED BY <1>2, <1>3, FS_Subset, FS_CardinalityType

(* A resource that is made is the last there is.                           *)
LEMMA MadeIs ==
  ASSUME Registering!ServerFits, NEW item \in Registering!ItemSet, item = Registering!Item,
         x1' = Registering!Made
  PROVE  /\ Registering!ServerFits' /\ Len(x1) \in Nat
         /\ DOMAIN x1 = 1..Len(x1) /\ DOMAIN x1' = 1..(Len(x1) + 1)
         /\ \A id \in DOMAIN x1 : x1'[id] = x1[id]
         /\ x1'[Len(x1) + 1].item = item
         /\ Cardinality(Registering!Copies(item)') = Cardinality(Registering!Copies(item)) + 1
         /\ \A other : other # item => Registering!Copies(other)' = Registering!Copies(other)
<1> DEFINE new == [item |-> item, status |-> "DRAFT", version |-> 0, projected |-> FALSE, foreign |-> NULL]
<1>1. /\ new \in Registering!Resources /\ new.item = item /\ new.foreign = NULL
      /\ x1' = Append(x1, new)
  BY DEF Registering!Resources, Registering!Made
<1> HIDE DEF new
<1>2. x1 \in Seq(Registering!Resources) /\ Len(x1) \in Nat /\ DOMAIN x1 = 1..Len(x1)
  BY DEF Registering!ServerFits
<1>3. /\ x1' \in Seq(Registering!Resources) /\ DOMAIN x1' = 1..(Len(x1) + 1)
      /\ x1'[Len(x1) + 1] = new /\ \A id \in DOMAIN x1 : x1'[id] = x1[id]
  BY <1>1, <1>2
<1>4. \A id \in DOMAIN x1' : id \in DOMAIN x1 \/ id = Len(x1) + 1
  BY <1>2, <1>3
<1>5. Registering!ServerFits'
  <2>1. Registering!OthersAreLeftAlone'
    BY <1>1, <1>3, <1>4 DEF Registering!ServerFits, Registering!OthersAreLeftAlone
  <2>2. \A id \in DOMAIN x1' : x1'[id].foreign # NULL => x1'[id].version # 0
    BY <1>1, <1>3, <1>4 DEF Registering!ServerFits
  <2> QED BY <1>3, <2>1, <2>2 DEF Registering!ServerFits
<1>6. /\ Registering!Copies(item)' = Registering!Copies(item) \cup {Len(x1) + 1}
      /\ \A other : other # item => Registering!Copies(other)' = Registering!Copies(other)
  BY <1>1, <1>2, <1>3, <1>4 DEF Registering!Copies
<1>7. Cardinality(Registering!Copies(item)') = Cardinality(Registering!Copies(item)) + 1
  <2>1. Len(x1) + 1 \notin Registering!Copies(item)
    BY <1>2, CopiesCount
  <2> QED BY <1>6, <2>1, CopiesCount, FS_AddElement
<1> QED BY <1>1, <1>2, <1>3, <1>5, <1>6, <1>7

(* What is there stays what it is, and nothing becomes a draft.            *)
InPlace ==
  /\ DOMAIN x1' = DOMAIN x1
  /\ \A k \in DOMAIN x1 : /\ x1'[k].item = x1[k].item
                          /\ x1'[k].status = "DRAFT" => x1[k].status = "DRAFT"
  /\ \A item : Registering!Copies(item)' = Registering!Copies(item)

(* So it is when a resource changes.                                       *)
LEMMA ChangedIs ==
  ASSUME Registering!ServerFits, NEW id \in DOMAIN x1, NEW new \in Registering!Resources,
         x1' = [x1 EXCEPT ![id] = new], new.item = x1[id].item,
         new.status = "DRAFT" => x1[id].status = "DRAFT",
         new.foreign \in {NULL, new.status}, new.foreign # NULL => new.version # 0
  PROVE  Registering!ServerFits' /\ InPlace
<1>1. x1 \in Seq(Registering!Resources)
  BY DEF Registering!ServerFits
<1>2. /\ x1' \in Seq(Registering!Resources) /\ DOMAIN x1' = DOMAIN x1
      /\ \A k \in DOMAIN x1 : x1'[k] = IF k = id THEN new ELSE x1[k]
  BY <1>1
<1>3. Registering!ServerFits'
  BY <1>2 DEF Registering!ServerFits, Registering!OthersAreLeftAlone
<1>4. \A k \in DOMAIN x1 : /\ x1'[k].item = x1[k].item
                           /\ x1'[k].status = "DRAFT" => x1[k].status = "DRAFT"
  BY <1>2
<1>5. \A item : Registering!Copies(item)' = Registering!Copies(item)
  BY <1>2, <1>4 DEF Registering!Copies
<1> QED BY <1>2, <1>3, <1>4, <1>5 DEF InPlace

(* Parties change beside a run, or without one.                            *)
LEMMA BesideKeeps ==
  ASSUME Registering!PartiesInv, Registering!ServerFits', InPlace, UNCHANGED <<x2, x3, x4, x5>>
  PROVE  Registering!PartiesInv'
<1>1. /\ Registering!NotedFits(x2) /\ Registering!CountsFit /\ (x3 # NULL => Registering!RunFits)
      /\ (x4 # NULL => x4.made \subseteq DOMAIN x1) /\ Registering!CompletedIsWhole
  BY DEF Registering!PartiesInv
<1>2. Registering!NotedFits(x2)'
  BY <1>1 DEF Registering!NotedFits, InPlace
<1>3. ASSUME x3 # NULL PROVE Registering!RunFits' /\ x3.made \subseteq DOMAIN x1
  <2>1. Registering!RunFits
    BY <1>1, <1>3
  <2>2. Registering!NotedFits(x3.state)'
    BY <2>1 DEF Registering!RunFits, Registering!NotedFits, InPlace
  <2>3. x3.status = "RECRUITING" => \A id \in x3.made :
          (x1'[id].item \in Titles /\ x1'[id].status = "DRAFT") =>
             id \in x3.held \/ \E k \in DOMAIN x3.pending : x3.pending[k].id = id
    BY <2>1 DEF Registering!RunFits, InPlace
  <2>4. \A k \in DOMAIN x3.pending :
          x3.pending[k].id \in DOMAIN x1' /\ x1'[x3.pending[k].id].item \in Titles
    BY <2>1 DEF Registering!RunFits, InPlace
  <2>5. /\ x3 \in Registering!Runs /\ x3.made \subseteq DOMAIN x1
        /\ \A item \in Registering!ItemSet : x2[item] # NULL => x3.state[item] # NULL
        /\ \A k \in 1..Len(SeedItems) :
             (k < x3.at /\ SeedItems[k] \in Registering!Targets(x3.limit)) =>
               x3.state[SeedItems[k]] # NULL
    BY <2>1 DEF Registering!RunFits
  <2> QED BY <2>2, <2>3, <2>4, <2>5 DEF Registering!RunFits, InPlace
<1>4. Registering!CountsFit'
  <2>1. \A item \in Registering!ItemSet : Registering!Own(item)' <=> Registering!Own(item)
    BY <1>3 DEF Registering!Own, InPlace
  <2>2. \A item : Registering!Copies(item)' = Registering!Copies(item)
    BY DEF InPlace
  <2> HIDE DEF InPlace
  <2> QED BY <1>1, <2>1, <2>2 DEF Registering!CountsFit
<1>5. /\ (x4' # NULL => x4'.made \subseteq DOMAIN x1') /\ Registering!CompletedIsWhole'
  BY <1>1 DEF Registering!CompletedIsWhole, InPlace
<1> QED BY <1>2, <1>3, <1>4, <1>5 DEF Registering!PartiesInv

(* The projection follows.                                                 *)
LEMMA Projecting ==
  ASSUME Registering!PartiesInv, NEW id \in DOMAIN x1, Registering!Project(id)
  PROVE  Registering!PartiesInv'
<1> DEFINE new == [x1[id] EXCEPT !.projected = TRUE]
<1>1. x1' = [x1 EXCEPT ![id] = new] /\ UNCHANGED <<x2, x3, x4, x5>>
  BY DEF Registering!Project
<1>2. Registering!ServerFits
  BY DEF Registering!PartiesInv
<1>3. x1[id] \in Registering!Resources
  BY <1>2 DEF Registering!ServerFits
<1>4. /\ new \in Registering!Resources /\ new.item = x1[id].item /\ new.status = x1[id].status
      /\ new.foreign = x1[id].foreign /\ new.version = x1[id].version
  BY <1>3 DEF Registering!Resources
<1>5. x1[id].foreign \in {NULL, x1[id].status} /\ (x1[id].foreign # NULL => x1[id].version # 0)
  BY <1>2 DEF Registering!ServerFits, Registering!OthersAreLeftAlone
<1> HIDE DEF new
<1>6. Registering!ServerFits' /\ InPlace
  BY <1>1, <1>2, <1>4, <1>5, ChangedIs
<1> QED BY <1>1, <1>6, BesideKeeps

(* A resource that is turned has a version of its own.                     *)
LEMMA TurnedIs ==
  ASSUME Registering!ServerFits, NEW id \in DOMAIN x1, NEW to \in {"RECRUITING", "CANCELLED"},
         NEW by \in {NULL, to}, x1' = Registering!Turned(id, to, by)
  PROVE  /\ Registering!ServerFits' /\ InPlace /\ x1'[id].status = to
<1> DEFINE new == [item |-> x1[id].item, status |-> to, version |-> x1[id].version + 1,
                   projected |-> x1[id].projected, foreign |-> by]
<1>1. x1' = [x1 EXCEPT ![id] = new]
  BY DEF Registering!Turned
<1>2. x1[id] \in Registering!Resources
  BY DEF Registering!ServerFits
<1>3. /\ new \in Registering!Resources /\ new.item = x1[id].item /\ new.status = to
      /\ new.foreign = by /\ new.version # 0
  BY <1>2 DEF Registering!Resources
<1> HIDE DEF new
<1>4. new.status # "DRAFT" /\ new.foreign \in {NULL, new.status}
  BY <1>3
<1>5. Registering!ServerFits' /\ InPlace
  BY <1>1, <1>3, <1>4, ChangedIs
<1> QED BY <1>1, <1>3, <1>5

(* Somebody else opens or cancels a party.                                 *)
LEMMA Meddling ==
  ASSUME Registering!PartiesInv, NEW id \in DOMAIN x1, Registering!OthersAct(id)
  PROVE  Registering!PartiesInv'
<1>1. PICK to \in {"RECRUITING", "CANCELLED"} : x1' = Registering!Turned(id, to, to)
  BY DEF Registering!OthersAct
<1>2. UNCHANGED <<x2, x3, x4, x5>>
  BY DEF Registering!OthersAct
<1>3. Registering!ServerFits
  BY DEF Registering!PartiesInv
<1>4. Registering!ServerFits' /\ InPlace
  BY <1>1, <1>3, TurnedIs
<1> QED BY <1>2, <1>4, BesideKeeps

(* A run ends: its notes are the ledger's.                                 *)
LEMMA EndKeeps ==
  ASSUME Registering!PartiesInv, x3 # NULL, x3' = NULL, Registering!ServerFits',
         Registering!NotedFits(x2)', Registering!CompletedIsWhole',
         x4'.made = x3.made, DOMAIN x1 \subseteq DOMAIN x1', x5' \in [Registering!ItemSet -> Nat],
         \A item \in Registering!ItemSet :
           Cardinality(Registering!Copies(item)') <= x5'[item] + Registering!One(x2'[item])
  PROVE  Registering!PartiesInv'
<1>1. x3.made \subseteq DOMAIN x1
  BY DEF Registering!PartiesInv, Registering!RunFits
<1>2. Registering!CountsFit'
  BY RegisteringCounts DEF Registering!CountsFit
<1> QED BY <1>1, <1>2 DEF Registering!PartiesInv

(* What a run is made of.                                                  *)
LEMMA RunIs ==
  ASSUME Registering!RunFits
  PROVE  /\ x3 = [status |-> x3.status, limit |-> x3.limit, at |-> x3.at, pending |-> x3.pending,
                  attempt |-> x3.attempt, held |-> x3.held, made |-> x3.made, state |-> x3.state]
         /\ x3.status \in {"RECRUITING", "DRAFT"} /\ x3.limit \in Int \cup {NULL}
         /\ x3.at \in 1..Len(SeedItems) + 1 /\ x3.pending \in Seq([id : Nat, version : {0}])
         /\ x3.attempt \in 1..TRANSITION_ATTEMPTS /\ x3.held \in SUBSET Nat
         /\ x3.made \in SUBSET Nat /\ x3.state \in [Registering!ItemSet -> Nat \cup {NULL}]
BY DEF Registering!RunFits, Registering!Runs

(* Where nothing changes, everything is in its place.                      *)
LEMMA StillInPlace ==
  ASSUME Registering!ServerFits, x1' = x1 PROVE Registering!ServerFits' /\ InPlace
BY DEF Registering!ServerFits, Registering!OthersAreLeftAlone, InPlace, Registering!Copies

(* A run goes on: what it leaves behind is noted, and what it takes from   *)
(* the list of those to open is open, or held back.                        *)
LEMMA OnwardKeeps ==
  ASSUME Registering!PartiesInv, x3 # NULL, Registering!ServerFits', InPlace,
         UNCHANGED <<x2, x4, x5>>, x3' \in Registering!Runs, x3'.state = x3.state,
         x3'.made = x3.made, x3'.status = x3.status, x3'.limit = x3.limit, x3.held \subseteq x3'.held,
         \A k \in 1..Len(SeedItems) :
           (k < x3'.at /\ SeedItems[k] \in Registering!Targets(x3.limit)) =>
             x3.state[SeedItems[k]] # NULL,
         \A k \in DOMAIN x3'.pending :
           \E j \in DOMAIN x3.pending : x3.pending[j].id = x3'.pending[k].id,
         \A k \in DOMAIN x3.pending :
           \/ x1'[x3.pending[k].id].status # "DRAFT" \/ x3.pending[k].id \in x3'.held
           \/ \E j \in DOMAIN x3'.pending : x3'.pending[j].id = x3.pending[k].id
  PROVE  Registering!PartiesInv'
<1>1. /\ Registering!NotedFits(x2) /\ Registering!CountsFit /\ Registering!RunFits
      /\ (x4 # NULL => x4.made \subseteq DOMAIN x1) /\ Registering!CompletedIsWhole
  BY DEF Registering!PartiesInv
<1>2. Registering!NotedFits(x2)'
  BY <1>1 DEF Registering!NotedFits, InPlace
<1>3. x3' # NULL /\ x3.made \subseteq DOMAIN x1
  BY <1>1, RunAssumption DEF Registering!RunFits
<1>4. Registering!RunFits'
  <2>1. Registering!NotedFits(x3.state)'
    BY <1>1 DEF Registering!RunFits, Registering!NotedFits, InPlace
  <2>2. x3'.status = "RECRUITING" => \A id \in x3'.made :
          (x1'[id].item \in Titles /\ x1'[id].status = "DRAFT") =>
             id \in x3'.held \/ \E k \in DOMAIN x3'.pending : x3'.pending[k].id = id
    <3> SUFFICES ASSUME x3.status = "RECRUITING", NEW id \in x3.made,
                        x1'[id].item \in Titles, x1'[id].status = "DRAFT"
                 PROVE  id \in x3'.held \/ \E k \in DOMAIN x3'.pending : x3'.pending[k].id = id
      OBVIOUS
    <3>1. id \in DOMAIN x1
      BY <1>3
    <3>2. x1[id].item \in Titles /\ x1[id].status = "DRAFT"
      BY <3>1 DEF InPlace
    <3>3. id \in x3.held \/ \E k \in DOMAIN x3.pending : x3.pending[k].id = id
      BY <1>1, <3>2 DEF Registering!RunFits
    <3> QED BY <3>3
  <2>3. \A k \in DOMAIN x3'.pending :
          x3'.pending[k].id \in DOMAIN x1' /\ x1'[x3'.pending[k].id].item \in Titles
    BY <1>1 DEF Registering!RunFits, InPlace
  <2>4. /\ x3'.made \subseteq DOMAIN x1'
        /\ \A item \in Registering!ItemSet : x2[item] # NULL => x3.state[item] # NULL
    BY <1>1 DEF Registering!RunFits, InPlace
  <2>5. \A k \in 1..Len(SeedItems) :
          (k < x3'.at /\ SeedItems[k] \in Registering!Targets(x3'.limit)) =>
            x3'.state[SeedItems[k]] # NULL
    OBVIOUS
  <2> QED BY <2>1, <2>2, <2>3, <2>4, <2>5 DEF Registering!RunFits
<1>5. Registering!CountsFit'
  <2>1. \A item \in Registering!ItemSet : Registering!Own(item)' <=> Registering!Own(item)
    BY <1>3 DEF Registering!Own, InPlace
  <2>2. \A item : Registering!Copies(item)' = Registering!Copies(item)
    BY DEF InPlace
  <2> HIDE DEF InPlace
  <2> QED BY <1>1, <2>1, <2>2 DEF Registering!CountsFit
<1>6. /\ (x4' # NULL => x4'.made \subseteq DOMAIN x1') /\ Registering!CompletedIsWhole'
  BY <1>1 DEF Registering!CompletedIsWhole, InPlace
<1> QED BY <1>2, <1>4, <1>5, <1>6 DEF Registering!PartiesInv

(* What is noted is passed over.                                           *)
LEMMA Passing == ASSUME Registering!PartiesInv, Registering!Keep PROVE Registering!PartiesInv'
<1>1. /\ x3 # NULL /\ x3.at <= Len(SeedItems) /\ UNCHANGED <<x1, x2, x4, x5>>
      /\ x3.state[SeedItems[x3.at]] # NULL \/ SeedItems[x3.at] \notin Registering!Targets(x3.limit)
      /\ x3' = [x3 EXCEPT !.at = x3.at + 1]
  BY DEF Registering!Keep, Registering!Creating, Registering!Item
<1>2. Registering!RunFits /\ Registering!ServerFits
  BY <1>1 DEF Registering!PartiesInv
<1>3. Len(SeedItems) \in Nat /\ x3.at \in 1..Len(SeedItems)
  BY <1>1, <1>2, RunIs, SeedAssumption
<1>4. /\ x3' \in Registering!Runs /\ x3'.state = x3.state /\ x3'.made = x3.made
      /\ x3'.status = x3.status /\ x3'.limit = x3.limit /\ x3'.held = x3.held
      /\ x3'.pending = x3.pending /\ x3'.at = x3.at + 1
  <2>1. x3.at + 1 \in 1..Len(SeedItems) + 1
    BY <1>3
  <2>2. x3' = [status |-> x3.status, limit |-> x3.limit, at |-> x3.at + 1, pending |-> x3.pending,
               attempt |-> x3.attempt, held |-> x3.held, made |-> x3.made, state |-> x3.state]
    BY <1>1, <1>2, RunIs
  <2> QED BY <1>2, <2>1, <2>2, RunIs DEF Registering!Runs
<1>5. ASSUME NEW k \in 1..Len(SeedItems), k < x3'.at, SeedItems[k] \in Registering!Targets(x3.limit)
      PROVE  x3.state[SeedItems[k]] # NULL
  <2>1. CASE k = x3.at
    BY <1>1, <1>5, <2>1
  <2>2. CASE k < x3.at
    BY <1>2, <1>5, <2>2 DEF Registering!RunFits
  <2> QED BY <1>3, <1>4, <1>5, <2>1, <2>2
<1>6. Registering!ServerFits' /\ InPlace
  BY <1>1, <1>2, StillInPlace
<1> QED BY <1>1, <1>4, <1>5, <1>6, OnwardKeeps

(* The first of those to open is taken from them.                          *)
LEMMA NextIs ==
  ASSUME Registering!RunFits, Registering!Promoting
  PROVE  /\ 1 \in DOMAIN x3.pending /\ x3.pending[1].id \in Nat
         /\ x3.pending[1].id \in DOMAIN x1 /\ x3.pending[1].version = 0
         /\ Registering!Next1 \in Registering!Runs
         /\ Registering!Next1 =
              [status |-> x3.status, limit |-> x3.limit, at |-> x3.at, pending |-> Tail(x3.pending),
               attempt |-> 1, held |-> x3.held, made |-> x3.made, state |-> x3.state]
         /\ \A k \in DOMAIN Tail(x3.pending) :
              \E j \in DOMAIN x3.pending : x3.pending[j] = Tail(x3.pending)[k]
         /\ \A k \in DOMAIN x3.pending :
              k = 1 \/ \E j \in DOMAIN Tail(x3.pending) : Tail(x3.pending)[j] = x3.pending[k]
<1> DEFINE rest == Tail(x3.pending)
           h == [x3 EXCEPT !.pending = rest]
<1>1. x3.pending \in Seq([id : Nat, version : {0}]) /\ x3.pending # <<>>
  BY RunIs DEF Registering!Promoting
<1>2. /\ 1 \in DOMAIN x3.pending /\ rest \in Seq([id : Nat, version : {0}])
      /\ DOMAIN x3.pending = 1..Len(x3.pending) /\ Len(x3.pending) \in Nat
      /\ DOMAIN rest = 1..(Len(x3.pending) - 1)
      /\ \A k \in DOMAIN rest : rest[k] = x3.pending[k + 1]
  BY <1>1
<1>3. /\ x3.pending[1].id \in DOMAIN x1 /\ x3.pending[1].version = 0
      /\ x3.pending[1].id \in Nat
  <2>1. x3.pending[1] \in [id : Nat, version : {0}]
    <3> DEFINE Entries == [id : Nat, version : {0}]
    <3>1. x3.pending \in Seq(Entries) /\ 1 \in DOMAIN x3.pending
      BY <1>1, <1>2
    <3> HIDE DEF Entries
    <3>2. x3.pending[1] \in Entries
      BY <3>1
    <3> QED BY <3>2 DEF Entries
  <2>2. x3.pending[1].id \in DOMAIN x1
    BY <1>2 DEF Registering!RunFits
  <2> QED BY <2>1, <2>2
<1>4. ASSUME NEW k \in DOMAIN rest PROVE \E j \in DOMAIN x3.pending : x3.pending[j] = rest[k]
  <2>1. k + 1 \in DOMAIN x3.pending /\ x3.pending[k + 1] = rest[k]
    BY <1>2
  <2> QED BY <2>1
<1>5. ASSUME NEW k \in DOMAIN x3.pending, k # 1
      PROVE  \E j \in DOMAIN rest : rest[j] = x3.pending[k]
  <2>1. k - 1 \in DOMAIN rest /\ (k - 1) + 1 = k
    BY <1>2, <1>5
  <2> QED BY <1>2, <2>1
<1> HIDE DEF rest
<1>6. h = [status |-> x3.status, limit |-> x3.limit, at |-> x3.at, pending |-> rest,
           attempt |-> x3.attempt, held |-> x3.held, made |-> x3.made, state |-> x3.state]
  BY RunIs
<1>7. Registering!Next1 = [h EXCEPT !.attempt = 1]
  BY DEF Registering!Next1, rest
<1> HIDE DEF h
<1>8. Registering!Next1 =
        [status |-> x3.status, limit |-> x3.limit, at |-> x3.at, pending |-> rest,
         attempt |-> 1, held |-> x3.held, made |-> x3.made, state |-> x3.state]
  BY <1>6, <1>7
<1>9. Registering!Next1 \in Registering!Runs
  <2>1. 1 \in 1..TRANSITION_ATTEMPTS
    BY SeedAssumption
  <2> QED BY <1>2, <1>8, <2>1, RunIs DEF Registering!Runs
<1> QED BY <1>2, <1>3, <1>4, <1>5, <1>8, <1>9 DEF rest

(* The party is not known yet: it is left for later, or held back.         *)
LEMMA Waiting ==
  ASSUME Registering!PartiesInv, Registering!NotProjected PROVE Registering!PartiesInv'
<1>1. /\ x3 # NULL /\ UNCHANGED <<x1, x2, x4, x5>> /\ Registering!Promoting
      /\ x3' = IF x3.attempt = TRANSITION_ATTEMPTS
               THEN [Registering!Next1 EXCEPT !.held = x3.held \cup {x3.pending[1].id}]
               ELSE [x3 EXCEPT !.attempt = x3.attempt + 1]
  BY DEF Registering!NotProjected, Registering!Promoting, Registering!Entry
<1>2. Registering!RunFits /\ Registering!ServerFits
  BY <1>1 DEF Registering!PartiesInv
<1>3. Registering!ServerFits' /\ InPlace
  BY <1>1, <1>2, StillInPlace
<1>4. \A k \in 1..Len(SeedItems) :
        (k < x3.at /\ SeedItems[k] \in Registering!Targets(x3.limit)) =>
          x3.state[SeedItems[k]] # NULL
  BY <1>2 DEF Registering!RunFits
<1>5. CASE x3.attempt = TRANSITION_ATTEMPTS
  <2> DEFINE held == x3.held \cup {x3.pending[1].id}
             rest == Tail(x3.pending)
  <2>1. /\ x3.pending[1].id \in DOMAIN x1 /\ 1 \in DOMAIN x3.pending
        /\ Registering!Next1 \in Registering!Runs
        /\ Registering!Next1 =
             [status |-> x3.status, limit |-> x3.limit, at |-> x3.at, pending |-> rest,
              attempt |-> 1, held |-> x3.held, made |-> x3.made, state |-> x3.state]
        /\ \A k \in DOMAIN rest : \E j \in DOMAIN x3.pending : x3.pending[j] = rest[k]
        /\ \A k \in DOMAIN x3.pending : k = 1 \/ \E j \in DOMAIN rest : rest[j] = x3.pending[k]
    BY <1>1, <1>2, NextIs
  <2>2. held \in SUBSET Nat /\ x3.held \subseteq held /\ x3.pending[1].id \in held
    <3>1. x3.pending[1].id \in Nat
      BY <1>1, <1>2, NextIs
    <3> QED BY <1>2, <3>1, RunIs
  <2>3. x3' = [Registering!Next1 EXCEPT !.held = held]
    BY <1>1, <1>5
  <2> HIDE DEF held, rest
  <2>4. x3' = [status |-> x3.status, limit |-> x3.limit, at |-> x3.at, pending |-> rest,
               attempt |-> 1, held |-> held, made |-> x3.made, state |-> x3.state]
    BY <2>1, <2>3
  <2>5. x3' \in Registering!Runs
    BY <2>1, <2>2, <2>4 DEF Registering!Runs
  <2>6. \A k \in DOMAIN x3'.pending :
          \E j \in DOMAIN x3.pending : x3.pending[j].id = x3'.pending[k].id
    BY <2>1, <2>4
  <2>7. \A k \in DOMAIN x3.pending :
          \/ x1'[x3.pending[k].id].status # "DRAFT" \/ x3.pending[k].id \in x3'.held
          \/ \E j \in DOMAIN x3'.pending : x3'.pending[j].id = x3.pending[k].id
    BY <2>1, <2>2, <2>4
  <2>8. /\ x3'.state = x3.state /\ x3'.made = x3.made /\ x3'.status = x3.status
        /\ x3'.limit = x3.limit /\ x3.held \subseteq x3'.held /\ x3'.at = x3.at
    BY <2>2, <2>4
  <2> QED BY <1>1, <1>3, <1>4, <2>5, <2>6, <2>7, <2>8, OnwardKeeps
<1>6. CASE x3.attempt # TRANSITION_ATTEMPTS
  <2>1. x3.attempt + 1 \in 1..TRANSITION_ATTEMPTS
    BY <1>2, <1>6, RunIs, SeedAssumption
  <2>2. x3' = [status |-> x3.status, limit |-> x3.limit, at |-> x3.at, pending |-> x3.pending,
               attempt |-> x3.attempt + 1, held |-> x3.held, made |-> x3.made, state |-> x3.state]
    BY <1>1, <1>2, <1>6, RunIs
  <2>3. x3' \in Registering!Runs
    BY <1>2, <2>1, <2>2, RunIs DEF Registering!Runs
  <2>4. /\ x3'.state = x3.state /\ x3'.made = x3.made /\ x3'.status = x3.status /\ x3'.held = x3.held
        /\ x3'.limit = x3.limit /\ x3'.at = x3.at /\ x3'.pending = x3.pending
    BY <2>2
  <2> QED BY <1>1, <1>3, <1>4, <2>3, <2>4, OnwardKeeps
<1> QED BY <1>5, <1>6

(* At the version it was made with, nobody else has changed a party.       *)
LEMMA OpenedIs ==
  ASSUME Registering!ServerFits, Registering!RunFits, Registering!Promoting,
         Registering!Party.version = Registering!Entry.version, x1' = Registering!Opened
  PROVE  /\ Registering!ServerFits' /\ InPlace
         /\ x1'[x3.pending[1].id].status # "DRAFT"
<1> DEFINE id == x3.pending[1].id
           by == x1[id].foreign
<1>1. id \in DOMAIN x1 /\ x1[id].version = 0
  BY NextIs DEF Registering!Party, Registering!Entry
<1>2. by \in {NULL, "RECRUITING"}
  BY <1>1 DEF Registering!ServerFits
<1>3. x1' = Registering!Turned(id, "RECRUITING", by)
  BY DEF Registering!Opened, Registering!Party, Registering!Entry
<1> HIDE DEF id, by
<1>4. Registering!ServerFits' /\ InPlace /\ x1'[id].status = "RECRUITING"
  BY <1>1, <1>2, <1>3, TurnedIs
<1> QED BY <1>4 DEF id

(* A party is opened.                                                      *)
LEMMA Promoted ==
  ASSUME Registering!PartiesInv, Registering!promoteToRecruiting PROVE Registering!PartiesInv'
<1> DEFINE rest == Tail(x3.pending)
<1>1. /\ x3 # NULL /\ UNCHANGED <<x2, x4, x5>> /\ Registering!Promoting
      /\ x1' = Registering!Opened /\ x3' = Registering!Next1
      /\ Registering!Party.version = Registering!Entry.version
  BY DEF Registering!promoteToRecruiting, Registering!Promoting
<1>2. Registering!RunFits /\ Registering!ServerFits
  BY <1>1 DEF Registering!PartiesInv
<1>3. Registering!ServerFits' /\ InPlace /\ x1'[x3.pending[1].id].status # "DRAFT"
  BY <1>1, <1>2, OpenedIs
<1>4. /\ x3' \in Registering!Runs
      /\ x3' = [status |-> x3.status, limit |-> x3.limit, at |-> x3.at, pending |-> rest,
                attempt |-> 1, held |-> x3.held, made |-> x3.made, state |-> x3.state]
      /\ \A k \in DOMAIN rest : \E j \in DOMAIN x3.pending : x3.pending[j] = rest[k]
      /\ \A k \in DOMAIN x3.pending : k = 1 \/ \E j \in DOMAIN rest : rest[j] = x3.pending[k]
  BY <1>1, <1>2, NextIs
<1> HIDE DEF rest
<1>5. /\ x3'.state = x3.state /\ x3'.made = x3.made /\ x3'.status = x3.status
      /\ x3'.limit = x3.limit /\ x3'.held = x3.held /\ x3'.at = x3.at /\ x3'.pending = rest
  BY <1>4
<1>6. \A k \in 1..Len(SeedItems) :
        (k < x3'.at /\ SeedItems[k] \in Registering!Targets(x3.limit)) =>
          x3.state[SeedItems[k]] # NULL
  BY <1>2, <1>5 DEF Registering!RunFits
<1>7. \A k \in DOMAIN x3'.pending :
        \E j \in DOMAIN x3.pending : x3.pending[j].id = x3'.pending[k].id
  BY <1>4, <1>5
<1>8. \A k \in DOMAIN x3.pending :
        \/ x1'[x3.pending[k].id].status # "DRAFT" \/ x3.pending[k].id \in x3'.held
        \/ \E j \in DOMAIN x3'.pending : x3'.pending[j].id = x3.pending[k].id
  BY <1>3, <1>4, <1>5
<1> QED BY <1>1, <1>3, <1>4, <1>5, <1>6, <1>7, <1>8, OnwardKeeps

(* The notes of a run are those of the ledger when it ends.                *)
LEMMA NotingKeeps ==
  ASSUME Registering!PartiesInv, x3 # NULL, Registering!ServerFits', InPlace,
         x3' = NULL, x2' = x3.state, x5' = x5, NEW how, how # "completed",
         x4' = [how |-> how, status |-> x3.status, limit |-> x3.limit, held |-> x3.held,
                made |-> x3.made]
  PROVE  Registering!PartiesInv'
<1>1. Registering!RunFits /\ Registering!CountsFit
  BY DEF Registering!PartiesInv
<1>2. Registering!NotedFits(x2)'
  BY <1>1 DEF Registering!RunFits, Registering!NotedFits, InPlace
<1>3. Registering!CompletedIsWhole'
  BY DEF Registering!CompletedIsWhole
<1>4. \A item \in Registering!ItemSet :
        Cardinality(Registering!Copies(item)') <= x5'[item] + Registering!One(x2'[item])
  BY <1>1, RegisteringCounts DEF Registering!CountsFit, InPlace
<1>5. x5' \in [Registering!ItemSet -> Nat] /\ x4'.made = x3.made /\ DOMAIN x1 \subseteq DOMAIN x1'
  BY <1>1 DEF Registering!CountsFit, InPlace
<1> QED BY <1>2, <1>3, <1>4, <1>5, EndKeeps

(* A party was changed by somebody else, or a request has failed.          *)
LEMMA Stopping ==
  ASSUME Registering!PartiesInv, Registering!Conflict \/ Registering!PromoteFails
  PROVE  Registering!PartiesInv'
<1>1. /\ x3 # NULL /\ Registering!Promoting /\ x3' = NULL /\ x2' = x3.state /\ x5' = x5
      /\ x4' = [how |-> "failed", status |-> x3.status, limit |-> x3.limit, held |-> x3.held,
                made |-> x3.made]
      /\ \/ x1' = x1
         \/ Registering!Party.version = Registering!Entry.version /\ x1' = Registering!Opened
  BY DEF Registering!Conflict, Registering!PromoteFails, Registering!Promoting,
         Registering!saveState, Registering!End
<1>2. Registering!RunFits /\ Registering!ServerFits
  BY <1>1 DEF Registering!PartiesInv
<1>3. Registering!ServerFits' /\ InPlace
  BY <1>1, <1>2, OpenedIs, StillInPlace
<1> QED BY <1>1, <1>3, NotingKeeps

(* A run is complete: it has gone through all there is to make.            *)
LEMMA Completing ==
  ASSUME Registering!PartiesInv, Registering!Complete PROVE Registering!PartiesInv'
<1>1. /\ x3 # NULL /\ x3.at > Len(SeedItems) /\ x3.pending = <<>>
      /\ x3' = NULL /\ x2' = x3.state /\ x5' = x5 /\ x1' = x1
      /\ x4' = [how |-> "completed", status |-> x3.status, limit |-> x3.limit, held |-> x3.held,
                made |-> x3.made]
  BY DEF Registering!Complete, Registering!saveState, Registering!End
<1>2. Registering!RunFits /\ Registering!ServerFits /\ Registering!CountsFit
  BY <1>1 DEF Registering!PartiesInv
<1>3. Registering!ServerFits' /\ InPlace
  BY <1>1, <1>2, StillInPlace
<1>4. Registering!NotedFits(x2)'
  BY <1>1, <1>2, <1>3 DEF Registering!RunFits, Registering!NotedFits, InPlace
<1>5. Registering!CompletedIsWhole'
  <2>1. ASSUME NEW item \in Registering!Targets(x3.limit) PROVE x3.state[item] # NULL
    <3>1. PICK k \in 1..Len(SeedItems) : SeedItems[k] = item
      BY DEF Registering!Targets, Registering!ItemSet
    <3>2. k < x3.at
      BY <1>1, <1>2, <3>1, RunIs, SeedAssumption
    <3> QED BY <1>2, <2>1, <3>1, <3>2 DEF Registering!RunFits
  <2>2. x3.status = "RECRUITING" => \A id \in x3.made :
          (x1[id].item \in Titles /\ x1[id].status = "DRAFT") => id \in x3.held
    BY <1>1, <1>2 DEF Registering!RunFits
  <2> QED BY <1>1, <2>1, <2>2 DEF Registering!CompletedIsWhole
<1>6. \A item \in Registering!ItemSet :
        Cardinality(Registering!Copies(item)') <= x5'[item] + Registering!One(x2'[item])
  BY <1>1, <1>2, <1>3, RegisteringCounts DEF Registering!CountsFit, InPlace
<1>7. x5' \in [Registering!ItemSet -> Nat] /\ x4'.made = x3.made /\ DOMAIN x1 \subseteq DOMAIN x1'
  BY <1>1, <1>2 DEF Registering!CountsFit
<1> QED BY <1>1, <1>3, <1>4, <1>5, <1>6, <1>7, EndKeeps

(* One that is killed loses what it has made, once each.                   *)
LEMMA Killing == ASSUME Registering!PartiesInv, Registering!Kill PROVE Registering!PartiesInv'
<1>1. /\ x3 # NULL /\ x3' = NULL /\ x2' = x2 /\ x1' = x1
      /\ x5' = [item \in Registering!ItemSet |->
                  x5[item] + IF \E id \in x3.made : x1[id].item = item THEN 1 ELSE 0]
      /\ x4' = [how |-> "killed", status |-> x3.status, limit |-> x3.limit, held |-> x3.held,
                made |-> x3.made]
  BY DEF Registering!Kill, Registering!End
<1>2. /\ Registering!RunFits /\ Registering!ServerFits /\ Registering!CountsFit
      /\ Registering!NotedFits(x2)
  BY <1>1 DEF Registering!PartiesInv
<1>3. Registering!ServerFits' /\ InPlace
  BY <1>1, <1>2, StillInPlace
<1>4. Registering!NotedFits(x2)'
  BY <1>1, <1>2, <1>3 DEF Registering!NotedFits, InPlace
<1>5. Registering!CompletedIsWhole'
  BY <1>1 DEF Registering!CompletedIsWhole
<1>6. x5' \in [Registering!ItemSet -> Nat]
  BY <1>1, <1>2 DEF Registering!CountsFit
<1>7. ASSUME NEW item \in Registering!ItemSet
      PROVE  Cardinality(Registering!Copies(item)') <= x5'[item] + Registering!One(x2'[item])
  <2> DEFINE count == Cardinality(Registering!Copies(item))
  <2>1. /\ Cardinality(Registering!Copies(item)') = count /\ count \in Nat /\ x5[item] \in Nat
        /\ count <= x5[item] + Registering!One(x3.state[item])
        /\ ~Registering!Own(item) => count <= x5[item] + Registering!One(x2[item])
    BY <1>1, <1>2, <1>3, RegisteringCounts, CopiesCount DEF Registering!CountsFit, InPlace
  <2> HIDE DEF count
  <2>2. CASE Registering!Own(item)
    <3>1. x5'[item] = x5[item] + 1
      BY <1>1, <2>2 DEF Registering!Own
    <3> QED BY <1>1, <2>1, <3>1 DEF Registering!One
  <2>3. CASE ~Registering!Own(item)
    <3>1. x5'[item] = x5[item]
      BY <1>1, <2>1, <2>3 DEF Registering!Own
    <3> QED BY <1>1, <2>1, <2>3, <3>1
  <2> QED BY <2>2, <2>3
<1>8. x4'.made = x3.made /\ DOMAIN x1 \subseteq DOMAIN x1'
  BY <1>1
<1> QED BY <1>1, <1>3, <1>4, <1>5, <1>6, <1>7, <1>8, EndKeeps

(* A run begins with what the ledger has, and the categories it is told.   *)
LEMMA Setting ==
  ASSUME Registering!PartiesInv, NEW status \in {"RECRUITING", "DRAFT"},
         NEW limit \in {NULL, Len(SeedItems) - 1}, Registering!Start(status, limit)
  PROVE  Registering!PartiesInv'
<1>1. PICK known \in SUBSET {id \in DOMAIN x1 : x1[id].item \in {category}} :
        x3' = [status |-> status, limit |-> limit, at |-> 1, pending |-> <<>>, attempt |-> 1,
               held |-> {}, made |-> {},
               state |-> [item \in Registering!ItemSet |->
                 IF \E id \in known : x1[id].item = item
                 THEN CHOOSE id \in known : x1[id].item = item ELSE x2[item]]]
  BY DEF Registering!Start
<1>2. x3 = NULL /\ UNCHANGED <<x1, x2, x4, x5>>
  BY DEF Registering!Start
<1>3. /\ Registering!NotedFits(x2) /\ Registering!CountsFit /\ Registering!ServerFits
      /\ (x4 # NULL => x4.made \subseteq DOMAIN x1) /\ Registering!CompletedIsWhole
  BY DEF Registering!PartiesInv
<1>4. Registering!ServerFits' /\ InPlace
  BY <1>2, <1>3, StillInPlace
<1> DEFINE state == [item \in Registering!ItemSet |->
                      IF \E id \in known : x1[id].item = item
                      THEN CHOOSE id \in known : x1[id].item = item ELSE x2[item]]
<1>5. ASSUME NEW item \in Registering!ItemSet
      PROVE  /\ state[item] \in Nat \cup {NULL}
             /\ state[item] # NULL => state[item] \in Registering!Copies(item)
             /\ x2[item] # NULL => state[item] # NULL
  <2>1. CASE \E id \in known : x1[id].item = item
    <3>1. state[item] \in known /\ x1[state[item]].item = item
      BY <2>1
    <3> HIDE DEF state
    <3>2. state[item] \in Registering!Copies(item)
      BY <1>1, <3>1 DEF Registering!Copies
    <3>3. state[item] \in Nat
      BY <1>3, <3>2, CopiesCount
    <3> QED BY <3>2, <3>3, NullAssumption
  <2>2. CASE ~ \E id \in known : x1[id].item = item
    <3>1. state[item] = x2[item]
      BY <2>2
    <3> HIDE DEF state
    <3> QED BY <1>3, <3>1 DEF Registering!NotedFits
  <2> QED BY <2>1, <2>2
<1>6. state \in [Registering!ItemSet -> Nat \cup {NULL}]
  BY <1>5
<1> HIDE DEF state
<1>7. x3' = [status |-> status, limit |-> limit, at |-> 1, pending |-> <<>>, attempt |-> 1,
             held |-> {}, made |-> {}, state |-> state]
  BY <1>1 DEF state
<1>8. /\ x3'.state = state /\ x3'.made = {} /\ x3'.pending = <<>> /\ x3'.at = 1
      /\ x3' \in Registering!Runs
  <2>1. /\ Len(SeedItems) \in Nat /\ 1 \in 1..TRANSITION_ATTEMPTS
        /\ limit \in Int \cup {NULL} /\ 1 \in 1..Len(SeedItems) + 1
    BY SeedAssumption
  <2> QED BY <1>6, <1>7, <2>1 DEF Registering!Runs
<1>9. Registering!RunFits'
  <2>1. \A item \in Registering!ItemSet :
          state[item] # NULL => state[item] \in Registering!Copies(item)'
    BY <1>4, <1>5 DEF InPlace
  <2>2. \A item \in Registering!ItemSet : x2'[item] # NULL => x3'.state[item] # NULL
    BY <1>2, <1>5, <1>8
  <2>3. DOMAIN x3'.pending = {} /\ \A k \in 1..Len(SeedItems) : ~(k < x3'.at)
    BY <1>8
  <2> QED BY <1>6, <1>8, <2>1, <2>2, <2>3 DEF Registering!RunFits, Registering!NotedFits
<1>10. Registering!CountsFit'
  <2>1. x5' \in [Registering!ItemSet -> Nat]
    BY <1>2, <1>3 DEF Registering!CountsFit
  <2>2. ASSUME NEW item \in Registering!ItemSet
        PROVE  /\ Registering!Cardinality(Registering!Copies(item)')
                    <= x5'[item] + Registering!One(x3'.state[item])
               /\ Registering!Cardinality(Registering!Copies(item)')
                    <= x5'[item] + Registering!One(x2'[item])
    <3> DEFINE count == Cardinality(Registering!Copies(item))
    <3>1. ~Registering!Own(item)
      BY <1>2 DEF Registering!Own
    <3>2. /\ Registering!Cardinality(Registering!Copies(item)') = count /\ count \in Nat
          /\ x5[item] \in Nat /\ count <= x5[item] + Registering!One(x2[item])
      BY <1>3, <1>4, <3>1, RegisteringCounts, CopiesCount DEF Registering!CountsFit, InPlace
    <3> HIDE DEF count
    <3>3. Registering!One(x2[item]) <= Registering!One(state[item])
          /\ Registering!One(x2[item]) \in Nat /\ Registering!One(state[item]) \in Nat
      BY <1>5 DEF Registering!One
    <3> QED BY <1>2, <1>8, <3>2, <3>3
  <2> QED BY <2>1, <2>2 DEF Registering!CountsFit
<1>11. /\ Registering!NotedFits(x2)' /\ Registering!CompletedIsWhole'
       /\ (x4' # NULL => x4'.made \subseteq DOMAIN x1')
  BY <1>2, <1>3, <1>4 DEF Registering!NotedFits, Registering!CompletedIsWhole, InPlace
<1> QED BY <1>4, <1>9, <1>10, <1>11 DEF Registering!PartiesInv

(* What a run that creates has before it.                                  *)
LEMMA CreatingIs ==
  ASSUME Registering!RunFits, Registering!Creating
  PROVE  /\ Len(SeedItems) \in Nat /\ x3.at \in 1..Len(SeedItems)
         /\ Registering!Item = SeedItems[x3.at] /\ Registering!Item \in Registering!ItemSet
<1>1. x3.at <= Len(SeedItems)
  BY DEF Registering!Creating
<1>2. Len(SeedItems) \in Nat /\ x3.at \in 1..Len(SeedItems)
  BY <1>1, RunIs, SeedAssumption
<1> QED BY <1>2 DEF Registering!Item, Registering!ItemSet

(* An item is created, and noted at once by the run.                       *)
LEMMA Creation == ASSUME Registering!PartiesInv, Registering!Create PROVE Registering!PartiesInv'
<1>0. PICK item : item = Registering!Item
  OBVIOUS
<1> DEFINE new == Len(x1) + 1
           state == [x3.state EXCEPT ![item] = new]
           made == x3.made \cup {new}
           entry == [id |-> new, version |-> 0]
           pending == IF item \in Titles /\ x3.status = "RECRUITING"
                      THEN Append(x3.pending, entry) ELSE x3.pending
<1>1. /\ x3 # NULL /\ Registering!Creating /\ x3.state[item] = NULL
      /\ x1' = Registering!Made
      /\ x3' = [x3 EXCEPT !.state = state, !.at = x3.at + 1, !.made = made, !.pending = pending]
      /\ UNCHANGED <<x2, x4, x5>>
  BY <1>0 DEF Registering!Create, Registering!Creating
<1>2. /\ Registering!NotedFits(x2) /\ Registering!CountsFit /\ Registering!ServerFits
      /\ (x4 # NULL => x4.made \subseteq DOMAIN x1) /\ Registering!CompletedIsWhole
      /\ Registering!RunFits
  BY <1>1 DEF Registering!PartiesInv
<1>3. /\ Len(SeedItems) \in Nat /\ x3.at \in 1..Len(SeedItems)
      /\ item = SeedItems[x3.at] /\ item \in Registering!ItemSet
  BY <1>0, <1>1, <1>2, CreatingIs
<1>4. /\ Registering!ServerFits' /\ Len(x1) \in Nat
      /\ DOMAIN x1 = 1..Len(x1) /\ DOMAIN x1' = 1..(Len(x1) + 1)
      /\ \A id \in DOMAIN x1 : x1'[id] = x1[id]
      /\ x1'[Len(x1) + 1].item = item
      /\ Cardinality(Registering!Copies(item)') = Cardinality(Registering!Copies(item)) + 1
      /\ \A other : other # item => Registering!Copies(other)' = Registering!Copies(other)
  BY <1>0, <1>1, <1>2, <1>3, MadeIs
<1>5. new \in Nat /\ new # NULL /\ new \notin DOMAIN x1 /\ new \in DOMAIN x1' /\ x1'[new].item = item
      /\ DOMAIN x1 \subseteq DOMAIN x1'
  BY <1>4, NullAssumption
<1>6. entry \in [id : Nat, version : {0}] /\ entry.id = new
  BY <1>5
<1> HIDE DEF new, entry
<1>7. /\ pending \in Seq([id : Nat, version : {0}])
      /\ \A k \in DOMAIN pending : \/ pending[k] = entry /\ item \in Titles
                                   \/ k \in DOMAIN x3.pending /\ pending[k] = x3.pending[k]
      /\ \A k \in DOMAIN x3.pending : k \in DOMAIN pending /\ pending[k] = x3.pending[k]
      /\ (item \in Titles /\ x3.status = "RECRUITING") => \E k \in DOMAIN pending : pending[k] = entry
  <2> DEFINE Entries == [id : Nat, version : {0}]
             p == x3.pending
  <2>1. p \in Seq(Entries) /\ entry \in Entries
    BY <1>2, <1>6, RunIs
  <2> HIDE DEF Entries
  <2>2. CASE item \in Titles /\ x3.status = "RECRUITING"
    <3>1. pending = Append(p, entry)
      BY <2>2
    <3> HIDE DEF pending, p
    <3>2. /\ pending \in Seq(Entries) /\ DOMAIN pending = 1..(Len(p) + 1) /\ DOMAIN p = 1..Len(p)
          /\ Len(p) \in Nat /\ pending[Len(p) + 1] = entry
          /\ \A k \in DOMAIN p : pending[k] = p[k]
      BY <2>1, <3>1
    <3>3. /\ \A k \in DOMAIN pending : k \in DOMAIN p \/ k = Len(p) + 1
          /\ \A k \in DOMAIN p : k \in DOMAIN pending
          /\ Len(p) + 1 \in DOMAIN pending
      BY <3>2
    <3>4. ASSUME NEW k \in DOMAIN pending
          PROVE  pending[k] = entry \/ (k \in DOMAIN p /\ pending[k] = p[k])
      <4>1. k \in DOMAIN p \/ k = Len(p) + 1
        BY <3>3
      <4>2. (k \in DOMAIN p => pending[k] = p[k]) /\ pending[Len(p) + 1] = entry
        BY <3>2
      <4> QED BY <4>1, <4>2
    <3>5. \A k \in DOMAIN p : k \in DOMAIN pending /\ pending[k] = p[k]
      BY <3>2, <3>3
    <3>6. \E k \in DOMAIN pending : pending[k] = entry
      BY <3>2, <3>3
    <3>7. pending \in Seq(Entries) /\ item \in Titles
      BY <2>2, <3>2
    <3> QED BY <3>4, <3>5, <3>6, <3>7 DEF Entries, p
  <2>3. CASE ~(item \in Titles /\ x3.status = "RECRUITING")
    <3>1. pending = p
      BY <2>3
    <3> QED BY <2>1, <2>3, <3>1 DEF Entries
  <2> QED BY <2>2, <2>3
<1>8. /\ state \in [Registering!ItemSet -> Nat \cup {NULL}] /\ state[item] = new
      /\ \A other \in Registering!ItemSet : other # item => state[other] = x3.state[other]
  BY <1>2, <1>3, <1>5, RunIs
<1>9. made \in SUBSET Nat /\ made \subseteq DOMAIN x1' /\ new \in made /\ x3.made \subseteq DOMAIN x1
  BY <1>2, <1>5, RunIs DEF Registering!RunFits
<1> DEFINE a == [x3 EXCEPT !.state = state]
           b == [a EXCEPT !.at = x3.at + 1]
           c == [b EXCEPT !.made = made]
<1>10. x3' = [c EXCEPT !.pending = pending]
  <2> HIDE DEF state, made, pending
  <2> QED BY <1>1
<1> HIDE DEF pending, state
<1>11. a = [status |-> x3.status, limit |-> x3.limit, at |-> x3.at, pending |-> x3.pending,
            attempt |-> x3.attempt, held |-> x3.held, made |-> x3.made, state |-> state]
  BY <1>2, RunIs
<1> HIDE DEF a
<1>12. b = [status |-> x3.status, limit |-> x3.limit, at |-> x3.at + 1, pending |-> x3.pending,
            attempt |-> x3.attempt, held |-> x3.held, made |-> x3.made, state |-> state]
  BY <1>11
<1> HIDE DEF b, made
<1>13. c = [status |-> x3.status, limit |-> x3.limit, at |-> x3.at + 1, pending |-> x3.pending,
            attempt |-> x3.attempt, held |-> x3.held, made |-> made, state |-> state]
  BY <1>12
<1> HIDE DEF c
<1>14. x3' = [status |-> x3.status, limit |-> x3.limit, at |-> x3.at + 1, pending |-> pending,
              attempt |-> x3.attempt, held |-> x3.held, made |-> made, state |-> state]
  BY <1>10, <1>13
<1>15. /\ x3'.state = state /\ x3'.made = made /\ x3'.pending = pending /\ x3'.at = x3.at + 1
       /\ x3'.status = x3.status /\ x3'.limit = x3.limit /\ x3'.held = x3.held
  BY <1>14
<1>16. x3' \in Registering!Runs /\ x3' # NULL
  <2>1. x3.at + 1 \in 1..Len(SeedItems) + 1
    BY <1>3
  <2>2. x3' \in Registering!Runs
    BY <1>2, <1>7, <1>8, <1>9, <1>14, <2>1, RunIs DEF Registering!Runs
  <2> QED BY <2>2, RunAssumption
<1>17. \A other : Registering!Copies(other) \subseteq Registering!Copies(other)'
  BY <1>4, <1>5 DEF Registering!Copies
<1>18. Registering!NotedFits(x2)'
  BY <1>1, <1>2, <1>17 DEF Registering!NotedFits
<1>19. Registering!RunFits'
  <2>1. ASSUME NEW other \in Registering!ItemSet, state[other] # NULL
        PROVE  state[other] \in Registering!Copies(other)'
    <3>1. CASE other = item
      BY <1>5, <1>8, <3>1 DEF Registering!Copies
    <3>2. CASE other # item
      BY <1>2, <1>8, <1>17, <2>1, <3>2 DEF Registering!RunFits, Registering!NotedFits
    <3> QED BY <3>1, <3>2
  <2>2. ASSUME NEW other \in Registering!ItemSet, x2[other] # NULL PROVE state[other] # NULL
    BY <1>1, <1>2, <1>5, <1>8, <2>2 DEF Registering!RunFits
  <2>3. ASSUME NEW k \in 1..Len(SeedItems), k < x3.at + 1,
               SeedItems[k] \in Registering!Targets(x3.limit)
        PROVE  state[SeedItems[k]] # NULL
    <3>1. SeedItems[k] \in Registering!ItemSet
      BY DEF Registering!ItemSet
    <3>2. CASE SeedItems[k] = item
      BY <1>5, <1>8, <3>2
    <3>3. CASE SeedItems[k] # item
      <4>1. k < x3.at
        BY <1>3, <2>3, <3>3
      <4>2. x3.state[SeedItems[k]] # NULL
        BY <1>2, <2>3, <4>1 DEF Registering!RunFits
      <4> QED BY <1>8, <3>1, <3>3, <4>2
    <3> QED BY <3>2, <3>3
  <2>4. ASSUME NEW k \in DOMAIN pending
        PROVE  pending[k].id \in DOMAIN x1' /\ x1'[pending[k].id].item \in Titles
    <3>1. CASE pending[k] = entry /\ item \in Titles
      BY <1>5, <1>6, <3>1
    <3>2. CASE k \in DOMAIN x3.pending /\ pending[k] = x3.pending[k]
      BY <1>2, <1>4, <1>5, <3>2 DEF Registering!RunFits
    <3> QED BY <1>7, <3>1, <3>2
  <2>5. ASSUME x3.status = "RECRUITING", NEW id \in made,
               x1'[id].item \in Titles, x1'[id].status = "DRAFT"
        PROVE  id \in x3.held \/ \E k \in DOMAIN pending : pending[k].id = id
    <3>1. CASE id = new
      BY <1>5, <1>6, <1>7, <2>5, <3>1
    <3>2. CASE id \in x3.made
      <4>1. x1[id].item \in Titles /\ x1[id].status = "DRAFT"
        BY <1>4, <1>9, <2>5, <3>2
      <4>2. id \in x3.held \/ \E k \in DOMAIN x3.pending : x3.pending[k].id = id
        BY <1>2, <2>5, <3>2, <4>1 DEF Registering!RunFits
      <4> QED BY <1>7, <4>2
    <3> QED BY <3>1, <3>2 DEF made
  <2> QED BY <1>1, <1>8, <1>9, <1>15, <1>16, <2>1, <2>2, <2>3, <2>4, <2>5
         DEF Registering!RunFits, Registering!NotedFits
<1>20. Registering!CountsFit'
  <2>1. ASSUME NEW other \in Registering!ItemSet, other # item
        PROVE  Registering!Own(other)' <=> Registering!Own(other)
    BY <1>1, <1>4, <1>5, <1>9, <1>15, <1>16, <2>1 DEF Registering!Own, made
  <2>2. Registering!Own(item)'
    BY <1>5, <1>9, <1>15, <1>16 DEF Registering!Own
  <2>3. Registering!Cardinality(Registering!Copies(item)')
          <= x5[item] + Registering!One(state[item])
    <3> DEFINE count == Cardinality(Registering!Copies(item))
    <3>1. /\ Registering!Cardinality(Registering!Copies(item)') = count + 1 /\ count \in Nat
          /\ x5[item] \in Nat /\ count <= x5[item] + Registering!One(x3.state[item])
      BY <1>1, <1>2, <1>3, <1>4, RegisteringCounts, CopiesCount DEF Registering!CountsFit
    <3> HIDE DEF count
    <3>2. Registering!One(x3.state[item]) = 0 /\ Registering!One(state[item]) = 1
      BY <1>1, <1>5, <1>8 DEF Registering!One
    <3> QED BY <3>1, <3>2
  <2>4. ASSUME NEW other \in Registering!ItemSet
        PROVE  /\ Registering!Cardinality(Registering!Copies(other)')
                    <= x5[other] + Registering!One(state[other])
               /\ ~Registering!Own(other)' => Registering!Cardinality(Registering!Copies(other)')
                    <= x5[other] + Registering!One(x2[other])
    <3>1. CASE other = item
      BY <2>2, <2>3, <3>1
    <3>2. CASE other # item
      <4>1. /\ Registering!Copies(other)' = Registering!Copies(other)
            /\ state[other] = x3.state[other]
        BY <1>4, <1>8, <3>2
      <4> QED BY <1>1, <1>2, <2>1, <3>2, <4>1 DEF Registering!CountsFit
    <3> QED BY <3>1, <3>2
  <2>5. x5' = x5 /\ x5 \in [Registering!ItemSet -> Nat] /\ x2' = x2
    BY <1>1, <1>2 DEF Registering!CountsFit
  <2> QED BY <1>15, <2>4, <2>5 DEF Registering!CountsFit
<1>21. (x4' # NULL => x4'.made \subseteq DOMAIN x1') /\ Registering!CompletedIsWhole'
  BY <1>1, <1>2, <1>4, <1>5 DEF Registering!CompletedIsWhole
<1> QED BY <1>4, <1>18, <1>19, <1>20, <1>21 DEF Registering!PartiesInv

(* A creation that fails ends the run; one that was served is lost.        *)
LEMMA Losing == ASSUME Registering!PartiesInv, Registering!CreateFails PROVE Registering!PartiesInv'
<1>0. PICK item : item = Registering!Item
  OBVIOUS
<1>1. /\ x3 # NULL /\ Registering!Creating /\ x3' = NULL /\ x2' = x3.state
      /\ x4' = [how |-> "failed", status |-> x3.status, limit |-> x3.limit, held |-> x3.held,
                made |-> x3.made]
      /\ \/ x1' = x1 /\ x5' = x5
         \/ x1' = Registering!Made /\ x5' = [x5 EXCEPT ![item] = x5[item] + 1]
  BY <1>0 DEF Registering!CreateFails, Registering!Creating, Registering!saveState, Registering!End
<1>2. Registering!RunFits /\ Registering!CountsFit /\ Registering!ServerFits
  BY <1>1 DEF Registering!PartiesInv
<1>3. item \in Registering!ItemSet
  BY <1>0, <1>1, <1>2, CreatingIs
<1>4. CASE x1' = x1 /\ x5' = x5
  <2>1. Registering!ServerFits' /\ InPlace
    BY <1>2, <1>4, StillInPlace
  <2> QED BY <1>1, <1>4, <2>1, NotingKeeps
<1>5. CASE x1' = Registering!Made /\ x5' = [x5 EXCEPT ![item] = x5[item] + 1]
  <2>1. /\ Registering!ServerFits' /\ Len(x1) \in Nat
        /\ DOMAIN x1 = 1..Len(x1) /\ DOMAIN x1' = 1..(Len(x1) + 1)
        /\ \A id \in DOMAIN x1 : x1'[id] = x1[id]
        /\ Cardinality(Registering!Copies(item)') = Cardinality(Registering!Copies(item)) + 1
        /\ \A other : other # item => Registering!Copies(other)' = Registering!Copies(other)
    BY <1>0, <1>2, <1>3, <1>5, MadeIs
  <2>2. DOMAIN x1 \subseteq DOMAIN x1'
    BY <2>1
  <2>3. \A other : Registering!Copies(other) \subseteq Registering!Copies(other)'
    BY <2>1, <2>2 DEF Registering!Copies
  <2>4. Registering!NotedFits(x2)'
    BY <1>1, <1>2, <2>3 DEF Registering!RunFits, Registering!NotedFits
  <2>5. Registering!CompletedIsWhole'
    BY <1>1 DEF Registering!CompletedIsWhole
  <2>6. /\ x5 \in [Registering!ItemSet -> Nat] /\ x5' \in [Registering!ItemSet -> Nat]
        /\ x5'[item] = x5[item] + 1
        /\ \A other \in Registering!ItemSet : other # item => x5'[other] = x5[other]
    BY <1>2, <1>3, <1>5 DEF Registering!CountsFit
  <2>7. ASSUME NEW other \in Registering!ItemSet
        PROVE  Cardinality(Registering!Copies(other)') <= x5'[other] + Registering!One(x2'[other])
    <3> DEFINE count == Cardinality(Registering!Copies(other))
    <3>1. /\ count \in Nat /\ x5[other] \in Nat
          /\ count <= x5[other] + Registering!One(x3.state[other])
      BY <1>1, <1>2, RegisteringCounts, CopiesCount DEF Registering!CountsFit
    <3>2. CASE other = item
      <4>1. Cardinality(Registering!Copies(other)') = count + 1
        BY <2>1, <3>2
      <4> HIDE DEF count
      <4>2. Registering!One(x3.state[other]) \in Nat
        BY DEF Registering!One
      <4> QED BY <1>1, <2>6, <3>1, <3>2, <4>1, <4>2
    <3>3. CASE other # item
      <4>1. Cardinality(Registering!Copies(other)') = count
        BY <2>1, <3>3
      <4> HIDE DEF count
      <4> QED BY <1>1, <2>6, <3>1, <3>3, <4>1
    <3> QED BY <3>2, <3>3
  <2>8. x4'.made = x3.made
    BY <1>1
  <2> QED BY <1>1, <2>1, <2>2, <2>4, <2>5, <2>6, <2>7, <2>8, EndKeeps
<1> QED BY <1>1, <1>4, <1>5

(* Nothing is there.                                                       *)
LEMMA PartiesInit == Registering!Init => Registering!PartiesInv
<1> SUFFICES ASSUME Registering!Init PROVE Registering!PartiesInv
  OBVIOUS
<1>1. /\ x1 = <<>> /\ x2 = [item \in Registering!ItemSet |-> NULL] /\ x3 = NULL /\ x4 = NULL
      /\ x5 = [item \in Registering!ItemSet |-> 0]
  BY DEF Registering!Init
<1>2. Registering!ServerFits
  BY <1>1 DEF Registering!ServerFits, Registering!OthersAreLeftAlone
<1>3. \A item : Registering!Copies(item) = {}
  BY <1>1 DEF Registering!Copies
<1>4. Registering!CountsFit
  BY <1>1, <1>3, RegisteringCounts, FS_EmptySet DEF Registering!CountsFit, Registering!One
<1>5. Registering!NotedFits(x2)
  BY <1>1 DEF Registering!NotedFits
<1> QED BY <1>1, <1>2, <1>4, <1>5 DEF Registering!PartiesInv, Registering!CompletedIsWhole

(* Every step keeps it.                                                    *)
LEMMA PartiesKeeps ==
  ASSUME Registering!PartiesInv, Registering!Next PROVE Registering!PartiesInv'
<1>1. ASSUME NEW status \in {"RECRUITING", "DRAFT"}, NEW limit \in {NULL, Len(SeedItems) - 1},
             Registering!Start(status, limit)
      PROVE  Registering!PartiesInv'
  BY <1>1, Setting
<1>2. ASSUME NEW id \in DOMAIN x1, Registering!Project(id) \/ Registering!OthersAct(id)
      PROVE  Registering!PartiesInv'
  BY <1>2, Projecting, Meddling
<1> QED BY <1>1, <1>2, Passing, Creation, Losing, Waiting, Promoted, Stopping, Completing, Killing
      DEF Registering!Next

(* What it says of the parties.                                            *)
LEMMA PartiesDone ==
  ASSUME Registering!PartiesInv
  PROVE  /\ Registering!TypeOK /\ Registering!DuplicatesWereLost
         /\ Registering!CompletedIsWhole /\ Registering!OthersAreLeftAlone
<1>1. /\ Registering!NotedFits(x2) /\ Registering!CountsFit /\ Registering!ServerFits
      /\ Registering!CompletedIsWhole /\ (x3 # NULL => Registering!RunFits)
  BY DEF Registering!PartiesInv
<1>2. ASSUME x3 # NULL
      PROVE  /\ x3.at \in 1..Len(SeedItems) + 1 /\ x3.attempt \in 1..TRANSITION_ATTEMPTS
             /\ \A k \in DOMAIN x3.pending : x1[x3.pending[k].id].item \in Titles
  BY <1>1, <1>2, RunIs DEF Registering!RunFits
<1>3. Registering!TypeOK
  BY <1>1, <1>2 DEF Registering!NotedFits, Registering!TypeOK
<1>4. ASSUME NEW item \in Registering!ItemSet
      PROVE  Registering!Cardinality(Registering!Copies(item)) <= 1 + x5[item]
  <2> DEFINE count == Registering!Cardinality(Registering!Copies(item))
  <2>1. /\ count \in Nat /\ x5[item] \in Nat
        /\ \/ count <= x5[item] + Registering!One(x3.state[item])
           \/ count <= x5[item] + Registering!One(x2[item])
    BY <1>1, RegisteringCounts, CopiesCount DEF Registering!CountsFit, Registering!Own
  <2> HIDE DEF count
  <2>2. \A noted : Registering!One(noted) \in {0, 1}
    BY DEF Registering!One
  <2>3. count <= 1 + x5[item]
    BY <2>1, <2>2
  <2> QED BY <2>3 DEF count
<1> QED BY <1>1, <1>3, <1>4 DEF Registering!ServerFits, Registering!DuplicatesWereLost

-----------------------------------------------------------------------------
(* The invariant: of each page that is shown, its own.                     *)
EditInv == Form(Places, EditYear, EditEdits, EditSearches, EditSaves)!FormInv
CreateInv == Form({}, CreateYear, CreateEdits, 0, CreateSaves)!FormInv
PagesInv ==
  /\ screen = "check-in" => CheckIn!NoticeInv
  /\ screen = "scanner" => QrScanner!RunInv
  /\ screen = "applications" => Applications!TypeOK
  /\ screen = "edit" => EditInv
  /\ screen = "create" => CreateInv
  /\ screen = "images" => Images!RoomInv
  /\ screen = "list" => PartyList!ListInv
  /\ screen = "editor" => Editor!EditorInv
  /\ screen = "email" => Wizard!WizardInv
  /\ screen = "sign-in" => SigningIn!SignInInv
  /\ screen = "navigation" => Navigation!IInv
  /\ screen = "market" => Market!MarketInv
  /\ screen = "parties" => Registering!PartiesInv

(* The bounds of the two forms are numbers, and nothing they hold is NULL. *)
LEMMA FormBounds ==
  /\ Minutes \in Nat /\ EditYear \in Nat /\ EditEdits \in Nat /\ EditSearches \in Nat
  /\ EditSaves \in Nat /\ CreateYear \in Nat /\ CreateEdits \in Nat /\ 0 \in Nat
  /\ CreateSaves \in Nat /\ NULL \notin Int
  /\ NULL \notin [party : Form(Places, EditYear, EditEdits, EditSearches, EditSaves)!PartyRecord,
                  year : Int]
  /\ NULL \notin [party : Form({}, CreateYear, CreateEdits, 0, CreateSaves)!PartyRecord, year : Int]
BY BoundsAssumption, NullAssumption, LoadedAssumption

(* It holds at the start.                                                  *)
LEMMA PagesInit == Init => PagesInv
<1>1. Form(Places, EditYear, EditEdits, EditSearches, EditSaves)!Init => EditInv
  BY FormBounds, FormInit DEF EditInv
<1>2. Form({}, CreateYear, CreateEdits, 0, CreateSaves)!Init => CreateInv
  BY FormBounds, FormInit DEF CreateInv
<1>3. Navigation!Init => Navigation!IInv
  BY NavigationAssumption, Navigation!InitIInv
<1> QED
  BY <1>1, <1>2, <1>3, CheckInInit, QrScannerInit, ApplicationsInit, ImagesInit, ListInit,
     EditorInit, WizardInit, SignInInit, MarketInit, PartiesInit
  DEF Init, PagesInv

(* A form keeps its invariant.                                             *)
LEMMA EditKeeps ==
  EditInv /\ Form(Places, EditYear, EditEdits, EditSearches, EditSaves)!Next => EditInv'
BY FormBounds, FormKeeps DEF EditInv

(* Likewise a new one.                                                     *)
LEMMA CreateKeeps ==
  CreateInv /\ Form({}, CreateYear, CreateEdits, 0, CreateSaves)!Next => CreateInv'
BY FormBounds, FormKeeps DEF CreateInv

(* The way to a page, that is walked or stood still on.                    *)
LEMMA NavigationKeeps ==
  Navigation!IInv /\ (Navigation!Next \/ UNCHANGED <<x1, x2, x3, x4, x5, x6, x7, x8>>)
    => Navigation!IInv'
<1>1. UNCHANGED <<x1, x2, x3, x4, x5, x6, x7, x8>> => UNCHANGED Navigation!vars
  BY DEF Navigation!vars
<1> QED BY <1>1, NavigationAssumption, Navigation!NextKeepsIInv

(* A step belongs to one page and leaves the screen: the page in front     *)
(* keeps its own invariant, and nothing is said of the others.             *)
LEMMA PagesKeep == PagesInv /\ Next => PagesInv'
<1> SUFFICES ASSUME PagesInv, Next PROVE PagesInv'
  OBVIOUS
<1>1. CASE OnCheckIn(CheckIn!Next)
  BY <1>1, CheckInKeeps DEF OnCheckIn, PagesInv
<1>2. CASE OnQrScanner(QrScanner!Next)
  BY <1>2, QrScannerKeeps DEF OnQrScanner, PagesInv
<1>3. CASE OnApplications(Applications!Next)
  BY <1>3, ApplicationsKeep DEF OnApplications, PagesInv
<1>4. CASE OnEdit(Form(Places, EditYear, EditEdits, EditSearches, EditSaves)!Next)
  BY <1>4, EditKeeps DEF OnEdit, PagesInv
<1>5. CASE OnCreate(Form({}, CreateYear, CreateEdits, 0, CreateSaves)!Next)
  BY <1>5, CreateKeeps DEF OnCreate, PagesInv
<1>6. CASE OnImages(Images!Next)
  BY <1>6, ImagesKeep DEF OnImages, PagesInv
<1>7. CASE OnPartyList(PartyList!Next)
  BY <1>7, ListKeeps DEF OnPartyList, PagesInv
<1>8. CASE OnImage(Image!Next)
  BY <1>8 DEF OnImage, PagesInv
<1>9. CASE OnEditor(Editor!Next)
  BY <1>9, EditorKeeps DEF OnEditor, PagesInv
<1>10. CASE OnWizard(Wizard!Next)
  BY <1>10, WizardKeeps DEF OnWizard, PagesInv
<1>11. CASE OnSigningIn(SigningIn!Next)
  BY <1>11, SigningInKeeps DEF OnSigningIn, PagesInv
<1>12. CASE OnMarket(Market!Next)
  BY <1>12, MarketKeeps DEF OnMarket, PagesInv
<1>13. CASE OnRegistering(Registering!Next)
  BY <1>13, PartiesKeeps DEF OnRegistering, PagesInv
<1>14. CASE OnNavigation(Navigation!Next)
  BY <1>14, NavigationKeeps DEF OnNavigation, PagesInv
<1> QED
  BY <1>1, <1>2, <1>3, <1>4, <1>5, <1>6, <1>7, <1>8, <1>9, <1>10, <1>11, <1>12, <1>13, <1>14 DEF Next

(* A step that changes nothing keeps it too.                               *)
LEMMA PagesStay == PagesInv /\ UNCHANGED vars => PagesInv'
<1> SUFFICES ASSUME PagesInv, UNCHANGED vars PROVE PagesInv'
  OBVIOUS
<1> USE DEF vars
<1>1. CheckIn!NoticeInv => CheckIn!NoticeInv'
  BY DEF CheckIn!NoticeInv, CheckIn!TypeOK, CheckIn!NoticeIsTrue, CheckIn!Sees
<1>2. QrScanner!RunInv => QrScanner!RunInv'
  BY DEF QrScanner!RunInv, QrScanner!TypeOK, QrScanner!CameraReleased, QrScanner!HaveRead
<1>3. Applications!TypeOK => Applications!TypeOK'
  BY DEF Applications!TypeOK
<1>4. EditInv => EditInv'
  BY DEF EditInv, Form!FormInv, Form!TypeOK, Form!AsLoaded, Form!SentInOrder, Form!PlaceIsOne
<1>5. CreateInv => CreateInv'
  BY DEF CreateInv, Form!FormInv, Form!TypeOK, Form!AsLoaded, Form!SentInOrder, Form!PlaceIsOne
<1>6. Images!RoomInv => Images!RoomInv'
  BY DEF Images!RoomInv, Images!TypeOK
<1>7. PartyList!ListInv => PartyList!ListInv'
  <2>1. PartyList!TypeOK => PartyList!TypeOK'
    BY DEF PartyList!TypeOK
  <2>2. PartyList!query' = PartyList!query /\ PartyList!view' = PartyList!view
        /\ PartyList!isNextPageError' = PartyList!isNextPageError
        /\ PartyList!isFetchingNextPage' = PartyList!isFetchingNextPage
    BY DEF PartyList!query, PartyList!lifecycle, PartyList!view, PartyList!currentPage,
       PartyList!matching, PartyList!matchingOperatorPages, PartyList!isNextPageError,
       PartyList!isFetchingNextPage
  <2>3. ASSUME NEW t \in Tabs PROVE PartyList!PageOf(t)' = PartyList!PageOf(t)
    BY DEF PartyList!PageOf, PartyList!matchingOperatorPages
  <2> QED BY <2>1, <2>2, <2>3 DEF PartyList!ListInv
<1>8. Editor!EditorInv => Editor!EditorInv'
  BY DEF Editor!EditorInv, Editor!TypeOK, Editor!SaveFits
<1>9. Wizard!WizardInv => Wizard!WizardInv'
  BY DEF Wizard!WizardInv, Wizard!TypeOK, Wizard!DoneIsTrue, Wizard!busy, Wizard!RequestFits
<1>10. SigningIn!SignInInv => SigningIn!SignInInv'
  BY DEF SigningIn!SignInInv, SigningIn!TypeOK, SigningIn!OfferedOnceLoaded, SigningIn!LoaderFits,
     SigningIn!Fits
<1>11. Market!MarketInv => Market!MarketInv'
  <2>1. Market!DataFits => Market!DataFits'
    BY SeedStays
  <2>2. Market!ListFits => Market!ListFits'
    BY ListStays
  <2>3. Market!RunFits => Market!RunFits'
    <3>1. Market!PartyIds' = Market!PartyIds /\ Market!There' = Market!There
      BY DEF Market!PartyIds, Market!There
    <3> QED BY <3>1, RunBeside
  <2>4. Market!RebuildFits => Market!RebuildFits'
    BY RebuildBeside
  <2> QED BY <2>1, <2>2, <2>3, <2>4 DEF Market!MarketInv
<1>12. Registering!PartiesInv => Registering!PartiesInv'
  <2> SUFFICES ASSUME Registering!PartiesInv PROVE Registering!PartiesInv'
    OBVIOUS
  <2>1. Registering!ServerFits' /\ InPlace
    BY StillInPlace DEF Registering!PartiesInv
  <2> QED BY <2>1, BesideKeeps
<1>13. Navigation!IInv => Navigation!IInv'
  BY NavigationKeeps
<1> QED
  BY <1>1, <1>2, <1>3, <1>4, <1>5, <1>6, <1>7, <1>8, <1>9, <1>10, <1>11, <1>12, <1>13 DEF PagesInv

(* The door follows from it.                                               *)
LEMMA DoorFollows == PagesInv => DoorIsTrue
<1>1. QrScanner!RunInv => QrScanner!OneTokenPerRun
  <2> SUFFICES ASSUME QrScanner!RunInv, NEW r \in QrScanner!Runs PROVE x7[r] <= 1
    BY DEF QrScanner!OneTokenPerRun
  <2>1. x7[r] \in Nat /\ (x7[r] > 0 => x7[r] = 1)
    BY DEF QrScanner!RunInv, QrScanner!TypeOK
  <2> QED BY <2>1
<1> QED BY <1>1 DEF PagesInv, DoorIsTrue, CheckIn!NoticeInv, QrScanner!RunInv

(* And the forms: a party that was opened, not edited and sent was on the  *)
(* page of a party that exists.                                            *)
LEMMA FormsFollow == PagesInv => FormIsKept
<1>1. EditInv => Form(Places, EditYear, EditEdits, EditSearches, EditSaves)!UneditedStays
  BY DEF EditInv, Form!FormInv, Form!TypeOK, Form!UneditedStays
<1> QED
  BY <1>1, EmptyIsSo DEF PagesInv, FormIsKept, EditInv, CreateInv, Form!FormInv, Images!RoomInv

(* And on the way to a page.                                               *)
LEMMA HopsFollow == PagesInv => FewRedirects
BY Navigation!HopsAreBounded DEF PagesInv, FewRedirects, Navigation!IInv

(* And what is done: each invariant says it of its own page.               *)
LEMMA DoneFollows == PagesInv => DoneIsTrue
<1>1. Editor!EditorInv => /\ Editor!TypeOK /\ Editor!TypedIsSaved
                          /\ Editor!UntouchedStays /\ Editor!ScheduleIsReleased
  BY SavesAreTrue DEF Editor!EditorInv
<1>2. Wizard!WizardInv => Wizard!TypeOK /\ Wizard!DoneIsTrue
  BY DEF Wizard!WizardInv
<1>3. SigningIn!SignInInv => /\ SigningIn!TypeOK /\ SigningIn!NonceIsOwn
                             /\ SigningIn!LockIsOwn /\ SigningIn!OfferedOnceLoaded
  BY DEF SigningIn!SignInInv, SigningIn!Fits, SigningIn!NonceIsOwn, SigningIn!LockIsOwn
<1> QED BY <1>1, <1>2, <1>3, MarketDone, PartiesDone DEF PagesInv, DoneIsTrue

(* A step from a state of the invariant keeps what it is not about.        *)
LEMMA StepKeeps ==
  PagesInv /\ Next =>
    /\ screen = "check-in" => CheckIn!WindowPerFilter
    /\ screen = "applications" => Applications!SheetStays
    /\ screen = "images" => Images!StoredIsKept
    /\ screen = "list" => PartyList!NothingSkipped /\ PartyList!PageHasFocus
<1> SUFFICES ASSUME PagesInv, Next
             PROVE  /\ screen = "check-in" => CheckIn!WindowPerFilter
                    /\ screen = "applications" => Applications!SheetStays
                    /\ screen = "images" => Images!StoredIsKept
                    /\ screen = "list" => PartyList!NothingSkipped /\ PartyList!PageHasFocus
  OBVIOUS
<1>1. CheckIn!Next => CheckIn!WindowPerFilter
  <2> SUFFICES ASSUME CheckIn!Next, x6' # x6 PROVE x7' = x7
    BY Numbers DEF CheckIn!WindowPerFilter, CheckIn!visibleCount
  <2> QED BY DEF CheckIn!Next, CheckIn!Operator, CheckIn!Requests, CheckIn!Failures,
       CheckIn!Refetch, CheckIn!StatusReads, CheckIn!StatusAnswered, CheckIn!StatusFails,
       CheckIn!Filter, CheckIn!ShowMore, CheckIn!Select, CheckIn!CloseDialog,
       CheckIn!checkInManually, CheckIn!Applied, CheckIn!ManualSucceeds, CheckIn!ManualFails,
       CheckIn!ToggleQr, CheckIn!NoticeEnds, CheckIn!checkInByQr, CheckIn!QrApplied,
       CheckIn!QrSucceeds, CheckIn!QrFails, CheckIn!page, CheckIn!status
<1>2. screen = "check-in" => CheckIn!Next
  BY DEF Next, OnCheckIn, OnQrScanner, OnApplications, OnEdit, OnCreate, OnImage, OnImages,
     OnPartyList, OnEditor, OnWizard, OnSigningIn, OnNavigation, OnMarket, OnRegistering
<1>3. screen = "applications" => Applications!Next
  BY DEF Next, OnCheckIn, OnQrScanner, OnApplications, OnEdit, OnCreate, OnImage, OnImages,
     OnPartyList, OnEditor, OnWizard, OnSigningIn, OnNavigation, OnMarket, OnRegistering
<1>4. screen = "images" => Images!Next
  BY DEF Next, OnCheckIn, OnQrScanner, OnApplications, OnEdit, OnCreate, OnImage, OnImages,
     OnPartyList, OnEditor, OnWizard, OnSigningIn, OnNavigation, OnMarket, OnRegistering
<1>5. screen = "list" => PartyList!Next
  BY DEF Next, OnCheckIn, OnQrScanner, OnApplications, OnEdit, OnCreate, OnImage, OnImages,
     OnPartyList, OnEditor, OnWizard, OnSigningIn, OnNavigation, OnMarket, OnRegistering
<1> QED BY <1>1, <1>2, <1>3, <1>4, <1>5, SheetsStay, ImagesKeep, ListKeeps DEF PagesInv

(* The invariant holds of every reachable state.                           *)
THEOREM Invariance == Spec => []PagesInv
<1>1. PagesInv /\ [Next]_vars => PagesInv'
  BY PagesKeep, PagesStay
<1> QED BY <1>1, PagesInit, PTL DEF Spec

(* Between two events the middleware, the guards and the effects of the    *)
(* pages redirect a few times at most, whatever the cookie says and        *)
(* whatever becomes of the session meanwhile (Middleware, Redirect).       *)
THEOREM NoLoop == Spec => []FewRedirects
BY Invariance, HopsFollow, PTL

(* At the door: the notice names nobody the server has not checked in      *)
(* (ManualSucceeds, QrSucceeds), a closed scanner holds no camera (CleanUp,*)
(* CameraGranted), and one opening of it checks in one token at most.      *)
THEOREM AtTheDoor == Spec => []DoorIsTrue
BY Invariance, DoorFollows, PTL

(* What the forms send and the list says is what the operator made and the *)
(* server has (submit, payload, handleFiles, Settle, Answered).            *)
THEOREM FormsAreKept == Spec => []FormIsKept
BY Invariance, FormsFollow, PTL

(* What is said to be done is done: a save the editor reports is of what   *)
(* stood in the form when it was pressed, answers and all between; the     *)
(* wizard sets the password of the account on screen, a sign-in uses its   *)
(* own nonce, and the scripts of the market make one of each, however they *)
(* are ended and run again (submit, complete, adopt, saveState).           *)
THEOREM WorkIsDone == Spec => []DoneIsTrue
BY Invariance, DoneFollows, PTL

(* No answer, and no press, takes away what it is not about (onSuccess,    *)
(* Settle, PageArrives, ReadFails, Filter).                                *)
THEOREM NothingGetsLost == Spec => NothingIsLost
<1>1. PagesInv /\ [Next]_vars =>
        [/\ screen = "check-in" => CheckIn!WindowPerFilter
         /\ screen = "applications" => Applications!SheetStays
         /\ screen = "images" => Images!StoredIsKept
         /\ screen = "list" => PartyList!NothingSkipped /\ PartyList!PageHasFocus]_vars
  BY StepKeeps
<1> QED BY <1>1, Invariance, PTL DEF Spec, NothingIsLost
=============================================================================
