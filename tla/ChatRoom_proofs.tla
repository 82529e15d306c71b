-------------------------- MODULE ChatRoom_proofs --------------------------
(***************************************************************************)
(* What is proved of ChatRoom for every set of drafts, window, page size,  *)
(* number of messages and number of faults: its types (the window keeps    *)
(* its size), that no message is shown twice, and that the room implements *)
(* ReadCursor, so that it reports as read only what it was handed.         *)
(*                                                                         *)
(* The log only grows and a client id is committed once, so a sequence     *)
(* number found for a draft stays found; every number the room holds or    *)
(* has on the wire was read off that log and is at most its length.  The   *)
(* cursor is raised by a page that starts at or before it, or by the run   *)
(* of observed numbers that follows it, and each of these was handed over. *)
(*                                                                         *)
(* The first part is about data (extremes of a set, the run of observed    *)
(* numbers, merging and cutting the window), the second has one lemma per  *)
(* action.                                                                 *)
(***************************************************************************)
EXTENDS ChatRoom, FiniteSetTheorems, SequenceTheorems, TLAPS


(* A finite set of numbers that is not empty has a least and a greatest.   *)
LEMMA LeastExists ==
  ASSUME NEW S, IsFiniteSet(S), \A t \in S : t \in Int, S # {}
  PROVE  \E s \in S : \A t \in S : s <= t
<1> DEFINE Below(s) == {t \in S : t < s}
           F == {Below(s) : s \in S}
<1>1. IsWellFoundedOn(StrictSubsetOrdering(S), FiniteSubsetsOf(S))
  BY FS_StrictSubsetOrderingWellFounded
<1>2. F \subseteq FiniteSubsetsOf(S) /\ F # {}
  <2>1. F \subseteq SUBSET S /\ F # {}
    OBVIOUS
  <2> QED BY <2>1, FS_FiniteSubsetsOfFinite
<1>3. PICK D \in F : \A E \in F : <<E, D>> \notin StrictSubsetOrdering(S)
  BY <1>1, <1>2, WFMin
<1>4. PICK s \in S : D = Below(s)
  OBVIOUS
<1>5. ASSUME NEW t \in S, t < s PROVE FALSE
  <2>1. Below(t) \in F /\ Below(t) \subseteq D /\ t \in D /\ t \notin Below(t)
    BY <1>4, <1>5
  <2>2. <<Below(t), D>> \in StrictSubsetOrdering(S)
    BY <2>1, <1>4 DEF StrictSubsetOrdering
  <2> QED BY <2>1, <2>2, <1>3
<1> QED BY <1>5

(* Likewise a greatest one.                                                *)
LEMMA GreatestExists ==
  ASSUME NEW S, IsFiniteSet(S), \A t \in S : t \in Int, S # {}
  PROVE  \E s \in S : \A t \in S : t <= s
<1> DEFINE Above(s) == {t \in S : t > s}
           F == {Above(s) : s \in S}
<1>1. IsWellFoundedOn(StrictSubsetOrdering(S), FiniteSubsetsOf(S))
  BY FS_StrictSubsetOrderingWellFounded
<1>2. F \subseteq FiniteSubsetsOf(S) /\ F # {}
  <2>1. F \subseteq SUBSET S /\ F # {}
    OBVIOUS
  <2> QED BY <2>1, FS_FiniteSubsetsOfFinite
<1>3. PICK D \in F : \A E \in F : <<E, D>> \notin StrictSubsetOrdering(S)
  BY <1>1, <1>2, WFMin
<1>4. PICK s \in S : D = Above(s)
  OBVIOUS
<1>5. ASSUME NEW t \in S, t > s PROVE FALSE
  <2>1. Above(t) \in F /\ Above(t) \subseteq D /\ t \in D /\ t \notin Above(t)
    BY <1>4, <1>5
  <2>2. <<Above(t), D>> \in StrictSubsetOrdering(S)
    BY <2>1, <1>4 DEF StrictSubsetOrdering
  <2> QED BY <2>1, <2>2, <1>3
<1> QED BY <1>5

(* The k largest, or smallest, of a finite set are no more than k.         *)
LEMMA LargestBound ==
  ASSUME NEW S, IsFiniteSet(S), \A t \in S : t \in Int, NEW k \in Int
  PROVE  /\ Largest(S, k) \subseteq S /\ IsFiniteSet(Largest(S, k))
         /\ Cardinality(Largest(S, k)) <= IF k > 0 THEN k ELSE 0
<1> DEFINE L == Largest(S, k)
           Above(s) == {t \in S : t > s}
<1>1. L \subseteq S BY DEF Largest
<1>2. IsFiniteSet(L) BY <1>1, FS_Subset
<1>3. CASE L = {}
  BY <1>1, <1>2, <1>3, FS_EmptySet
<1>4. CASE L # {}
  <2>1. PICK s \in L : \A t \in L : s <= t
    BY <1>1, <1>2, <1>4, LeastExists
  <2>2. Cardinality(Above(s)) < k /\ IsFiniteSet(Above(s))
    BY <1>1, FS_Subset DEF Largest
  <2>3. L \subseteq Above(s) \cup {s}
    BY <1>1, <2>1
  <2>4. /\ IsFiniteSet(Above(s) \cup {s})
        /\ Cardinality(Above(s) \cup {s}) = Cardinality(Above(s)) + 1
    <3>1. s \notin Above(s)
      BY <1>1
    <3> HIDE DEF Above
    <3> QED BY <2>2, <3>1, FS_AddElement
  <2>5. Cardinality(L) <= Cardinality(Above(s) \cup {s})
    BY <2>3, <2>4, FS_Subset
  <2>6. Cardinality(Above(s)) \in Nat /\ Cardinality(L) \in Nat
    BY <1>2, <2>2, FS_CardinalityType
  <2> QED BY <1>1, <1>2, <2>2, <2>4, <2>5, <2>6
<1> QED BY <1>3, <1>4

(* Likewise of the k smallest.                                             *)
LEMMA SmallestBound ==
  ASSUME NEW S, IsFiniteSet(S), \A t \in S : t \in Int, NEW k \in Int
  PROVE  /\ Smallest(S, k) \subseteq S /\ IsFiniteSet(Smallest(S, k))
         /\ Cardinality(Smallest(S, k)) <= IF k > 0 THEN k ELSE 0
<1> DEFINE L == Smallest(S, k)
           Below(s) == {t \in S : t < s}
<1>1. L \subseteq S BY DEF Smallest
<1>2. IsFiniteSet(L) BY <1>1, FS_Subset
<1>3. CASE L = {}
  BY <1>1, <1>2, <1>3, FS_EmptySet
<1>4. CASE L # {}
  <2>1. PICK s \in L : \A t \in L : t <= s
    BY <1>1, <1>2, <1>4, GreatestExists
  <2>2. Cardinality(Below(s)) < k /\ IsFiniteSet(Below(s))
    BY <1>1, FS_Subset DEF Smallest
  <2>3. L \subseteq Below(s) \cup {s}
    BY <1>1, <2>1
  <2>4. /\ IsFiniteSet(Below(s) \cup {s})
        /\ Cardinality(Below(s) \cup {s}) = Cardinality(Below(s)) + 1
    <3>1. s \notin Below(s)
      BY <1>1
    <3> HIDE DEF Below
    <3> QED BY <2>2, <3>1, FS_AddElement
  <2>5. Cardinality(L) <= Cardinality(Below(s) \cup {s})
    BY <2>3, <2>4, FS_Subset
  <2>6. Cardinality(Below(s)) \in Nat /\ Cardinality(L) \in Nat
    BY <1>2, <2>2, FS_CardinalityType
  <2> QED BY <1>1, <1>2, <2>2, <2>4, <2>5, <2>6
<1> QED BY <1>3, <1>4

(* A page that reads anything starts with the first message there is.      *)
LEMMA SmallestHasLeast ==
  ASSUME NEW S, IsFiniteSet(S), \A t \in S : t \in Int, S # {}, NEW k \in Nat \ {0}
  PROVE  /\ Smallest(S, k) # {} /\ Lowest(Smallest(S, k)) \in S
         /\ \A t \in S : Lowest(Smallest(S, k)) <= t
<1>1. PICK s \in S : \A t \in S : s <= t
  BY LeastExists
<1>2. {t \in S : t < s} = {}
  BY <1>1
<1>3. s \in Smallest(S, k)
  BY <1>2, FS_EmptySet DEF Smallest
<1>4. Smallest(S, k) \subseteq S
  BY DEF Smallest
<1>5. \A t \in Smallest(S, k) : s <= t
  BY <1>1, <1>4
<1>6. Lowest(Smallest(S, k)) = s
  <2>1. Lowest(Smallest(S, k)) \in Smallest(S, k)
        /\ \A t \in Smallest(S, k) : Lowest(Smallest(S, k)) <= t
    BY <1>3, <1>5 DEF Lowest
  <2>2. Lowest(Smallest(S, k)) \in Int /\ s \in Int
    BY <2>1, <1>4
  <2> QED BY <2>1, <2>2, <1>3, <1>5
<1> QED BY <1>1, <1>3, <1>6

(* The newest and the earliest committed sequence.                         *)
LEMMA LatestOf ==
  ASSUME NEW S, IsFiniteSet(S), \A t \in S : t \in Int
  PROVE  /\ S = {} => latestCommittedSequence(S) = 0
         /\ S # {} => /\ latestCommittedSequence(S) \in S
                      /\ \A t \in S : t <= latestCommittedSequence(S)
<1>1. CASE S = {}
  BY <1>1 DEF latestCommittedSequence
<1>2. CASE S # {}
  <2>1. \E s \in S : \A t \in S : t <= s
    BY <1>2, GreatestExists
  <2> QED BY <1>2, <2>1 DEF latestCommittedSequence
<1> QED BY <1>1, <1>2

(* The earliest committed number is one of those shown.                    *)
LEMMA EarliestOf ==
  ASSUME NEW S, IsFiniteSet(S), \A t \in S : t \in Int, S # {}
  PROVE  earliestCommittedSequence(S) \in S
<1>1. \E s \in S : \A t \in S : s <= t
  BY LeastExists
<1> QED BY <1>1 DEF earliestCommittedSequence, Lowest

(* The cursor stops before the first message that has not been observed.   *)
LEMMA AdvanceStops ==
  ASSUME NEW from \in Nat, NEW n \in Nat, from <= n, NEW seen \in SUBSET (1..n)
  PROVE  /\ Advance(from, seen) \in from..n
         /\ (from + 1)..Advance(from, seen) \subseteq seen
<1> DEFINE Stops == {m \in from..n : m + 1 \notin seen}
<1>1. IsFiniteSet(Stops) /\ \A t \in Stops : t \in Int
  <2>1. IsFiniteSet(from..n) /\ Stops \in SUBSET (from..n)
    BY FS_Interval
  <2> QED BY <2>1, FS_Subset
<1>2. n \in Stops
  OBVIOUS
<1>3. PICK m \in Stops : \A k \in Stops : m <= k
  BY <1>1, <1>2, LeastExists
<1>4. (from + 1)..m \subseteq seen
  <2> SUFFICES ASSUME NEW s \in (from + 1)..m, s \notin seen PROVE FALSE
    OBVIOUS
  <2>1. s - 1 \in from..n /\ (s - 1) + 1 = s /\ s - 1 < m
    OBVIOUS
  <2> QED BY <2>1, <1>3
<1>5. m \in {from} \cup seen /\ m >= from /\ m + 1 \notin seen
  BY <1>4
<1>6. \E k \in {from} \cup seen : (from + 1)..k \subseteq seen /\ k >= from /\ k + 1 \notin seen
  BY <1>4, <1>5
<1>7. /\ Advance(from, seen) \in {from} \cup seen
      /\ (from + 1)..Advance(from, seen) \subseteq seen
      /\ Advance(from, seen) >= from
  BY <1>6 DEF Advance
<1>8. Advance(from, seen) = from \/ Advance(from, seen) \in 1..n
  BY <1>7
<1>9. Advance(from, seen) \in from..n
  <2> DEFINE a == Advance(from, seen)
  <2> HIDE DEF a
  <2>1. (a = from \/ a \in 1..n) /\ a >= from => a \in from..n
    OBVIOUS
  <2> QED BY <1>7, <1>8, <2>1 DEF a
<1> QED BY <1>7, <1>9

(* Merging keeps the optimistic messages that no message commits.          *)
LEMMA RankExists ==
  ASSUME NEW n \in Nat, NEW K \in SUBSET (1..n), NEW k \in 1..Cardinality(K)
  PROVE  \E i \in K : Cardinality({j \in K : j <= i}) = k
<1> DEFINE Rank(i) == Cardinality({j \in K : j <= i})
           f == [i \in K |-> Rank(i)]
           R == 1..Cardinality(K)
<1>1. IsFiniteSet(K) /\ Cardinality(K) \in Nat
  <2>1. IsFiniteSet(1..n)
    BY FS_Interval
  <2> QED BY <2>1, FS_Subset, FS_CardinalityType
<1>2. ASSUME NEW i \in K
      PROVE  IsFiniteSet({j \in K : j <= i}) /\ Rank(i) \in R
  <2>1. {j \in K : j <= i} \in SUBSET K /\ {i} \in SUBSET {j \in K : j <= i}
    OBVIOUS
  <2>2. IsFiniteSet({j \in K : j <= i}) /\ Rank(i) <= Cardinality(K)
    BY <1>1, <2>1, FS_Subset
  <2>3. Cardinality({i}) <= Rank(i) /\ Cardinality({i}) = 1
    BY <2>1, <2>2, FS_Subset, FS_Singleton
  <2>4. Rank(i) \in Nat
    BY <2>2, FS_CardinalityType
  <2> QED BY <1>1, <2>2, <2>3, <2>4
<1>3. ASSUME NEW i \in K, NEW h \in K, i < h PROVE Rank(i) # Rank(h)
  <2>1. {j \in K : j <= i} \in SUBSET {j \in K : j <= h}
    <3>1. \A j \in K : j \in Int
      OBVIOUS
    <3>2. \A j \in K : j <= i => j <= h
      BY <3>1, <1>3
    <3> QED BY <3>2
  <2>2. h \in {j \in K : j <= h} /\ h \notin {j \in K : j <= i}
    BY <1>3
  <2> QED BY <1>2, <2>1, <2>2, FS_Subset
<1>4. f \in Injection(K, R)
  <2>1. f \in [K -> R]
    BY <1>2
  <2>2. ASSUME NEW i \in K, NEW h \in K, f[i] = f[h] PROVE i = h
    <3>1. i \in Int /\ h \in Int /\ Rank(i) = Rank(h)
      BY <2>2
    <3> QED BY <3>1, <1>3
  <2> QED BY <2>1, <2>2 DEF Injection, IsInjective
<1>5. IsFiniteSet(R) /\ Cardinality(R) = Cardinality(K)
  BY <1>1, FS_Interval
<1>6. f \in Surjection(K, R)
  BY <1>4, <1>5, FS_Injection
<1> QED BY <1>6 DEF Surjection

(* Merging keeps the drafts that were not committed, and no others.        *)
LEMMA MergeKeeps ==
  ASSUME NEW seqs, NEW L \in Seq(Locals)
  PROVE  /\ mergeBusinessMessages(seqs, L) \in Seq(Locals)
         /\ Len(mergeBusinessMessages(seqs, L)) <= Len(L)
         /\ \A k \in DOMAIN mergeBusinessMessages(seqs, L) :
              \A s \in seqs : log[s] # mergeBusinessMessages(seqs, L)[k].cid
         /\ \A k \in DOMAIN mergeBusinessMessages(seqs, L) :
              \E i \in DOMAIN L : mergeBusinessMessages(seqs, L)[k] = L[i]
<1> DEFINE n == Len(L)
           K == {i \in DOMAIN L : \A s \in seqs : log[s] # L[i].cid}
           At(k) == CHOOSE i \in K : Cardinality({j \in K : j <= i}) = k
           m == [k \in 1..Cardinality(K) |-> L[At(k)]]
<1>1. n \in Nat /\ DOMAIN L = 1..n /\ L \in [1..n -> Locals]
  BY LenProperties
<1>2. IsFiniteSet(K) /\ Cardinality(K) \in Nat /\ Cardinality(K) <= n
  <2>1. IsFiniteSet(1..n) /\ Cardinality(1..n) = n /\ K \in SUBSET (1..n)
    BY <1>1, FS_Interval
  <2> QED BY <2>1, FS_Subset, FS_CardinalityType
<1>3. ASSUME NEW k \in 1..Cardinality(K) PROVE At(k) \in K
  <2>1. K \in SUBSET (1..n)
    BY <1>1
  <2>2. \E i \in K : Cardinality({j \in K : j <= i}) = k
    <3> HIDE DEF K, n
    <3> QED BY <1>1, <2>1, RankExists
  <2> QED BY <2>2
<1>4. mergeBusinessMessages(seqs, L) = m
  BY DEF mergeBusinessMessages
<1>5. \A k \in 1..Cardinality(K) :
        /\ At(k) \in DOMAIN L /\ L[At(k)] \in Locals
        /\ \A s \in seqs : log[s] # L[At(k)].cid
  BY <1>1, <1>3
<1> HIDE DEF K, At, n
<1>6. m \in [1..Cardinality(K) -> Locals]
  BY <1>5
<1>7. m \in Seq(Locals) /\ Len(m) = Cardinality(K)
  BY <1>2, <1>6, SeqDef, LenProperties
<1>8. DOMAIN m = 1..Cardinality(K) /\ \A k \in 1..Cardinality(K) : m[k] = L[At(k)]
  OBVIOUS
<1> HIDE DEF m
<1>9. Len(m) <= Len(L)
  BY <1>1, <1>2, <1>7 DEF n
<1> QED BY <1>4, <1>5, <1>7, <1>8, <1>9

(* Either window holds at most its size, of what it is given.              *)
FitsWindow(w, S, L) ==
  /\ w.shown \subseteq S /\ w.locals \in Seq(Locals)
  /\ Cardinality(w.shown) + Len(w.locals) <= Window
  /\ \A k \in DOMAIN w.locals : \E i \in DOMAIN L : w.locals[k] = L[i]
  /\ w.trimmed \in BOOLEAN

(* A section of the drafts is a sequence of some of them.                  *)
LEMMA SuffixOf ==
  ASSUME NEW L \in Seq(Locals), NEW m \in Nat \ {0}, NEW n \in Int, n <= Len(L)
  PROVE  /\ SubSeq(L, m, n) \in Seq(Locals)
         /\ Len(SubSeq(L, m, n)) = IF m <= n THEN n - m + 1 ELSE 0
         /\ \A k \in DOMAIN SubSeq(L, m, n) : \E i \in DOMAIN L : SubSeq(L, m, n)[k] = L[i]
<1> DEFINE t == SubSeq(L, m, n)
<1>1. Len(L) \in Nat /\ DOMAIN L = 1..Len(L) /\ L \in [1..Len(L) -> Locals]
  BY LenProperties
<1>2. \A i \in m..n : L[i] \in Locals
  BY <1>1
<1>3. /\ t \in Seq(Locals) /\ Len(t) = IF m <= n THEN n - m + 1 ELSE 0
      /\ \A i \in 1..(n - m + 1) : t[i] = L[m + i - 1]
  BY <1>2, SubSeqProperties
<1>4. DOMAIN t = 1..Len(t) /\ Len(t) \in Nat
  BY <1>3, LenProperties
<1>5. ASSUME NEW k \in DOMAIN t PROVE \E i \in DOMAIN L : t[k] = L[i]
  <2>1. k \in 1..(n - m + 1)
    BY <1>3, <1>4
  <2>2. t[k] = L[m + k - 1] /\ m + k - 1 \in 1..Len(L)
    BY <1>1, <1>3, <2>1
  <2> QED BY <1>1, <2>2
<1> HIDE DEF t
<1>6. QED
  BY <1>3, <1>5 DEF t

(* Cutting at the old end leaves a window of the permitted size.           *)
LEMMA NewestFits ==
  ASSUME NEW S, IsFiniteSet(S), \A t \in S : t \in Int, NEW L \in Seq(Locals)
  PROVE  FitsWindow(newestWindow(S, L), S, L)
<1> DEFINE over == Cardinality(S) + Len(L) - Window
           w == newestWindow(S, L)
<1> SUFFICES FitsWindow(w, S, L)
  OBVIOUS
<1>1. Cardinality(S) \in Nat /\ Len(L) \in Nat /\ Window \in Nat /\ over \in Int
  BY FS_CardinalityType, LenProperties, SizesAssumption
<1>2. /\ w.shown = IF over > 0 THEN Largest(S, Cardinality(S) - over) ELSE S
      /\ w.locals = IF over > Cardinality(S)
                    THEN SubSeq(L, over - Cardinality(S) + 1, Len(L)) ELSE L
      /\ w.trimmed \in BOOLEAN
  BY DEF newestWindow
<1> HIDE DEF w
<1>3. CASE over <= 0
  <2>1. w.shown = S /\ w.locals = L
    BY <1>1, <1>2, <1>3
  <2>2. Cardinality(w.shown) + Len(w.locals) <= Window
    BY <1>1, <1>3, <2>1
  <2> QED BY <1>2, <2>1, <2>2 DEF FitsWindow
<1>4. CASE over > 0 /\ over <= Cardinality(S)
  <2>1. Largest(S, Cardinality(S) - over) \subseteq S
        /\ Cardinality(Largest(S, Cardinality(S) - over)) <= Cardinality(S) - over
    BY <1>1, <1>4, LargestBound, FS_CardinalityType
  <2>2. Cardinality(Largest(S, Cardinality(S) - over)) \in Nat
    BY <1>1, LargestBound, FS_CardinalityType
  <2>3. w.shown = Largest(S, Cardinality(S) - over) /\ w.locals = L
    BY <1>1, <1>2, <1>4
  <2>4. Cardinality(w.shown) + Len(w.locals) <= Window
    BY <1>1, <2>1, <2>2, <2>3
  <2> QED BY <1>2, <2>1, <2>3, <2>4 DEF FitsWindow
<1>5. CASE over > Cardinality(S)
  <2> DEFINE m == over - Cardinality(S) + 1
  <2>1. /\ SubSeq(L, m, Len(L)) \in Seq(Locals)
        /\ Len(SubSeq(L, m, Len(L))) = IF m <= Len(L) THEN Len(L) - m + 1 ELSE 0
        /\ \A k \in DOMAIN SubSeq(L, m, Len(L)) :
             \E i \in DOMAIN L : SubSeq(L, m, Len(L))[k] = L[i]
    <3>1. m \in Nat \ {0} /\ Len(L) \in Int /\ Len(L) <= Len(L)
      BY <1>1, <1>5
    <3> HIDE DEF m
    <3> QED BY <3>1, SuffixOf
  <2>2. Largest(S, Cardinality(S) - over) \subseteq S
        /\ Cardinality(Largest(S, Cardinality(S) - over)) = 0
    <3>1. Cardinality(Largest(S, Cardinality(S) - over)) <= 0
      BY <1>1, <1>5, LargestBound
    <3>2. Cardinality(Largest(S, Cardinality(S) - over)) \in Nat
      BY <1>1, LargestBound, FS_CardinalityType
    <3>3. Largest(S, Cardinality(S) - over) \subseteq S
      BY DEF Largest
    <3> QED BY <3>1, <3>2, <3>3
  <2>3. w.shown = Largest(S, Cardinality(S) - over) /\ w.locals = SubSeq(L, m, Len(L))
    BY <1>1, <1>2, <1>5
  <2>4. Cardinality(w.shown) + Len(w.locals) <= Window
    BY <1>1, <1>5, <2>1, <2>2, <2>3
  <2> QED BY <1>2, <2>1, <2>2, <2>3, <2>4 DEF FitsWindow
<1> QED BY <1>1, <1>3, <1>4, <1>5

(* Cutting at the new end leaves a window of the permitted size.           *)
LEMMA OldestFits ==
  ASSUME NEW S, IsFiniteSet(S), \A t \in S : t \in Int, NEW L \in Seq(Locals)
  PROVE  FitsWindow(oldestWindow(S, L), S, L)
<1> DEFINE over == Cardinality(S) + Len(L) - Window
           w == oldestWindow(S, L)
           P == Smallest(S, Window)
<1> SUFFICES FitsWindow(w, S, L)
  OBVIOUS
<1>1. Cardinality(S) \in Nat /\ Len(L) \in Nat /\ Window \in Nat /\ over \in Int
  BY FS_CardinalityType, LenProperties, SizesAssumption
<1>2. /\ w.shown = P
      /\ w.locals = IF over > 0 THEN SubSeq(L, 1, Len(L) - over) ELSE L
      /\ w.trimmed \in BOOLEAN
  BY DEF oldestWindow
<1>3. /\ P \subseteq S /\ Cardinality(P) \in Nat
      /\ Cardinality(P) <= Window /\ Cardinality(P) <= Cardinality(S)
  <2>1. P \subseteq S /\ IsFiniteSet(P)
        /\ Cardinality(P) <= IF Window > 0 THEN Window ELSE 0
    BY <1>1, SmallestBound
  <2>2. Cardinality(P) <= Cardinality(S)
    BY <2>1, FS_Subset
  <2> QED BY <1>1, <2>1, <2>2, FS_CardinalityType
<1> HIDE DEF w, P
<1>4. CASE over <= 0
  <2>1. w.shown = P /\ w.locals = L
    BY <1>1, <1>2, <1>4
  <2>2. Cardinality(w.shown) + Len(w.locals) <= Window
    BY <1>1, <1>3, <1>4, <2>1
  <2> QED BY <1>2, <1>3, <2>1, <2>2 DEF FitsWindow
<1>5. CASE over > 0
  <2> DEFINE n == Len(L) - over
  <2>1. /\ SubSeq(L, 1, n) \in Seq(Locals)
        /\ Len(SubSeq(L, 1, n)) = IF 1 <= n THEN n - 1 + 1 ELSE 0
        /\ \A k \in DOMAIN SubSeq(L, 1, n) :
             \E i \in DOMAIN L : SubSeq(L, 1, n)[k] = L[i]
    <3>1. n \in Int /\ n <= Len(L) /\ 1 \in Nat \ {0}
      BY <1>1, <1>5
    <3> HIDE DEF n
    <3> QED BY <3>1, SuffixOf
  <2>2. w.shown = P /\ w.locals = SubSeq(L, 1, n)
    BY <1>1, <1>2, <1>5
  <2>3. Cardinality(w.shown) + Len(w.locals) <= Window
    BY <1>1, <1>3, <1>5, <2>1, <2>2
  <2> QED BY <1>2, <1>3, <2>1, <2>2, <2>3 DEF FitsWindow
<1> QED BY <1>1, <1>4, <1>5

-----------------------------------------------------------------------------

(***************************************************************************)
(* The inductive invariant, in six parts.                                  *)
(***************************************************************************)
LogInv ==
  /\ log \in Seq(Clients \cup {USER}) /\ floor \in 0..Len(log)
  /\ \A i, j \in DOMAIN log : log[i] = log[j] /\ log[i] # USER => i = j
  /\ Cardinality({s \in DOMAIN log : log[s] = USER}) <= MaxUser
  /\ used \subseteq Clients /\ sent \subseteq used /\ sendTimers \subseteq used
  /\ \A s \in DOMAIN log : log[s] = USER \/ log[s] \in used

WindowInv ==
  /\ shown \subseteq 1..Len(log) /\ locals \in Seq(Locals)
  /\ Cardinality(shown) + Len(locals) <= Window
  /\ \A i \in DOMAIN locals : locals[i].cid \in used
  /\ OneCopy

CountInv ==
  /\ contiguous \in 0..Len(log) /\ base \in 0..Len(log)
  /\ received \subseteq 1..Len(log) /\ observed \subseteq received
  /\ pendingRead \in 0..contiguous /\ readMark \in 0..contiguous
  /\ phase \in {"loading", "error"} =>
       contiguous = 0 /\ base = 0 /\ readMark = 0

WireInv ==
  \A f \in frames : /\ f \in Frames /\ f.roomSeq <= Len(log)
                    /\ f.type = "message-committed" => f.roomSeq > 0

PageRequest(r) ==
  /\ r \in [after : Nat, target : Nat, len : Nat]
  /\ r.after <= Len(log) /\ r.target <= r.len /\ r.len <= Len(log)

RequestInv ==
  /\ requestedTail \in 0..Len(log)
  /\ history # NULL => history \in 0..Len(log)
  /\ phase = "loading" => history \in 0..Len(log)
  /\ phase \in {"loading", "error"} => catchUp = NULL
  /\ older # NULL => older \in 1..Len(log)
  /\ newer # NULL => PageRequest(newer)
  /\ catchUp # NULL => PageRequest(catchUp) /\ catchUp.after <= contiguous

RestInv ==
  /\ joined \in BOOLEAN /\ hasOlder \in BOOLEAN /\ hasNewer \in BOOLEAN
  /\ readTimer \in BOOLEAN /\ retryTimer \in BOOLEAN
  /\ near \in BOOLEAN /\ visible \in BOOLEAN
  /\ phase \in {"loading", "error", "ready", "left"}
  /\ socket \in {"none", "ticket", "open", "closing", "waiting"}
  /\ faults \in 0..MaxFaults
  /\ phase \in {"loading", "error"} => socket = "none" /\ ~retryTimer

IInv == LogInv /\ WindowInv /\ CountInv /\ WireInv /\ RequestInv /\ RestInv

-----------------------------------------------------------------------------
(* What a step leaves alone keeps its part.                                *)

LEMMA LogFrame ==
  LogInv /\ UNCHANGED <<log, floor, used, sent, sendTimers>> => LogInv'
BY DEF LogInv

LEMMA WindowFrame ==
  WindowInv /\ UNCHANGED <<log, shown, locals, used>> => WindowInv'
BY DEF WindowInv, OneCopy

LEMMA CountFrame ==
  CountInv /\ UNCHANGED <<log, contiguous, base, received, observed,
                          pendingRead, readMark, phase>> => CountInv'
BY DEF CountInv

LEMMA WireFrame == WireInv /\ UNCHANGED <<log, frames>> => WireInv'
BY DEF WireInv

LEMMA RequestFrame ==
  RequestInv /\ UNCHANGED <<log, requestedTail, history, phase, older, newer,
                            catchUp, contiguous>> => RequestInv'
BY DEF RequestInv, PageRequest

LEMMA RestFrame ==
  RestInv /\ UNCHANGED <<joined, hasOlder, hasNewer, readTimer, retryTimer,
                         near, visible, phase, socket, faults>> => RestInv'
BY DEF RestInv

LEMMA ReaderFrame ==
  UNCHANGED <<log, floor, received, base, contiguous, readMark>>
  => UNCHANGED Reader!cursorVars
BY DEF Reader!cursorVars

(* Every part at once, for the steps that only pass something along.       *)
ReaderSteps == [Reader!Next]_Reader!cursorVars

(* The length of the log is a number, and bounds what refers to it.        *)
LEMMA LogLength ==
  ASSUME IInv
  PROVE  /\ Len(log) \in Nat /\ DOMAIN log = 1..Len(log)
         /\ log \in [1..Len(log) -> Clients \cup {USER}]
         /\ IsFiniteSet(1..Len(log)) /\ floor \in Nat
BY LenProperties, FS_Interval DEF IInv, LogInv

-----------------------------------------------------------------------------
(* The log grows.                                                          *)

(* Appending to the log keeps what refers to the old one.                  *)
LEMMA LogGrows ==
  ASSUME IInv, NEW m \in Clients \cup {USER}, log' = Append(log, m),
         UNCHANGED <<floor, shown, locals, used, contiguous, base, received, observed,
                     pendingRead, readMark, phase, requestedTail, history, older,
                     newer, catchUp>>
  PROVE  /\ log' \in Seq(Clients \cup {USER}) /\ Len(log') = Len(log) + 1
         /\ DOMAIN log' = 1..(Len(log) + 1)
         /\ \A s \in 1..Len(log) : log'[s] = log[s]
         /\ log'[Len(log) + 1] = m
         /\ WindowInv' /\ CountInv' /\ RequestInv' /\ Reader!Publish
<1>1. /\ log' \in Seq(Clients \cup {USER}) /\ Len(log') = Len(log) + 1
      /\ \A s \in 1..Len(log) : log'[s] = log[s]
      /\ log'[Len(log) + 1] = m
  BY AppendProperties DEF IInv, LogInv
<1>2. Len(log) \in Nat /\ DOMAIN log' = 1..(Len(log) + 1)
  BY <1>1, LogLength, LenProperties
<1>3. WindowInv'
  BY <1>1, <1>2 DEF IInv, WindowInv, OneCopy
<1>4. CountInv'
  BY <1>1, <1>2 DEF IInv, CountInv
<1>5. RequestInv'
  BY <1>1, <1>2 DEF IInv, RequestInv, PageRequest
<1>6. Reader!Publish
  BY <1>1 DEF Reader!Publish
<1> QED BY <1>1, <1>2, <1>3, <1>4, <1>5, <1>6

(* What is announced stays within the log.                                 *)
LEMMA AnnounceKeeps ==
  ASSUME IInv, NEW new, Announce(new), Len(log') \in Nat, Len(log) <= Len(log'),
         \A f \in new : /\ f \in Frames /\ f.roomSeq <= Len(log')
                        /\ f.type = "message-committed" => f.roomSeq > 0
  PROVE  WireInv'
<1>1. \A f \in frames' : f \in frames \/ f \in new
  BY DEF Announce
<1>2. ASSUME NEW f \in frames
      PROVE  /\ f \in Frames /\ f.roomSeq <= Len(log')
             /\ f.type = "message-committed" => f.roomSeq > 0
  <2>1. f.roomSeq \in Int /\ f.roomSeq <= Len(log) /\ Len(log) \in Int
    BY LogLength DEF IInv, WireInv, Frames, Seqs
  <2> QED BY <2>1 DEF IInv, WireInv
<1> QED BY <1>1, <1>2 DEF WireInv

(* A log in which each client message id is once, and the user speaks no   *)
(* more than the bound, is no longer than the numbers there are.           *)
LEMMA LogFits ==
  ASSUME NEW L \in Seq(Clients \cup {USER}),
         \A i, j \in DOMAIN L : L[i] = L[j] /\ L[i] # USER => i = j,
         Cardinality({s \in DOMAIN L : L[s] = USER}) <= MaxUser
  PROVE  /\ 1..Len(L) \subseteq Seqs /\ Len(L) \in Nat
         /\ Cardinality(Seqs) = MaxUser + Cardinality(Clients)
         /\ Len(L) <= Cardinality(Seqs)
<1> DEFINE N == 1..Len(L)
           U == {s \in DOMAIN L : L[s] = USER}
           C == N \ U
           f == [s \in C |-> L[s]]
<1>1. /\ Len(L) \in Nat /\ DOMAIN L = N
      /\ \A s \in N : L[s] \in Clients \cup {USER}
  BY LenProperties
<1>2. IsFiniteSet(N) /\ Cardinality(N) = Len(L)
  BY <1>1, FS_Interval
<1>3. U \in SUBSET N /\ C \in SUBSET N /\ U \cup C = N /\ U \cap C = {}
  BY <1>1
<1>4. IsFiniteSet(U) /\ IsFiniteSet(C)
  BY <1>2, <1>3, FS_Subset
<1>5. Cardinality(N) = Cardinality(U) + Cardinality(C)
  <2> HIDE DEF N, U, C
  <2>1. Cardinality(U \cup C) = Cardinality(U) + Cardinality(C) - Cardinality(U \cap C)
    BY <1>4, FS_Union
  <2>2. Cardinality(U) \in Nat /\ Cardinality(C) \in Nat
    BY <1>4, FS_CardinalityType
  <2>3. Cardinality(U \cap C) = 0
    BY <1>3, FS_EmptySet
  <2>4. Cardinality(U \cup C) = Cardinality(N)
    BY <1>3, Zenon
  <2> QED BY <2>1, <2>2, <2>3, <2>4
<1>6. Cardinality(C) <= Cardinality(Clients)
  <2>1. f \in [C -> Clients]
    BY <1>1
  <2>2. ASSUME NEW i \in C, NEW j \in C, f[i] = f[j] PROVE i = j
    BY <1>1, <2>2
  <2>3. f \in Injection(C, Clients)
    BY <2>1, <2>2 DEF Injection, IsInjective
  <2> QED BY <2>3, ClientsAssumption, FS_Injection
<1>7. Cardinality(U) <= MaxUser
  OBVIOUS
<1>8. /\ Cardinality(U) \in Nat /\ Cardinality(C) \in Nat
      /\ Cardinality(Clients) \in Nat /\ MaxUser \in Nat
  BY <1>4, ClientsAssumption, SizesAssumption, FS_CardinalityType
<1> HIDE DEF U, C
<1>9. Len(L) <= MaxUser + Cardinality(Clients)
  BY <1>2, <1>5, <1>6, <1>7, <1>8
<1>10. 1..Len(L) \subseteq Seqs
  BY <1>1, <1>8, <1>9 DEF Seqs
<1>11. Cardinality(Seqs) = MaxUser + Cardinality(Clients)
  BY <1>8, FS_Interval DEF Seqs
<1> QED BY <1>1, <1>9, <1>10, <1>11

-----------------------------------------------------------------------------
(* The server and the gateway.                                             *)

(* The frames that announce the end of the log are frames.                 *)
LEMMA CommittedFits ==
  ASSUME LogInv', Len(log') \in Nat \ {0}
  PROVE  /\ Committed(Len(log')) \in Frames
         /\ Watermarked(Len(log')) \in Frames
         /\ Committed(Len(log')).type = "message-committed"
         /\ Committed(Len(log')).roomSeq = Len(log')
         /\ Watermarked(Len(log')).type = "watermark"
         /\ Watermarked(Len(log')).roomSeq = Len(log')
<1>1. 1..Len(log') \subseteq Seqs
  BY LogFits DEF LogInv
<1> QED BY <1>1 DEF Frames, Committed, Watermarked


(* The customer adds a message to the log.                                 *)
LEMMA UserSpeaksKeeps == IInv /\ UserSpeaks => IInv' /\ ReaderSteps
<1> SUFFICES ASSUME IInv, UserSpeaks PROVE IInv' /\ ReaderSteps
  OBVIOUS
<1>1. /\ log' = Append(log, USER) /\ Announce({Committed(Len(log) + 1)})
      /\ Cardinality({s \in DOMAIN log : log[s] = USER}) < MaxUser
      /\ UNCHANGED <<floor, sent, joined, readMark, phase, socket, shown, locals,
           hasOlder, hasNewer, contiguous, observed, received, pendingRead,
           readTimer, sendTimers, history, older, newer, catchUp, requestedTail,
           retryTimer, near, visible, used, base, faults>>
  BY DEF UserSpeaks, window, cursor, reading, pages, chasing, screen
<1>2. /\ log' \in Seq(Clients \cup {USER}) /\ Len(log') = Len(log) + 1
      /\ DOMAIN log' = 1..(Len(log) + 1)
      /\ \A s \in 1..Len(log) : log'[s] = log[s]
      /\ log'[Len(log) + 1] = USER
      /\ WindowInv' /\ CountInv' /\ RequestInv' /\ Reader!Publish
  BY <1>1, LogGrows
<1>3. Len(log) \in Nat /\ DOMAIN log = 1..Len(log) /\ IsFiniteSet(1..Len(log))
  BY LogLength
<1>4. LogInv'
  <2> DEFINE U == {s \in DOMAIN log : log[s] = USER}
  <2>1. {s \in DOMAIN log' : log'[s] = USER} = U \cup {Len(log) + 1}
    BY <1>2, <1>3
  <2>2. IsFiniteSet(U) /\ Len(log) + 1 \notin U
    BY <1>3, FS_Subset
  <2>3. Cardinality(U \cup {Len(log) + 1}) = Cardinality(U) + 1 /\ Cardinality(U) \in Nat
    <3> HIDE DEF U
    <3> QED BY <2>2, FS_AddElement, FS_CardinalityType
  <2>4. Cardinality(U \cup {Len(log) + 1}) <= MaxUser
    BY <1>1, <2>3, SizesAssumption
  <2>5. Cardinality({s \in DOMAIN log' : log'[s] = USER}) <= MaxUser
    BY <2>1, <2>4, Zenon
  <2>6. \A i, j \in DOMAIN log' : log'[i] = log'[j] /\ log'[i] # USER => i = j
    BY <1>2, <1>3 DEF IInv, LogInv
  <2>7. \A s \in DOMAIN log' : log'[s] = USER \/ log'[s] \in used'
    BY <1>1, <1>2, <1>3 DEF IInv, LogInv
  <2>8. floor' \in 0..Len(log')
    BY <1>1, <1>2, <1>3 DEF IInv, LogInv
  <2> QED BY <1>1, <1>2, <2>5, <2>6, <2>7, <2>8 DEF IInv, LogInv
<1>5. WireInv'
  <2>1. Len(log') \in Nat \ {0}
    BY <1>2, <1>3
  <2>2. /\ Committed(Len(log')) \in Frames
        /\ Committed(Len(log')).roomSeq = Len(log')
    BY <1>4, <2>1, CommittedFits
  <2> QED BY <1>1, <1>2, <1>3, <2>1, <2>2, AnnounceKeeps
<1>6. RestInv'
  BY <1>1, RestFrame DEF IInv
<1> QED BY <1>2, <1>4, <1>5, <1>6 DEF IInv, ReaderSteps, Reader!Next

(* The server commits the draft of the client id c.                        *)
LEMMA CommitKeeps ==
  ASSUME IInv, NEW c \in Clients, Commit(c) PROVE IInv' /\ ReaderSteps
<1>1. /\ c \in sent /\ sent' = sent \ {c}
      /\ UNCHANGED <<floor, joined, readMark, phase, socket, shown, locals,
           hasOlder, hasNewer, contiguous, observed, received, pendingRead,
           readTimer, sendTimers, history, older, newer, catchUp, requestedTail,
           retryTimer, near, visible, used, base, faults>>
  BY DEF Commit, window, cursor, reading, pages, chasing, screen
<1>2. Len(log) \in Nat /\ DOMAIN log = 1..Len(log) /\ IsFiniteSet(1..Len(log))
  BY LogLength
<1>3. RestInv'
  BY <1>1, RestFrame DEF IInv
<1>4. CASE \E s \in DOMAIN log : log[s] = c
  <2>1. log' = log /\ Announce({Watermarked(Len(log))})
    BY <1>4 DEF Commit
  <2>2. LogInv'
    BY <1>1, <2>1 DEF IInv, LogInv
  <2>3. WindowInv' /\ CountInv' /\ RequestInv'
    BY <1>1, <2>1, WindowFrame, CountFrame, RequestFrame DEF IInv
  <2>4. WireInv'
    <3>1. Len(log') \in Nat \ {0}
      BY <1>2, <1>4, <2>1
    <3>2. /\ Watermarked(Len(log')) \in Frames
          /\ Watermarked(Len(log')).roomSeq = Len(log')
          /\ Watermarked(Len(log')).type = "watermark"
      BY <2>2, <3>1, CommittedFits
    <3> QED BY <1>2, <2>1, <3>1, <3>2, AnnounceKeeps
  <2>5. UNCHANGED Reader!cursorVars
    BY <1>1, <2>1, ReaderFrame
  <2> QED BY <1>3, <2>2, <2>3, <2>4, <2>5 DEF IInv, ReaderSteps
<1>5. CASE ~\E s \in DOMAIN log : log[s] = c
  <2>1. /\ log' = Append(log, c)
        /\ Announce({Committed(Len(log) + 1), Watermarked(Len(log) + 1)})
    BY <1>5 DEF Commit
  <2>2. c # USER /\ c \in used
    BY <1>1, ClientsAssumption DEF IInv, LogInv
  <2>3. /\ log' \in Seq(Clients \cup {USER}) /\ Len(log') = Len(log) + 1
        /\ DOMAIN log' = 1..(Len(log) + 1)
        /\ \A s \in 1..Len(log) : log'[s] = log[s]
        /\ log'[Len(log) + 1] = c
        /\ WindowInv' /\ CountInv' /\ RequestInv' /\ Reader!Publish
    BY <1>1, <2>1, LogGrows
  <2>4. LogInv'
    <3>1. {s \in DOMAIN log' : log'[s] = USER} = {s \in DOMAIN log : log[s] = USER}
      BY <1>2, <2>2, <2>3
    <3>2. Cardinality({s \in DOMAIN log' : log'[s] = USER}) <= MaxUser
      BY <3>1 DEF IInv, LogInv
    <3>3. \A i, j \in DOMAIN log' : log'[i] = log'[j] /\ log'[i] # USER => i = j
      BY <1>2, <1>5, <2>3 DEF IInv, LogInv
    <3>4. \A s \in DOMAIN log' : log'[s] = USER \/ log'[s] \in used'
      BY <1>1, <1>2, <2>2, <2>3 DEF IInv, LogInv
    <3>5. floor' \in 0..Len(log')
      BY <1>1, <1>2, <2>3 DEF IInv, LogInv
    <3> QED BY <1>1, <2>3, <3>2, <3>3, <3>4, <3>5 DEF IInv, LogInv
  <2>5. WireInv'
    <3>1. Len(log') \in Nat \ {0}
      BY <1>2, <2>3
    <3>2. /\ Committed(Len(log')) \in Frames
          /\ Watermarked(Len(log')) \in Frames
          /\ Committed(Len(log')).roomSeq = Len(log')
          /\ Watermarked(Len(log')).roomSeq = Len(log')
          /\ Watermarked(Len(log')).type = "watermark"
      BY <2>4, <3>1, CommittedFits
    <3> QED BY <1>2, <2>1, <2>3, <3>1, <3>2, AnnounceKeeps
  <2> QED BY <1>3, <2>3, <2>4, <2>5 DEF IInv, ReaderSteps, Reader!Next
<1> QED BY <1>4, <1>5


(* A frame is sent to the room, or the socket moves on.                    *)
SocketStep == UNCHANGED <<log, floor, readMark, phase, shown, locals, hasOlder,
  hasNewer, contiguous, observed, received, pendingRead, readTimer, sendTimers,
  history, older, newer, catchUp, requestedTail, retryTimer, near, visible, used,
  base>>

(* Steps that only move the socket keep the rest.                          *)
LEMMA SocketKeeps ==
  ASSUME IInv, SocketStep, sent' \subseteq sent, WireInv', joined' \in BOOLEAN,
         socket # "none", socket' \in {"ticket", "open", "closing", "waiting"},
         faults' \in 0..MaxFaults
  PROVE  IInv' /\ ReaderSteps
<1>1. LogInv' /\ RestInv'
  BY DEF SocketStep, IInv, LogInv, RestInv
<1>2. WindowInv' /\ CountInv' /\ RequestInv' /\ UNCHANGED Reader!cursorVars
  BY WindowFrame, CountFrame, RequestFrame, ReaderFrame DEF SocketStep, IInv
<1> QED BY <1>1, <1>2 DEF IInv, ReaderSteps

(* Adding a watermark to the wire keeps the frames within the log.         *)
LEMMA WatermarkFits ==
  ASSUME IInv, frames' \subseteq frames \cup {Watermarked(Len(log))}, log' = log
  PROVE  WireInv'
<1>1. /\ Watermarked(Len(log)) \in Frames
      /\ Watermarked(Len(log)).type = "watermark"
      /\ Watermarked(Len(log)).roomSeq = Len(log)
  <2>1. 1..Len(log) \subseteq Seqs /\ Len(log) \in Nat
    BY LogFits DEF IInv, LogInv
  <2>2. Len(log) \in {0} \cup Seqs
    BY <2>1
  <2> QED BY <2>2 DEF Frames, Watermarked
<1>2. Len(log) \in Nat
  BY LogLength
<1> QED BY <1>1, <1>2 DEF IInv, WireInv

(* A fault is counted and the count stays in its bound.                    *)
LEMMA FaultCounts ==
  ASSUME IInv, Fault PROVE faults' \in 0..MaxFaults
BY SizesAssumption DEF IInv, RestInv, Fault

(* The gateway and the life of the socket keep all.                        *)
LEMMA GatewayKeeps ==
  IInv /\ (GatewayJoin \/ Watermark \/ onopen \/ TicketFails \/ ConnectionDrops
           \/ onclose \/ Reconnect) => IInv' /\ ReaderSteps
<1> SUFFICES ASSUME IInv PROVE
      (GatewayJoin \/ Watermark \/ onopen \/ TicketFails \/ ConnectionDrops
       \/ onclose \/ Reconnect) => IInv' /\ ReaderSteps
  OBVIOUS
<1> USE DEF server, wire, window, cursor, reading, pages, chasing, screen
<1>0. /\ joined \in BOOLEAN /\ faults \in 0..MaxFaults
      /\ socket \in {"none", "ticket", "open", "closing", "waiting"}
  BY DEF IInv, RestInv
<1>1. ASSUME GatewayJoin PROVE IInv' /\ ReaderSteps
  <2>1. SocketStep /\ sent' \subseteq sent /\ joined' \in BOOLEAN
        /\ socket = "open" /\ socket' = socket /\ faults' = faults
    BY <1>1 DEF GatewayJoin, SocketStep
  <2>2. WireInv'
    BY <1>1, <2>1, WatermarkFits DEF GatewayJoin, SocketStep
  <2> QED BY <1>0, <2>1, <2>2, SocketKeeps
<1>2. ASSUME Watermark PROVE IInv' /\ ReaderSteps
  <2>1. SocketStep /\ sent' \subseteq sent /\ joined' = joined
        /\ socket = "open" /\ socket' = socket /\ faults' = faults
    BY <1>2 DEF Watermark, SocketStep
  <2>2. WireInv'
    BY <1>2, <2>1, WatermarkFits DEF Watermark, SocketStep, Announce
  <2> QED BY <1>0, <2>1, <2>2, SocketKeeps
<1>3. ASSUME ConnectionDrops PROVE IInv' /\ ReaderSteps
  <2>1. SocketStep /\ sent' \subseteq sent /\ joined' \in BOOLEAN
        /\ socket = "open" /\ socket' = "closing" /\ Fault /\ frames' = {}
    BY <1>3 DEF ConnectionDrops, SocketStep
  <2>2. WireInv'
    BY <2>1 DEF WireInv
  <2> QED BY <2>1, <2>2, SocketKeeps, FaultCounts
<1>4. ASSUME onopen \/ onclose \/ Reconnect PROVE IInv' /\ ReaderSteps
  <2>1. SocketStep /\ sent' \subseteq sent /\ joined' = joined
        /\ socket \in {"ticket", "closing", "waiting"}
        /\ socket' \in {"open", "waiting", "ticket"} /\ faults' = faults
        /\ frames' = frames
    BY <1>4 DEF onopen, onclose, Reconnect, SocketStep
  <2>2. WireInv'
    BY <2>1, WireFrame DEF IInv, SocketStep
  <2> QED BY <1>0, <2>1, <2>2, SocketKeeps
<1>5. ASSUME TicketFails PROVE IInv' /\ ReaderSteps
  <2>1. SocketStep /\ sent' \subseteq sent /\ joined' = joined
        /\ socket = "ticket" /\ socket' = "waiting" /\ Fault /\ frames' = frames
    BY <1>5 DEF TicketFails, SocketStep
  <2>2. WireInv'
    BY <2>1, WireFrame DEF IInv, SocketStep
  <2> QED BY <1>0, <2>1, <2>2, SocketKeeps, FaultCounts
<1> QED BY <1>1, <1>2, <1>3, <1>4, <1>5

(* Another screen clears the room: the floor rises.                        *)
LEMMA ClearElsewhereKeeps == IInv /\ ClearElsewhere => IInv' /\ ReaderSteps
<1> SUFFICES ASSUME IInv, ClearElsewhere PROVE IInv' /\ ReaderSteps
  OBVIOUS
<1>1. /\ Fault /\ floor < Len(log) /\ floor' = Len(log)
      /\ UNCHANGED <<log, sent, frames, joined, socket, readMark, phase, shown,
           locals, hasOlder, hasNewer, contiguous, observed, received,
           pendingRead, readTimer, sendTimers, history, older, newer, catchUp,
           requestedTail, retryTimer, near, visible, used, base>>
  BY DEF ClearElsewhere, wire, window, cursor, reading, pages, chasing, screen
<1>2. Len(log) \in Nat /\ floor \in Nat
  BY LogLength
<1>3. LogInv'
  BY <1>1, <1>2 DEF IInv, LogInv
<1>4. WindowInv' /\ CountInv' /\ RequestInv' /\ WireInv'
  BY <1>1, WindowFrame, CountFrame, RequestFrame, WireFrame DEF IInv
<1>5. RestInv'
  BY <1>1, FaultCounts DEF IInv, RestInv
<1>6. Reader!Clear
  BY <1>1, <1>2 DEF Reader!Clear
<1> QED BY <1>3, <1>4, <1>5, <1>6 DEF IInv, ReaderSteps, Reader!Next


-----------------------------------------------------------------------------
(* The parts the handlers share.                                           *)

(* A scheduled or withdrawn read stays behind the cursor.                  *)
LEMMA ScheduledReadStays ==
  ASSUME NEW n \in Nat, NEW seq \in 0..n, pendingRead \in 0..n,
         readTimer \in BOOLEAN, NEW away, NEW bottom \in BOOLEAN,
         NEW seen \in BOOLEAN, scheduleRead(seq, away, bottom, seen)
  PROVE  pendingRead' \in 0..n /\ readTimer' \in BOOLEAN
<1>1. CASE seq = 0 \/ away
  BY <1>1 DEF scheduleRead, reading
<1>2. CASE ~(seq = 0 \/ away)
  <2>1. pendingRead' = Larger(pendingRead, seq) /\ readTimer' = (bottom /\ seen)
    BY <1>2 DEF scheduleRead
  <2>2. Larger(pendingRead, seq) \in 0..n
    BY DEF Larger
  <2>3. (bottom /\ seen) \in BOOLEAN
    OBVIOUS
  <2> QED BY <2>1, <2>2, <2>3
<1> QED BY <1>1, <1>2

(* Withdrawing the pending read keeps its bound.                           *)
LEMMA WithdrawnReadStays ==
  ASSUME NEW n \in Nat, pendingRead \in 0..n, withdrawRead
  PROVE  pendingRead' \in 0..n /\ readTimer' \in BOOLEAN
<1>1. pendingRead' = 0 \/ pendingRead' = pendingRead
  BY DEF withdrawRead
<1>2. pendingRead' \in 0..n
  BY <1>1
<1>3. readTimer' = FALSE
  BY DEF withdrawRead
<1> QED BY <1>2, <1>3

(* A page holds messages of its range, and leaves out only what is cleared *)
(* before the first of them.                                               *)
LEMMA PageAfterHolds ==
  ASSUME IInv, NEW after \in Nat, NEW n \in 0..Len(log)
  PROVE  LET page == PageAfter(after, n).messages IN
         /\ page \subseteq (after + 1)..n /\ page \subseteq 1..Len(log)
         /\ IsFiniteSet(page) /\ PageAfter(after, n).hasMore \in BOOLEAN
         /\ page = {} => \A s \in (after + 1)..n : s <= floor
         /\ page # {} => /\ Lowest(page) \in (after + 1)..n
                         /\ \A s \in (after + 1)..(Lowest(page) - 1) : s <= floor
<1> DEFINE there == {s \in (after + 1)..n : s > floor}
           page == Smallest(there, PageSize)
<1>1. /\ PageAfter(after, n).messages = page
      /\ PageAfter(after, n).hasMore \in BOOLEAN
  BY DEF PageAfter
<1>2. Len(log) \in Nat /\ floor \in Nat /\ PageSize \in Nat \ {0} /\ n \in Nat
  BY LogLength, SizesAssumption
<1>15. PageSize \in Int
  BY <1>2
<1>3. there \subseteq (after + 1)..n /\ IsFiniteSet(there) /\ \A t \in there : t \in Int
  <2>1. after + 1 \in Int /\ n \in Int /\ there \in SUBSET ((after + 1)..n)
    BY <1>2
  <2>2. IsFiniteSet((after + 1)..n)
    BY <2>1, FS_Interval
  <2> QED BY <2>1, <2>2, FS_Subset
<1>4. \A s \in (after + 1)..n : s \notin there => s <= floor
  BY <1>2
<1> HIDE DEF there
<1>5. page \subseteq there /\ IsFiniteSet(page)
  BY <1>15, <1>3, SmallestBound
<1>6. there # {} => /\ page # {} /\ Lowest(page) \in there
                    /\ \A t \in there : Lowest(page) <= t
  BY <1>2, <1>3, SmallestHasLeast
<1> HIDE DEF page
<1>7. page = {} => \A s \in (after + 1)..n : s <= floor
  BY <1>4, <1>6
<1>8. ASSUME page # {}
      PROVE  /\ Lowest(page) \in (after + 1)..n
             /\ \A s \in (after + 1)..(Lowest(page) - 1) : s <= floor
  <2>1. Lowest(page) \in (after + 1)..n /\ \A t \in there : Lowest(page) <= t
    BY <1>3, <1>5, <1>6, <1>8
  <2>2. ASSUME NEW s \in (after + 1)..(Lowest(page) - 1) PROVE s <= floor
    <3>1. s \in (after + 1)..n /\ ~(Lowest(page) <= s)
      BY <1>2, <2>1
    <3> QED BY <1>4, <2>1, <3>1
  <2> QED BY <2>1, <2>2
<1>9. page \subseteq (after + 1)..n /\ page \subseteq 1..Len(log)
  BY <1>2, <1>3, <1>5
<1> QED BY <1>1, <1>5, <1>7, <1>8, <1>9

(* The page before a number lies within the log.                           *)
LEMMA PageBeforeHolds ==
  ASSUME IInv, NEW before \in 1..(Len(log) + 1)
  PROVE  /\ PageBefore(before).messages \subseteq 1..Len(log)
         /\ IsFiniteSet(PageBefore(before).messages)
         /\ PageBefore(before).hasMore \in BOOLEAN
<1> DEFINE there == (floor + 1)..(before - 1)
<1>1. Len(log) \in Nat /\ floor \in Nat /\ PageSize \in Nat \ {0}
  BY LogLength, SizesAssumption
<1>2. there \subseteq 1..Len(log) /\ IsFiniteSet(there) /\ \A t \in there : t \in Int
  <2>1. floor + 1 \in Int /\ before - 1 \in Int /\ there \subseteq 1..Len(log)
    BY <1>1
  <2> QED BY <2>1, FS_Interval
<1>3. /\ PageBefore(before).messages = Largest(there, PageSize)
      /\ PageBefore(before).hasMore \in BOOLEAN
  BY DEF PageBefore
<1> HIDE DEF there
<1>4. Largest(there, PageSize) \subseteq there /\ IsFiniteSet(Largest(there, PageSize))
  <2>1. PageSize \in Int
    BY <1>1
  <2> QED BY <1>2, <2>1, LargestBound
<1> QED BY <1>2, <1>3, <1>4

(* The newest message of a set of the log's.                               *)
LEMMA LatestInLog ==
  ASSUME IInv, NEW S \in SUBSET (1..Len(log))
  PROVE  /\ IsFiniteSet(S) /\ (\A t \in S : t \in Int)
         /\ latestCommittedSequence(S) \in 0..Len(log)
         /\ S # {} => /\ earliestCommittedSequence(S) \in S
                      /\ latestCommittedSequence(S) \in S
<1>1. Len(log) \in Nat /\ IsFiniteSet(1..Len(log))
  BY LogLength
<1>2. IsFiniteSet(S) /\ \A t \in S : t \in Int
  <2>1. \A t \in S : t \in Int
    OBVIOUS
  <2> QED BY <1>1, <2>1, FS_Subset
<1>3. S # {} => /\ earliestCommittedSequence(S) \in S
                /\ latestCommittedSequence(S) \in S
  BY <1>2, LatestOf, EarliestOf
<1>4. S = {} => latestCommittedSequence(S) = 0
  BY <1>2, LatestOf
<1>5. latestCommittedSequence(S) = 0 \/ latestCommittedSequence(S) \in 1..Len(log)
  BY <1>3, <1>4
<1>6. latestCommittedSequence(S) \in 0..Len(log)
  BY <1>1, <1>5
<1> QED BY <1>2, <1>3, <1>6

(* A window of messages of the log and drafts none of them commits.        *)
LEMMA WindowKeeps ==
  ASSUME IInv, log' = log, NEW S \in SUBSET (1..Len(log)), NEW L \in Seq(Locals),
         \A i \in DOMAIN L : \A s \in S : log[s] # L[i].cid,
         \A i \in DOMAIN L : L[i].cid \in used',
         NEW w, FitsWindow(w, S, L), shown' = w.shown, locals' = w.locals
  PROVE  WindowInv'
<1>1. ASSUME NEW k \in DOMAIN w.locals, NEW s \in w.shown
      PROVE  log[s] # w.locals[k].cid
  <2>1. s \in S /\ \E i \in DOMAIN L : w.locals[k] = L[i]
    BY DEF FitsWindow
  <2> QED BY <2>1
<1>2. \A k \in DOMAIN w.locals : w.locals[k].cid \in used'
  BY DEF FitsWindow
<1> QED BY <1>1, <1>2 DEF FitsWindow, WindowInv, OneCopy


-----------------------------------------------------------------------------
(* The history.                                                            *)

(* The first page arrives.                                                 *)
LEMMA HistoryLoadedKeeps == IInv /\ HistoryLoaded => IInv' /\ ReaderSteps
<1> SUFFICES ASSUME IInv, HistoryLoaded PROVE IInv' /\ ReaderSteps
  OBVIOUS
<1>1. /\ phase = "loading" /\ phase' = "ready" /\ socket' = "ticket"
      /\ near' = TRUE /\ history' = NULL
      /\ UNCHANGED <<log, floor, sent, frames, joined, readMark, sendTimers, older,
           newer, catchUp, retryTimer, visible, used, faults>>
  BY DEF HistoryLoaded, server, pages
<1>2. Len(log) \in Nat /\ history \in 0..Len(log)
  BY <1>1, LogLength DEF IInv, RequestInv
<1>3. PICK n \in history..Len(log) :
        LET page == PageBefore(n + 1)
            win == newestWindow(page.messages, <<>>)
            at == latestCommittedSequence(page.messages)
        IN  /\ shown' = win.shown /\ locals' = win.locals
            /\ hasOlder' = (page.hasMore \/ win.trimmed) /\ hasNewer' = FALSE
            /\ contiguous' = at /\ observed' = {} /\ base' = at
            /\ requestedTail' = at
            /\ received' = page.messages
            /\ scheduleRead(at, FALSE, TRUE, visible)
  BY DEF HistoryLoaded
<1> DEFINE page == PageBefore(n + 1).messages
           more == PageBefore(n + 1).hasMore
           win == newestWindow(page, <<>>)
           at == latestCommittedSequence(page)
<1>4. /\ shown' = win.shown /\ locals' = win.locals
      /\ hasOlder' = (more \/ win.trimmed) /\ hasNewer' = FALSE
      /\ contiguous' = at /\ observed' = {} /\ base' = at
      /\ requestedTail' = at
      /\ received' = page
      /\ scheduleRead(at, FALSE, TRUE, visible)
  BY <1>3
<1>5. page \subseteq 1..Len(log) /\ more \in BOOLEAN
  <2>1. n + 1 \in 1..(Len(log) + 1)
    BY <1>2
  <2> QED BY <2>1, PageBeforeHolds
<1> HIDE DEF page, more
<1>6. /\ IsFiniteSet(page) /\ (\A t \in page : t \in Int) /\ at \in 0..Len(log)
  BY <1>5, LatestInLog
<1>7. FitsWindow(win, page, <<>>) /\ <<>> \in Seq(Locals)
  BY <1>6, EmptySeq, NewestFits
<1> HIDE DEF win, at
<1>8. WindowInv'
  <2>1. DOMAIN (<<>>) = {}
    OBVIOUS
  <2>2. \A i \in DOMAIN (<<>>) :
          (<<>>)[i].cid \in used' /\ \A s \in page : log[s] # (<<>>)[i].cid
    BY <2>1
  <2> QED BY <1>1, <1>4, <1>5, <1>7, <2>2, WindowKeeps
<1>9. contiguous = 0 /\ base = 0 /\ readMark = 0 /\ pendingRead = 0
  BY <1>1 DEF IInv, CountInv
<1>10. pendingRead' \in 0..at /\ readTimer' \in BOOLEAN
  <2>1. at \in Nat /\ at \in 0..at /\ pendingRead \in 0..at
    BY <1>6, <1>9
  <2>2. readTimer \in BOOLEAN /\ visible \in BOOLEAN /\ TRUE \in BOOLEAN
    BY DEF IInv, RestInv
  <2> QED BY <1>4, <2>1, <2>2, ScheduledReadStays
<1>11. CountInv'
  BY <1>1, <1>2, <1>4, <1>5, <1>6, <1>9, <1>10 DEF CountInv
<1>12. RequestInv'
  BY <1>1, <1>4, <1>6, <1>9 DEF IInv, RequestInv, CountInv, PageRequest
<1>13. LogInv' /\ WireInv'
  BY <1>1, LogFrame, WireFrame DEF IInv
<1>14. RestInv'
  <2>1. hasOlder' \in BOOLEAN
    BY <1>4, <1>5, <1>7 DEF FitsWindow
  <2> QED BY <1>1, <1>4, <1>10, <2>1 DEF IInv, RestInv
<1>15. Reader!Open
  BY <1>1, <1>4, <1>5, <1>6, <1>9 DEF Reader!Open
<1> QED BY <1>8, <1>11, <1>12, <1>13, <1>14, <1>15 DEF IInv, ReaderSteps, Reader!Next

(* The first page fails, or is asked for again.                            *)
LEMMA HistoryKeeps == IInv /\ (HistoryFails \/ ReloadHistory) => IInv' /\ ReaderSteps
<1> SUFFICES ASSUME IInv, HistoryFails \/ ReloadHistory PROVE IInv' /\ ReaderSteps
  OBVIOUS
<1>1. /\ phase \in {"loading", "error"} /\ phase' \in {"error", "loading"}
      /\ faults' = faults \/ Fault
      /\ \/ phase' = "loading" /\ history' = Len(log)
         \/ phase' = "error" /\ history' = NULL
      /\ UNCHANGED <<log, floor, sent, frames, joined, socket, readMark, shown,
           locals, hasOlder, hasNewer, contiguous, observed, received,
           pendingRead, readTimer, sendTimers, older, newer, catchUp,
           requestedTail, retryTimer, near, visible, used, base>>
  BY DEF HistoryFails, ReloadHistory, server, wire, window, cursor, reading, pages,
         chasing, screen
<1>2. LogInv' /\ WindowInv' /\ WireInv' /\ UNCHANGED Reader!cursorVars
  BY <1>1, LogFrame, WindowFrame, WireFrame, ReaderFrame DEF IInv
<1>3. CountInv'
  BY <1>1 DEF IInv, CountInv
<1>4. RequestInv'
  <2>1. Len(log) \in Nat
    BY LogLength
  <2> QED BY <1>1, <2>1 DEF IInv, RequestInv, PageRequest
<1>5. RestInv'
  <2>1. faults' \in 0..MaxFaults
    BY <1>1, FaultCounts DEF IInv, RestInv
  <2> QED BY <1>1, <2>1 DEF IInv, RestInv
<1> QED BY <1>2, <1>3, <1>4, <1>5 DEF IInv, ReaderSteps


-----------------------------------------------------------------------------
(* Merging what has been committed, and catching up.                       *)

(* The cursor comes to where all that has been observed beyond `from' ends, *)
(* the window keeps one copy, and what waits to be read is accounted for.  *)
MergedTo(from) ==
  /\ WindowInv' /\ contiguous' \in from..Len(log)
  /\ (from + 1)..contiguous' \subseteq received'
  /\ received \subseteq received' /\ received' \subseteq 1..Len(log)
  /\ observed' \subseteq received'
  /\ pendingRead' \in 0..contiguous' /\ readTimer' \in BOOLEAN
  /\ hasOlder' \in BOOLEAN /\ hasNewer' \in BOOLEAN
  /\ sendTimers' \subseteq sendTimers

(* A merge of handed-over messages keeps the room.                         *)
LEMMA MergeKeepsRoom ==
  ASSUME IInv, UNCHANGED <<log, used>>, NEW seqs \in SUBSET (1..Len(log)),
         NEW from \in contiguous..Len(log), mergeCommittedMessages(seqs, from)
  PROVE  MergedTo(from)
<1> DEFINE merged == mergeBusinessMessages(seqs, locals)
           win == newestWindow(shown \cup seqs, merged)
           seen == observed \cup {s \in seqs : s > from}
           to == Advance(from, seen)
<1>1. /\ IF hasNewer
         THEN withdrawRead /\ UNCHANGED window
         ELSE /\ shown' = win.shown /\ locals' = win.locals
              /\ hasOlder' = (hasOlder \/ win.trimmed)
              /\ scheduleRead(to, FALSE, near, visible)
              /\ UNCHANGED hasNewer
      /\ sendTimers' = sendTimers \ {log[s] : s \in seqs}
      /\ observed' = seen \ (from + 1)..to
      /\ contiguous' = to
      /\ received' = received \cup seqs
  BY DEF mergeCommittedMessages
<1>2. /\ Len(log) \in Nat /\ contiguous \in 0..Len(log)
      /\ received \subseteq 1..Len(log) /\ observed \subseteq received
      /\ pendingRead \in 0..contiguous
      /\ shown \subseteq 1..Len(log) /\ locals \in Seq(Locals)
      /\ \A i \in DOMAIN locals : \A s \in shown : log[s] # locals[i].cid
      /\ {readTimer, hasNewer, hasOlder, near, visible} \subseteq BOOLEAN
  BY LogLength DEF IInv, CountInv, WindowInv, OneCopy, RestInv
<1>3. from \in Nat /\ from <= Len(log) /\ contiguous <= from
  BY <1>2
<1>4. seen \in SUBSET (1..Len(log)) /\ seen \subseteq received'
  BY <1>1, <1>2
<1> HIDE DEF seen
<1>5. to \in from..Len(log) /\ (from + 1)..to \subseteq seen
  BY <1>2, <1>3, <1>4, AdvanceStops
<1> HIDE DEF to
<1>6. /\ contiguous' \in from..Len(log) /\ (from + 1)..contiguous' \subseteq received'
      /\ received \subseteq received' /\ received' \subseteq 1..Len(log)
      /\ observed' \subseteq received' /\ sendTimers' \subseteq sendTimers
  BY <1>1, <1>2, <1>4, <1>5
<1>7. to \in Nat /\ to \in 0..to /\ pendingRead \in 0..to
  BY <1>2, <1>3, <1>5
<1>8. CASE hasNewer
  <2>1. withdrawRead /\ UNCHANGED <<shown, locals, hasOlder, hasNewer>>
    BY <1>1, <1>8 DEF window
  <2>2. pendingRead' \in 0..to /\ readTimer' \in BOOLEAN
    BY <1>7, <2>1, WithdrawnReadStays
  <2>3. WindowInv'
    BY <2>1, WindowFrame DEF IInv
  <2>4. hasOlder' \in BOOLEAN /\ hasNewer' \in BOOLEAN
    BY <1>2, <2>1
  <2> QED BY <1>1, <1>6, <2>2, <2>3, <2>4 DEF MergedTo
<1>9. CASE ~hasNewer
  <2>1. /\ shown' = win.shown /\ locals' = win.locals
        /\ hasOlder' = (hasOlder \/ win.trimmed)
        /\ scheduleRead(to, FALSE, near, visible) /\ hasNewer' = hasNewer
    BY <1>1, <1>9
  <2>2. readTimer \in BOOLEAN /\ near \in BOOLEAN /\ visible \in BOOLEAN
    BY <1>2
  <2>3. pendingRead' \in 0..to /\ readTimer' \in BOOLEAN
    BY <1>7, <2>1, <2>2, ScheduledReadStays
  <2>4. /\ merged \in Seq(Locals)
        /\ \A k \in DOMAIN merged : \A s \in seqs : log[s] # merged[k].cid
        /\ \A k \in DOMAIN merged : \E i \in DOMAIN locals : merged[k] = locals[i]
    BY <1>2, MergeKeeps
  <2> HIDE DEF merged
  <2>5. \A k \in DOMAIN merged : \A s \in shown \cup seqs : log[s] # merged[k].cid
    BY <1>2, <2>4
  <2>15. \A k \in DOMAIN merged : merged[k].cid \in used'
    BY <2>4 DEF IInv, WindowInv
  <2>6. /\ shown \cup seqs \in SUBSET (1..Len(log)) /\ IsFiniteSet(shown \cup seqs)
        /\ \A t \in shown \cup seqs : t \in Int
    <3>1. shown \cup seqs \in SUBSET (1..Len(log))
      BY <1>2
    <3> QED BY <3>1, LatestInLog
  <2>7. FitsWindow(win, shown \cup seqs, merged)
    BY <2>4, <2>6, NewestFits
  <2> HIDE DEF win
  <2>8. WindowInv'
    BY <2>1, <2>4, <2>5, <2>6, <2>7, <2>15, WindowKeeps
  <2>9. hasOlder' \in BOOLEAN /\ hasNewer' \in BOOLEAN
    BY <1>2, <2>1, <2>7 DEF FitsWindow
  <2> QED BY <1>1, <1>6, <2>3, <2>8, <2>9 DEF MergedTo
<1> QED BY <1>2, <1>8, <1>9

(* A catch-up that starts asks from the cursor, for what is known.         *)
LEMMA RequestIsPage ==
  ASSUME IInv, NEW at \in 0..Len(log), NEW tail \in 0..Len(log)
  PROVE  PageRequest(Request(at, tail)) /\ Request(at, tail).after = at
<1>1. Len(log) \in Nat
  BY LogLength
<1> QED BY <1>1 DEF PageRequest, Request

(* The cursor may move over what was observed and what was cleared.        *)
LEMMA MovesCursor ==
  ASSUME IInv, UNCHANGED <<log, floor, readMark, base, phase, history, older, newer>>,
         phase # "loading", phase # "error",
         contiguous' \in contiguous..Len(log),
         received \subseteq received', received' \subseteq 1..Len(log),
         observed' \subseteq received', pendingRead' \in 0..contiguous',
         \A s \in (contiguous + 1)..contiguous' : s \in received' \/ s <= floor,
         requestedTail' \in 0..Len(log),
         catchUp' # NULL => PageRequest(catchUp') /\ catchUp'.after <= contiguous'
  PROVE  CountInv' /\ RequestInv' /\ ReaderSteps
<1>1. Len(log) \in Nat /\ contiguous \in 0..Len(log) /\ contiguous' \in 0..Len(log)
  BY LogLength DEF IInv, CountInv
<1>2. CountInv'
  BY <1>1 DEF IInv, CountInv
<1>3. RequestInv'
  BY <1>1 DEF IInv, RequestInv, PageRequest
<1>4. Reader!Receive
  BY <1>1 DEF Reader!Receive, Reader!Accounted
<1> QED BY <1>2, <1>3, <1>4 DEF ReaderSteps, Reader!Next


(* Asking for the gap up to a target keeps the room.                       *)
LEMMA CatchUpToKeeps ==
  ASSUME IInv, NEW tail \in 1..Len(log), contiguous' \in contiguous..Len(log),
         catchUpTo(tail, contiguous')
  PROVE  /\ requestedTail' \in 0..Len(log) /\ retryTimer' \in BOOLEAN
         /\ catchUp' # NULL => PageRequest(catchUp') /\ catchUp'.after <= contiguous'
<1> DEFINE wanted == Larger(requestedTail, tail)
<1>1. /\ Len(log) \in Nat /\ contiguous \in 0..Len(log)
      /\ requestedTail \in 0..Len(log) /\ retryTimer \in BOOLEAN
      /\ catchUp # NULL => PageRequest(catchUp) /\ catchUp.after <= contiguous
  BY LogLength DEF IInv, CountInv, RequestInv, RestInv
<1>2. wanted \in 0..Len(log)
  BY <1>1 DEF Larger
<1>3. /\ requestedTail' = wanted
      /\ \/ UNCHANGED <<catchUp, retryTimer>>
         \/ catchUp' = Request(contiguous', wanted) /\ retryTimer' = FALSE
  BY DEF catchUpTo
<1> HIDE DEF wanted
<1>4. contiguous' \in 0..Len(log)
  BY <1>1
<1>5. CASE UNCHANGED <<catchUp, retryTimer>>
  <2>1. catchUp # NULL => catchUp.after <= contiguous'
    BY <1>1, <1>4 DEF PageRequest
  <2> QED BY <1>1, <1>2, <1>3, <1>5, <2>1
<1>6. CASE catchUp' = Request(contiguous', wanted) /\ retryTimer' = FALSE
  <2>1. PageRequest(Request(contiguous', wanted)) /\ Request(contiguous', wanted).after = contiguous'
    BY <1>2, <1>4, RequestIsPage
  <2>2. catchUp'.after <= contiguous'
    BY <1>4, <1>6, <2>1
  <2>3. retryTimer' \in BOOLEAN
    BY <1>6
  <2> QED BY <1>2, <1>3, <1>6, <2>1, <2>2, <2>3
<1> QED BY <1>3, <1>5, <1>6

(* A frame arrives.                                                        *)
LEMMA MessageKeeps ==
  ASSUME IInv, NEW f \in frames, onmessage(f) PROVE IInv' /\ ReaderSteps
<1>1. /\ frames' = frames \ {f} /\ socket = "open"
      /\ IF f.type = "message-committed"
         THEN mergeCommittedMessages({f.roomSeq}, contiguous)
         ELSE UNCHANGED <<window, cursor, reading, sendTimers>>
      /\ IF f.roomSeq > 0 THEN catchUpTo(f.roomSeq, contiguous') ELSE UNCHANGED chasing
      /\ UNCHANGED <<log, floor, sent, joined, readMark, phase, socket, history,
           older, newer, near, visible, used, base, faults>>
  BY DEF onmessage, server, pages, screen
<1>2. /\ Len(log) \in Nat /\ contiguous \in 0..Len(log)
      /\ f.roomSeq \in Int /\ f.roomSeq <= Len(log)
      /\ f.type = "message-committed" => f.roomSeq \in 1..Len(log)
  BY LogLength DEF IInv, CountInv, WireInv, Frames, Seqs
<1>3. phase # "loading" /\ phase # "error"
  BY <1>1 DEF IInv, RestInv
<1>4. MergedTo(contiguous)
  <2>1. CASE f.type = "message-committed"
    <3>1. {f.roomSeq} \in SUBSET (1..Len(log)) /\ contiguous \in contiguous..Len(log)
      BY <1>2, <2>1
    <3> QED BY <1>1, <2>1, <3>1, MergeKeepsRoom
  <2>2. CASE f.type # "message-committed"
    <3>1. UNCHANGED <<shown, locals, hasOlder, hasNewer, contiguous, observed,
                      received, pendingRead, readTimer, sendTimers>>
      BY <1>1, <2>2 DEF window, cursor, reading
    <3>2. WindowInv'
      BY <1>1, <3>1, WindowFrame DEF IInv
    <3>3. /\ received \subseteq 1..Len(log) /\ observed \subseteq received
          /\ pendingRead \in 0..contiguous /\ readTimer \in BOOLEAN
          /\ hasOlder \in BOOLEAN /\ hasNewer \in BOOLEAN
          /\ (contiguous + 1)..contiguous \subseteq received
      BY <1>2 DEF IInv, CountInv, RestInv
    <3> QED BY <1>2, <3>1, <3>2, <3>3 DEF MergedTo
  <2> QED BY <2>1, <2>2
<1>5. /\ requestedTail' \in 0..Len(log) /\ retryTimer' \in BOOLEAN
      /\ catchUp' # NULL => PageRequest(catchUp') /\ catchUp'.after <= contiguous'
  <2>1. CASE f.roomSeq > 0
    <3>1. f.roomSeq \in 1..Len(log)
      BY <1>2, <2>1
    <3> QED BY <1>1, <1>4, <2>1, <3>1, CatchUpToKeeps DEF MergedTo
  <2>2. CASE ~(f.roomSeq > 0)
    <3>1. UNCHANGED <<catchUp, requestedTail, retryTimer>>
      BY <1>1, <2>2 DEF chasing
    <3>2. contiguous' \in contiguous..Len(log)
      BY <1>4 DEF MergedTo
    <3>3. catchUp # NULL => PageRequest(catchUp) /\ catchUp.after <= contiguous'
      BY <1>2, <3>2 DEF IInv, RequestInv, PageRequest
    <3> QED BY <3>1, <3>3 DEF IInv, RequestInv, RestInv
  <2> QED BY <2>1, <2>2
<1>6. CountInv' /\ RequestInv' /\ ReaderSteps
  BY <1>1, <1>3, <1>4, <1>5, MovesCursor DEF MergedTo
<1>7. LogInv'
  BY <1>1, <1>4 DEF IInv, LogInv, MergedTo
<1>8. WireInv'
  BY <1>1 DEF IInv, WireInv
<1>9. RestInv'
  BY <1>1, <1>3, <1>4, <1>5 DEF IInv, RestInv, MergedTo
<1> QED BY <1>4, <1>6, <1>7, <1>8, <1>9 DEF IInv, MergedTo


(* What follows a page of the gap: the next one, or the end.               *)
LEMMA ContinueKeeps ==
  ASSUME IInv, NEW at \in 0..Len(log), EndCatchUp(at) \/ Continue(at)
  PROVE  /\ retryTimer' \in BOOLEAN
         /\ catchUp' # NULL => PageRequest(catchUp') /\ catchUp'.after = at
<1>1. requestedTail \in 0..Len(log) /\ retryTimer \in BOOLEAN
  BY DEF IInv, RequestInv, RestInv
<1>2. \/ catchUp' = NULL /\ retryTimer' = (requestedTail > at)
      \/ catchUp' = Request(at, requestedTail) /\ UNCHANGED retryTimer
  BY DEF EndCatchUp, Continue
<1>3. PageRequest(Request(at, requestedTail)) /\ Request(at, requestedTail).after = at
  BY <1>1, RequestIsPage
<1>4. retryTimer' \in BOOLEAN
  <2>1. (requestedTail > at) \in BOOLEAN
    OBVIOUS
  <2> QED BY <1>1, <1>2, <2>1
<1> QED BY <1>2, <1>3, <1>4

(* A page of the gap arrives.                                              *)
LEMMA CatchUpAnsweredKeeps == IInv /\ CatchUpAnswered => IInv' /\ ReaderSteps
<1> SUFFICES ASSUME IInv, CatchUpAnswered PROVE IInv' /\ ReaderSteps
  OBVIOUS
<1>1. /\ catchUp # NULL
      /\ UNCHANGED <<log, floor, sent, frames, joined, socket, readMark, phase,
           history, older, newer, requestedTail, near, visible, used, base, faults>>
  BY DEF CatchUpAnswered, server, wire, pages, screen
<1>2. /\ Len(log) \in Nat /\ contiguous \in 0..Len(log) /\ floor \in Nat
      /\ requestedTail \in 0..Len(log)
      /\ catchUp.after \in Nat /\ catchUp.target \in Nat /\ catchUp.len \in Nat
      /\ catchUp.target <= catchUp.len /\ catchUp.len <= Len(log)
      /\ catchUp.after <= contiguous
      /\ phase # "loading" /\ phase # "error"
  BY <1>1, LogLength DEF IInv, CountInv, RequestInv, PageRequest
<1>3. PICK n \in catchUp.len..Len(log) :
        IF PageAfter(catchUp.after, n).messages = {} THEN CatchUpEmpty
        ELSE CatchUpPage(PageAfter(catchUp.after, n))
  BY DEF CatchUpAnswered
<1> DEFINE page == PageAfter(catchUp.after, n).messages
<1>4. /\ page \subseteq 1..Len(log)
      /\ page = {} => \A s \in (catchUp.after + 1)..n : s <= floor
      /\ page # {} =>
           /\ Lowest(page) \in (catchUp.after + 1)..n
           /\ \A s \in (catchUp.after + 1)..(Lowest(page) - 1) : s <= floor
  <2>1. n \in 0..Len(log)
    BY <1>2
  <2> QED BY <1>2, <2>1, PageAfterHolds
<1>6. CASE page = {}
  <2> DEFINE to == Larger(contiguous, catchUp.target)
  <2>1. /\ contiguous' = to /\ observed' = {s \in observed : s > to}
        /\ scheduleRead(to, hasNewer, near, visible) /\ Continue(to)
        /\ UNCHANGED <<shown, locals, hasOlder, hasNewer, received, sendTimers>>
    BY <1>3, <1>6 DEF CatchUpEmpty, window
  <2>2. to \in contiguous..Len(log) /\ to \in 0..Len(log)
        /\ \A s \in (contiguous + 1)..to : s \in (catchUp.after + 1)..n
    BY <1>2 DEF Larger
  <2> HIDE DEF to
  <2>3. \A s \in (contiguous + 1)..to : s <= floor
    BY <1>4, <1>6, <2>2
  <2>4. pendingRead' \in 0..to /\ readTimer' \in BOOLEAN
    <3>1. to \in Nat /\ to \in 0..to /\ pendingRead \in 0..to
      BY <1>2, <2>2 DEF IInv, CountInv
    <3>2. readTimer \in BOOLEAN /\ near \in BOOLEAN /\ visible \in BOOLEAN
      BY DEF IInv, RestInv
    <3> QED BY <2>1, <3>1, <3>2, ScheduledReadStays
  <2>5. /\ retryTimer' \in BOOLEAN
        /\ catchUp' # NULL => PageRequest(catchUp') /\ catchUp'.after = to
    BY <2>1, <2>2, ContinueKeeps
  <2>6. CountInv' /\ RequestInv' /\ ReaderSteps
    <3>1. /\ received \subseteq received' /\ received' \subseteq 1..Len(log)
          /\ observed' \subseteq received' /\ requestedTail' \in 0..Len(log)
      BY <1>1, <1>2, <2>1 DEF IInv, CountInv
    <3>2. contiguous' \in contiguous..Len(log) /\ pendingRead' \in 0..contiguous'
      BY <2>1, <2>2, <2>4
    <3>3. \A s \in (contiguous + 1)..contiguous' : s \in received' \/ s <= floor
      BY <2>1, <2>3
    <3>4. catchUp' # NULL => PageRequest(catchUp') /\ catchUp'.after <= contiguous'
      BY <1>2, <2>1, <2>2, <2>5
    <3> QED BY <1>1, <1>2, <3>1, <3>2, <3>3, <3>4, MovesCursor
  <2>7. LogInv' /\ WireInv' /\ WindowInv'
    BY <1>1, <2>1, LogFrame, WireFrame, WindowFrame DEF IInv
  <2>8. RestInv'
    BY <1>1, <1>2, <2>1, <2>4, <2>5 DEF IInv, RestInv
  <2> QED BY <2>6, <2>7, <2>8 DEF IInv
<1>7. CASE page # {}
  <2> DEFINE from == Larger(contiguous, Lowest(page) - 1)
  <2>1. /\ mergeCommittedMessages(page, from)
        /\ EndCatchUp(contiguous') \/ Continue(contiguous')
    BY <1>3, <1>7 DEF CatchUpPage
  <2>2. /\ from \in contiguous..Len(log)
        /\ \A s \in (contiguous + 1)..from : s \in (catchUp.after + 1)..(Lowest(page) - 1)
    <3>1. Lowest(page) \in (catchUp.after + 1)..n
      BY <1>4, <1>7
    <3> HIDE DEF page
    <3> QED BY <1>2, <3>1 DEF Larger
  <2>3. \A s \in (contiguous + 1)..from : s <= floor
    BY <1>4, <1>7, <2>2
  <2> HIDE DEF page
  <2>4. MergedTo(from)
    <3> HIDE DEF from
    <3> QED BY <1>1, <1>4, <2>1, <2>2, MergeKeepsRoom
  <2> HIDE DEF from
  <2>5. contiguous' \in contiguous..Len(log) /\ contiguous' \in 0..Len(log)
    BY <1>2, <2>2, <2>4 DEF MergedTo
  <2>6. /\ retryTimer' \in BOOLEAN
        /\ catchUp' # NULL => PageRequest(catchUp') /\ catchUp'.after = contiguous'
    BY <2>1, <2>5, ContinueKeeps
  <2>7. CountInv' /\ RequestInv' /\ ReaderSteps
    <3>1. catchUp' # NULL => PageRequest(catchUp') /\ catchUp'.after <= contiguous'
      BY <1>2, <2>5, <2>6
    <3>2. \A s \in (contiguous + 1)..contiguous' : s \in received' \/ s <= floor
      <4>1. \A s \in (contiguous + 1)..contiguous' :
              s \in (contiguous + 1)..from \/ s \in (from + 1)..contiguous'
        BY <1>2, <2>2, <2>5
      <4> QED BY <2>3, <2>4, <4>1 DEF MergedTo
    <3>3. requestedTail' \in 0..Len(log)
      BY <1>1, <1>2
    <3> QED BY <1>1, <1>2, <2>4, <2>5, <3>1, <3>2, <3>3, MovesCursor DEF MergedTo
  <2>8. LogInv' /\ WireInv'
    <3>1. LogInv'
      BY <1>1, <2>4 DEF IInv, LogInv, MergedTo
    <3> QED BY <1>1, <3>1, WireFrame DEF IInv
  <2>9. RestInv'
    BY <1>1, <1>2, <2>4, <2>6 DEF IInv, RestInv, MergedTo
  <2> QED BY <2>4, <2>7, <2>8, <2>9 DEF IInv, MergedTo
<1> QED BY <1>6, <1>7

(* The catch-up fails, or is tried again.                                  *)
LEMMA CatchUpEndsKeeps == IInv /\ (CatchUpFails \/ RetryCatchUp) => IInv' /\ ReaderSteps
<1> SUFFICES ASSUME IInv, CatchUpFails \/ RetryCatchUp PROVE IInv' /\ ReaderSteps
  OBVIOUS
<1>1. /\ catchUp # NULL \/ retryTimer
      /\ faults' = faults \/ Fault
      /\ UNCHANGED <<log, floor, sent, frames, joined, socket, readMark, phase, shown,
           locals, hasOlder, hasNewer, contiguous, observed, received, pendingRead,
           readTimer, sendTimers, history, older, newer, requestedTail, near,
           visible, used, base>>
  BY DEF CatchUpFails, RetryCatchUp, server, wire, window, cursor, reading, pages, screen
<1>2. \/ EndCatchUp(contiguous)
      \/ catchUp' = Request(contiguous, requestedTail) /\ retryTimer' = FALSE
      \/ UNCHANGED catchUp /\ retryTimer' = FALSE
  BY DEF CatchUpFails, RetryCatchUp
<1>3. contiguous \in 0..Len(log) /\ requestedTail \in 0..Len(log) /\ Len(log) \in Nat
  BY LogLength DEF IInv, CountInv, RequestInv
<1>4. /\ retryTimer' \in BOOLEAN
      /\ catchUp' # NULL => PageRequest(catchUp') /\ catchUp'.after <= contiguous
  <2>1. CASE EndCatchUp(contiguous)
    BY <1>3, <2>1, ContinueKeeps
  <2>2. CASE catchUp' = Request(contiguous, requestedTail) /\ retryTimer' = FALSE
    <3>1. PageRequest(Request(contiguous, requestedTail))
          /\ Request(contiguous, requestedTail).after = contiguous
      BY <1>3, RequestIsPage
    <3>2. catchUp'.after <= contiguous
      BY <1>3, <2>2, <3>1
    <3>3. retryTimer' \in BOOLEAN
      BY <2>2
    <3> QED BY <2>2, <3>1, <3>2, <3>3
  <2>3. CASE UNCHANGED catchUp /\ retryTimer' = FALSE
    BY <2>3 DEF IInv, RequestInv
  <2> QED BY <1>2, <2>1, <2>2, <2>3
<1>5. phase # "loading" /\ phase # "error"
  BY <1>1 DEF IInv, RequestInv, RestInv
<1>6. LogInv' /\ WindowInv' /\ WireInv' /\ CountInv' /\ UNCHANGED Reader!cursorVars
  BY <1>1, LogFrame, WindowFrame, WireFrame, CountFrame, ReaderFrame DEF IInv
<1>7. RequestInv'
  BY <1>1, <1>4, <1>5 DEF IInv, RequestInv, PageRequest
<1>8. RestInv'
  <2>1. faults' \in 0..MaxFaults
    BY <1>1, FaultCounts DEF IInv, RestInv
  <2> QED BY <1>1, <1>4, <1>5, <2>1 DEF IInv, RestInv
<1> QED BY <1>6, <1>7, <1>8 DEF IInv, ReaderSteps


-----------------------------------------------------------------------------
(* The operator scrolls, hides the tab, loads pages.                       *)

(* The operator scrolls or hides the page.                                 *)
LEMMA ScreenKeeps ==
  ASSUME IInv, NEW b \in BOOLEAN, Scroll(b) \/ VisibilityChange
  PROVE  IInv' /\ ReaderSteps
<1>1. UNCHANGED <<log, floor, sent, frames, joined, socket, readMark, phase, shown,
        locals, hasOlder, hasNewer, contiguous, observed, received, sendTimers,
        history, older, newer, catchUp, requestedTail, retryTimer, used, base, faults>>
  BY DEF Scroll, VisibilityChange, server, wire, window, cursor, pages, chasing
<1>2. /\ contiguous \in 0..Len(log) /\ pendingRead \in 0..contiguous /\ Len(log) \in Nat
      /\ readTimer \in BOOLEAN /\ near \in BOOLEAN /\ visible \in BOOLEAN
  BY LogLength DEF IInv, CountInv, RestInv
<1>3. (~visible) \in BOOLEAN
  OBVIOUS
<1>4. near' \in BOOLEAN /\ visible' \in BOOLEAN
  BY <1>2, <1>3 DEF Scroll, VisibilityChange
<1>5. pendingRead' \in 0..contiguous /\ readTimer' \in BOOLEAN
  <2>1. \/ scheduleRead(contiguous, hasNewer, b, visible)
        \/ scheduleRead(contiguous, hasNewer, near, ~visible)
    BY DEF Scroll, VisibilityChange
  <2>2. contiguous \in Nat /\ contiguous \in 0..contiguous
    BY <1>2
  <2> QED BY <1>2, <1>3, <2>1, <2>2, ScheduledReadStays
<1>6. LogInv' /\ WindowInv' /\ WireInv' /\ RequestInv' /\ UNCHANGED Reader!cursorVars
  BY <1>1, LogFrame, WindowFrame, WireFrame, RequestFrame, ReaderFrame DEF IInv
<1>7. CountInv'
  BY <1>1, <1>5 DEF IInv, CountInv
<1>8. RestInv'
  BY <1>1, <1>4, <1>5 DEF IInv, RestInv
<1> QED BY <1>6, <1>7, <1>8 DEF IInv, ReaderSteps

(* An older or a newer page is asked for, or fails.                        *)
LEMMA AsksPageKeeps ==
  IInv /\ (loadOlderMessages \/ loadNewerMessages \/ PageFails) => IInv' /\ ReaderSteps
<1> SUFFICES ASSUME IInv, loadOlderMessages \/ loadNewerMessages \/ PageFails
             PROVE  IInv' /\ ReaderSteps
  OBVIOUS
<1>1. /\ UNCHANGED <<log, floor, sent, frames, joined, socket, readMark, phase, shown,
           locals, hasOlder, hasNewer, contiguous, observed, received, pendingRead,
           readTimer, sendTimers, history, catchUp, requestedTail, retryTimer, near,
           visible, used, base>>
      /\ faults' = faults \/ Fault
  BY DEF loadOlderMessages, loadNewerMessages, PageFails, server, wire, window, cursor,
         reading, chasing, screen
<1>2. Len(log) \in Nat /\ shown \in SUBSET (1..Len(log))
  BY LogLength DEF IInv, WindowInv
<1>3. older' # NULL => older' \in 1..Len(log)
  <2>1. older' = older \/ older' = NULL
        \/ (shown # {} /\ older' = earliestCommittedSequence(shown))
    BY DEF loadOlderMessages, loadNewerMessages, PageFails
  <2>2. shown # {} => earliestCommittedSequence(shown) \in 1..Len(log)
    BY <1>2, LatestInLog
  <2> QED BY <2>1, <2>2 DEF IInv, RequestInv
<1>4. newer' # NULL => PageRequest(newer')
  <2>1. newer' = newer \/ newer' = NULL
        \/ newer' = Request(latestCommittedSequence(shown), 0)
    BY DEF loadOlderMessages, loadNewerMessages, PageFails
  <2>2. PageRequest(Request(latestCommittedSequence(shown), 0))
    <3>1. latestCommittedSequence(shown) \in 0..Len(log) /\ 0 \in 0..Len(log)
      BY <1>2, LatestInLog
    <3> QED BY <3>1, RequestIsPage
  <2> QED BY <2>1, <2>2 DEF IInv, RequestInv
<1>5. RequestInv'
  BY <1>1, <1>3, <1>4 DEF IInv, RequestInv, PageRequest
<1>6. LogInv' /\ WindowInv' /\ WireInv' /\ CountInv' /\ UNCHANGED Reader!cursorVars
  BY <1>1, LogFrame, WindowFrame, WireFrame, CountFrame, ReaderFrame DEF IInv
<1>7. RestInv'
  <2>1. faults' \in 0..MaxFaults
    BY <1>1, FaultCounts DEF IInv, RestInv
  <2> QED BY <1>1, <2>1 DEF IInv, RestInv
<1> QED BY <1>5, <1>6, <1>7 DEF IInv, ReaderSteps

(* An older page arrives.                                                  *)
LEMMA OlderArrivesKeeps == IInv /\ OlderArrives => IInv' /\ ReaderSteps
<1> SUFFICES ASSUME IInv, OlderArrives PROVE IInv' /\ ReaderSteps
  OBVIOUS
<1> DEFINE page == PageBefore(older).messages
           fresh == {s \in page : \A i \in DOMAIN locals : locals[i].cid # log[s]}
           win == oldestWindow(fresh \cup shown, locals)
<1>1. /\ older # NULL /\ older' = NULL
      /\ shown' = win.shown /\ locals' = win.locals
      /\ hasOlder' = PageBefore(older).hasMore
      /\ hasNewer' = (hasNewer \/ win.trimmed)
      /\ IF win.trimmed THEN withdrawRead ELSE UNCHANGED reading
      /\ received' = received \cup page
      /\ UNCHANGED <<log, floor, sent, frames, joined, socket, readMark, phase,
           contiguous, observed, sendTimers, history, newer, catchUp, requestedTail,
           retryTimer, near, visible, used, base, faults>>
  BY DEF OlderArrives, server, wire, chasing, screen
<1>2. /\ Len(log) \in Nat /\ older \in 1..Len(log)
      /\ shown \subseteq 1..Len(log) /\ locals \in Seq(Locals)
      /\ \A i \in DOMAIN locals : \A s \in shown : log[s] # locals[i].cid
  BY <1>1, LogLength DEF IInv, RequestInv, WindowInv, OneCopy
<1>3. page \subseteq 1..Len(log) /\ PageBefore(older).hasMore \in BOOLEAN
  <2>1. older \in 1..(Len(log) + 1)
    BY <1>2
  <2> QED BY <2>1, PageBeforeHolds
<1> HIDE DEF page
<1>4. /\ fresh \cup shown \in SUBSET (1..Len(log))
      /\ \A i \in DOMAIN locals : \A s \in fresh \cup shown : log[s] # locals[i].cid
  BY <1>2, <1>3
<1> HIDE DEF fresh
<1>5. IsFiniteSet(fresh \cup shown) /\ \A t \in fresh \cup shown : t \in Int
  BY <1>4, LatestInLog
<1>6. FitsWindow(win, fresh \cup shown, locals)
  BY <1>2, <1>5, OldestFits
<1> HIDE DEF win
<1>7. WindowInv'
  <2>1. \A i \in DOMAIN locals : locals[i].cid \in used'
    BY <1>1 DEF IInv, WindowInv
  <2> QED BY <1>1, <1>2, <1>4, <1>6, <2>1, WindowKeeps
<1>8. pendingRead' \in 0..contiguous /\ readTimer' \in BOOLEAN
  <2>1. /\ contiguous \in Nat /\ pendingRead \in 0..contiguous /\ readTimer \in BOOLEAN
    BY DEF IInv, CountInv, RestInv
  <2>2. withdrawRead \/ UNCHANGED <<pendingRead, readTimer>>
    BY <1>1 DEF reading
  <2>3. CASE withdrawRead
    BY <2>1, <2>3, WithdrawnReadStays
  <2>4. CASE UNCHANGED <<pendingRead, readTimer>>
    BY <2>1, <2>4
  <2> QED BY <2>2, <2>3, <2>4
<1>9. CountInv'
  BY <1>1, <1>3, <1>8 DEF IInv, CountInv
<1>10. RequestInv'
  BY <1>1 DEF IInv, RequestInv, PageRequest
<1>11. LogInv' /\ WireInv'
  BY <1>1, LogFrame, WireFrame DEF IInv
<1>12. RestInv'
  <2>1. hasNewer' \in BOOLEAN
    BY <1>1, <1>6 DEF FitsWindow, IInv, RestInv
  <2> QED BY <1>1, <1>3, <1>8, <2>1 DEF IInv, RestInv
<1>13. Reader!Receive
  <2>1. /\ received' \in SUBSET (1..Len(log)) /\ received \subseteq received'
        /\ contiguous \in 0..Len(log)
    BY <1>1, <1>3 DEF IInv, CountInv
  <2> QED BY <1>1, <1>2, <2>1 DEF Reader!Receive, Reader!Accounted
<1> QED BY <1>7, <1>9, <1>10, <1>11, <1>12, <1>13 DEF IInv, ReaderSteps, Reader!Next

(* A newer page arrives.                                                   *)
LEMMA NewerArrivesKeeps == IInv /\ NewerArrives => IInv' /\ ReaderSteps
<1> SUFFICES ASSUME IInv, NewerArrives PROVE IInv' /\ ReaderSteps
  OBVIOUS
<1>1. PICK n \in newer.len..Len(log) :
        LET page == PageAfter(newer.after, n)
            win == newestWindow(shown \cup page.messages,
                                mergeBusinessMessages(page.messages, locals))
            away == page.hasMore \/ latestCommittedSequence(win.shown) < contiguous
        IN  /\ shown' = win.shown /\ locals' = win.locals
            /\ hasOlder' = (hasOlder \/ win.trimmed)
            /\ hasNewer' = away
            /\ IF away THEN withdrawRead /\ UNCHANGED near
               ELSE near' = TRUE /\ scheduleRead(contiguous, FALSE, TRUE, visible)
            /\ received' = received \cup page.messages
  BY DEF NewerArrives
<1> DEFINE page == PageAfter(newer.after, n).messages
           merged == mergeBusinessMessages(page, locals)
           win == newestWindow(shown \cup page, merged)
<1>2. /\ newer # NULL /\ newer' = NULL
      /\ shown' = win.shown /\ locals' = win.locals
      /\ hasOlder' = (hasOlder \/ win.trimmed)
      /\ received' = received \cup page
      /\ UNCHANGED <<log, floor, sent, frames, joined, socket, readMark, phase,
           contiguous, observed, sendTimers, history, older, catchUp, requestedTail,
           retryTimer, visible, used, base, faults>>
  BY <1>1 DEF NewerArrives, server, wire, chasing
<1>3. /\ \/ withdrawRead /\ UNCHANGED near
         \/ near' = TRUE /\ scheduleRead(contiguous, FALSE, TRUE, visible)
      /\ hasNewer' \in BOOLEAN
  <2>1. PageAfter(newer.after, n).hasMore \in BOOLEAN
    BY DEF PageAfter
  <2> QED BY <1>1, <2>1
<1>4. /\ Len(log) \in Nat /\ newer.after \in Nat /\ newer.len \in Nat
      /\ shown \subseteq 1..Len(log) /\ locals \in Seq(Locals)
      /\ \A i \in DOMAIN locals : \A s \in shown : log[s] # locals[i].cid
  BY <1>2, LogLength DEF IInv, RequestInv, PageRequest, WindowInv, OneCopy
<1>5. page \subseteq 1..Len(log)
  <2>1. n \in 0..Len(log)
    BY <1>4
  <2> QED BY <1>4, <2>1, PageAfterHolds
<1> HIDE DEF page
<1>6. /\ merged \in Seq(Locals)
      /\ \A k \in DOMAIN merged : \A s \in page : log[s] # merged[k].cid
      /\ \A k \in DOMAIN merged : \E i \in DOMAIN locals : merged[k] = locals[i]
  BY <1>4, MergeKeeps
<1> HIDE DEF merged
<1>7. \A k \in DOMAIN merged : \A s \in shown \cup page : log[s] # merged[k].cid
  BY <1>4, <1>6
<1>8. /\ shown \cup page \in SUBSET (1..Len(log)) /\ IsFiniteSet(shown \cup page)
      /\ \A t \in shown \cup page : t \in Int
  <2>1. shown \cup page \in SUBSET (1..Len(log))
    BY <1>4, <1>5
  <2> QED BY <2>1, LatestInLog
<1>9. FitsWindow(win, shown \cup page, merged)
  BY <1>6, <1>8, NewestFits
<1> HIDE DEF win
<1>10. WindowInv'
  <2>1. \A k \in DOMAIN merged : merged[k].cid \in used'
    BY <1>2, <1>6 DEF IInv, WindowInv
  <2> QED BY <1>2, <1>6, <1>7, <1>8, <1>9, <2>1, WindowKeeps
<1>11. pendingRead' \in 0..contiguous /\ readTimer' \in BOOLEAN
  <2>1. /\ contiguous \in Nat /\ contiguous \in 0..contiguous
        /\ pendingRead \in 0..contiguous /\ readTimer \in BOOLEAN
        /\ visible \in BOOLEAN /\ TRUE \in BOOLEAN
    BY DEF IInv, CountInv, RestInv
  <2>2. CASE withdrawRead
    BY <2>1, <2>2, WithdrawnReadStays
  <2>3. CASE scheduleRead(contiguous, FALSE, TRUE, visible)
    BY <2>1, <2>3, ScheduledReadStays
  <2> QED BY <1>3, <2>2, <2>3
<1>12. CountInv'
  BY <1>2, <1>5, <1>11 DEF IInv, CountInv
<1>13. RequestInv'
  BY <1>2 DEF IInv, RequestInv, PageRequest
<1>14. LogInv' /\ WireInv'
  BY <1>2, LogFrame, WireFrame DEF IInv
<1>15. RestInv'
  <2>1. hasOlder' \in BOOLEAN
    BY <1>2, <1>9 DEF FitsWindow, IInv, RestInv
  <2>2. near' \in BOOLEAN
    BY <1>3 DEF IInv, RestInv
  <2> QED BY <1>2, <1>3, <1>11, <2>1, <2>2 DEF IInv, RestInv
<1>16. Reader!Receive
  <2>1. /\ received' \in SUBSET (1..Len(log)) /\ received \subseteq received'
        /\ contiguous \in 0..Len(log)
    BY <1>2, <1>5 DEF IInv, CountInv
  <2> QED BY <1>2, <1>4, <2>1 DEF Reader!Receive, Reader!Accounted
<1> QED BY <1>10, <1>12, <1>13, <1>14, <1>15, <1>16 DEF IInv, ReaderSteps, Reader!Next


-----------------------------------------------------------------------------
(* Sending and reading.                                                    *)

(* The operator sends a new draft.                                         *)
LEMMA SendKeeps ==
  ASSUME IInv, NEW c \in Clients, send(c) PROVE IInv' /\ ReaderSteps
<1> DEFINE open == socket = "open"
           draft == [cid |-> c, deliveryState |-> IF open THEN "pending" ELSE "failed"]
           L == Append(locals, draft)
           win == newestWindow(shown, L)
<1>1. /\ c \in Clients \ used /\ used' = used \cup {c}
      /\ shown' = win.shown /\ locals' = win.locals
      /\ hasOlder' = (hasOlder \/ win.trimmed)
      /\ sent' = IF open THEN sent \cup {c} ELSE sent
      /\ sendTimers' = IF open THEN sendTimers \cup {c} ELSE sendTimers
      /\ near' = TRUE
      /\ scheduleRead(contiguous, FALSE, TRUE, visible)
      /\ UNCHANGED <<log, floor, frames, joined, socket, readMark, phase, hasNewer,
           contiguous, observed, received, history, older, newer, catchUp,
           requestedTail, retryTimer, visible, base, faults>>
  BY DEF send, wire, cursor, pages, chasing
<1>2. /\ Len(log) \in Nat /\ DOMAIN log = 1..Len(log)
      /\ shown \in SUBSET (1..Len(log)) /\ locals \in Seq(Locals)
      /\ \A i \in DOMAIN locals : \A s \in shown : log[s] # locals[i].cid
      /\ \A s \in DOMAIN log : log[s] = USER \/ log[s] \in used
  BY LogLength DEF IInv, LogInv, WindowInv, OneCopy
<1>3. draft \in Locals /\ draft.cid = c
  BY DEF Locals
<1> HIDE DEF draft
<1>4. /\ L \in Seq(Locals) /\ DOMAIN L = 1..(Len(locals) + 1)
      /\ DOMAIN locals = 1..Len(locals) /\ Len(locals) \in Nat
      /\ \A i \in 1..Len(locals) : L[i] = locals[i]
      /\ L[Len(locals) + 1] = draft
  BY <1>2, <1>3, AppendProperties, LenProperties
<1> HIDE DEF L
<1>5. \A i \in DOMAIN L : \A s \in shown : log[s] # L[i].cid
  <2>1. \A s \in shown : log[s] # c
    BY <1>1, <1>2, ClientsAssumption
  <2>2. ASSUME NEW i \in DOMAIN L, NEW s \in shown PROVE log[s] # L[i].cid
    <3>1. CASE i \in 1..Len(locals)
      BY <1>2, <1>4, <3>1
    <3>2. CASE i = Len(locals) + 1
      BY <1>3, <1>4, <2>1, <3>2
    <3> QED BY <1>4, <3>1, <3>2
  <2> QED BY <2>2
<1>6. FitsWindow(win, shown, L)
  <2>1. IsFiniteSet(shown) /\ \A t \in shown : t \in Int
    BY <1>2, LatestInLog
  <2> QED BY <1>4, <2>1, NewestFits
<1> HIDE DEF win
<1>7. WindowInv'
  <2>1. \A i \in DOMAIN locals : locals[i].cid \in used
    BY DEF IInv, WindowInv
  <2>2. \A i \in DOMAIN L : L[i].cid \in used'
    BY <1>1, <1>3, <1>4, <2>1
  <2> QED BY <1>1, <1>2, <1>4, <1>5, <1>6, <2>2, WindowKeeps
<1>8. pendingRead' \in 0..contiguous /\ readTimer' \in BOOLEAN
  <2>1. /\ contiguous \in Nat /\ contiguous \in 0..contiguous
        /\ pendingRead \in 0..contiguous /\ readTimer \in BOOLEAN
        /\ visible \in BOOLEAN /\ TRUE \in BOOLEAN
    BY DEF IInv, CountInv, RestInv
  <2> QED BY <1>1, <2>1, ScheduledReadStays
<1>9. LogInv'
  BY <1>1 DEF IInv, LogInv
<1>10. CountInv'
  BY <1>1, <1>8 DEF IInv, CountInv
<1>11. WireInv' /\ RequestInv' /\ UNCHANGED Reader!cursorVars
  BY <1>1, WireFrame, RequestFrame, ReaderFrame DEF IInv
<1>12. RestInv'
  <2>1. hasOlder' \in BOOLEAN
    BY <1>1, <1>6 DEF FitsWindow, IInv, RestInv
  <2> QED BY <1>1, <1>8, <2>1 DEF IInv, RestInv
<1> QED BY <1>7, <1>9, <1>10, <1>11, <1>12 DEF IInv, ReaderSteps

(* A send timer expires, or a failed draft is retried.                     *)
LEMMA MarkKeeps ==
  ASSUME IInv, NEW c \in Clients, retryMessage(c) \/ markFailed(c)
  PROVE  IInv' /\ ReaderSteps
<1>1. /\ sent' \subseteq sent \cup {c} /\ sendTimers' \subseteq sendTimers \cup {c}
      /\ \E from, to \in {"pending", "failed"} : locals' = Mark(c, from, to)
      /\ UNCHANGED <<log, floor, frames, joined, socket, readMark, phase, shown,
           hasOlder, hasNewer, contiguous, observed, received, pendingRead, readTimer,
           history, older, newer, catchUp, requestedTail, retryTimer, near, visible,
           used, base, faults>>
  BY DEF retryMessage, markFailed, server, wire, cursor, reading, pages, chasing, screen
<1>2. c \in used
  <2>1. CASE retryMessage(c)
    <3>1. PICK i \in DOMAIN locals : locals[i] = [cid |-> c, deliveryState |-> "failed"]
      BY <2>1 DEF retryMessage
    <3>2. locals[i].cid = c
      BY <3>1
    <3> QED BY <3>2 DEF IInv, WindowInv
  <2>2. CASE markFailed(c)
    BY <2>2 DEF markFailed, IInv, LogInv
  <2> QED BY <2>1, <2>2
<1>3. LogInv'
  BY <1>1, <1>2 DEF IInv, LogInv
<1>4. PICK from \in {"pending", "failed"}, to \in {"pending", "failed"} :
        locals' = Mark(c, from, to)
  BY <1>1
<1>5. /\ locals \in Seq(Locals) /\ Len(locals) \in Nat /\ DOMAIN locals = 1..Len(locals)
      /\ \A i \in 1..Len(locals) : locals[i] \in Locals
  BY LenProperties DEF IInv, WindowInv
<1>6. /\ locals' \in [1..Len(locals) -> Locals]
      /\ \A i \in 1..Len(locals) : locals'[i].cid = locals[i].cid
  BY <1>4, <1>5 DEF Mark, Locals
<1>7. locals' \in Seq(Locals) /\ Len(locals') = Len(locals) /\ DOMAIN locals' = 1..Len(locals)
  BY <1>5, <1>6, SeqDef, LenProperties
<1>8. WindowInv'
  BY <1>1, <1>5, <1>6, <1>7 DEF IInv, WindowInv, OneCopy
<1>9. WireInv' /\ CountInv' /\ RequestInv' /\ RestInv' /\ UNCHANGED Reader!cursorVars
  BY <1>1, WireFrame, CountFrame, RequestFrame, RestFrame, ReaderFrame DEF IInv
<1> QED BY <1>3, <1>8, <1>9 DEF IInv, ReaderSteps

(* The read report is sent.                                                *)
LEMMA FlushKeeps == IInv /\ flushRead => IInv' /\ ReaderSteps
<1> SUFFICES ASSUME IInv, flushRead PROVE IInv' /\ ReaderSteps
  OBVIOUS
<1>1. /\ readTimer' = FALSE
      /\ UNCHANGED <<log, floor, sent, frames, joined, socket, phase, shown, locals,
           hasOlder, hasNewer, contiguous, observed, received, sendTimers, history,
           older, newer, catchUp, requestedTail, retryTimer, near, visible, used,
           base, faults>>
      /\ \/ UNCHANGED <<pendingRead, readMark>>
         \/ pendingRead' = 0 /\ readMark' \in {readMark, Larger(readMark, pendingRead)}
  BY DEF flushRead, server, wire, window, cursor, pages, chasing, screen
<1>2. /\ contiguous \in 0..Len(log) /\ Len(log) \in Nat
      /\ pendingRead \in 0..contiguous /\ readMark \in 0..contiguous
      /\ phase \in {"loading", "error"} => contiguous = 0 /\ readMark = 0
  BY LogLength DEF IInv, CountInv
<1>3. Larger(readMark, pendingRead) \in readMark..contiguous
  BY <1>2 DEF Larger
<1>4. /\ pendingRead' \in 0..contiguous /\ readMark' \in readMark..contiguous
  BY <1>1, <1>2, <1>3
<1>5. CountInv'
  BY <1>1, <1>2, <1>4 DEF IInv, CountInv
<1>6. LogInv' /\ WindowInv' /\ WireInv' /\ RequestInv'
  BY <1>1, LogFrame, WindowFrame, WireFrame, RequestFrame DEF IInv
<1>7. RestInv'
  BY <1>1 DEF IInv, RestInv
<1>8. Reader!Read
  BY <1>1, <1>4 DEF Reader!Read
<1> QED BY <1>5, <1>6, <1>7, <1>8 DEF IInv, ReaderSteps, Reader!Next

(* The operator leaves the room.                                           *)
LEMMA LeaveKeeps == IInv /\ Leave => IInv' /\ ReaderSteps
<1> SUFFICES ASSUME IInv, Leave PROVE IInv' /\ ReaderSteps
  OBVIOUS
<1>1. /\ phase' = "left" /\ pendingRead' = 0 /\ readTimer' = FALSE
      /\ sendTimers' = {} /\ socket' = "none" /\ joined' = FALSE /\ frames' = {}
      /\ history' = NULL /\ catchUp' = NULL /\ retryTimer' = FALSE
      /\ older' = NULL /\ newer' = NULL
      /\ readMark' = readMark \/ readMark' = Larger(readMark, pendingRead)
      /\ UNCHANGED <<log, floor, sent, shown, locals, hasOlder, hasNewer, contiguous,
           observed, received, requestedTail, near, visible, used, base, faults>>
  BY DEF Leave, server, window, cursor, screen
<1>2. /\ contiguous \in 0..Len(log) /\ Len(log) \in Nat
      /\ pendingRead \in 0..contiguous /\ readMark \in 0..contiguous
  BY LogLength DEF IInv, CountInv
<1>3. readMark' \in readMark..contiguous
  BY <1>1, <1>2 DEF Larger
<1>4. CountInv'
  BY <1>1, <1>2, <1>3 DEF IInv, CountInv
<1>5. LogInv' /\ WireInv'
  BY <1>1 DEF IInv, LogInv, WireInv
<1>6. WindowInv'
  BY <1>1, WindowFrame DEF IInv
<1>7. RequestInv'
  BY <1>1 DEF IInv, RequestInv
<1>8. RestInv'
  BY <1>1 DEF IInv, RestInv
<1>9. Reader!Read
  BY <1>1, <1>3 DEF Reader!Read
<1> QED BY <1>4, <1>5, <1>6, <1>7, <1>8, <1>9 DEF IInv, ReaderSteps, Reader!Next


-----------------------------------------------------------------------------
(* The initial states satisfy the invariant and start the reader.          *)
LEMMA InitEstablishesIInv == Init => IInv /\ Reader!Init
<1> SUFFICES ASSUME Init PROVE IInv /\ Reader!Init
  OBVIOUS
<1>1. PICK n \in 0..MaxUser : log \in [1..n -> {USER}]
  BY DEF Init
<1>2. n \in Nat /\ n <= MaxUser
  BY SizesAssumption
<1>3. /\ log \in Seq(Clients \cup {USER}) /\ Len(log) = n /\ DOMAIN log = 1..n
      /\ \A s \in 1..n : log[s] = USER
  <2>1. log \in [1..n -> Clients \cup {USER}]
    BY <1>1
  <2>2. log \in Seq(Clients \cup {USER})
    BY <1>2, <2>1, SeqDef
  <2>3. Len(log) \in Nat /\ DOMAIN log = 1..Len(log) /\ DOMAIN log = 1..n
    BY <2>1, <2>2, LenProperties
  <2>4. 1..Len(log) = 1..n
    BY <2>3, Zenon
  <2>5. Cardinality(1..Len(log)) = Cardinality(1..n)
    BY <2>4, Zenon
  <2>6. Cardinality(1..Len(log)) = Len(log) /\ Cardinality(1..n) = n
    <3>1. \A m \in Nat : Cardinality(1..m) = m
      BY FS_Interval
    <3> QED BY <1>2, <2>3, <3>1
  <2>7. Len(log) = n
    BY <2>5, <2>6
  <2> QED BY <1>1, <2>2, <2>3, <2>7
<1>4. LogInv
  <2>1. {s \in DOMAIN log : log[s] = USER} = 1..n
    BY <1>3
  <2>2. Cardinality(1..n) = n
    BY <1>2, FS_Interval
  <2>3. Cardinality({s \in DOMAIN log : log[s] = USER}) <= MaxUser
    BY <1>2, <2>1, <2>2
  <2>4. floor \in 0..Len(log)
    BY <1>2, <1>3 DEF Init
  <2>5. used = {} /\ sent = {} /\ sendTimers = {}
    BY DEF Init
  <2> QED BY <1>3, <2>3, <2>4, <2>5 DEF LogInv
<1>5. WindowInv
  <2>1. shown = {} /\ locals = <<>>
    BY DEF Init
  <2>2. locals \in Seq(Locals) /\ Len(locals) = 0 /\ DOMAIN locals = {}
    BY <2>1, EmptySeq
  <2>3. Cardinality(shown) + Len(locals) <= Window
    BY <2>1, <2>2, FS_EmptySet, SizesAssumption
  <2> QED BY <2>1, <2>2, <2>3 DEF WindowInv, OneCopy
<1>6. CountInv /\ WireInv
  BY <1>2, <1>3 DEF Init, CountInv, WireInv
<1>7. RequestInv
  BY <1>2, <1>3 DEF Init, RequestInv
<1>8. RestInv
  <2>1. faults \in 0..MaxFaults
    BY SizesAssumption DEF Init
  <2>2. /\ joined = FALSE /\ hasOlder = FALSE /\ hasNewer = FALSE
        /\ readTimer = FALSE /\ retryTimer = FALSE /\ near = TRUE /\ visible = TRUE
        /\ phase = "loading" /\ socket = "none"
    BY DEF Init
  <2>3. /\ joined \in BOOLEAN /\ hasOlder \in BOOLEAN /\ hasNewer \in BOOLEAN
        /\ readTimer \in BOOLEAN /\ retryTimer \in BOOLEAN
        /\ near \in BOOLEAN /\ visible \in BOOLEAN /\ ~retryTimer
    BY <2>2, Zenon
  <2>4. /\ phase \in {"loading", "error", "ready", "left"}
        /\ socket \in {"none", "ticket", "open", "closing", "waiting"}
        /\ socket = "none"
    BY <2>2
  <2> QED BY <2>1, <2>3, <2>4, Zenon DEF RestInv
<1>9. Reader!Init
  BY <1>2, <1>3, <1>4 DEF Init, LogInv, Reader!Init
<1> QED BY <1>4, <1>5, <1>6, <1>7, <1>8, <1>9 DEF IInv

(* A stuttering step keeps all.                                            *)
LEMMA StutterKeeps == IInv /\ UNCHANGED vars => IInv' /\ ReaderSteps
<1> SUFFICES ASSUME IInv, UNCHANGED vars PROVE IInv' /\ ReaderSteps
  OBVIOUS
<1>1. UNCHANGED <<log, floor, sent, frames, joined, readMark, phase, socket, shown,
          locals, hasOlder, hasNewer, contiguous, observed, pendingRead,
          readTimer, sendTimers, history, catchUp, older, newer,
          requestedTail, retryTimer, near, visible, used, base, received,
          faults>>
  BY DEF vars
<1> QED BY <1>1, LogFrame, WindowFrame, WireFrame, CountFrame, RequestFrame, RestFrame,
           ReaderFrame DEF IInv, ReaderSteps

(* Every step keeps the invariant, and is a step of the reader or none.    *)
LEMMA NextKeepsIInv == IInv /\ [Next]_vars => IInv' /\ ReaderSteps
<1> SUFFICES ASSUME IInv, [Next]_vars PROVE IInv' /\ ReaderSteps
  OBVIOUS
<1>1. CASE UserSpeaks \/ \E c \in Clients : Commit(c)
  BY <1>1, UserSpeaksKeeps, CommitKeeps
<1>2. CASE GatewayJoin \/ Watermark
  BY <1>2, GatewayKeeps
<1>3. CASE Socket
  BY <1>3, GatewayKeeps, MessageKeeps DEF Socket
<1>4. CASE Requested
  BY <1>4, HistoryLoadedKeeps, CatchUpAnsweredKeeps, CatchUpEndsKeeps DEF Requested
<1>5. CASE OlderArrives \/ NewerArrives \/ flushRead
  BY <1>5, OlderArrivesKeeps, NewerArrivesKeeps, FlushKeeps
<1>6. CASE \E c \in Clients : markFailed(c)
  BY <1>6, MarkKeeps
<1>7. CASE Operator
  BY <1>7, HistoryKeeps, ScreenKeeps, AsksPageKeeps, LeaveKeeps, SendKeeps, MarkKeeps
     DEF Operator
<1>8. CASE Faulty
  BY <1>8, HistoryKeeps, GatewayKeeps, CatchUpEndsKeeps, AsksPageKeeps, ClearElsewhereKeeps
     DEF Faulty
<1>9. CASE UNCHANGED vars
  BY <1>9, StutterKeeps
<1> QED BY <1>1, <1>2, <1>3, <1>4, <1>5, <1>6, <1>7, <1>8, <1>9 DEF Next

(* The bounds on the log give the types.                                   *)
LEMMA IInvImpliesTypeOK == IInv => TypeOK
<1> SUFFICES ASSUME IInv PROVE TypeOK
  OBVIOUS
<1>1. 1..Len(log) \subseteq Seqs /\ Len(log) \in Nat /\ Len(log) <= Cardinality(Seqs)
  BY LogFits DEF IInv, LogInv
<1>2. 0..Len(log) \subseteq {0} \cup Seqs
  BY <1>1
<1>3. /\ log \in Seq(Clients \cup {USER}) /\ floor \in 0..Len(log)
      /\ sent \subseteq used /\ used \subseteq Clients /\ sendTimers \subseteq used
      /\ frames \subseteq Frames
  BY DEF IInv, LogInv, WireInv
<1>4. /\ shown \subseteq Seqs /\ locals \in Seq(Locals)
      /\ Cardinality(shown) + Len(locals) <= Window
  BY <1>1 DEF IInv, WindowInv
<1>5. /\ {contiguous, pendingRead, requestedTail, base} \subseteq {0} \cup Seqs
      /\ readMark \in 0..Len(log) /\ observed \subseteq Seqs /\ received \subseteq Seqs
  <2>1. pendingRead \in 0..Len(log) /\ readMark \in 0..Len(log)
    BY <1>1 DEF IInv, CountInv
  <2> QED BY <1>1, <1>2, <2>1 DEF IInv, CountInv, RequestInv
<1>6. history \in {0} \cup Seqs \cup {NULL} /\ older \in Seqs \cup {NULL}
  BY <1>1, <1>2 DEF IInv, RequestInv
<1>7. ASSUME NEW r, PageRequest(r) PROVE r \in Requests
  <2>1. /\ r \in [after : Nat, target : Nat, len : Nat]
        /\ r.after \in 0..Len(log) /\ r.target \in 0..Len(log) /\ r.len \in 0..Len(log)
    BY <1>1, <1>7 DEF PageRequest
  <2> QED BY <1>2, <2>1 DEF Requests
<1>8. {catchUp, newer} \subseteq Requests \cup {NULL}
  BY <1>7 DEF IInv, RequestInv
<1>9. /\ {hasOlder, hasNewer, readTimer, retryTimer, near, visible} \subseteq BOOLEAN
      /\ joined \in BOOLEAN /\ faults \in 0..MaxFaults
      /\ phase \in {"loading", "error", "ready", "left"}
      /\ socket \in {"none", "ticket", "open", "closing", "waiting"}
  BY DEF IInv, RestInv
<1> QED BY <1>1, <1>3, <1>4, <1>5, <1>6, <1>8, <1>9 DEF TypeOK

-----------------------------------------------------------------------------
(* The inductive invariant holds of the room, whatever the order in which  *)
(* frames, pages, timeouts and the operator come                           *)
(* (BusinessMobileChatRoom.tsx).                                           *)
THEOREM Invariance == Spec => []IInv
BY InitEstablishesIInv, NextKeepsIInv, PTL DEF Spec

(* Every variable keeps its type; the window never holds more than         *)
(* CHAT_MESSAGE_WINDOW_SIZE messages (business-mobile messages window).    *)
THEOREM TypeCorrect == Spec => []TypeOK
BY Invariance, IInvImpliesTypeOK, PTL

(* A message is never on the screen both as committed and as its draft:    *)
(* mergeBusinessMessages, the two windows and the pages keep one copy.     *)
THEOREM NoDuplicate == Spec => []OneCopy
<1>1. IInv => OneCopy
  BY DEF IInv, WindowInv
<1> QED BY <1>1, Invariance, PTL

(* The room implements the reader of a log: its cursor passes only what it *)
(* was handed or what was cleared, and it reports as read nothing beyond.  *)
THEOREM Refinement == Spec => ReadsAsPromised
<1>1. Init => Reader!Init
  BY InitEstablishesIInv
<1>2. IInv /\ [Next]_vars => [Reader!Next]_Reader!cursorVars
  BY NextKeepsIInv DEF ReaderSteps
<1> QED BY <1>1, <1>2, Invariance, PTL DEF Spec, ReadsAsPromised, Reader!Spec

-----------------------------------------------------------------------------
(* The promise of the reader: the cursor itself passes no gap, and nothing *)
(* beyond it is reported as read.                                          *)
LEMMA EmptyRange ==
  ASSUME NEW a \in Int, NEW b \in Int, b <= a, NEW s \in (a + 1)..b PROVE FALSE
  OBVIOUS

(* The log is opened with nothing accounted for.                           *)
LEMMA InitEstablishesCursorInv == Reader!Init => Reader!CursorInv
  BY DEF Reader!Init, Reader!CursorInv, Reader!TypeInv

(* Every step of a reader keeps it: the cursor moves over what was handed  *)
(* over or cleared, and the read mark only up to the cursor.               *)
LEMMA NextKeepsCursorInv ==
  Reader!CursorInv /\ [Reader!Next]_Reader!cursorVars => Reader!CursorInv'
<1> SUFFICES ASSUME Reader!CursorInv, [Reader!Next]_Reader!cursorVars PROVE Reader!CursorInv'
  OBVIOUS
<1>1. CASE Reader!Publish
  BY <1>1 DEF Reader!Publish, Reader!CursorInv, Reader!TypeInv
<1>2. CASE Reader!Clear
  BY <1>2 DEF Reader!Clear, Reader!CursorInv, Reader!TypeInv
<1>3. CASE Reader!Open
  <2>1. Reader!TypeInv' /\ base' = contiguous' /\ readMark' <= contiguous'
    BY <1>3 DEF Reader!Open, Reader!CursorInv, Reader!TypeInv
  <2>2. base' \in Int /\ contiguous' \in Int /\ contiguous' <= base' /\ base' <= contiguous'
    BY <2>1 DEF Reader!TypeInv
  <2>3. \A s \in (base' + 1)..contiguous' : s \in received' \/ s <= floor'
    BY <2>1, <2>2, EmptyRange
  <2> QED BY <2>1, <2>2, <2>3 DEF Reader!CursorInv
<1>4. CASE Reader!Receive
  <2>1. Reader!TypeInv' /\ base' <= contiguous' /\ readMark' <= contiguous'
    BY <1>4 DEF Reader!Receive, Reader!CursorInv, Reader!TypeInv
  <2>2. ASSUME NEW s \in (base' + 1)..contiguous' PROVE s \in received' \/ s <= floor'
    <3>1. CASE s <= contiguous
      BY <1>4, <2>2, <3>1 DEF Reader!Receive, Reader!CursorInv, Reader!TypeInv
    <3>2. CASE s > contiguous
      BY <1>4, <2>2, <3>2 DEF Reader!Receive, Reader!Accounted, Reader!CursorInv, Reader!TypeInv
    <3> QED BY <2>2, <3>1, <3>2 DEF Reader!CursorInv, Reader!TypeInv
  <2> QED BY <2>1, <2>2 DEF Reader!CursorInv
<1>5. CASE Reader!Read
  BY <1>5 DEF Reader!Read, Reader!CursorInv, Reader!TypeInv
<1>6. CASE UNCHANGED Reader!cursorVars
  BY <1>6 DEF Reader!cursorVars, Reader!CursorInv, Reader!TypeInv
<1> QED BY <1>1, <1>2, <1>3, <1>4, <1>5, <1>6 DEF Reader!Next

(* Nothing is reported as read that the room was not handed, or that was   *)
(* not cleared, for every log and every order of frames, pages and         *)
(* clearings: the promise of ReadCursor, carried over to the room          *)
(* (BusinessMobileChatRoom.tsx).                                           *)
THEOREM ReadsOnlyReceived == Spec => []Reader!NothingUnreadIsRead
<1>1. Reader!Spec => []Reader!CursorInv
  BY InitEstablishesCursorInv, NextKeepsCursorInv, PTL DEF Reader!Spec
<1>2. Reader!CursorInv => Reader!NothingUnreadIsRead
  BY DEF Reader!CursorInv, Reader!TypeInv, Reader!NothingUnreadIsRead
<1> QED BY <1>1, <1>2, Refinement, PTL DEF ReadsAsPromised
=============================================================================
