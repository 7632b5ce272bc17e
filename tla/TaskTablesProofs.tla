-------------------------- MODULE TaskTablesProofs --------------------------
(***************************************************************************)
(* Lemmas on numbers, finite sets and lists (module Lists), on the order   *)
(* of the queues (module FolderOrder) with what the buttons do to it       *)
(* (module FolderReorder), and on the transactions of module TaskTables,   *)
(* for the proofs about the modules that run them: TaskRepository and      *)
(* LazySession.                                                            *)
(***************************************************************************)
EXTENDS TaskTables, FiniteSetTheorems, WellFoundedInduction, TLAPS

-----------------------------------------------------------------------------
(* Natural numbers, finite sets, lists. *)

\* A set of numbers up to n that has a member has a least one.
LEMMA Least ==
  ASSUME NEW n \in Nat, NEW B \in SUBSET (0..n), B # {}
  PROVE  \E m \in B : \A k \in B : m <= k
<1> DEFINE T == {0..i : i \in B}
           R == StrictSubsetOrdering(0..n)
           S == FiniteSubsetsOf(0..n)
<1>1. IsWellFoundedOn(R, S)
  BY FS_StrictSubsetOrderingWellFounded
<1>2. T \subseteq S /\ T # {}
  <2>1. \A i \in B : 0..i \in SUBSET (0..n)
    OBVIOUS
  <2>2. \A i \in B : IsFiniteSet(0..i)
    BY FS_Interval
  <2> QED
    BY <2>1, <2>2 DEF FiniteSubsetsOf
<1> HIDE DEF T, R, S
<1>3. PICK x \in T : \A y \in T : ~(<<y, x>> \in R)
  BY <1>1, <1>2, WFMin
<1>4. PICK m \in B : x = 0..m
  BY DEF T
<1>5. ASSUME NEW k \in B, k < m PROVE FALSE
  <2>1. 0..k \in T
    BY DEF T
  <2>2. m \in 0..m /\ m \notin 0..k
    BY <1>5
  <2>3. 0..k \subseteq 0..m /\ 0..k # 0..m
    BY <1>5, <2>2
  <2>4. 0..k \in SUBSET (0..n) /\ 0..m \in SUBSET (0..n)
    OBVIOUS
  <2>5. <<0..k, x>> \in R
    BY <2>3, <2>4, <1>4 DEF R, StrictSubsetOrdering
  <2> QED
    BY <1>3, <2>1, <2>5
<1> QED
  BY <1>5

\* What holds at 0 and passes from each number to the next holds up to n.
LEMMA Upward ==
  ASSUME NEW n \in Nat, NEW G, 0 \in G, \A i \in 0..n : i < n /\ i \in G => i + 1 \in G
  PROVE  0..n \subseteq G
<1> DEFINE B == (0..n) \ G
<1>1. SUFFICES ASSUME B # {} PROVE FALSE
  OBVIOUS
<1>2. PICK m \in B : \A k \in B : m <= k
  BY <1>1, Least
<1>3. m # 0 /\ m - 1 \in 0..n /\ m - 1 \notin B
  BY <1>2
<1>4. m - 1 \in G /\ m - 1 < n /\ (m - 1) + 1 = m
  BY <1>3
<1> QED
  BY <1>3, <1>4

\* f starts with base and takes the step of i from each i - 1 to i.
Stepwise(f, n, X, base, step) ==
  f \in [0..n -> X] /\ f[0] = base /\ \A i \in 1..n : f[i] = step[i][f[i-1]]

\* A recursion over 0..n with its values in X has a solution.
LEMMA RecursionExists ==
  ASSUME NEW n \in Nat, NEW X, NEW base \in X, NEW step \in [1..n -> [X -> X]]
  PROVE  \E f : Stepwise(f, n, X, base, step)
<1> DEFINE Solves(f, m) ==
             f \in [0..m -> X] /\ f[0] = base /\ \A i \in 1..m : f[i] = step[i][f[i-1]]
           G == {m \in 0..n : \E f : Solves(f, m)}
<1>1. 0 \in G
  <2>1. Solves([i \in 0..0 |-> base], 0)
    OBVIOUS
  <2> HIDE DEF Solves
  <2> QED
    BY <2>1
<1>2. ASSUME NEW m \in 0..n, m < n, m \in G PROVE m + 1 \in G
  <2>1. PICK f : Solves(f, m)
    BY <1>2
  <2> DEFINE g == [i \in 0..m+1 |-> IF i = m + 1 THEN step[m + 1][f[m]] ELSE f[i]]
  <2>2. m + 1 \in 1..n /\ f[m] \in X
    BY <1>2, <2>1
  <2>3. step[m + 1] \in [X -> X]
    BY <2>2
  <2>4. step[m + 1][f[m]] \in X
    BY <2>2, <2>3
  <2>5. \A i \in 0..m : g[i] = f[i]
    OBVIOUS
  <2>6. g[m + 1] = step[m + 1][f[m]]
    OBVIOUS
  <2>7. g \in [0..m+1 -> X]
    BY <2>1, <2>4
  <2> HIDE DEF g
  <2>8. g[0] = base
    BY <2>1, <2>5
  <2>9. ASSUME NEW i \in 1..m+1 PROVE g[i] = step[i][g[i-1]]
    <3>1. CASE i = m + 1
      <4>1. i - 1 = m /\ g[i-1] = f[m]
        BY <2>5, <3>1
      <4> QED
        BY <2>6, <3>1, <4>1
    <3>2. CASE i # m + 1
      <4>1. i \in 1..m /\ i - 1 \in 0..m
        BY <3>2
      <4> QED
        BY <2>1, <2>5, <4>1
    <3> QED
      BY <3>1, <3>2
  <2>10. Solves(g, m + 1)
    BY <2>7, <2>8, <2>9
  <2> QED
    BY <2>2, <2>10
<1> HIDE DEF Solves
<1>3. n \in G
  <2> HIDE DEF G
  <2>1. 0..n \subseteq G
    BY <1>1, <1>2, Upward
  <2> QED
    BY <2>1
<1>4. PICK f : Solves(f, n)
  BY <1>3
<1>5. Stepwise(f, n, X, base, step)
  BY <1>4 DEF Solves, Stepwise
<1> QED
  BY <1>5

\* Disjoint finite sets add up.
LEMMA DisjointUnion ==
  ASSUME NEW A, NEW B, IsFiniteSet(A), IsFiniteSet(B), A \cap B = {}
  PROVE  /\ IsFiniteSet(A \cup B)
         /\ Cardinality(A \cup B) = Cardinality(A) + Cardinality(B)
<1>1. Cardinality(A \cap B) = 0
  BY FS_EmptySet
<1>2. Cardinality(A) \in Nat /\ Cardinality(B) \in Nat
  BY FS_CardinalityType
<1>3. /\ IsFiniteSet(A \cup B)
      /\ Cardinality(A \cup B) = Cardinality(A) + Cardinality(B) - Cardinality(A \cap B)
  BY FS_Union
<1> QED
  BY <1>1, <1>2, <1>3

\* A finite set without a part of it.
LEMMA SubsetDifference ==
  ASSUME NEW A, NEW B \in SUBSET A, IsFiniteSet(A)
  PROVE  /\ IsFiniteSet(A \ B) /\ IsFiniteSet(B)
         /\ Cardinality(A \ B) = Cardinality(A) - Cardinality(B)
<1>1. A \cap B = B
  OBVIOUS
<1> QED
  BY <1>1, FS_Difference, FS_Subset, ZenonT(60)

\* A part of a finite set that leaves something out is smaller.
LEMMA StrictlySmaller ==
  ASSUME NEW A, IsFiniteSet(A), NEW B \in SUBSET A, A # B
  PROVE  /\ IsFiniteSet(B) /\ Cardinality(A) \in Nat /\ Cardinality(B) \in Nat
         /\ Cardinality(B) < Cardinality(A)
<1>1. /\ IsFiniteSet(B) /\ Cardinality(B) <= Cardinality(A)
      /\ Cardinality(A) = Cardinality(B) => A = B
  BY FS_Subset
<1>2. Cardinality(A) \in Nat /\ Cardinality(B) \in Nat
  BY <1>1, FS_CardinalityType
<1> QED
  BY <1>1, <1>2

-----------------------------------------------------------------------------
\* A ranking that gives no number twice lists its set.
LEMMA RankedList ==
  ASSUME NEW S, IsFiniteSet(S), NEW rank \in [S -> Nat],
         \A x, y \in S : rank[x] = rank[y] => x = y,
         \A x \in S : rank[x] < Cardinality(S)
  PROVE  /\ Enumerates(ByRank(S, rank), S)
         /\ Len(ByRank(S, rank)) = Cardinality(S)
         /\ DOMAIN ByRank(S, rank) = 1..Cardinality(S)
         /\ \A k \in 1..Cardinality(S) : rank[ByRank(S, rank)[k]] = k - 1
<1> DEFINE n == Cardinality(S)
           l == ByRank(S, rank)
           next == [x \in S |-> rank[x] + 1]
<1>1. n \in Nat
  BY FS_CardinalityType
<1> HIDE DEF n
<1>2. next \in Injection(S, 1..n)
  BY <1>1 DEF Injection, IsInjective, n
<1>3. IsFiniteSet(1..n) /\ Cardinality(1..n) = n
  BY <1>1, FS_Interval
<1>4. next \in Surjection(S, 1..n)
  BY <1>2, <1>3, FS_Injection DEF n
<1>5. \A k \in 1..n : \E x \in S : rank[x] = k - 1
  <2>1. ASSUME NEW k \in 1..n PROVE \E x \in S : rank[x] = k - 1
    <3>1. PICK x \in S : next[x] = k
      BY <1>4 DEF Surjection
    <3>2. rank[x] \in Nat /\ rank[x] + 1 = k
      BY <3>1
    <3> QED
      BY <3>2
  <2> QED
    BY <2>1
<1>6. l = [k \in 1..n |-> CHOOSE x \in S : rank[x] = k - 1]
  BY DEF ByRank, n
<1> HIDE DEF l
<1>7. \A k \in 1..n : l[k] \in S /\ rank[l[k]] = k - 1
  BY <1>5, <1>6
<1>8. l \in Seq(S) /\ Len(l) = n /\ DOMAIN l = 1..n
  BY <1>1, <1>6, <1>7
<1>9. \A i, j \in DOMAIN l : l[i] = l[j] => i = j
  BY <1>7, <1>8
<1>10. ASSUME NEW x \in S PROVE \E i \in DOMAIN l : l[i] = x
  <2>1. rank[x] + 1 \in 1..n /\ (rank[x] + 1) - 1 = rank[x]
    BY <1>1 DEF n
  <2>2. rank[l[rank[x] + 1]] = rank[x] /\ l[rank[x] + 1] \in S
    BY <1>7, <2>1
  <2> QED
    BY <1>8, <2>1, <2>2
<1> QED
  BY <1>7, <1>8, <1>9, <1>10 DEF Enumerates, l, n

\* Counting what is before each member ranks a finite set, for any strict total order.
LEMMA RankOfOrder ==
  ASSUME NEW S, IsFiniteSet(S), NEW below \in [S -> SUBSET S],
         \A x \in S : x \notin below[x],
         \A x, y \in S : x # y => x \in below[y] \/ y \in below[x],
         \A x, y \in S : x \in below[y] => below[x] \subseteq below[y],
         NEW rank, rank = [x \in S |-> Cardinality(below[x])]
  PROVE  /\ rank \in [S -> Nat]
         /\ \A x, y \in S : rank[x] = rank[y] => x = y
         /\ \A x \in S : rank[x] < Cardinality(S)
<1>1. ASSUME NEW x \in S
      PROVE  IsFiniteSet(below[x]) /\ rank[x] \in Nat /\ rank[x] < Cardinality(S)
  <2>1. below[x] \in SUBSET S /\ below[x] # S
    OBVIOUS
  <2> QED
    BY <2>1, StrictlySmaller
<1>2. ASSUME NEW x \in S, NEW y \in S, x \in below[y] PROVE rank[x] < rank[y]
  <2>1. below[x] \in SUBSET below[y] /\ x \notin below[x]
    BY <1>2
  <2>2. below[x] # below[y]
    BY <1>2, <2>1
  <2>3. IsFiniteSet(below[y])
    BY <1>1
  <2> QED
    BY <2>1, <2>2, <2>3, StrictlySmaller
<1>3. ASSUME NEW x \in S, NEW y \in S, rank[x] = rank[y] PROVE x = y
  <2>1. rank[x] \in Nat /\ rank[y] \in Nat
    BY <1>1
  <2>2. ~(rank[x] < rank[y]) /\ ~(rank[y] < rank[x])
    BY <1>3, <2>1
  <2> QED
    BY <1>2, <2>2
<1> QED
  BY <1>1, <1>3

\* The numbers of a finite set.
LEMMA RankOfNumbers ==
  ASSUME NEW S \in SUBSET Int, IsFiniteSet(S)
  PROVE  LET rank == [i \in S |-> Cardinality({j \in S : j < i})]
         IN  /\ rank \in [S -> Nat]
             /\ \A i, j \in S : rank[i] = rank[j] => i = j
             /\ \A i \in S : rank[i] < Cardinality(S)
<1> DEFINE below == [i \in S |-> {j \in S : j < i}]
           rank == [i \in S |-> Cardinality({j \in S : j < i})]
<1>0. IsFiniteSet(S) /\ \A i \in S : i \in Int
  OBVIOUS
<1>1. below \in [S -> SUBSET S]
  OBVIOUS
<1>2. \A i, j \in S : i \in below[j] <=> i < j
  OBVIOUS
<1>3. rank = [i \in S |-> Cardinality(below[i])]
  OBVIOUS
<1> HIDE DEF below, rank
<1>4. \A i \in S : i \notin below[i]
  BY <1>0, <1>2
<1>5. \A i, j \in S : i # j => i \in below[j] \/ j \in below[i]
  BY <1>0, <1>2
<1>6. ASSUME NEW i \in S, NEW j \in S, i \in below[j] PROVE below[i] \subseteq below[j]
  <2> SUFFICES ASSUME NEW k \in below[i] PROVE k \in below[j]
    OBVIOUS
  <2>1. k \in S
    BY <1>1
  <2>2. k < i /\ i < j
    BY <1>2, <1>6, <2>1
  <2>3. k < j
    BY <1>0, <2>1, <2>2
  <2> QED
    BY <1>2, <2>1, <2>3
<1>7. /\ rank \in [S -> Nat]
      /\ \A i, j \in S : rank[i] = rank[j] => i = j
      /\ \A i \in S : rank[i] < Cardinality(S)
  <2>1. \A i, j \in S : i \in below[j] => below[i] \subseteq below[j]
    BY <1>6
  <2>2. LET r == [x \in S |-> Cardinality(below[x])]
        IN  /\ r \in [S -> Nat]
            /\ \A x, y \in S : r[x] = r[y] => x = y
            /\ \A x \in S : r[x] < Cardinality(S)
    BY <1>0, <1>1, <1>4, <1>5, <2>1, RankOfOrder, Zenon
  <2> QED
    BY <1>3, <2>2, Zenon
<1> QED
  BY <1>7 DEF rank

\* A finite set of numbers, smallest first.
LEMMA AscendingFacts ==
  ASSUME NEW S \in SUBSET Int, IsFiniteSet(S)
  PROVE  /\ Enumerates(Ascending(S), S)
         /\ Len(Ascending(S)) = Cardinality(S)
         /\ DOMAIN Ascending(S) = 1..Cardinality(S)
<1> DEFINE rank == [i \in S |-> Cardinality({j \in S : j < i})]
<1>1. /\ rank \in [S -> Nat]
      /\ \A i, j \in S : rank[i] = rank[j] => i = j
      /\ \A i \in S : rank[i] < Cardinality(S)
  BY RankOfNumbers
<1>2. Ascending(S) = ByRank(S, rank)
  BY DEF Ascending
<1> HIDE DEF rank
<1>3. /\ Enumerates(ByRank(S, rank), S) /\ Len(ByRank(S, rank)) = Cardinality(S)
      /\ DOMAIN ByRank(S, rank) = 1..Cardinality(S)
  BY <1>1, RankedList, Zenon
<1> QED
  BY <1>1, <1>2, <1>3, Zenon

\* The part of a list that is in C: its entries, once each when the list has no
\* entry twice.
LEMMA OnlyFacts ==
  ASSUME NEW A, NEW list \in Seq(A), NEW C
  PROVE  /\ Only(list, C) \in Seq(A \cap C)
         /\ Len(Only(list, C)) = Cardinality({i \in DOMAIN list : list[i] \in C})
         /\ Enumerates(list, A) => Enumerates(Only(list, C), A \cap C)
<1> DEFINE n == Len(list)
           S == {i \in DOMAIN list : list[i] \in C}
           kept == Ascending(S)
           o == Only(list, C)
<1>1. n \in Nat /\ S \in SUBSET (1..n)
  OBVIOUS
<1> HIDE DEF n
<1>2. IsFiniteSet(S) /\ S \in SUBSET Int
  <2> HIDE DEF S
  <2>1. IsFiniteSet(1..n)
    BY <1>1, FS_Interval
  <2>2. IsFiniteSet(S)
    BY <1>1, <2>1, FS_Subset
  <2> QED
    BY <1>1, <2>2
<1>3. o = [k \in DOMAIN kept |-> list[kept[k]]]
  BY DEF Only
<1>4. \A i \in S : i \in DOMAIN list /\ list[i] \in A \cap C
  OBVIOUS
<1>5. \A i \in DOMAIN list : list[i] \in C => i \in S
  OBVIOUS
<1> HIDE DEF S, o
<1>6. Enumerates(kept, S) /\ Len(kept) = Cardinality(S) /\ DOMAIN kept = 1..Cardinality(S)
  BY <1>2, AscendingFacts
<1>7. Cardinality(S) \in Nat
  BY <1>2, FS_CardinalityType
<1> HIDE DEF kept
<1>8. \A k \in 1..Cardinality(S) : kept[k] \in S
  BY <1>6 DEF Enumerates
<1>9. o \in Seq(A \cap C) /\ Len(o) = Cardinality(S) /\ DOMAIN o = 1..Cardinality(S)
  BY <1>3, <1>4, <1>6, <1>7, <1>8
<1>10. ASSUME Enumerates(list, A) PROVE Enumerates(o, A \cap C)
  <2>1. \A i, j \in DOMAIN o : o[i] = o[j] => i = j
    BY <1>3, <1>4, <1>6, <1>8, <1>9, <1>10 DEF Enumerates
  <2>2. ASSUME NEW x \in A \cap C PROVE \E k \in DOMAIN o : o[k] = x
    <3>1. PICK i \in DOMAIN list : list[i] = x
      BY <1>10 DEF Enumerates
    <3>2. i \in S
      BY <1>5, <3>1
    <3>3. PICK k \in DOMAIN kept : kept[k] = i
      BY <1>6, <3>2 DEF Enumerates
    <3> QED
      BY <1>3, <3>1, <3>3
  <2> QED
    BY <1>9, <2>1, <2>2 DEF Enumerates
<1> QED
  BY <1>9, <1>10 DEF o, S

\* A list that has every member of a set once is as long as the set is large.
LEMMA EnumeratesSize ==
  ASSUME NEW C, NEW list, Enumerates(list, C)
  PROVE  IsFiniteSet(C) /\ Cardinality(C) = Len(list)
<1>1. list \in Seq(C) /\ Len(list) \in Nat /\ DOMAIN list = 1..Len(list)
  BY DEF Enumerates
<1>2. list \in [1..Len(list) -> C]
  BY <1>1
<1>3. list \in Bijection(1..Len(list), C)
  <2>1. \A i, j \in 1..Len(list) : list[i] = list[j] => i = j
    BY <1>1 DEF Enumerates
  <2>2. \A x \in C : \E i \in 1..Len(list) : list[i] = x
    BY <1>1 DEF Enumerates
  <2> QED
    BY <1>2, <2>1, <2>2 DEF Bijection, Injection, Surjection, IsInjective
<1>4. IsFiniteSet(1..Len(list)) /\ Cardinality(1..Len(list)) = Len(list)
  BY <1>1, FS_Interval
<1> QED
  BY <1>3, <1>4, FS_Bijection DEF ExistsBijection

-----------------------------------------------------------------------------
(* The order of the queues, module FolderOrder. *)

\* Two entries change places: the same members.
LEMMA SwapEnumerates ==
  ASSUME NEW C, NEW l, Enumerates(l, C), NEW i \in DOMAIN l, NEW j \in DOMAIN l
  PROVE  Enumerates(Swap(l, i, j), C) /\ Len(Swap(l, i, j)) = Len(l)
<1> DEFINE m == Swap(l, i, j)
<1>1. l \in Seq(C) /\ DOMAIN l = 1..Len(l) /\ Len(l) \in Nat
  BY DEF Enumerates
<1>2. m = [k \in 1..Len(l) |-> IF k = j THEN l[i] ELSE IF k = i THEN l[j] ELSE l[k]]
  BY <1>1 DEF Swap
<1> HIDE DEF m
<1>3. m \in Seq(C) /\ DOMAIN m = 1..Len(l) /\ Len(m) = Len(l)
  BY <1>1, <1>2
<1>4. ASSUME NEW a \in DOMAIN m, NEW b \in DOMAIN m, m[a] = m[b] PROVE a = b
  BY <1>1, <1>2, <1>3, <1>4 DEF Enumerates
<1>5. ASSUME NEW x \in C PROVE \E k \in DOMAIN m : m[k] = x
  <2>1. PICK k \in DOMAIN l : l[k] = x
    BY DEF Enumerates
  <2>2. CASE k = i
    BY <1>1, <1>2, <1>3, <2>1, <2>2
  <2>3. CASE k = j
    BY <1>1, <1>2, <1>3, <2>1, <2>3
  <2>4. CASE k # i /\ k # j
    BY <1>1, <1>2, <1>3, <2>1, <2>4
  <2> QED
    BY <2>2, <2>3, <2>4
<1> QED
  BY <1>3, <1>4, <1>5 DEF Enumerates, m

LEMMA TradeEnumerates ==
  ASSUME NEW C, NEW l, Enumerates(l, C), NEW i \in DOMAIN l, NEW j \in DOMAIN l, NEW S
  PROVE  Enumerates(Trade(l, S, i, j), C) /\ Len(Trade(l, S, i, j)) = Len(l)
BY SwapEnumerates DEF Trade

\* The lists that a pass goes through, from the front or from the back.
Passes(after, l, S, C, up) ==
  /\ \A i \in 0..Len(l) : Enumerates(after[i], C) /\ Len(after[i]) = Len(l)
  /\ \A i \in 0..Len(l) : after[i] =
       IF i <= 1 THEN l
       ELSE IF up THEN Trade(after[i-1], S, i, i-1)
       ELSE Trade(after[i-1], S, Len(l)+1-i, Len(l)+2-i)

\* The pass from the front is one, and each of its lists keeps the members.
LEMMA StepUpRuns ==
  ASSUME NEW C, NEW l, Enumerates(l, C), NEW S
  PROVE  \E after : Passes(after, l, S, C, TRUE) /\ StepUp(l, S) = after[Len(l)]
<1> DEFINE n == Len(l)
           X == {m \in Seq(C) : Enumerates(m, C) /\ Len(m) = n}
           after[i \in 0..Len(l)] == IF i <= 1 THEN l ELSE Trade(after[i-1], S, i, i-1)
           step == [i \in 1..n |-> [m \in X |->
                      IF i <= 1 THEN l ELSE Trade(m, S, i, i-1)]]
<1>1. n \in Nat /\ DOMAIN l = 1..n /\ l \in X
  BY DEF Enumerates
<1>2. ASSUME NEW m \in X, NEW i \in 1..n, i > 1
      PROVE  Trade(m, S, i, i-1) \in X
  <2>1. DOMAIN m = 1..n
    BY <1>1
  <2>2. i \in DOMAIN m /\ i-1 \in DOMAIN m
    BY <1>1, <1>2, <2>1
  <2>3. Enumerates(m, C) /\ Len(m) = n
    OBVIOUS
  <2>4. /\ Enumerates(Trade(m, S, i, i-1), C)
        /\ Len(Trade(m, S, i, i-1)) = Len(m)
    BY <2>2, <2>3, TradeEnumerates
  <2> QED
    BY <2>3, <2>4 DEF Enumerates
<1>3. step \in [1..n -> [X -> X]]
  BY <1>1, <1>2
<1>4. StepUp(l, S) = after[n]
  BY DEF StepUp
<1> HIDE DEF step, X, after, n
<1>5. PICK f : Stepwise(f, n, X, l, step)
  BY <1>1, <1>3, RecursionExists
<1>6. ASSUME NEW i \in 1..n
      PROVE  f[i] = IF i <= 1 THEN l ELSE Trade(f[i-1], S, i, i-1)
  <2>1. f[i-1] \in X
    BY <1>1, <1>5 DEF Stepwise
  <2> QED
    BY <1>5, <2>1 DEF step, Stepwise
<1>7. f = [i \in 0..n |-> IF i <= 1 THEN l ELSE Trade(f[i-1], S, i, i-1)]
  BY <1>1, <1>5, <1>6 DEF Stepwise
<1>8. after = [i \in 0..n |-> IF i <= 1 THEN l ELSE Trade(after[i-1], S, i, i-1)]
  BY <1>7 DEF after, n
<1> DEFINE G == {i \in 0..n : after[i] \in X}
<1>9. 0 \in G
  BY <1>1, <1>8
<1>10. ASSUME NEW i \in 0..n, i < n, i \in G PROVE i + 1 \in G
  <2>1. i + 1 \in 1..n /\ (i + 1) - 1 = i
    BY <1>1, <1>10
  <2>2. CASE i = 0
    BY <1>1, <1>8, <2>1, <2>2
  <2>3. CASE i > 0
    <3> DEFINE k == i + 1
    <3>1. k \in 1..n /\ k > 1 /\ k - 1 = i
      BY <1>1, <1>10, <2>1, <2>3
    <3>2. after[k - 1] \in X
      BY <1>10, <3>1
    <3>3. after[k] = Trade(after[k-1], S, k, k-1)
      BY <1>8, <3>1
    <3> HIDE DEF k
    <3>4. after[k] \in X
      BY <1>2, <3>1, <3>2, <3>3
    <3> QED
      BY <3>1, <3>4 DEF k
  <2> QED
    BY <1>1, <2>2, <2>3
<1>11. 0..n \subseteq G
  <2> HIDE DEF G
  <2> QED
    BY <1>1, <1>9, <1>10, Upward
<1>12. \A i \in 0..n : after[i] \in X
  BY <1>11
<1>13. Passes(after, l, S, C, TRUE)
  BY <1>8, <1>12 DEF Passes, X, n
<1> QED
  BY <1>4, <1>13 DEF n

\* So is the pass from the back.
LEMMA StepDownRuns ==
  ASSUME NEW C, NEW l, Enumerates(l, C), NEW S
  PROVE  \E after : Passes(after, l, S, C, FALSE) /\ StepDown(l, S) = after[Len(l)]
<1> DEFINE n == Len(l)
           X == {m \in Seq(C) : Enumerates(m, C) /\ Len(m) = n}
           after[i \in 0..Len(l)] == IF i <= 1 THEN l ELSE Trade(after[i-1], S, Len(l)+1-i, Len(l)+2-i)
           step == [i \in 1..n |-> [m \in X |->
                      IF i <= 1 THEN l ELSE Trade(m, S, Len(l)+1-i, Len(l)+2-i)]]
<1>1. n \in Nat /\ DOMAIN l = 1..n /\ l \in X
  BY DEF Enumerates
<1>2. ASSUME NEW m \in X, NEW i \in 1..n, i > 1
      PROVE  Trade(m, S, Len(l)+1-i, Len(l)+2-i) \in X
  <2>1. DOMAIN m = 1..n
    BY <1>1
  <2>2. Len(l)+1-i \in DOMAIN m /\ Len(l)+2-i \in DOMAIN m
    BY <1>1, <1>2, <2>1
  <2>3. Enumerates(m, C) /\ Len(m) = n
    OBVIOUS
  <2>4. /\ Enumerates(Trade(m, S, Len(l)+1-i, Len(l)+2-i), C)
        /\ Len(Trade(m, S, Len(l)+1-i, Len(l)+2-i)) = Len(m)
    BY <2>2, <2>3, TradeEnumerates
  <2> QED
    BY <2>3, <2>4 DEF Enumerates
<1>3. step \in [1..n -> [X -> X]]
  BY <1>1, <1>2
<1>4. StepDown(l, S) = after[n]
  BY DEF StepDown
<1> HIDE DEF step, X, after, n
<1>5. PICK f : Stepwise(f, n, X, l, step)
  BY <1>1, <1>3, RecursionExists
<1>6. ASSUME NEW i \in 1..n
      PROVE  f[i] = IF i <= 1 THEN l ELSE Trade(f[i-1], S, Len(l)+1-i, Len(l)+2-i)
  <2>1. f[i-1] \in X
    BY <1>1, <1>5 DEF Stepwise
  <2> QED
    BY <1>5, <2>1 DEF step, Stepwise
<1>7. f = [i \in 0..n |-> IF i <= 1 THEN l ELSE Trade(f[i-1], S, Len(l)+1-i, Len(l)+2-i)]
  BY <1>1, <1>5, <1>6 DEF Stepwise
<1>8. after = [i \in 0..n |-> IF i <= 1 THEN l ELSE Trade(after[i-1], S, Len(l)+1-i, Len(l)+2-i)]
  BY <1>7 DEF after, n
<1> DEFINE G == {i \in 0..n : after[i] \in X}
<1>9. 0 \in G
  BY <1>1, <1>8
<1>10. ASSUME NEW i \in 0..n, i < n, i \in G PROVE i + 1 \in G
  <2>1. i + 1 \in 1..n /\ (i + 1) - 1 = i
    BY <1>1, <1>10
  <2>2. CASE i = 0
    BY <1>1, <1>8, <2>1, <2>2
  <2>3. CASE i > 0
    <3> DEFINE k == i + 1
    <3>1. k \in 1..n /\ k > 1 /\ k - 1 = i
      BY <1>1, <1>10, <2>1, <2>3
    <3>2. after[k - 1] \in X
      BY <1>10, <3>1
    <3>3. after[k] = Trade(after[k-1], S, Len(l)+1-k, Len(l)+2-k)
      BY <1>8, <3>1
    <3> HIDE DEF k
    <3>4. after[k] \in X
      BY <1>2, <3>1, <3>2, <3>3
    <3> QED
      BY <3>1, <3>4 DEF k
  <2> QED
    BY <1>1, <2>2, <2>3
<1>11. 0..n \subseteq G
  <2> HIDE DEF G
  <2> QED
    BY <1>1, <1>9, <1>10, Upward
<1>12. \A i \in 0..n : after[i] \in X
  BY <1>11
<1>13. Passes(after, l, S, C, FALSE)
  BY <1>8, <1>12 DEF Passes, X, n
<1> QED
  BY <1>4, <1>13 DEF n

\* The members in C before the others, or after them.
LEMMA PartedEnumerates ==
  ASSUME NEW C, NEW l, Enumerates(l, C), NEW S
  PROVE  Enumerates(ToTop(l, S), C) /\ Enumerates(ToBottom(l, S), C)
<1> DEFINE a == Only(l, S)
           b == Only(l, ToSet(l) \ S)
<1>1. l \in Seq(C) /\ ToSet(l) = C
  BY DEF Enumerates, ToSet
<1>2. Enumerates(a, C \cap S) /\ Enumerates(b, C \cap (C \ S))
  BY <1>1, OnlyFacts
<1> HIDE DEF a, b
<1>3. ASSUME NEW x, NEW y, NEW A, NEW B, Enumerates(x, A), Enumerates(y, B), A \cap B = {}
      PROVE  Enumerates(x \o y, A \cup B)
  <2>1. /\ x \in Seq(A) /\ y \in Seq(B) /\ DOMAIN x = 1..Len(x) /\ DOMAIN y = 1..Len(y)
        /\ Len(x) \in Nat /\ Len(y) \in Nat
    BY <1>3 DEF Enumerates
  <2> DEFINE z == x \o y
  <2>2. /\ z \in Seq(A \cup B) /\ DOMAIN z = 1..Len(x) + Len(y)
        /\ \A k \in 1..Len(x) + Len(y) : z[k] = IF k <= Len(x) THEN x[k] ELSE y[k - Len(x)]
    <3>1. x \in Seq(A \cup B) /\ y \in Seq(A \cup B)
      BY <2>1
    <3> QED
      BY <2>1, <3>1
  <2> HIDE DEF z
  <2>3. ASSUME NEW k \in 1..Len(x) + Len(y)
        PROVE  /\ k <= Len(x) => k \in DOMAIN x /\ z[k] = x[k] /\ z[k] \in A
               /\ ~(k <= Len(x)) => k - Len(x) \in DOMAIN y /\ z[k] = y[k - Len(x)] /\ z[k] \in B
    BY <2>1, <2>2
  <2>4. z \in Seq(A \cup B) /\ DOMAIN z = 1..Len(x) + Len(y)
    BY <2>2
  <2>5. ASSUME NEW i \in DOMAIN z, NEW j \in DOMAIN z, z[i] = z[j] PROVE i = j
    <3>1. i \in 1..Len(x) + Len(y) /\ j \in 1..Len(x) + Len(y)
      BY <2>4
    <3>2. i <= Len(x) <=> j <= Len(x)
      BY <1>3, <2>3, <2>5, <3>1
    <3>3. CASE i <= Len(x)
      BY <1>3, <2>3, <2>5, <3>1, <3>2, <3>3 DEF Enumerates
    <3>4. CASE ~(i <= Len(x))
      <4>1. i - Len(x) = j - Len(x)
        BY <1>3, <2>3, <2>5, <3>1, <3>2, <3>4 DEF Enumerates
      <4> QED
        BY <2>1, <3>1, <4>1
    <3> QED
      BY <3>3, <3>4
  <2>6. ASSUME NEW e \in A \cup B PROVE \E k \in DOMAIN z : z[k] = e
    <3>1. CASE e \in A
      <4>1. PICK k \in DOMAIN x : x[k] = e
        BY <1>3, <3>1 DEF Enumerates
      <4>2. k \in 1..Len(x) + Len(y) /\ k <= Len(x)
        BY <2>1
      <4> QED
        BY <2>3, <2>4, <4>1, <4>2
    <3>2. CASE e \in B
      <4>1. PICK k \in DOMAIN y : y[k] = e
        BY <1>3, <3>2 DEF Enumerates
      <4>2. k + Len(x) \in 1..Len(x) + Len(y) /\ ~(k + Len(x) <= Len(x))
            /\ (k + Len(x)) - Len(x) = k
        BY <2>1
      <4> QED
        BY <2>3, <2>4, <4>1, <4>2
    <3> QED
      BY <3>1, <3>2
  <2> QED
    BY <2>4, <2>5, <2>6 DEF Enumerates, z
<1>4. (C \cap S) \cap (C \cap (C \ S)) = {} /\ (C \cap (C \ S)) \cap (C \cap S) = {}
      /\ (C \cap S) \cup (C \cap (C \ S)) = C /\ (C \cap (C \ S)) \cup (C \cap S) = C
  OBVIOUS
<1>5. Enumerates(a \o b, C)
  <2>1. Enumerates(a \o b, (C \cap S) \cup (C \cap (C \ S)))
    BY <1>2, <1>3, <1>4
  <2> QED
    BY <1>4, <2>1
<1>6. Enumerates(b \o a, C)
  <2>1. Enumerates(b \o a, (C \cap (C \ S)) \cup (C \cap S))
    BY <1>2, <1>3, <1>4
  <2> QED
    BY <1>4, <2>1
<1> QED
  BY <1>5, <1>6 DEF ToTop, ToBottom, a, b

\* Whatever is moved where, the list keeps its members.
LEMMA PermutedEnumerates ==
  ASSUME NEW C, NEW l, Enumerates(l, C), NEW S, NEW op \in Operations
  PROVE  Enumerates(Permuted(l, S, op), C)
<1>1. Enumerates(ToTop(l, S), C) /\ Enumerates(ToBottom(l, S), C)
  BY PartedEnumerates
<1>2. Enumerates(StepUp(l, S), C) /\ Enumerates(StepDown(l, S), C)
  <2>1. PICK up : Passes(up, l, S, C, TRUE) /\ StepUp(l, S) = up[Len(l)]
    BY StepUpRuns
  <2>2. PICK down : Passes(down, l, S, C, FALSE) /\ StepDown(l, S) = down[Len(l)]
    BY StepDownRuns
  <2>3. Len(l) \in 0..Len(l)
    BY DEF Enumerates
  <2> QED
    BY <2>1, <2>2, <2>3 DEF Passes
<1> QED
  BY <1>1, <1>2 DEF Permuted, Operations

\* The controllable queues are permuted among their slots, the others stay.
LEMMA ReorderedEnumerates ==
  ASSUME NEW A, NEW order, Enumerates(order, A), NEW C, NEW S, NEW op \in Operations
  PROVE  Enumerates(Reordered(order, C, S, op), A)
<1> DEFINE n == Len(order)
           slots == {i \in DOMAIN order : order[i] \in C}
           rank == [i \in slots |-> Cardinality({j \in slots : j < i})]
           list == Permuted(Only(order, C), S \cap C, op)
           m == Reordered(order, C, S, op)
<1>1. order \in Seq(A) /\ n \in Nat /\ DOMAIN order = 1..n /\ slots \in SUBSET (1..n)
  BY DEF Enumerates
<1>2. /\ IsFiniteSet(slots) /\ rank \in [slots -> Nat]
      /\ \A i, j \in slots : rank[i] = rank[j] => i = j
      /\ \A i \in slots : rank[i] < Cardinality(slots)
  <2>1. IsFiniteSet(1..n) /\ slots \in SUBSET Int
    BY <1>1, FS_Interval
  <2>2. IsFiniteSet(slots)
    BY <1>1, <2>1, FS_Subset
  <2> HIDE DEF slots
  <2> QED
    BY <2>1, <2>2, RankOfNumbers
<1>3. /\ Enumerates(Only(order, C), A \cap C) /\ Len(Only(order, C)) = Cardinality(slots)
  BY <1>1, OnlyFacts, ZenonT(60)
<1>4. Enumerates(list, A \cap C) /\ Len(list) = Cardinality(slots)
  <2>1. Enumerates(list, A \cap C)
    BY <1>3, PermutedEnumerates
  <2> HIDE DEF list
  <2>2. Len(list) = Cardinality(A \cap C) /\ Len(Only(order, C)) = Cardinality(A \cap C)
    BY <1>3, <2>1, EnumeratesSize
  <2> QED
    BY <1>3, <2>1, <2>2
<1>5. Cardinality(slots) \in Nat
  BY <1>2, FS_CardinalityType
<1>6. m = [i \in 1..n |-> IF order[i] \in C THEN list[RankIn(order, C, i)] ELSE order[i]]
  BY <1>1 DEF Reordered
<1>7. ASSUME NEW i \in slots PROVE RankIn(order, C, i) = rank[i] + 1
  <2> DEFINE below == {j \in slots : j < i}
  <2>1. i \in 1..n /\ order[i] \in C
    BY <1>1
  <2>2. {j \in 1..i : order[j] \in C} = below \cup {i}
    BY <1>1, <2>1
  <2>3. below \in SUBSET slots /\ i \notin below
    BY <2>1
  <2>4. IsFiniteSet(below)
    BY <1>2, <2>3, FS_Subset
  <2> HIDE DEF below
  <2>5. Cardinality(below \cup {i}) = Cardinality(below) + 1
    BY <2>3, <2>4, FS_AddElement
  <2>6. rank[i] = Cardinality(below)
    BY DEF below
  <2> QED
    BY <2>2, <2>5, <2>6 DEF RankIn
<1>8. /\ DOMAIN list = 1..Cardinality(slots)
      /\ \A k \in 1..Cardinality(slots) : list[k] \in A \cap C
  <2> HIDE DEF list, slots
  <2>1. list \in Seq(A \cap C) /\ Len(list) = Cardinality(slots)
    BY <1>4 DEF Enumerates
  <2>2. DOMAIN list = 1..Len(list) /\ \A k \in 1..Len(list) : list[k] \in A \cap C
    BY <2>1
  <2> QED
    BY <2>1, <2>2
<1>9. \A i \in 1..n : i \in slots <=> order[i] \in C
  BY <1>1
<1> HIDE DEF n, slots, rank, list, m
<1>10. ASSUME NEW i \in slots
       PROVE  rank[i] + 1 \in DOMAIN list /\ m[i] = list[rank[i] + 1] /\ m[i] \in A \cap C
  <2>1. rank[i] \in Nat /\ rank[i] < Cardinality(slots) /\ i \in 1..n
    BY <1>1, <1>2
  <2>2. rank[i] + 1 \in DOMAIN list
    BY <1>5, <1>8, <2>1
  <2>3. m[i] = list[rank[i] + 1]
    BY <1>6, <1>7, <1>9, <2>1
  <2> QED
    BY <1>8, <2>2, <2>3
<1>11. ASSUME NEW i \in (1..n) \ slots PROVE m[i] = order[i] /\ m[i] \in A \ C
  BY <1>1, <1>6, <1>9
<1>12. m \in Seq(A) /\ DOMAIN m = 1..n
  <2>1. \A i \in 1..n : m[i] \in A
    BY <1>10, <1>11
  <2> QED
    BY <1>1, <1>6, <2>1
<1>13. ASSUME NEW i \in 1..n, NEW j \in 1..n, m[i] = m[j] PROVE i = j
  <2>1. i \in slots <=> j \in slots
    BY <1>10, <1>11, <1>13
  <2>2. CASE i \in slots
    <3>1. rank[i] + 1 = rank[j] + 1
      BY <1>4, <1>10, <1>13, <2>1, <2>2 DEF Enumerates
    <3>2. rank[i] \in Nat /\ rank[j] \in Nat
      BY <1>2, <2>1, <2>2
    <3> QED
      BY <1>2, <2>1, <2>2, <3>1, <3>2
  <2>3. CASE i \notin slots
    BY <1>1, <1>11, <1>13, <2>1, <2>3 DEF Enumerates
  <2> QED
    BY <2>2, <2>3
<1>14. ASSUME NEW x \in A PROVE \E i \in 1..n : m[i] = x
  <2>1. CASE x \in C
    <3> DEFINE next == [i \in slots |-> rank[i] + 1]
    <3>1. next \in Injection(slots, 1..Cardinality(slots))
      <4>1. \A i \in slots : rank[i] + 1 \in 1..Cardinality(slots)
        BY <1>8, <1>10
      <4>2. \A i, j \in slots : rank[i] + 1 = rank[j] + 1 => i = j
        BY <1>2
      <4> QED
        BY <4>1, <4>2 DEF Injection, IsInjective
    <3>2. IsFiniteSet(1..Cardinality(slots)) /\ Cardinality(1..Cardinality(slots)) = Cardinality(slots)
      BY <1>5, FS_Interval
    <3>3. next \in Surjection(slots, 1..Cardinality(slots))
      BY <1>2, <3>1, <3>2, FS_Injection
    <3>4. PICK k \in DOMAIN list : list[k] = x
      BY <1>4, <2>1 DEF Enumerates
    <3>5. PICK i \in slots : next[i] = k
      BY <1>8, <3>3, <3>4 DEF Surjection
    <3>6. rank[i] + 1 = k /\ i \in 1..n
      BY <1>1, <3>5
    <3> QED
      BY <1>10, <3>4, <3>6
  <2>2. CASE x \notin C
    <3>1. PICK i \in 1..n : order[i] = x
      BY <1>1 DEF Enumerates
    <3>2. i \notin slots
      BY <1>9, <2>2, <3>1
    <3> QED
      BY <1>11, <3>1, <3>2
  <2> QED
    BY <2>1, <2>2
<1>15. Enumerates(m, A)
  BY <1>12, <1>13, <1>14 DEF Enumerates
<1> QED
  BY <1>15 DEF m

\* One more queue at the end of the list.
LEMMA AppendEnumerates ==
  ASSUME NEW C, NEW l, Enumerates(l, C), NEW x, x \notin C
  PROVE  Enumerates(Append(l, x), C \cup {x})
<1> DEFINE m == Append(l, x)
           n == Len(l)
<1>1. l \in Seq(C) /\ n \in Nat /\ DOMAIN l = 1..n
  BY DEF Enumerates
<1>2. l \in Seq(C \cup {x})
  BY <1>1
<1>3. m \in Seq(C \cup {x}) /\ DOMAIN m = 1..n+1
      /\ m[n+1] = x /\ \A i \in 1..n : m[i] = l[i]
  BY <1>1, <1>2
<1>4. \A i \in 1..n : l[i] \in C /\ i \in 1..n+1
  BY <1>1
<1>5. n+1 \in 1..n+1 /\ \A i \in 1..n+1 : i = n+1 \/ i \in 1..n
  BY <1>1
<1> HIDE DEF m, n
<1>6. \A i, j \in 1..n+1 : m[i] = m[j] => i = j
  BY <1>1, <1>3, <1>4, <1>5 DEF Enumerates
<1>7. \A y \in C \cup {x} : \E i \in 1..n+1 : m[i] = y
  BY <1>1, <1>3, <1>4, <1>5 DEF Enumerates
<1>8. Enumerates(m, C \cup {x})
  BY <1>3, <1>6, <1>7 DEF Enumerates
<1> QED
  BY <1>8 DEF m

-----------------------------------------------------------------------------
(* Where a move takes each queue. *)

Place(list, q) == CHOOSE i \in DOMAIN list : list[i] = q

Placed(l, C) ==
  /\ l \in Seq(C) /\ Len(l) \in Nat /\ DOMAIN l = 1..Len(l)
  /\ \A i \in 1..Len(l) : l[i] \in C /\ Place(l, l[i]) = i
  /\ \A q \in C : Place(l, q) \in 1..Len(l) /\ l[Place(l, q)] = q

\* A list without repetition has one place for each member.
LEMMA Places ==
  ASSUME NEW C, NEW l, Enumerates(l, C)
  PROVE  Placed(l, C)
<1>1. l \in Seq(C) /\ Len(l) \in Nat /\ DOMAIN l = 1..Len(l)
  BY DEF Enumerates
<1>2. ASSUME NEW q \in C PROVE Place(l, q) \in 1..Len(l) /\ l[Place(l, q)] = q
  BY <1>1 DEF Enumerates, Place
<1>3. ASSUME NEW i \in 1..Len(l) PROVE l[i] \in C /\ Place(l, l[i]) = i
  <2>1. l[i] \in C
    BY <1>1
  <2>2. Place(l, l[i]) \in DOMAIN l /\ l[Place(l, l[i])] = l[i]
    BY <1>1, <1>2, <2>1
  <2> QED
    BY <1>1, <2>1, <2>2 DEF Enumerates
<1> QED
  BY <1>1, <1>2, <1>3 DEF Placed

\* The entries in C, and how many of them there are up to each.
RanksFit(l, C, o) ==
  /\ Len(o) \in Nat /\ DOMAIN o = 1..Len(o)
  /\ \A i \in DOMAIN l : l[i] \in C =>
       RankIn(l, C, i) \in 1..Len(o) /\ o[RankIn(l, C, i)] = l[i]
  /\ \A i, j \in DOMAIN l : l[i] \in C /\ l[j] \in C =>
       (i < j <=> RankIn(l, C, i) < RankIn(l, C, j))

\* An entry of a list stands in the part that is in C at its rank there.
LEMMA Ranks ==
  ASSUME NEW A, NEW l \in Seq(A), NEW C
  PROVE  RanksFit(l, C, Only(l, C))
<1> DEFINE n == Len(l)
           S == {i \in DOMAIN l : l[i] \in C}
           rank == [i \in S |-> Cardinality({j \in S : j < i})]
           kept == Ascending(S)
           o == Only(l, C)
<1>1. n \in Nat /\ DOMAIN l = 1..n /\ S \in SUBSET (1..n)
  OBVIOUS
<1>2. IsFiniteSet(S) /\ S \in SUBSET Int
  <2>1. IsFiniteSet(1..n) /\ S \in SUBSET Int
    BY <1>1, FS_Interval
  <2> QED
    BY <1>1, <2>1, FS_Subset
<1>3. o = [k \in DOMAIN kept |-> l[kept[k]]]
  BY DEF Only
<1>4. \A i \in DOMAIN l : l[i] \in C <=> i \in S
  OBVIOUS
<1>5. kept = ByRank(S, rank)
  BY DEF Ascending
<1>6. ASSUME NEW i \in S PROVE RankIn(l, C, i) = rank[i] + 1
  <2> DEFINE below == {j \in S : j < i}
  <2>1. {j \in 1..i : l[j] \in C} = below \cup {i}
    BY <1>1
  <2>2. below \in SUBSET S /\ i \notin below
    BY <1>1
  <2>3. rank[i] = Cardinality(below)
    OBVIOUS
  <2> HIDE DEF below, rank
  <2>4. IsFiniteSet(below)
    BY <1>2, <2>2, FS_Subset
  <2>5. Cardinality(below \cup {i}) = Cardinality(below) + 1
    BY <2>2, <2>4, FS_AddElement
  <2> QED
    BY <2>1, <2>3, <2>5 DEF RankIn
<1>7. ASSUME NEW i \in S, NEW j \in S, i < j PROVE rank[i] < rank[j]
  <2> DEFINE P == {k \in S : k < i}
             Q == {k \in S : k < j}
  <2>1. P \in SUBSET Q /\ P # Q /\ Q \in SUBSET S
    BY <1>1, <1>7
  <2>2. rank[i] = Cardinality(P) /\ rank[j] = Cardinality(Q)
    OBVIOUS
  <2> HIDE DEF P, Q, rank
  <2>3. IsFiniteSet(Q)
    BY <1>2, <2>1, FS_Subset
  <2> QED
    BY <2>1, <2>2, <2>3, StrictlySmaller
<1> HIDE DEF S, kept
<1>8. /\ rank \in [S -> Nat]
      /\ \A i, j \in S : rank[i] = rank[j] => i = j
      /\ \A i \in S : rank[i] < Cardinality(S)
  BY <1>2, RankOfNumbers
<1> HIDE DEF rank
<1>9. /\ Enumerates(kept, S) /\ Len(kept) = Cardinality(S) /\ DOMAIN kept = 1..Cardinality(S)
      /\ \A k \in 1..Cardinality(S) : rank[kept[k]] = k - 1
  <2>1. /\ Enumerates(ByRank(S, rank), S) /\ Len(ByRank(S, rank)) = Cardinality(S)
        /\ DOMAIN ByRank(S, rank) = 1..Cardinality(S)
        /\ \A k \in 1..Cardinality(S) : rank[ByRank(S, rank)[k]] = k - 1
    BY <1>2, <1>8, RankedList
  <2> QED
    BY <1>5, <2>1, Zenon
<1>10. Cardinality(S) \in Nat
  BY <1>2, FS_CardinalityType
<1>11. \A k \in 1..Cardinality(S) : kept[k] \in S
  BY <1>9 DEF Enumerates
<1>12. DOMAIN o = 1..Cardinality(S) /\ Len(o) = Cardinality(S)
  BY <1>3, <1>9, <1>10
<1> HIDE DEF o
<1>13. ASSUME NEW i \in S
       PROVE  rank[i] + 1 \in 1..Cardinality(S) /\ o[rank[i] + 1] = l[i]
  <2>1. rank[i] + 1 \in 1..Cardinality(S) /\ (rank[i] + 1) - 1 = rank[i]
    BY <1>8, <1>10
  <2>2. kept[rank[i] + 1] = i
    BY <1>8, <1>9, <1>11, <2>1
  <2> QED
    BY <1>3, <1>9, <2>1, <2>2
<1>14. ASSUME NEW i \in S, NEW j \in S
       PROVE  i < j <=> RankIn(l, C, i) < RankIn(l, C, j)
  <2>1. i \in Int /\ j \in Int /\ rank[i] \in Nat /\ rank[j] \in Nat
    BY <1>2, <1>8
  <2>2. i < j => rank[i] < rank[j]
    BY <1>7
  <2>3. j < i => rank[j] < rank[i]
    BY <1>7
  <2> QED
    BY <1>6, <2>1, <2>2, <2>3
<1>15. RanksFit(l, C, o)
  BY <1>4, <1>6, <1>10, <1>12, <1>13, <1>14 DEF RanksFit
<1> QED
  BY <1>15 DEF o

\* What Reordered makes of the places: the pinned queues keep theirs, and the
\* controllable ones are in the order of the permuted list m.
Carried(order, new, A, C, l, m) ==
  /\ \A q \in A \ C : Place(new, q) = Place(order, q)
  /\ \A p, q \in C : Place(order, p) < Place(order, q) <=> Place(l, p) < Place(l, q)
  /\ \A p, q \in C : Place(new, p) < Place(new, q) <=> Place(m, p) < Place(m, q)

LEMMA ReorderedPlaces ==
  ASSUME NEW A, NEW order, Enumerates(order, A), NEW C \in SUBSET A,
         NEW S, NEW op \in Operations
  PROVE  LET l == Only(order, C)
             m == Permuted(l, S \cap C, op)
         IN  /\ Carried(order, Reordered(order, C, S, op), A, C, l, m)
             /\ Enumerates(l, C) /\ Enumerates(m, C)
<1> DEFINE n == Len(order)
           l == Only(order, C)
           m == Permuted(l, S \cap C, op)
           new == Reordered(order, C, S, op)
<1>1. order \in Seq(A) /\ n \in Nat /\ DOMAIN order = 1..n /\ A \cap C = C
  BY DEF Enumerates
<1>2. Enumerates(l, C) /\ RanksFit(order, C, l)
  BY <1>1, OnlyFacts, Ranks
<1>3. new = [i \in 1..n |-> IF order[i] \in C THEN m[RankIn(order, C, i)] ELSE order[i]]
  BY <1>1 DEF Reordered
<1> HIDE DEF l
<1>4. Enumerates(m, C)
  BY <1>2, PermutedEnumerates
<1> HIDE DEF m
<1>5. Enumerates(new, A)
  BY ReorderedEnumerates
<1> HIDE DEF new
<1>6. Placed(order, A) /\ Placed(new, A) /\ Placed(l, C) /\ Placed(m, C)
  BY <1>2, <1>4, <1>5, Places
<1>7. Len(l) = Len(m)
  BY <1>2, <1>4, EnumeratesSize
<1>8. ASSUME NEW q \in A \ C PROVE Place(new, q) = Place(order, q)
  <2>1. Place(order, q) \in 1..n /\ order[Place(order, q)] = q
    BY <1>6 DEF Placed
  <2>2. new[Place(order, q)] = q /\ Len(new) = n
    BY <1>1, <1>3, <2>1
  <2> QED
    BY <1>6, <2>1, <2>2 DEF Placed
<1>9. ASSUME NEW q \in C
      PROVE  /\ Place(order, q) \in 1..n /\ order[Place(order, q)] \in C
             /\ Place(l, q) = RankIn(order, C, Place(order, q))
  <2>1. Place(order, q) \in 1..n /\ order[Place(order, q)] = q
    BY <1>6 DEF Placed
  <2> DEFINE k == RankIn(order, C, Place(order, q))
  <2>2. k \in 1..Len(l) /\ l[k] = q
    BY <1>1, <1>2, <2>1 DEF RanksFit
  <2> HIDE DEF k
  <2>3. Place(l, q) = k
    BY <1>6, <2>2 DEF Placed
  <2> QED
    BY <2>1, <2>3 DEF k
<1>10. ASSUME NEW q \in C
       PROVE  /\ Place(new, q) \in 1..n /\ order[Place(new, q)] \in C
              /\ Place(m, q) = RankIn(order, C, Place(new, q))
  <2> DEFINE i == Place(new, q)
             k == RankIn(order, C, i)
  <2>1. DOMAIN new = 1..n
    BY <1>3
  <2>2. i \in 1..n /\ new[i] = q
    BY <1>6, <2>1 DEF Placed
  <2> HIDE DEF i
  <2>3. order[i] \in C
    BY <1>3, <2>2
  <2>4. k \in 1..Len(m) /\ m[k] = q
    BY <1>1, <1>2, <1>3, <1>7, <2>2, <2>3 DEF RanksFit
  <2> HIDE DEF k
  <2>5. Place(m, q) = k
    BY <1>6, <2>4 DEF Placed
  <2> QED
    BY <2>2, <2>3, <2>5 DEF i, k
<1>11. \A p, q \in C : Place(order, p) < Place(order, q) <=> Place(l, p) < Place(l, q)
  BY <1>1, <1>2, <1>9 DEF RanksFit
<1>12. \A p, q \in C : Place(new, p) < Place(new, q) <=> Place(m, p) < Place(m, q)
  BY <1>1, <1>2, <1>10 DEF RanksFit
<1>13. Carried(order, new, A, C, l, m)
  BY <1>8, <1>11, <1>12 DEF Carried
<1> QED
  BY <1>2, <1>4, <1>13 DEF new, l, m

\* Queues of the same kind, selected or not, stay in their order.
KindsKept(l, m, C, S) ==
  \A p, q \in C : (p \in S <=> q \in S) =>
    (Place(m, p) < Place(m, q) <=> Place(l, p) < Place(l, q))

\* A trade of neighbours of different kinds.
LEMMA TradeKeepsKinds ==
  ASSUME NEW C, NEW l, Enumerates(l, C), NEW i \in DOMAIN l, NEW j \in DOMAIN l, NEW S,
         i = j + 1 \/ j = i + 1
  PROVE  KindsKept(l, Trade(l, S, i, j), C, S)
<1> DEFINE t == Trade(l, S, i, j)
<1>1. CASE ~(l[i] \in S /\ l[j] \notin S)
  <2>1. t = l
    BY <1>1 DEF Trade
  <2> QED
    BY <2>1 DEF KindsKept
<1>2. CASE l[i] \in S /\ l[j] \notin S
  <2>1. t = Swap(l, i, j)
    BY <1>2 DEF Trade
  <2>2. Enumerates(t, C)
    BY <2>1, SwapEnumerates
  <2>3. Placed(l, C)
    BY Places
  <2>4. t = [k \in 1..Len(l) |-> IF k = j THEN l[i] ELSE IF k = i THEN l[j] ELSE l[k]]
    BY <2>1, <2>3 DEF Swap, Placed
  <2> HIDE DEF t
  <2>5. Placed(t, C)
    BY <2>2, Places
  <2>6. Len(t) = Len(l)
    BY <2>3, <2>4 DEF Placed
  <2>7. i \in 1..Len(l) /\ j \in 1..Len(l) /\ i # j
    BY <2>3 DEF Placed
  <2>8. Place(t, l[i]) = j /\ Place(t, l[j]) = i /\ Place(l, l[i]) = i /\ Place(l, l[j]) = j
    BY <2>3, <2>4, <2>5, <2>6, <2>7 DEF Placed
  <2>9. ASSUME NEW q \in C, q # l[i], q # l[j]
        PROVE  /\ Place(t, q) = Place(l, q) /\ Place(l, q) \in 1..Len(l)
               /\ Place(l, q) # i /\ Place(l, q) # j
    <3>1. Place(l, q) \in 1..Len(l) /\ l[Place(l, q)] = q
      BY <2>3 DEF Placed
    <3>2. Place(l, q) # i /\ Place(l, q) # j
      BY <2>9, <3>1
    <3>3. t[Place(l, q)] = q
      BY <2>4, <3>1, <3>2
    <3> QED
      BY <2>5, <2>6, <3>1, <3>2, <3>3 DEF Placed
  <2>10. ASSUME NEW p \in C, NEW q \in C, p \in S <=> q \in S
         PROVE  Place(t, p) < Place(t, q) <=> Place(l, p) < Place(l, q)
    <3>1. Len(l) \in Nat
      BY <2>3 DEF Placed
    <3>2. CASE p = q
      BY <2>3, <2>5, <2>6, <3>2 DEF Placed
    <3>3. CASE p # q /\ p \in {l[i], l[j]}
      <4>1. q \notin {l[i], l[j]}
        BY <1>2, <2>10, <3>3
      <4>2. Place(t, q) = Place(l, q) /\ Place(l, q) \in 1..Len(l) \ {i, j}
        BY <2>9, <4>1
      <4> QED
        BY <2>7, <2>8, <3>1, <3>3, <4>2
    <3>4. CASE p # q /\ q \in {l[i], l[j]}
      <4>1. p \notin {l[i], l[j]}
        BY <1>2, <2>10, <3>4
      <4>2. Place(t, p) = Place(l, p) /\ Place(l, p) \in 1..Len(l) \ {i, j}
        BY <2>9, <4>1
      <4> QED
        BY <2>7, <2>8, <3>1, <3>4, <4>2
    <3>5. CASE p \notin {l[i], l[j]} /\ q \notin {l[i], l[j]}
      BY <2>9, <3>5
    <3> QED
      BY <3>2, <3>3, <3>4, <3>5
  <2>11. KindsKept(l, t, C, S)
    BY <2>10 DEF KindsKept
  <2> QED
    BY <2>11 DEF t
<1> QED
  BY <1>1, <1>2

KindsChain ==
  \A l, m, t, C, S : KindsKept(l, m, C, S) /\ KindsKept(m, t, C, S) => KindsKept(l, t, C, S)

\* One after the other.
LEMMA KindsKeptOn == KindsChain
BY DEF KindsChain, KindsKept

\* Where a selected queue ends that was at i.
UpFrom(l, S, i) == IF \A j \in 1..i-1 : l[j] \in S THEN i ELSE i - 1
DownFrom(l, S, i) == IF \A j \in i+1..Len(l) : l[j] \in S THEN i ELSE i + 1

\* The list after i slots of the pass from the front.
UpTo(l, t, C, S, i) ==
  /\ KindsKept(l, t, C, S)
  /\ \A k \in 1..Len(l) : k > i => t[k] = l[k]
  /\ \A k \in 1..Len(l) : k <= i /\ l[k] \in S => t[UpFrom(l, S, k)] = l[k]
  /\ i >= 1 => (t[i] \notin S <=> \E j \in 1..i : l[j] \notin S)

\* The list after i slots of the pass from the back.
DownTo(l, t, C, S, i) ==
  /\ KindsKept(l, t, C, S)
  /\ \A k \in 1..Len(l) : k < Len(l)+1-i => t[k] = l[k]
  /\ \A k \in 1..Len(l) : k >= Len(l)+1-i /\ l[k] \in S => t[DownFrom(l, S, k)] = l[k]
  /\ i >= 1 => (t[Len(l)+1-i] \notin S <=> \E j \in Len(l)+1-i..Len(l) : l[j] \notin S)

\* What a trade leaves.
LEMMA TradeEntries ==
  ASSUME NEW C, NEW t \in Seq(C), NEW i \in 1..Len(t), NEW j \in 1..Len(t), NEW S
  PROVE  LET u == Trade(t, S, i, j)
         IN  IF t[i] \in S /\ t[j] \notin S
             THEN \A k \in 1..Len(t) :
                    u[k] = IF k = j THEN t[i] ELSE IF k = i THEN t[j] ELSE t[k]
             ELSE u = t
<1>1. DOMAIN t = 1..Len(t)
  OBVIOUS
<1> QED
  BY <1>1 DEF Trade, Swap

\* One slot more from the front.
LEMMA UpStep ==
  ASSUME NEW C, NEW l, Enumerates(l, C), NEW S, NEW t, Enumerates(t, C), Len(t) = Len(l),
         NEW i \in 1..Len(l), i < Len(l), UpTo(l, t, C, S, i)
  PROVE  UpTo(l, Trade(t, S, i+1, i), C, S, i+1)
<1> DEFINE n == Len(l)
           u == Trade(t, S, i+1, i)
<1>1. n \in Nat /\ i \in 1..n /\ i+1 \in 1..n /\ DOMAIN t = 1..n /\ t \in Seq(C)
  BY DEF Enumerates
<1>2. KindsKept(t, u, C, S)
  BY <1>1, TradeKeepsKinds
<1>3. KindsKept(l, u, C, S)
  BY <1>2, KindsKeptOn DEF KindsChain, UpTo
<1>4. IF t[i+1] \in S /\ t[i] \notin S
      THEN \A k \in 1..n : u[k] = IF k = i THEN t[i+1] ELSE IF k = i+1 THEN t[i] ELSE t[k]
      ELSE u = t
  <2> HIDE DEF u
  <2>1. i \in 1..Len(t) /\ i+1 \in 1..Len(t)
    BY <1>1
  <2> QED
    BY <1>1, <2>1, TradeEntries DEF u
<1> HIDE DEF u
<1>5. /\ t[i+1] = l[i+1] /\ \A k \in 1..n : k > i => t[k] = l[k]
      /\ \A k \in 1..n : k <= i /\ l[k] \in S => t[UpFrom(l, S, k)] = l[k]
      /\ t[i] \notin S <=> \E j \in 1..i : l[j] \notin S
  BY <1>1 DEF UpTo
<1>6. \A k \in 1..n : UpFrom(l, S, k) \in 1..k
  <2> SUFFICES ASSUME NEW k \in 1..n PROVE UpFrom(l, S, k) \in 1..k
    OBVIOUS
  <2>1. CASE \A j \in 1..k-1 : l[j] \in S
    BY <1>1, <2>1 DEF UpFrom
  <2>2. CASE ~(\A j \in 1..k-1 : l[j] \in S)
    <3>1. PICK j \in 1..k-1 : l[j] \notin S
      BY <2>2
    <3> QED
      BY <1>1, <2>2, <3>1 DEF UpFrom
  <2> QED
    BY <2>1, <2>2
<1>7. ASSUME NEW k \in 1..n, k > i+1 PROVE u[k] = l[k]
  BY <1>1, <1>4, <1>5, <1>7
<1>8. ASSUME NEW k \in 1..n, k <= i, l[k] \in S PROVE u[UpFrom(l, S, k)] = l[k]
  <2>1. t[UpFrom(l, S, k)] = l[k] /\ UpFrom(l, S, k) \in 1..k
    BY <1>5, <1>6, <1>8
  <2> QED
    BY <1>1, <1>4, <1>8, <2>1
<1>9. i + 1 - 1 = i
  BY <1>1
<1>10. ASSUME l[i+1] \in S PROVE u[UpFrom(l, S, i+1)] = l[i+1]
  <2>1. CASE \A j \in 1..i : l[j] \in S
    <3>1. UpFrom(l, S, i+1) = i+1
      BY <1>9, <2>1 DEF UpFrom
    <3> QED
      BY <1>4, <1>5, <2>1, <3>1
  <2>2. CASE ~(\A j \in 1..i : l[j] \in S)
    <3>1. UpFrom(l, S, i+1) = i
      BY <1>9, <2>2 DEF UpFrom
    <3> QED
      BY <1>1, <1>4, <1>5, <1>10, <2>2, <3>1
  <2> QED
    BY <2>1, <2>2
<1>11. u[i+1] \notin S <=> \E j \in 1..i+1 : l[j] \notin S
  <2>1. (\E j \in 1..i+1 : l[j] \notin S) <=> (l[i+1] \notin S \/ \E j \in 1..i : l[j] \notin S)
    BY <1>1
  <2> QED
    BY <1>1, <1>4, <1>5, <2>1
<1>12. ASSUME NEW k \in 1..n, k <= i+1, l[k] \in S PROVE u[UpFrom(l, S, k)] = l[k]
  <2>1. k = i+1 \/ k <= i
    BY <1>1, <1>12
  <2> QED
    BY <1>8, <1>10, <1>12, <2>1
<1>13. UpTo(l, u, C, S, i+1)
  BY <1>3, <1>7, <1>11, <1>12 DEF UpTo
<1> QED
  BY <1>13 DEF u

\* One slot more from the back.
LEMMA DownStep ==
  ASSUME NEW C, NEW l, Enumerates(l, C), NEW S, NEW t, Enumerates(t, C), Len(t) = Len(l),
         NEW i \in 1..Len(l), i < Len(l), DownTo(l, t, C, S, i)
  PROVE  DownTo(l, Trade(t, S, Len(l)-i, Len(l)+1-i), C, S, i+1)
<1> DEFINE n == Len(l)
           a == n - i
           b == n + 1 - i
           u == Trade(t, S, a, b)
<1>0. n \in Nat /\ Len(t) = n /\ DOMAIN t = 1..n /\ t \in Seq(C)
  BY DEF Enumerates
<1>1. /\ n \in Nat /\ i \in 1..n /\ a \in 1..n /\ b \in 1..n /\ b = a + 1
      /\ n + 1 - (i + 1) = a /\ DOMAIN t = 1..n /\ t \in Seq(C)
  <2> HIDE DEF u
  <2>1. i < n /\ i \in 1..n
    OBVIOUS
  <2> HIDE DEF n
  <2> QED
    BY <1>0, <2>1
<1>2. KindsKept(t, u, C, S)
  BY <1>1, TradeKeepsKinds
<1>3. KindsKept(l, u, C, S)
  BY <1>2, KindsKeptOn DEF KindsChain, DownTo
<1>4. IF t[a] \in S /\ t[b] \notin S
      THEN \A k \in 1..n : u[k] = IF k = b THEN t[a] ELSE IF k = a THEN t[b] ELSE t[k]
      ELSE u = t
  <2> HIDE DEF u, a, b
  <2>1. a \in 1..Len(t) /\ b \in 1..Len(t)
    BY <1>1
  <2> QED
    BY <1>1, <2>1, TradeEntries DEF u
<1>5. /\ \A k \in 1..n : k < b => t[k] = l[k]
      /\ \A k \in 1..n : k >= b /\ l[k] \in S => t[DownFrom(l, S, k)] = l[k]
      /\ t[b] \notin S <=> \E j \in b..n : l[j] \notin S
  BY <1>1 DEF DownTo
<1> HIDE DEF u, a, b
<1>6. \A k \in 1..n : DownFrom(l, S, k) \in k..n
  <2> SUFFICES ASSUME NEW k \in 1..n PROVE DownFrom(l, S, k) \in k..n
    OBVIOUS
  <2>1. CASE \A j \in k+1..n : l[j] \in S
    BY <1>1, <2>1 DEF DownFrom
  <2>2. CASE ~(\A j \in k+1..n : l[j] \in S)
    <3>1. PICK j \in k+1..n : l[j] \notin S
      BY <2>2
    <3> QED
      BY <1>1, <2>2, <3>1 DEF DownFrom
  <2> QED
    BY <2>1, <2>2
<1>7. ASSUME NEW k \in 1..n, k < a PROVE u[k] = l[k]
  BY <1>1, <1>4, <1>5, <1>7
<1>8. ASSUME NEW k \in 1..n, k >= b, l[k] \in S PROVE u[DownFrom(l, S, k)] = l[k]
  <2>1. t[DownFrom(l, S, k)] = l[k] /\ DownFrom(l, S, k) \in k..n
    BY <1>5, <1>6, <1>8
  <2> QED
    BY <1>1, <1>4, <1>8, <2>1
<1>9. t[a] = l[a]
  BY <1>1, <1>5
<1>10. ASSUME l[a] \in S PROVE u[DownFrom(l, S, a)] = l[a]
  <2>1. CASE \A j \in b..n : l[j] \in S
    <3>1. DownFrom(l, S, a) = a
      BY <1>1, <2>1 DEF DownFrom
    <3> QED
      BY <1>4, <1>5, <1>9, <2>1, <3>1
  <2>2. CASE ~(\A j \in b..n : l[j] \in S)
    <3>1. DownFrom(l, S, a) = b
      BY <1>1, <2>2 DEF DownFrom
    <3> QED
      BY <1>1, <1>4, <1>5, <1>9, <1>10, <2>2, <3>1
  <2> QED
    BY <2>1, <2>2
<1>11. u[a] \notin S <=> \E j \in a..n : l[j] \notin S
  <2>1. (\E j \in a..n : l[j] \notin S) <=> (l[a] \notin S \/ \E j \in b..n : l[j] \notin S)
    BY <1>1
  <2> QED
    BY <1>1, <1>4, <1>5, <1>9, <2>1
<1>12. ASSUME NEW k \in 1..n, k >= a, l[k] \in S PROVE u[DownFrom(l, S, k)] = l[k]
  <2>1. k = a \/ k >= b
    BY <1>1, <1>12
  <2> QED
    BY <1>8, <1>10, <1>12, <2>1
<1>13. DownTo(l, u, C, S, i+1)
  BY <1>1, <1>3, <1>7, <1>11, <1>12 DEF DownTo
<1> QED
  BY <1>13 DEF u, a, b

\* Where a move takes the selected queues.
Goes(l, m, C, S, op) ==
  \A i \in 1..Len(l) : l[i] \in S =>
    Place(m, l[i]) = CASE op = "up"     -> UpFrom(l, S, i)
                       [] op = "down"   -> DownFrom(l, S, i)
                       [] op = "top"    -> RankIn(l, S, i)
                       [] op = "bottom" -> Cardinality(C \ S) + RankIn(l, S, i)

\* "up" takes a selected queue one place up, unless all before it are selected.
LEMMA UpGoes ==
  ASSUME NEW C, NEW l, Enumerates(l, C), NEW S
  PROVE  KindsKept(l, StepUp(l, S), C, S) /\ Goes(l, StepUp(l, S), C, S, "up")
<1> DEFINE n == Len(l)
<1>1. PICK after : Passes(after, l, S, C, TRUE) /\ StepUp(l, S) = after[n]
  BY StepUpRuns
<1>2. l \in Seq(C) /\ n \in Nat /\ DOMAIN l = 1..n
  BY DEF Enumerates
<1> HIDE DEF n
<1>3. \A i \in 0..n : Enumerates(after[i], C) /\ Len(after[i]) = n
  BY <1>1 DEF Passes, n
<1>4. \A i \in 0..n : after[i] = IF i <= 1 THEN l ELSE Trade(after[i-1], S, i, i-1)
  BY <1>1 DEF Passes, n
<1> DEFINE G == {i \in 0..n : UpTo(l, after[i], C, S, i)}
<1>5. KindsKept(l, l, C, S)
  BY DEF KindsKept
<1>6. 0 \in G
  <2>1. after[0] = l /\ 0 \in 0..n
    BY <1>2, <1>4
  <2>2. UpTo(l, l, C, S, 0)
    BY <1>2, <1>5 DEF UpTo
  <2> QED
    BY <2>1, <2>2
<1>7. ASSUME NEW i \in 0..n, i < n, i \in G PROVE i + 1 \in G
  <2>1. i + 1 \in 0..n /\ (i + 1) - 1 = i
    BY <1>2, <1>7
  <2>2. CASE i = 0
    <3>1. after[1] = l
      BY <1>4, <2>1, <2>2
    <3>2. UpFrom(l, S, 1) = 1
      BY DEF UpFrom
    <3>3. \A k \in 1..n : k <= 1 => k = 1
      BY <1>2
    <3>4. l[1] \notin S <=> \E j \in 1..1 : l[j] \notin S
      OBVIOUS
    <3>5. UpTo(l, l, C, S, 1)
      BY <1>5, <3>2, <3>3, <3>4 DEF UpTo, n
    <3> QED
      BY <2>1, <2>2, <3>1, <3>5
  <2>3. CASE i # 0
    <3>1. after[i+1] = Trade(after[i], S, i+1, i)
      BY <1>2, <1>4, <2>1, <2>3
    <3>2. Enumerates(after[i], C) /\ Len(after[i]) = Len(l) /\ UpTo(l, after[i], C, S, i)
      BY <1>3, <1>7 DEF n
    <3>3. i \in 1..Len(l) /\ i < Len(l)
      BY <1>2, <1>7, <2>3 DEF n
    <3>4. UpTo(l, after[i+1], C, S, i+1)
      BY <3>1, <3>2, <3>3, UpStep
    <3> QED
      BY <2>1, <3>4
  <2> QED
    BY <2>2, <2>3
<1>8. n \in G
  <2> HIDE DEF G
  <2>1. 0..n \subseteq G
    BY <1>2, <1>6, <1>7, Upward
  <2> QED
    BY <1>2, <2>1
<1>9. UpTo(l, after[n], C, S, n) /\ Placed(after[n], C) /\ Len(after[n]) = n
  BY <1>2, <1>3, <1>8, Places
<1>10. ASSUME NEW i \in 1..n, l[i] \in S PROVE Place(after[n], l[i]) = UpFrom(l, S, i)
  <2>1. after[n][UpFrom(l, S, i)] = l[i]
    BY <1>2, <1>9, <1>10 DEF UpTo, n
  <2>2. UpFrom(l, S, i) \in 1..n
    <3>1. CASE \A j \in 1..i-1 : l[j] \in S
      BY <3>1 DEF UpFrom
    <3>2. CASE ~(\A j \in 1..i-1 : l[j] \in S)
      <4>1. PICK j \in 1..i-1 : l[j] \notin S
        BY <3>2
      <4> QED
        BY <1>2, <3>2, <4>1 DEF UpFrom
    <3> QED
      BY <3>1, <3>2
  <2> QED
    BY <1>9, <2>1, <2>2 DEF Placed
<1>11. Goes(l, after[n], C, S, "up")
  BY <1>10 DEF Goes, n
<1> QED
  BY <1>1, <1>9, <1>11 DEF UpTo

\* "down" takes a selected queue one place down, unless all behind it are selected.
LEMMA DownGoes ==
  ASSUME NEW C, NEW l, Enumerates(l, C), NEW S
  PROVE  KindsKept(l, StepDown(l, S), C, S) /\ Goes(l, StepDown(l, S), C, S, "down")
<1> DEFINE n == Len(l)
<1>1. PICK after : Passes(after, l, S, C, FALSE) /\ StepDown(l, S) = after[n]
  BY StepDownRuns
<1>2. l \in Seq(C) /\ n \in Nat /\ DOMAIN l = 1..n
  BY DEF Enumerates
<1> HIDE DEF n
<1>3. \A i \in 0..n : Enumerates(after[i], C) /\ Len(after[i]) = n
  BY <1>1 DEF Passes, n
<1>4. \A i \in 0..n : after[i] = IF i <= 1 THEN l ELSE Trade(after[i-1], S, n+1-i, n+2-i)
  BY <1>1 DEF Passes, n
<1> DEFINE G == {i \in 0..n : DownTo(l, after[i], C, S, i)}
<1>5. KindsKept(l, l, C, S)
  BY DEF KindsKept
<1>6. 0 \in G
  <2>1. after[0] = l /\ 0 \in 0..n
    BY <1>2, <1>4
  <2>2. \A k \in 1..n : ~(k >= n + 1 - 0)
    BY <1>2
  <2>3. DownTo(l, l, C, S, 0)
    BY <1>5, <2>2 DEF DownTo, n
  <2> QED
    BY <2>1, <2>3
<1>7. ASSUME NEW i \in 0..n, i < n, i \in G PROVE i + 1 \in G
  <2>1. i + 1 \in 0..n /\ (i + 1) - 1 = i /\ n+1-(i+1) = n-i /\ n+2-(i+1) = n+1-i
    BY <1>2, <1>7
  <2>2. CASE i = 0
    <3>1. after[1] = l /\ n \in 1..n
      BY <1>2, <1>4, <1>7, <2>1, <2>2
    <3>2. DownFrom(l, S, n) = n
      <4>1. \A j \in n+1..n : FALSE
        BY <1>2
      <4> QED
        BY <4>1 DEF DownFrom, n
    <3>3. n+1-1 = n /\ (\A k \in 1..n : k >= n => k = n) /\ \A j \in n..n : j = n
      BY <1>2
    <3>4. l[n] \notin S <=> \E j \in n..n : l[j] \notin S
      BY <1>2, <3>3
    <3>5. DownTo(l, l, C, S, 1)
      BY <1>5, <3>2, <3>3, <3>4 DEF DownTo, n
    <3> QED
      BY <2>1, <2>2, <3>1, <3>5
  <2>3. CASE i # 0
    <3>1. after[i+1] = Trade(after[i], S, n-i, n+1-i)
      BY <1>2, <1>4, <2>1, <2>3
    <3>2. Enumerates(after[i], C) /\ Len(after[i]) = Len(l) /\ DownTo(l, after[i], C, S, i)
      BY <1>3, <1>7 DEF n
    <3>3. i \in 1..Len(l) /\ i < Len(l)
      BY <1>2, <1>7, <2>3 DEF n
    <3>4. DownTo(l, Trade(after[i], S, Len(l)-i, Len(l)+1-i), C, S, i+1)
      BY <3>2, <3>3, DownStep
    <3> QED
      BY <2>1, <3>1, <3>4 DEF n
  <2> QED
    BY <2>2, <2>3
<1>8. n \in G
  <2> HIDE DEF G
  <2>1. 0..n \subseteq G
    BY <1>2, <1>6, <1>7, Upward
  <2> QED
    BY <1>2, <2>1
<1>9. DownTo(l, after[n], C, S, n) /\ Placed(after[n], C) /\ Len(after[n]) = n
  BY <1>2, <1>3, <1>8, Places
<1>10. ASSUME NEW i \in 1..n, l[i] \in S PROVE Place(after[n], l[i]) = DownFrom(l, S, i)
  <2>1. i >= n + 1 - n
    BY <1>2
  <2>2. after[n][DownFrom(l, S, i)] = l[i]
    BY <1>9, <1>10, <2>1 DEF DownTo, n
  <2>3. DownFrom(l, S, i) \in 1..n
    <3>1. CASE \A j \in i+1..n : l[j] \in S
      BY <3>1 DEF DownFrom, n
    <3>2. CASE ~(\A j \in i+1..n : l[j] \in S)
      <4>1. PICK j \in i+1..n : l[j] \notin S
        BY <3>2
      <4> QED
        BY <1>2, <3>2, <4>1 DEF DownFrom, n
    <3> QED
      BY <3>1, <3>2
  <2> QED
    BY <1>9, <2>2, <2>3 DEF Placed
<1>11. Goes(l, after[n], C, S, "down")
  BY <1>10 DEF Goes, n
<1> QED
  BY <1>1, <1>9, <1>11 DEF DownTo

Gathered(l, m, T, U) == \A i \in 1..Len(l) :
  /\ l[i] \in T => Place(m, l[i]) = RankIn(l, T, i)
  /\ l[i] \in U => Place(m, l[i]) = Len(Only(l, T)) + RankIn(l, U, i)

\* The part in T before the part in U.
LEMMA Gathering ==
  ASSUME NEW C, NEW l, Enumerates(l, C), NEW T, NEW U, NEW m,
         m = Only(l, T) \o Only(l, U), Enumerates(m, C)
  PROVE  Gathered(l, m, T, U) /\ Len(Only(l, T)) \in Nat
<1> DEFINE a == Only(l, T)
           b == Only(l, U)
<1>1. l \in Seq(C) /\ DOMAIN l = 1..Len(l) /\ Placed(m, C)
  <2>1. Placed(l, C) /\ Placed(m, C)
    BY Places
  <2> QED
    BY <2>1 DEF Placed
<1>2. RanksFit(l, T, a) /\ RanksFit(l, U, b) /\ a \in Seq(C \cap T) /\ b \in Seq(C \cap U)
  BY <1>1, Ranks, OnlyFacts
<1>3. m = a \o b
  OBVIOUS
<1> HIDE DEF a, b
<1>4. Len(a) \in Nat /\ Len(b) \in Nat
  BY <1>2 DEF RanksFit
<1>5. /\ Len(m) = Len(a) + Len(b)
      /\ \A k \in 1..Len(a) + Len(b) : m[k] = IF k <= Len(a) THEN a[k] ELSE b[k - Len(a)]
  BY <1>2, <1>3
<1>6. ASSUME NEW i \in 1..Len(l), l[i] \in T PROVE Place(m, l[i]) = RankIn(l, T, i)
  <2>1. RankIn(l, T, i) \in 1..Len(a) /\ a[RankIn(l, T, i)] = l[i]
    BY <1>1, <1>2, <1>6 DEF RanksFit
  <2>2. RankIn(l, T, i) \in 1..Len(m) /\ m[RankIn(l, T, i)] = l[i]
    BY <1>4, <1>5, <2>1
  <2> QED
    BY <1>1, <2>2 DEF Placed
<1>7. ASSUME NEW i \in 1..Len(l), l[i] \in U PROVE Place(m, l[i]) = Len(a) + RankIn(l, U, i)
  <2> DEFINE k == RankIn(l, U, i)
  <2>1. k \in 1..Len(b) /\ b[k] = l[i]
    BY <1>1, <1>2, <1>7 DEF RanksFit
  <2> HIDE DEF k
  <2>2. Len(a) + k \in 1..Len(m) /\ m[Len(a) + k] = l[i]
    BY <1>4, <1>5, <2>1
  <2>3. Place(m, l[i]) = Len(a) + k
    BY <1>1, <2>2 DEF Placed
  <2> QED
    BY <2>3 DEF k
<1> QED
  BY <1>4, <1>6, <1>7 DEF a, Gathered

\* Two parts of a list, one before the other, keep their own order.
LEMMA GatheringKeepsKinds ==
  ASSUME NEW C, NEW l, Enumerates(l, C), NEW S, NEW T, NEW U, NEW m,
         m = Only(l, T) \o Only(l, U), Enumerates(m, C),
         \A x \in C : x \in T \/ x \in U, \A x \in C : x \in S => (x \in T <=> S = T),
         \A x \in C : x \notin S => (x \in T <=> S # T)
  PROVE  KindsKept(l, m, C, S)
<1>1. l \in Seq(C) /\ DOMAIN l = 1..Len(l) /\ Placed(l, C)
  <2>1. Placed(l, C)
    BY Places
  <2> QED
    BY <2>1 DEF Placed
<1>2. /\ RanksFit(l, T, Only(l, T)) /\ RanksFit(l, U, Only(l, U))
      /\ Gathered(l, m, T, U) /\ Len(Only(l, T)) \in Nat
  BY <1>1, Ranks, Gathering
<1>3. ASSUME NEW p \in C, NEW q \in C, p \in S <=> q \in S
      PROVE  Place(m, p) < Place(m, q) <=> Place(l, p) < Place(l, q)
  <2> DEFINE i == Place(l, p)
             j == Place(l, q)
  <2>1. i \in 1..Len(l) /\ j \in 1..Len(l) /\ l[i] = p /\ l[j] = q
    BY <1>1 DEF Placed
  <2> HIDE DEF i, j
  <2>2. CASE p \in T
    <3>1. q \in T
      BY <1>3, <2>2
    <3>2. Place(m, p) = RankIn(l, T, i) /\ Place(m, q) = RankIn(l, T, j)
      BY <1>2, <2>1, <2>2, <3>1 DEF Gathered
    <3>3. i < j <=> RankIn(l, T, i) < RankIn(l, T, j)
      BY <1>1, <1>2, <2>1, <2>2, <3>1 DEF RanksFit
    <3> QED
      BY <3>2, <3>3 DEF i, j
  <2>3. CASE p \notin T
    <3>1. q \notin T /\ p \in U /\ q \in U
      BY <1>3, <2>3
    <3>2. /\ Place(m, p) = Len(Only(l, T)) + RankIn(l, U, i)
          /\ Place(m, q) = Len(Only(l, T)) + RankIn(l, U, j)
          /\ Len(Only(l, T)) \in Nat
      BY <1>2, <2>1, <3>1 DEF Gathered
    <3>3. /\ i < j <=> RankIn(l, U, i) < RankIn(l, U, j)
          /\ RankIn(l, U, i) \in Int /\ RankIn(l, U, j) \in Int
      BY <1>1, <1>2, <2>1, <3>1 DEF RanksFit
    <3> QED
      BY <3>2, <3>3 DEF i, j
  <2> QED
    BY <2>2, <2>3
<1> QED
  BY <1>3 DEF KindsKept

\* "top" gathers the selection at the front, "bottom" at the back.
LEMMA EndsGo ==
  ASSUME NEW C, NEW l, Enumerates(l, C), NEW S \in SUBSET C
  PROVE  /\ KindsKept(l, ToTop(l, S), C, S) /\ Goes(l, ToTop(l, S), C, S, "top")
         /\ KindsKept(l, ToBottom(l, S), C, S) /\ Goes(l, ToBottom(l, S), C, S, "bottom")
<1> DEFINE U == C \ S
<1>1. /\ ToTop(l, S) = Only(l, S) \o Only(l, U) /\ ToBottom(l, S) = Only(l, U) \o Only(l, S)
      /\ Enumerates(ToTop(l, S), C) /\ Enumerates(ToBottom(l, S), C)
  <2>1. l \in Seq(C) /\ ToSet(l) = C
    BY DEF Enumerates, ToSet
  <2> QED
    BY <2>1, PartedEnumerates DEF ToTop, ToBottom
<1>2. Len(Only(l, U)) = Cardinality(U)
  <2>1. l \in Seq(C) /\ C \cap U = U
    BY DEF Enumerates
  <2>2. Enumerates(Only(l, U), U)
    BY <2>1, OnlyFacts
  <2> HIDE DEF U
  <2> QED
    BY <2>2, EnumeratesSize
<1>3. /\ \A x \in C : x \in S \/ x \in U
      /\ \A x \in C : x \in S => (x \in S <=> S = S)
      /\ \A x \in C : x \notin S => (x \in S <=> S # S)
  OBVIOUS
<1>4. /\ \A x \in C : x \in U \/ x \in S
      /\ \A x \in C : x \in S => (x \in U <=> S = U)
      /\ \A x \in C : x \notin S => (x \in U <=> S # U)
  OBVIOUS
<1> HIDE DEF U
<1>5. KindsKept(l, ToTop(l, S), C, S)
  BY <1>1, <1>3, GatheringKeepsKinds
<1>6. KindsKept(l, ToBottom(l, S), C, S)
  BY <1>1, <1>4, GatheringKeepsKinds
<1>7. ASSUME NEW i \in 1..Len(l), l[i] \in S
      PROVE  /\ Place(ToTop(l, S), l[i]) = RankIn(l, S, i)
             /\ Place(ToBottom(l, S), l[i]) = Cardinality(U) + RankIn(l, S, i)
  <2>1. Gathered(l, ToTop(l, S), S, U) /\ Gathered(l, ToBottom(l, S), U, S)
    BY <1>1, Gathering
  <2> QED
    BY <1>2, <1>7, <2>1 DEF Gathered
<1>8. Goes(l, ToTop(l, S), C, S, "top") /\ Goes(l, ToBottom(l, S), C, S, "bottom")
  BY <1>7 DEF Goes, U
<1> QED
  BY <1>5, <1>6, <1>8

\* Each operation keeps the kinds in order and takes the selection where it says.
LEMMA PermutedGoes ==
  ASSUME NEW C, NEW l, Enumerates(l, C), NEW S \in SUBSET C, NEW op \in Operations
  PROVE  /\ KindsKept(l, Permuted(l, S, op), C, S)
         /\ Goes(l, Permuted(l, S, op), C, S, op)
BY UpGoes, DownGoes, EndsGo DEF Permuted, Operations

-----------------------------------------------------------------------------
(* How many are ahead. *)

LEMMA CountUpTo ==
  ASSUME NEW k \in Nat
  PROVE  IsFiniteSet(1..k) /\ Cardinality(1..k) = k
BY FS_Interval

AheadOf(o, q, C) == Cardinality({c \in C : Place(o, c) < Place(o, q)})
SlotsBefore(l, E, i) == {j \in 1..i-1 : l[j] \in E}

\* Those ahead of a queue, by their places.
LEMMA AheadCount ==
  ASSUME NEW C, NEW l, Enumerates(l, C), NEW E \in SUBSET C, NEW q \in C
  PROVE  AheadOf(l, q, E) = Cardinality(SlotsBefore(l, E, Place(l, q)))
<1> DEFINE i == Place(l, q)
           P == SlotsBefore(l, E, i)
           Q == {c \in E : Place(l, c) < i}
           f == [j \in P |-> l[j]]
<1>1. Placed(l, C) /\ Len(l) \in Nat /\ i \in 1..Len(l)
  BY Places DEF Placed
<1> HIDE DEF i
<1>2. P \in SUBSET (1..Len(l))
  BY <1>1 DEF SlotsBefore
<1>3. IsFiniteSet(P)
  <2>1. IsFiniteSet(1..Len(l))
    BY <1>1, FS_Interval
  <2> QED
    BY <1>2, <2>1, FS_Subset
<1>4. \A j \in P : l[j] \in E /\ Place(l, l[j]) = j /\ j < i
  BY <1>1 DEF SlotsBefore, Placed
<1>5. ASSUME NEW c \in Q PROVE \E j \in P : l[j] = c
  <2>1. Place(l, c) \in 1..Len(l) /\ l[Place(l, c)] = c /\ Place(l, c) < i
    BY <1>1 DEF Placed
  <2>2. Place(l, c) \in P
    BY <1>1, <2>1 DEF SlotsBefore
  <2> QED
    BY <2>1, <2>2
<1> HIDE DEF P
<1>6. f \in Bijection(P, Q)
  BY <1>4, <1>5 DEF Bijection, Injection, Surjection, IsInjective
<1>7. Cardinality(Q) = Cardinality(P)
  BY <1>3, <1>6, FS_Bijection DEF ExistsBijection
<1> QED
  BY <1>7 DEF P, i, AheadOf

\* Counting the places before one.
LEMMA BeforeCount ==
  ASSUME NEW C, NEW l \in Seq(C), NEW E, NEW i \in 1..Len(l)
  PROVE  /\ Cardinality(SlotsBefore(l, C, i)) = i - 1
         /\ Cardinality(SlotsBefore(l, E, i)) \in 0..i-1
         /\ Cardinality(SlotsBefore(l, E, i)) = i - 1 <=> \A j \in 1..i-1 : l[j] \in E
         /\ l[i] \in E => RankIn(l, E, i) = Cardinality(SlotsBefore(l, E, i)) + 1
<1>1. i \in Nat /\ i - 1 \in Nat /\ DOMAIN l = 1..Len(l) /\ Len(l) \in Nat
  OBVIOUS
<1>2. IsFiniteSet(1..i-1) /\ Cardinality(1..i-1) = i - 1
  <2>1. i - 1 \in Nat
    BY <1>1
  <2> QED
    BY <2>1, CountUpTo
<1>3. SlotsBefore(l, C, i) = 1..i-1
  BY <1>1 DEF SlotsBefore
<1>4. SlotsBefore(l, E, i) \in SUBSET (1..i-1)
  BY DEF SlotsBefore
<1>5. /\ IsFiniteSet(SlotsBefore(l, E, i)) /\ Cardinality(SlotsBefore(l, E, i)) <= i - 1
      /\ Cardinality(SlotsBefore(l, E, i)) = i - 1 => SlotsBefore(l, E, i) = 1..i-1
  BY <1>2, <1>4, FS_Subset
<1>6. Cardinality(SlotsBefore(l, E, i)) \in Nat
  BY <1>5, FS_CardinalityType
<1>7. Cardinality(SlotsBefore(l, E, i)) = i - 1 <=> \A j \in 1..i-1 : l[j] \in E
  <2>1. SlotsBefore(l, E, i) = 1..i-1 <=> \A j \in 1..i-1 : l[j] \in E
    BY DEF SlotsBefore
  <2> QED
    BY <1>2, <1>5, <2>1
<1>8. ASSUME l[i] \in E PROVE RankIn(l, E, i) = Cardinality(SlotsBefore(l, E, i)) + 1
  <2>1. {j \in 1..i : l[j] \in E} = SlotsBefore(l, E, i) \cup {i} /\ i \notin SlotsBefore(l, E, i)
    BY <1>1, <1>8 DEF SlotsBefore
  <2>2. Cardinality(SlotsBefore(l, E, i) \cup {i}) = Cardinality(SlotsBefore(l, E, i)) + 1
    BY <1>5, <2>1, FS_AddElement
  <2> QED
    BY <2>1, <2>2 DEF RankIn
<1> QED
  BY <1>1, <1>2, <1>3, <1>5, <1>6, <1>7, <1>8

\* Where each operation takes a selected queue, by counting those ahead of it.
AsAsked(l, m, C, S, q, op) ==
  LET ahead  == AheadOf(l, q, C)
      mine   == AheadOf(l, q, S)
      others == Cardinality(C \ S)
      behind == others - (ahead - mine)
  IN  AheadOf(m, q, C) =
        CASE op = "up"     -> IF ahead = mine THEN ahead ELSE ahead - 1
          [] op = "down"   -> IF behind = 0 THEN ahead ELSE ahead + 1
          [] op = "top"    -> mine
          [] op = "bottom" -> others + mine

\* None of the others behind slot i of l.
LEMMA NoneBehind ==
  ASSUME NEW C, NEW l, Enumerates(l, C), NEW S \in SUBSET C, NEW i \in 1..Len(l), l[i] \in S
  PROVE  /\ Cardinality(C \ S) \in Nat
         /\ Cardinality(C \ S) - (i - 1 - Cardinality(SlotsBefore(l, S, i))) = 0
              <=> \A j \in i+1..Len(l) : l[j] \in S
<1> DEFINE n == Len(l)
           U == C \ S
           P == {j \in 1..n : l[j] \in U}
           Q == SlotsBefore(l, U, i)
<1>1. l \in Seq(C) /\ n \in Nat /\ DOMAIN l = 1..n /\ i \in 1..n
  BY DEF Enumerates
<1>2. Cardinality(U) = Cardinality(P)
  <2>1. Enumerates(Only(l, U), C \cap U) /\ C \cap U = U
    BY <1>1, OnlyFacts
  <2>2. P = {j \in DOMAIN l : l[j] \in U}
    BY <1>1
  <2> HIDE DEF P, U
  <2>3. Len(Only(l, U)) = Cardinality({j \in DOMAIN l : l[j] \in U})
    BY <1>1, OnlyFacts, ZenonT(60)
  <2> QED
    BY <2>1, <2>2, <2>3, EnumeratesSize
<1>3. SlotsBefore(l, S, i) \cup Q = 1..i-1 /\ SlotsBefore(l, S, i) \cap Q = {}
  BY <1>1 DEF SlotsBefore
<1>4. IsFiniteSet(P) /\ Q \in SUBSET P
  <2>1. P \in SUBSET (1..n) /\ Q \in SUBSET P
    BY <1>1 DEF SlotsBefore
  <2>2. IsFiniteSet(1..n)
    BY <1>1, FS_Interval
  <2> HIDE DEF P, Q, n
  <2> QED
    BY <2>1, <2>2, FS_Subset
<1>5. Q = P <=> \A j \in i+1..n : l[j] \in S
  <2>1. ASSUME \A j \in i+1..n : l[j] \in S, NEW j \in P PROVE j \in Q
    <3>1. j \in 1..n /\ l[j] \notin S
      OBVIOUS
    <3>2. j # i /\ ~(j > i)
      BY <1>1, <2>1, <3>1
    <3> QED
      BY <1>1, <3>1, <3>2 DEF SlotsBefore
  <2>2. ASSUME Q = P, NEW j \in i+1..n, l[j] \notin S PROVE FALSE
    <3>1. j \in 1..n /\ l[j] \in U
      BY <1>1, <2>2
    <3>2. j \in P
      BY <3>1
    <3>3. j \in 1..i-1
      BY <2>2, <3>2 DEF SlotsBefore
    <3> QED
      BY <1>1, <3>3
  <2> QED
    BY <1>4, <2>1, <2>2
<1> HIDE DEF n, U, P, Q
<1>6. /\ Cardinality(P) \in Nat /\ Cardinality(Q) \in Nat /\ IsFiniteSet(Q)
      /\ Cardinality(Q) = Cardinality(P) <=> Q = P
  BY <1>4, FS_Subset, FS_CardinalityType
<1>7. IsFiniteSet(1..i-1) /\ Cardinality(1..i-1) = i - 1
  <2>1. i - 1 \in Nat
    BY <1>1
  <2> QED
    BY <2>1, CountUpTo
<1>8. IsFiniteSet(SlotsBefore(l, S, i)) /\ Cardinality(SlotsBefore(l, S, i)) \in Nat
  BY <1>3, <1>7, FS_Subset, FS_CardinalityType
<1>9. Cardinality(SlotsBefore(l, S, i)) + Cardinality(Q) = i - 1
  BY <1>3, <1>6, <1>7, <1>8, DisjointUnion
<1>10. /\ Cardinality(U) \in Nat
       /\ Cardinality(U) - (i - 1 - Cardinality(SlotsBefore(l, S, i))) = 0
            <=> \A j \in i+1..n : l[j] \in S
  BY <1>1, <1>2, <1>5, <1>6, <1>8, <1>9
<1> QED
  BY <1>10 DEF U, n

LEMMA GoesAsAsked ==
  ASSUME NEW C, NEW l, Enumerates(l, C), NEW S \in SUBSET C, NEW op \in Operations,
         NEW m, m = Permuted(l, S, op), NEW q \in S
  PROVE  AsAsked(l, m, C, S, q, op)
<1> DEFINE i == Place(l, q)
           mine == Cardinality(SlotsBefore(l, S, i))
           others == Cardinality(C \ S)
<1>1. /\ Placed(l, C) /\ l \in Seq(C) /\ Len(l) \in Nat /\ i \in 1..Len(l) /\ l[i] = q
  BY Places DEF Placed
<1>2. Enumerates(m, C) /\ Goes(l, m, C, S, op)
  BY PermutedEnumerates, PermutedGoes
<1>3. Placed(m, C) /\ m \in Seq(C) /\ Place(m, q) \in 1..Len(m)
  BY <1>2, Places, ZenonT(60) DEF Placed
<1>4. AheadOf(l, q, C) = i - 1 /\ AheadOf(l, q, S) = mine /\ AheadOf(m, q, C) = Place(m, q) - 1
  <2>1. AheadOf(l, q, C) = Cardinality(SlotsBefore(l, C, i)) /\ AheadOf(l, q, S) = mine
    BY AheadCount
  <2>2. AheadOf(m, q, C) = Cardinality(SlotsBefore(m, C, Place(m, q)))
    BY <1>2, AheadCount
  <2> HIDE DEF i
  <2>3. Cardinality(SlotsBefore(l, C, i)) = i - 1
    BY <1>1, BeforeCount
  <2>4. Cardinality(SlotsBefore(m, C, Place(m, q))) = Place(m, q) - 1
    BY <1>3, BeforeCount
  <2> QED
    BY <2>1, <2>2, <2>3, <2>4
<1> HIDE DEF i
<1>5. /\ mine \in 0..i-1 /\ RankIn(l, S, i) = mine + 1
      /\ mine = i - 1 <=> \A j \in 1..i-1 : l[j] \in S
  BY <1>1, BeforeCount
<1>6. others \in Nat /\ (others - (i - 1 - mine) = 0 <=> \A j \in i+1..Len(l) : l[j] \in S)
  BY <1>1, NoneBehind
<1> HIDE DEF mine, others
<1>7. Place(m, q) = CASE op = "up"     -> UpFrom(l, S, i)
                      [] op = "down"   -> DownFrom(l, S, i)
                      [] op = "top"    -> RankIn(l, S, i)
                      [] op = "bottom" -> others + RankIn(l, S, i)
  BY <1>1, <1>2 DEF Goes, others
<1>8. UpFrom(l, S, i) = IF i - 1 = mine THEN i ELSE i - 1
  BY <1>5 DEF UpFrom
<1>9. DownFrom(l, S, i) = IF others - (i - 1 - mine) = 0 THEN i ELSE i + 1
  BY <1>6 DEF DownFrom
<1>10. i \in Nat /\ mine \in Nat
  BY <1>1, <1>5
<1>11. AheadOf(m, q, C) =
         CASE op = "up"     -> IF i - 1 = mine THEN i - 1 ELSE i - 1 - 1
           [] op = "down"   -> IF others - (i - 1 - mine) = 0 THEN i - 1 ELSE i - 1 + 1
           [] op = "top"    -> mine
           [] op = "bottom" -> others + mine
  <2>1. CASE op = "up"
    BY <1>4, <1>7, <1>8, <1>10, <2>1
  <2>2. CASE op = "down"
    BY <1>4, <1>7, <1>9, <1>10, <2>2
  <2>3. CASE op = "top"
    BY <1>4, <1>5, <1>7, <1>10, <2>3
  <2>4. CASE op = "bottom"
    BY <1>4, <1>5, <1>6, <1>7, <1>10, <2>4
  <2> QED
    BY <2>1, <2>2, <2>3, <2>4 DEF Operations
<1> QED
  BY <1>4, <1>11 DEF AsAsked, others

-----------------------------------------------------------------------------
(* A change of status. *)

\* The tables are typed, their rows owned and their queues listed.
Sound(d) == TypedTables(d) /\ OwnedRows(d) /\ CompleteOrder(d)

\* The counters of q are as right, or as far behind, in m as in d.
CountsKept(d, m, q) == /\ Counted(d, q) => Counted(m, q)
                       /\ NotOverstated(d, q) => NotOverstated(m, q)

\* The tables m keep what d had: counters that match still match, and counters
\* that claim no row too many still claim none.
Kept(d, m) == /\ Sound(m) /\ (CountersMatch(d) => CountersMatch(m))
              /\ \A q \in Queues : CountsKept(d, m, q)

\* Counters that match queue by queue match everywhere.
LEMMA KeptByQueue ==
  ASSUME NEW d, NEW m, Sound(m), \A q \in Queues : CountsKept(d, m, q) PROVE Kept(d, m)
BY DEF Kept, CountsKept, CountersMatch

\* Transactions one after another.
LEMMA KeptTwice ==
  ASSUME NEW d, NEW m, NEW n, Kept(d, m), Kept(m, n) PROVE Kept(d, n)
BY DEF Kept, CountsKept

\* Nothing is changed.
LEMMA KeptSame == ASSUME NEW d, Sound(d) PROVE Kept(d, d)
BY DEF Kept, CountsKept

\* A counter and its tally have grown by the same amount.
Alike(a, b, c, e) == a \in Int /\ b \in Int /\ c \in Int /\ e \in Int /\ a - b = c - e

\* Counters that grow with their tallies are as right as before.
LEMMA AlikeKept ==
  ASSUME NEW d, NEW m, NEW q,
         \A s \in Statuses : Alike(d.count[q][s], Cardinality(Tally(d, q, s)),
                                  m.count[q][s], Cardinality(Tally(m, q, s))),
         Alike(d.total[q], Cardinality(RowsOf(d, q)), m.total[q], Cardinality(RowsOf(m, q)))
  PROVE  CountsKept(d, m, q)
<1>1. \A a, b, c, e : Alike(a, b, c, e) => (a = b => c = e) /\ (a <= b => c <= e)
  BY DEF Alike
<1>2. "PENDING" \in Statuses
  BY DEF Statuses, Unfinished
<1>3. /\ \A s \in Statuses : d.count[q][s] = Cardinality(Tally(d, q, s))
                                => m.count[q][s] = Cardinality(Tally(m, q, s))
      /\ d.total[q] = Cardinality(RowsOf(d, q)) => m.total[q] = Cardinality(RowsOf(m, q))
      /\ d.count[q]["PENDING"] <= Cardinality(Tally(d, q, "PENDING"))
           => m.count[q]["PENDING"] <= Cardinality(Tally(m, q, "PENDING"))
      /\ d.total[q] <= Cardinality(RowsOf(d, q)) => m.total[q] <= Cardinality(RowsOf(m, q))
  BY <1>1, <1>2
<1> QED
  BY <1>3 DEF CountsKept, Counted, NotOverstated

\* The rows of a queue, and those of one status, can be counted.
LEMMA TallyFinite ==
  ASSUME NEW d, TypedTables(d), NEW q, NEW s
  PROVE  /\ IsFiniteSet(Tally(d, q, s)) /\ Cardinality(Tally(d, q, s)) \in Nat
         /\ IsFiniteSet(RowsOf(d, q)) /\ Cardinality(RowsOf(d, q)) \in Nat
<1>1. Tally(d, q, s) \in SUBSET Rows(d) /\ RowsOf(d, q) \in SUBSET Rows(d)
  BY DEF Tally, RowsOf
<1>2. IsFiniteSet(Rows(d))
  BY DEF TypedTables
<1> QED
  BY <1>1, <1>2, FS_Subset, FS_CardinalityType

\* Counters that match overstate nothing.
LEMMA MatchNotOverstated ==
  ASSUME NEW d, TypedTables(d), CountersMatch(d), NEW q \in Queues
  PROVE  NotOverstated(d, q)
<1>1. "PENDING" \in Statuses
  BY DEF Statuses, Unfinished
<1>2. /\ d.count[q]["PENDING"] = Cardinality(Tally(d, q, "PENDING"))
      /\ d.total[q] = Cardinality(RowsOf(d, q))
      /\ \A s \in Statuses : d.count[q][s] = Cardinality(Tally(d, q, s))
  BY <1>1 DEF CountersMatch, Counted
<1>3. Cardinality(Tally(d, q, "PENDING")) \in Int /\ Cardinality(RowsOf(d, q)) \in Int
  BY TallyFinite
<1> QED
  BY <1>2, <1>3 DEF NotOverstated

MovedTasks(d, T, target) == [t \in Rows(d) |-> IF t \in T THEN target ELSE d.tasks[t]]
MovedCount(d, T, target) ==
  [q \in Queues |-> [s \in Statuses |->
     d.count[q][s]
     - Cardinality({t \in T : t.queue = q /\ d.tasks[t] = s})
     + Cardinality({t \in T : t.queue = q /\ s = target})]]

\* The columns after rows have changed status.
LEMMA MoveFields ==
  ASSUME NEW d, TypedTables(d), NEW T, NEW target
  PROVE  LET m == Move(d, T, target)
         IN  /\ m.tasks = MovedTasks(d, T, target) /\ m.count = MovedCount(d, T, target)
             /\ m.scan = d.scan /\ m.held = d.held /\ m.total = d.total
             /\ m.order = d.order /\ m.session = d.session /\ m.resume = d.resume
             /\ m.gen = d.gen
BY DEF Move, MovedTasks, MovedCount, TypedTables, HasColumns

\* A change of status neither adds nor removes a row.
LEMMA MoveRows ==
  ASSUME NEW d, TypedTables(d), NEW T, NEW target
  PROVE  Rows(Move(d, T, target)) = Rows(d)
<1>1. DOMAIN MovedTasks(d, T, target) = Rows(d)
  BY DEF MovedTasks
<1>2. Move(d, T, target).tasks = MovedTasks(d, T, target)
  BY MoveFields
<1> QED
  BY <1>1, <1>2 DEF Rows

\* A change of status keeps the columns typed.
LEMMA MoveTyped ==
  ASSUME NEW d, TypedTables(d), NEW T \in SUBSET Rows(d), NEW target \in Statuses
  PROVE  TypedTables(Move(d, T, target))
<1> DEFINE m == Move(d, T, target)
<1>1. \A q \in Queues, s \in Statuses :
        /\ Cardinality({t \in T : t.queue = q /\ d.tasks[t] = s}) \in Int
        /\ Cardinality({t \in T : t.queue = q /\ s = target}) \in Int
  <2> SUFFICES ASSUME NEW q \in Queues, NEW s \in Statuses
               PROVE  /\ Cardinality({t \in T : t.queue = q /\ d.tasks[t] = s}) \in Int
                      /\ Cardinality({t \in T : t.queue = q /\ s = target}) \in Int
    OBVIOUS
  <2>1. IsFiniteSet(Rows(d))
    BY DEF TypedTables
  <2>2. {t \in T : t.queue = q /\ d.tasks[t] = s} \in SUBSET Rows(d)
    OBVIOUS
  <2>3. {t \in T : t.queue = q /\ s = target} \in SUBSET Rows(d)
    OBVIOUS
  <2> QED
    BY <2>1, <2>2, <2>3, FS_Subset, FS_CardinalityType
<1>2. MovedCount(d, T, target) \in [Queues -> [Statuses -> Int]]
  BY <1>1, SMTT(30) DEF MovedCount, TypedTables, HasColumns
<1>3. MovedTasks(d, T, target) \in [Rows(d) -> Statuses]
  BY DEF MovedTasks, TypedTables
<1>4. Rows(m) = Rows(d)
  BY MoveRows
<1>5. HasColumns(m)
  BY <1>2, MoveFields DEF Move, MovedCount, TypedTables, HasColumns
<1>6. m.tasks \in [Rows(m) -> Statuses]
  BY <1>3, <1>4, MoveFields
<1>7. Rows(d) \subseteq Requests /\ IsFiniteSet(Rows(d))
  BY DEF TypedTables
<1> HIDE DEF m
<1>8. TypedTables(m)
  BY <1>4, <1>5, <1>6, <1>7, Zenon DEF TypedTables
<1> QED
  BY <1>8 DEF m

\* The counters follow a change of status: what leaves a tally and what joins it.
LEMMA MoveTally ==
  ASSUME NEW d, TypedTables(d), NEW q \in Queues,
         NEW T \in SUBSET Rows(d), NEW target \in Statuses
  PROVE  CountsKept(d, Move(d, T, target), q)
<1> DEFINE m == Move(d, T, target)
<1>1. m.tasks = MovedTasks(d, T, target) /\ m.count = MovedCount(d, T, target)
      /\ m.total = d.total /\ Rows(m) = Rows(d)
  BY MoveFields, MoveRows
<1> HIDE DEF m
<1>2. ASSUME NEW s \in Statuses
      PROVE  Alike(d.count[q][s], Cardinality(Tally(d, q, s)),
                   m.count[q][s], Cardinality(Tally(m, q, s)))
  <2> DEFINE Old == Tally(d, q, s)
             Gone == {t \in T : t.queue = q /\ d.tasks[t] = s}
             Come == {t \in T : t.queue = q /\ s = target}
  <2>1. Gone \in SUBSET Old /\ Come \in SUBSET Rows(d)
    BY DEF Tally
  <2>2. IsFiniteSet(Old) /\ IsFiniteSet(Rows(d))
    BY TallyFinite DEF TypedTables
  <2>3. Tally(m, q, s) = (Old \ Gone) \cup Come
    BY <1>1 DEF Tally, MovedTasks
  <2>4. (Old \ Gone) \cap Come = {}
    BY DEF Tally
  <2>5. /\ IsFiniteSet(Old \ Gone) /\ IsFiniteSet(Gone)
        /\ Cardinality(Old \ Gone) = Cardinality(Old) - Cardinality(Gone)
    BY <2>1, <2>2, SubsetDifference
  <2>6. IsFiniteSet(Come)
    BY <2>1, <2>2, FS_Subset
  <2>7. /\ Cardinality(Old) \in Int /\ Cardinality(Gone) \in Int
        /\ Cardinality(Come) \in Int
    BY <2>2, <2>5, <2>6, FS_CardinalityType
  <2>8. Cardinality(Tally(m, q, s)) = Cardinality(Old \ Gone) + Cardinality(Come)
    <3> HIDE DEF Old, Gone, Come
    <3> QED
      BY <2>3, <2>4, <2>5, <2>6, DisjointUnion
  <2>9. m.count[q][s] = d.count[q][s] - Cardinality(Gone) + Cardinality(Come)
    BY <1>1 DEF MovedCount
  <2>10. d.count[q][s] \in Int
    BY DEF TypedTables, HasColumns
  <2> HIDE DEF Old, Gone, Come
  <2>11. Alike(d.count[q][s], Cardinality(Old), m.count[q][s], Cardinality(Tally(m, q, s)))
    BY <2>5, <2>7, <2>8, <2>9, <2>10 DEF Alike
  <2> QED
    BY <2>11 DEF Old
<1>3. Alike(d.total[q], Cardinality(RowsOf(d, q)), m.total[q], Cardinality(RowsOf(m, q)))
  <2>1. d.total[q] \in Int /\ m.total[q] = d.total[q]
    BY <1>1 DEF TypedTables, HasColumns
  <2>2. RowsOf(m, q) = RowsOf(d, q)
    BY <1>1 DEF RowsOf
  <2>3. Cardinality(RowsOf(d, q)) \in Int
    BY TallyFinite
  <2> QED
    BY <2>1, <2>2, <2>3 DEF Alike
<1>4. CountsKept(d, m, q)
  BY <1>2, <1>3, AlikeKept
<1> QED
  BY <1>4 DEF m

\* A change of status keeps every row with its queue.
LEMMA MoveOwned ==
  ASSUME NEW d, TypedTables(d), OwnedRows(d), NEW T, NEW target
  PROVE  OwnedRows(Move(d, T, target))
<1> DEFINE m == Move(d, T, target)
<1>1. Rows(m) = Rows(d) /\ m.scan = d.scan
  BY MoveFields, MoveRows
<1> HIDE DEF m
<1>2. OwnedRows(m)
  BY <1>1 DEF OwnedRows, Registered
<1> QED
  BY <1>2 DEF m

\* Claim, sent, running, result, timeout, error and release keep the tables.
LEMMA MoveKept ==
  ASSUME NEW d, Sound(d), NEW T \in SUBSET Rows(d), NEW target \in Statuses
  PROVE  Kept(d, Move(d, T, target))
<1> DEFINE m == Move(d, T, target)
<1>1. TypedTables(d) /\ OwnedRows(d) /\ CompleteOrder(d)
  BY DEF Sound
<1>2. TypedTables(m) /\ OwnedRows(m) /\ \A q \in Queues : CountsKept(d, m, q)
  BY <1>1, MoveTyped, MoveTally, MoveOwned
<1>3. m.order = d.order /\ m.scan = d.scan
  BY <1>1, MoveFields
<1> HIDE DEF m
<1>4. CompleteOrder(m)
  BY <1>1, <1>3 DEF CompleteOrder, Registered
<1>5. Kept(d, m)
  BY <1>2, <1>4, KeptByQueue DEF Sound
<1> QED
  BY <1>5 DEF m

-----------------------------------------------------------------------------
(* The other transactions. *)

\* Empty tables are sound and their counters match.
LEMMA EmptySound ==
  ASSUME NEW g \in Nat
  PROVE  /\ Sound(EmptyTables(g)) /\ CountersMatch(EmptyTables(g))
         /\ \A q \in Queues : NotOverstated(EmptyTables(g), q)
<1> DEFINE m == EmptyTables(g)
<1>1. /\ Rows(m) = {} /\ m.count = [q \in Queues |-> ZeroCount]
      /\ m.total = [q \in Queues |-> 0] /\ m.order = << >> /\ Registered(m) = {}
  BY DEF EmptyTables, Rows, Registered
<1>2. ZeroCount \in [Statuses -> Int]
  BY DEF ZeroCount
<1>3. TypedTables(m)
  <2>1. HasColumns(m)
    BY <1>2 DEF HasColumns, EmptyTables, ScanStates, SessionStates
  <2>2. m.tasks \in [Rows(m) -> Statuses]
    BY DEF EmptyTables, Rows
  <2> HIDE DEF m
  <2> QED
    BY <1>1, <2>1, <2>2, FS_EmptySet, Zenon DEF TypedTables
<1> HIDE DEF m
<1>4. \A q, s : Tally(m, q, s) = {} /\ RowsOf(m, q) = {}
  BY <1>1 DEF Tally, RowsOf
<1>5. CountersMatch(m)
  <2>1. ASSUME NEW q \in Queues, NEW s \in Statuses
        PROVE  m.count[q][s] = Cardinality(Tally(m, q, s)) /\ m.total[q] = Cardinality(RowsOf(m, q))
    <3>1. m.count[q] = ZeroCount /\ ZeroCount[s] = 0 /\ m.total[q] = 0
      BY <1>1 DEF ZeroCount
    <3>2. Tally(m, q, s) = {} /\ RowsOf(m, q) = {}
      BY <1>4
    <3> QED
      BY <3>1, <3>2, FS_EmptySet
  <2>2. "PENDING" \in Statuses
    BY DEF Statuses, Unfinished
  <2> QED
    BY <2>1, <2>2 DEF CountersMatch, Counted
<1>6. OwnedRows(m)
  BY <1>1 DEF OwnedRows
<1>7. CompleteOrder(m)
  BY <1>1 DEF CompleteOrder, Enumerates
<1>8. \A q \in Queues : NotOverstated(m, q)
  BY <1>3, <1>5, MatchNotOverstated
<1> QED
  BY <1>3, <1>5, <1>6, <1>7, <1>8 DEF Sound, m

\* Transactions that leave the rows and the counters alone.
LEMMA SameRowsKept ==
  ASSUME NEW d, Sound(d), NEW m,
         m.tasks = d.tasks, m.count = d.count, m.total = d.total,
         Registered(d) \subseteq Registered(m),
         HasColumns(m), CompleteOrder(m)
  PROVE  Kept(d, m)
<1>1. Rows(m) = Rows(d)
  BY DEF Rows
<1>2. Rows(d) \subseteq Requests /\ IsFiniteSet(Rows(d)) /\ d.tasks \in [Rows(d) -> Statuses]
  BY DEF Sound, TypedTables
<1>3. TypedTables(m)
  BY <1>1, <1>2, Zenon DEF TypedTables
<1>4. \A q, s : Tally(m, q, s) = Tally(d, q, s) /\ RowsOf(m, q) = RowsOf(d, q)
  BY <1>1 DEF Tally, RowsOf
<1>5. \A q \in Queues : CountsKept(d, m, q)
  BY <1>4, ZenonT(60) DEF CountsKept, Counted, NotOverstated
<1>6. OwnedRows(m)
  BY <1>1 DEF Sound, OwnedRows
<1> QED
  BY <1>3, <1>5, <1>6, KeptByQueue DEF Sound

\* Those that leave the registered queues and their order alone as well.
LEMMA SameQueuesKept ==
  ASSUME NEW d, Sound(d), NEW m,
         m.tasks = d.tasks, m.count = d.count, m.total = d.total,
         m.order = d.order, Registered(m) = Registered(d), HasColumns(m)
  PROVE  Kept(d, m)
<1>1. CompleteOrder(m)
  BY DEF Sound, CompleteOrder
<1> QED
  BY <1>1, SameRowsKept

\* set_folder_scan_state keeps the tables.
LEMMA SetScanKept ==
  ASSUME NEW d, Sound(d), NEW q \in Queues, NEW state \in ScanStates \ {"NONE"}
  PROVE  Kept(d, SetScan(d, q, state))
<1> DEFINE m == SetScan(d, q, state)
<1>1. /\ m.tasks = d.tasks /\ m.count = d.count /\ m.total = d.total
      /\ m.order = d.order /\ Registered(m) = Registered(d) /\ HasColumns(m)
  BY DEF Sound, TypedTables, HasColumns, SetScan, Registered
<1> HIDE DEF m
<1>2. Kept(d, m)
  BY <1>1, SameQueuesKept
<1> QED
  BY <1>2 DEF m

\* set_folders_held keeps the tables.
LEMMA SetHeldKept ==
  ASSUME NEW d, Sound(d), NEW S, NEW h \in BOOLEAN
  PROVE  Kept(d, SetHeld(d, S, h))
<1> DEFINE m == SetHeld(d, S, h)
<1>1. /\ m.tasks = d.tasks /\ m.count = d.count /\ m.total = d.total
      /\ m.order = d.order /\ Registered(m) = Registered(d) /\ HasColumns(m)
  BY DEF Sound, TypedTables, HasColumns, SetHeld, Registered
<1> HIDE DEF m
<1>2. Kept(d, m)
  BY <1>1, SameQueuesKept
<1> QED
  BY <1>2 DEF m

\* save_runtime_settings keeps the tables.
LEMMA SaveKept ==
  ASSUME NEW d, Sound(d)
  PROVE  Kept(d, SaveSettings(d))
<1> DEFINE m == SaveSettings(d)
<1>1. /\ m.tasks = d.tasks /\ m.count = d.count /\ m.total = d.total
      /\ m.order = d.order /\ Registered(m) = Registered(d) /\ HasColumns(m)
  BY DEF Sound, TypedTables, HasColumns, SaveSettings, Registered, SessionStates
<1> HIDE DEF m
<1>2. Kept(d, m)
  BY <1>1, SameQueuesKept
<1> QED
  BY <1>2 DEF m

\* resume_by_user keeps the tables.
LEMMA ResumeKept ==
  ASSUME NEW d, Sound(d)
  PROVE  Kept(d, ResumeByUser(d))
<1> DEFINE m == ResumeByUser(d)
<1>1. /\ m.tasks = d.tasks /\ m.count = d.count /\ m.total = d.total
      /\ m.order = d.order /\ Registered(m) = Registered(d) /\ HasColumns(m)
  BY DEF Sound, TypedTables, HasColumns, ResumeByUser, Registered, SessionStates
<1> HIDE DEF m
<1>2. Kept(d, m)
  BY <1>1, SameQueuesKept
<1> QED
  BY <1>2 DEF m

\* mark_completed keeps the tables.
LEMMA CompleteKept ==
  ASSUME NEW d, Sound(d)
  PROVE  Kept(d, CompleteSession(d))
<1> DEFINE m == CompleteSession(d)
<1>1. /\ m.tasks = d.tasks /\ m.count = d.count /\ m.total = d.total
      /\ m.order = d.order /\ Registered(m) = Registered(d) /\ HasColumns(m)
  BY DEF Sound, TypedTables, HasColumns, CompleteSession, Registered, SessionStates
<1> HIDE DEF m
<1>2. Kept(d, m)
  BY <1>1, SameQueuesKept
<1> QED
  BY <1>2 DEF m

\* recover_interrupted_scans keeps the tables.
LEMMA RecoverScansKept ==
  ASSUME NEW d, Sound(d)
  PROVE  Kept(d, RecoverScans(d))
<1> DEFINE m == RecoverScans(d)
<1>1. /\ m.tasks = d.tasks /\ m.count = d.count /\ m.total = d.total
      /\ m.order = d.order /\ Registered(m) = Registered(d) /\ HasColumns(m)
  BY DEF Sound, TypedTables, HasColumns, RecoverScans, Registered, ScanStates
<1> HIDE DEF m
<1>2. Kept(d, m)
  BY <1>1, SameQueuesKept
<1> QED
  BY <1>2 DEF m

\* register_folder_descriptors keeps the tables: a new queue comes last.
LEMMA RegisterKept ==
  ASSUME NEW d, Sound(d), NEW q \in Queues
  PROVE  Kept(d, Register(d, q))
<1> DEFINE m == Register(d, q)
<1>0. CompleteOrder(d) /\ HasColumns(d)
  BY DEF Sound, TypedTables
<1>1. CASE q \in Registered(d)
  BY <1>1, KeptSame DEF Register
<1>2. CASE q \notin Registered(d)
  <2>1. /\ m.tasks = d.tasks /\ m.count = d.count /\ m.total = d.total
        /\ m.order = Append(d.order, q) /\ m.scan = [d.scan EXCEPT ![q] = "WAITING"]
        /\ HasColumns(m)
    BY <1>0, <1>2 DEF HasColumns, Register, ScanStates
  <2> HIDE DEF m
  <2>2. Registered(m) = Registered(d) \cup {q}
    BY <1>0, <2>1 DEF Registered, HasColumns
  <2>3. CompleteOrder(m)
    BY <1>0, <1>2, <2>1, <2>2, AppendEnumerates DEF CompleteOrder
  <2>4. Kept(d, m)
    BY <2>1, <2>2, <2>3, SameRowsKept
  <2> QED
    BY <2>4 DEF m
<1> QED
  BY <1>1, <1>2

\* reorder_folders keeps the tables.
LEMMA ReorderKept ==
  ASSUME NEW d, Sound(d), NEW S, NEW op \in Operations
  PROVE  Kept(d, Reorder(d, S, op))
<1> DEFINE m == Reorder(d, S, op)
           C == {q \in Registered(d) : Controllable(d, q)}
<1>0. CompleteOrder(d) /\ HasColumns(d)
  BY DEF Sound, TypedTables
<1> HIDE DEF C
<1>1. /\ m.tasks = d.tasks /\ m.count = d.count /\ m.total = d.total
      /\ m.order = Reordered(d.order, C, S, op) /\ m.scan = d.scan
      /\ HasColumns(m)
  BY <1>0 DEF HasColumns, Reorder, C
<1> HIDE DEF m
<1>2. Registered(m) = Registered(d)
  BY <1>1 DEF Registered
<1>3. CompleteOrder(m)
  BY <1>0, <1>1, <1>2, ReorderedEnumerates DEF CompleteOrder
<1>4. Kept(d, m)
  BY <1>1, <1>2, <1>3, SameRowsKept
<1> QED
  BY <1>4 DEF m

\* The images asked for that the queue does not have give new rows, one each.
LEMMA NewRowsFacts ==
  ASSUME NEW d, Sound(d), NEW q \in Queues, NEW S \in SUBSET Images
  PROVE  /\ NewRows(d, q, S) \subseteq Requests /\ IsFiniteSet(NewRows(d, q, S))
         /\ Cardinality(NewRows(d, q, S)) \in Nat
         /\ \A t \in NewRows(d, q, S) : t.queue = q /\ t.image \in Missing(d, q, S)
         /\ NewRows(d, q, S) \cap Rows(d) = {}
         /\ \A t, u \in NewRows(d, q, S) : t.image = u.image => t = u
<1> DEFINE N == NewRows(d, q, S)
<1>1. d.gen \in Nat
  BY DEF Sound, TypedTables, HasColumns
<1>2. Missing(d, q, S) \in SUBSET Images /\ IsFiniteSet(Images)
  BY TablesAssumption DEF Missing
<1>3. IsFiniteSet(Missing(d, q, S))
  BY <1>2, FS_Subset
<1>4. IsFiniteSet(N)
  <2> DEFINE f == [i \in Missing(d, q, S) |-> [queue |-> q, image |-> i, gen |-> d.gen]]
  <2>1. f \in Surjection(Missing(d, q, S), N)
    BY DEF Surjection, NewRows
  <2> QED
    BY <2>1, <1>3, FS_Surjection
<1>5. Cardinality(N) \in Nat
  BY <1>4, FS_CardinalityType
<1>6. N \subseteq Requests
  BY <1>1, <1>2 DEF NewRows, Requests
<1>7. \A t \in N : t.queue = q /\ t.image \in Missing(d, q, S)
  BY DEF NewRows
<1>8. N \cap Rows(d) = {}
  BY <1>7 DEF Missing, RowsOf
<1>9. \A t, u \in N : t.image = u.image => t = u
  BY DEF NewRows
<1> QED
  BY <1>4, <1>5, <1>6, <1>7, <1>8, <1>9

\* Rows added in PENDING keep the tables sound.
LEMMA AddRowsSound ==
  ASSUME NEW d, Sound(d), NEW q \in Registered(d), NEW S \in SUBSET Images,
         NEW m, HasColumns(m),
         m.tasks = WithRows(d, NewRows(d, q, S)),
         Registered(m) = Registered(d), m.order = d.order
  PROVE  Sound(m)
<1> DEFINE N == NewRows(d, q, S)
<1>0. q \in Queues
  BY DEF Registered
<1>1. /\ N \subseteq Requests /\ IsFiniteSet(N) /\ Cardinality(N) \in Nat
      /\ \A t \in N : t.queue = q /\ t.image \in Missing(d, q, S)
      /\ N \cap Rows(d) = {}
      /\ \A t, u \in N : t.image = u.image => t = u
  BY <1>0, NewRowsFacts
<1>2. /\ Rows(d) \subseteq Requests /\ IsFiniteSet(Rows(d))
      /\ d.tasks \in [Rows(d) -> Statuses]
      /\ d.total \in [Queues -> Int] /\ d.count \in [Queues -> [Statuses -> Int]]
  BY DEF Sound, TypedTables, HasColumns
<1>3. "PENDING" \in Statuses
  BY DEF Statuses, Unfinished
<1> HIDE DEF N
<1>4. Rows(m) = Rows(d) \cup N
  BY DEF Rows, WithRows, N
<1>5. \A t \in Rows(m) : m.tasks[t] = IF t \in N THEN "PENDING" ELSE d.tasks[t]
  BY <1>4 DEF WithRows, N
<1>6. TypedTables(m)
  <2>1. IsFiniteSet(Rows(d) \cup N)
    BY <1>1, <1>2, FS_Union
  <2>2. m.tasks \in [Rows(m) -> Statuses]
    BY <1>2, <1>3, <1>4 DEF WithRows, N
  <2>3. Rows(m) \subseteq Requests
    BY <1>1, <1>2, <1>4
  <2> QED
    BY <1>4, <2>1, <2>2, <2>3 DEF TypedTables
<1>7. OwnedRows(m)
  <2> SUFFICES ASSUME NEW t \in Rows(m)
               PROVE  /\ t.queue \in Registered(m)
                      /\ \A u \in Rows(m) : (u.queue = t.queue /\ u.image = t.image) => u = t
    BY DEF OwnedRows
  <2>1. t.queue \in Registered(m)
    BY <1>1, <1>4 DEF Sound, OwnedRows
  <2>2. ASSUME NEW u \in Rows(m), u.queue = t.queue, u.image = t.image
        PROVE  u = t
    <3>1. CASE t \in N /\ u \in N
      BY <1>1, <2>2, <3>1
    <3>2. CASE t \in Rows(d) /\ u \in Rows(d)
      BY <2>2, <3>2 DEF Sound, OwnedRows
    <3>3. CASE t \in N /\ u \in Rows(d)
      BY <1>1, <2>2, <3>3 DEF Missing, RowsOf
    <3>4. CASE t \in Rows(d) /\ u \in N
      BY <1>1, <2>2, <3>4 DEF Missing, RowsOf
    <3> QED
      BY <1>4, <3>1, <3>2, <3>3, <3>4
  <2> QED
    BY <2>1, <2>2
<1>8. CompleteOrder(m)
  BY DEF Sound, CompleteOrder
<1> QED
  BY <1>6, <1>7, <1>8 DEF Sound

\* Counters that count the added rows are as right as they were.
LEMMA AddRowsCounted ==
  ASSUME NEW d, Sound(d), NEW q \in Queues, NEW S \in SUBSET Images,
         NEW m, m.tasks = WithRows(d, NewRows(d, q, S)),
         m.total = [d.total EXCEPT ![q] = @ + Cardinality(NewRows(d, q, S))],
         m.count = [d.count EXCEPT ![q]["PENDING"] = @ + Cardinality(NewRows(d, q, S))]
  PROVE  \A r \in Queues : CountsKept(d, m, r)
<1> DEFINE N == NewRows(d, q, S)
<1>1. /\ N \subseteq Requests /\ IsFiniteSet(N) /\ Cardinality(N) \in Nat
      /\ \A t \in N : t.queue = q /\ t.image \in Missing(d, q, S)
      /\ N \cap Rows(d) = {}
      /\ \A t, u \in N : t.image = u.image => t = u
  BY NewRowsFacts
<1>2. /\ Rows(d) \subseteq Requests /\ IsFiniteSet(Rows(d))
      /\ d.tasks \in [Rows(d) -> Statuses]
      /\ d.total \in [Queues -> Int] /\ d.count \in [Queues -> [Statuses -> Int]]
  BY DEF Sound, TypedTables, HasColumns
<1>3. "PENDING" \in Statuses
  BY DEF Statuses, Unfinished
<1> HIDE DEF N
<1>4. Rows(m) = Rows(d) \cup N
  BY DEF Rows, WithRows, N
<1>5. \A t \in Rows(m) : m.tasks[t] = IF t \in N THEN "PENDING" ELSE d.tasks[t]
  BY <1>4 DEF WithRows, N
<1>6. ASSUME NEW r \in Queues, NEW s \in Statuses
      PROVE  Alike(d.count[r][s], Cardinality(Tally(d, r, s)),
                   m.count[r][s], Cardinality(Tally(m, r, s)))
  <2>1. d.count[r][s] \in Int /\ Cardinality(Tally(d, r, s)) \in Int
    BY <1>2, TallyFinite DEF Sound
  <2>2. CASE r = q /\ s = "PENDING"
    <3>1. Tally(m, r, s) = Tally(d, r, s) \cup N
      BY <1>1, <1>4, <1>5, <2>2 DEF Tally
    <3>2. Tally(d, r, s) \cap N = {}
      BY <1>1 DEF Tally
    <3>3. IsFiniteSet(Tally(d, r, s))
      BY TallyFinite DEF Sound
    <3>4. Cardinality(Tally(m, r, s)) = Cardinality(Tally(d, r, s)) + Cardinality(N)
      BY <1>1, <3>1, <3>2, <3>3, DisjointUnion
    <3>5. m.count[r][s] = d.count[r][s] + Cardinality(N)
      BY <1>2, <2>2 DEF N
    <3> QED
      BY <1>1, <2>1, <3>4, <3>5 DEF Alike
  <2>3. CASE ~(r = q /\ s = "PENDING")
    <3>1. Tally(m, r, s) = Tally(d, r, s)
      BY <1>1, <1>4, <1>5, <2>3 DEF Tally
    <3>2. m.count[r][s] = d.count[r][s]
      BY <1>2, <2>3
    <3> QED
      BY <2>1, <3>1, <3>2 DEF Alike
  <2> QED
    BY <2>2, <2>3
<1>7. ASSUME NEW r \in Queues
      PROVE  Alike(d.total[r], Cardinality(RowsOf(d, r)), m.total[r], Cardinality(RowsOf(m, r)))
  <2>0. TypedTables(d)
    BY DEF Sound
  <2>1. d.total[r] \in Int /\ Cardinality(RowsOf(d, r)) \in Int
    <3>1. Cardinality(RowsOf(d, r)) \in Nat
      BY <2>0, TallyFinite
    <3>2. d.total[r] \in Int
      BY <1>2
    <3> QED
      BY <3>1, <3>2
  <2>2. CASE r = q
    <3>1. RowsOf(m, r) = RowsOf(d, r) \cup N
      BY <1>1, <1>4, <2>2 DEF RowsOf
    <3>2. RowsOf(d, r) \cap N = {}
      BY <1>1 DEF RowsOf
    <3>3. IsFiniteSet(RowsOf(d, r))
      BY TallyFinite DEF Sound
    <3>4. Cardinality(RowsOf(m, r)) = Cardinality(RowsOf(d, r)) + Cardinality(N)
      BY <1>1, <3>1, <3>2, <3>3, DisjointUnion
    <3>5. m.total[r] = d.total[r] + Cardinality(N)
      BY <1>2, <2>2 DEF N
    <3> QED
      BY <1>1, <2>1, <3>4, <3>5 DEF Alike
  <2>3. CASE r # q
    <3>1. RowsOf(m, r) = RowsOf(d, r)
      BY <1>1, <1>4, <2>3 DEF RowsOf
    <3>2. m.total[r] = d.total[r]
      BY <1>2, <2>3
    <3> QED
      BY <2>1, <3>1, <3>2 DEF Alike
  <2> QED
    BY <2>2, <2>3
<1> QED
  BY <1>6, <1>7, AlikeKept

\* The columns after rows are added to a queue and its counters follow.
LEMMA InsertedColumns ==
  ASSUME NEW d, HasColumns(d), NEW q \in Queues, NEW N, Cardinality(N) \in Nat
  PROVE  LET m == Inserted(d, q, N)
         IN  /\ HasColumns(m)
             /\ m.tasks = WithRows(d, N) /\ m.scan = d.scan /\ m.order = d.order
             /\ m.total = [d.total EXCEPT ![q] = @ + Cardinality(N)]
             /\ m.count = [d.count EXCEPT ![q]["PENDING"] = @ + Cardinality(N)]
<1> DEFINE k == Cardinality(N)
           W == WithRows(d, N)
<1>1. "PENDING" \in Statuses
  BY DEF Statuses, Unfinished
<1> HIDE DEF k, W
<1>2. Inserted(d, q, N) = [d EXCEPT !.tasks = W, !.total[q] = @ + k,
                                    !.count[q]["PENDING"] = @ + k]
  BY DEF Inserted, k, W
<1>3. k \in Nat
  BY DEF k
<1> DEFINE m == Inserted(d, q, N)
<1> HIDE DEF m
<1>4. m = [d EXCEPT !.tasks = W, !.total[q] = @ + k,
                    !.count[q]["PENDING"] = @ + k]
  BY <1>2 DEF m
<1>5. HasColumns(m)
  <2> DEFINE to == [d.total EXCEPT ![q] = @ + k]
             co == [d.count EXCEPT ![q]["PENDING"] = @ + k]
  <2>1. to \in [Queues -> Int]
    BY <1>1, <1>3 DEF HasColumns
  <2>2. co \in [Queues -> [Statuses -> Int]]
    BY <1>1, <1>3 DEF HasColumns
  <2>3. m = [d EXCEPT !.tasks = W, !.total = to, !.count = co]
    BY <1>4
  <2> HIDE DEF to, co
  <2> QED
    BY <2>1, <2>2, <2>3 DEF HasColumns
<1>6. /\ m.tasks = W /\ m.scan = d.scan /\ m.order = d.order
      /\ m.total = [d.total EXCEPT ![q] = @ + k]
      /\ m.count = [d.count EXCEPT ![q]["PENDING"] = @ + k]
  BY <1>4 DEF HasColumns
<1> QED
  BY <1>5, <1>6 DEF k, W, m

\* The columns after a queue took over the rows of its sibling.
LEMMA PopulatedColumns ==
  ASSUME NEW d, HasColumns(d), NEW q \in Queues, NEW N, Cardinality(N) \in Nat
  PROVE  LET m == Populated(d, q, N)
         IN  /\ HasColumns(m)
             /\ m.tasks = WithRows(d, N) /\ m.scan = [d.scan EXCEPT ![q] = "SCANNED"] /\ m.order = d.order
             /\ m.total = [d.total EXCEPT ![q] = Cardinality(N)]
             /\ m.count = [d.count EXCEPT ![q]["PENDING"] = Cardinality(N)]
<1> DEFINE k == Cardinality(N)
           W == WithRows(d, N)
<1>1. "PENDING" \in Statuses /\ "SCANNED" \in ScanStates
  BY DEF Statuses, Unfinished, ScanStates
<1> HIDE DEF k, W
<1>2. Populated(d, q, N) = [d EXCEPT !.tasks = W, !.scan[q] = "SCANNED", !.total[q] = k,
                                     !.count[q]["PENDING"] = k]
  BY DEF Populated, k, W
<1>3. k \in Nat
  BY DEF k
<1> DEFINE m == Populated(d, q, N)
<1> HIDE DEF m
<1>4. m = [d EXCEPT !.tasks = W, !.scan[q] = "SCANNED", !.total[q] = k,
                    !.count[q]["PENDING"] = k]
  BY <1>2 DEF m
<1>5. HasColumns(m)
  <2> DEFINE sc == [d.scan EXCEPT ![q] = "SCANNED"]
             to == [d.total EXCEPT ![q] = k]
             co == [d.count EXCEPT ![q]["PENDING"] = k]
  <2>1. sc \in [Queues -> ScanStates] /\ to \in [Queues -> Int]
    BY <1>1, <1>3 DEF HasColumns
  <2>2. co \in [Queues -> [Statuses -> Int]]
    BY <1>1, <1>3 DEF HasColumns
  <2>3. m = [d EXCEPT !.tasks = W, !.scan = sc, !.total = to, !.count = co]
    BY <1>4
  <2> HIDE DEF sc, to, co
  <2> QED
    BY <2>1, <2>2, <2>3 DEF HasColumns
<1>6. /\ m.tasks = W /\ m.scan = [d.scan EXCEPT ![q] = "SCANNED"] /\ m.order = d.order
      /\ m.total = [d.total EXCEPT ![q] = k]
      /\ m.count = [d.count EXCEPT ![q]["PENDING"] = k]
  BY <1>4 DEF HasColumns
<1> QED
  BY <1>5, <1>6 DEF k, W, m

\* insert_task_batch keeps the tables, also when rows are ignored.
LEMMA InsertKept ==
  ASSUME NEW d, Sound(d), NEW q \in Queues, NEW S \in SUBSET Images
  PROVE  Kept(d, InsertBatch(d, q, S))
<1> DEFINE N == NewRows(d, q, S)
           m == Inserted(d, q, N)
<1>1. CASE q \notin Registered(d)
  BY <1>1, KeptSame DEF InsertBatch
<1>2. CASE q \in Registered(d)
  <2>1. HasColumns(d) /\ Cardinality(N) \in Nat
    BY NewRowsFacts DEF Sound, TypedTables
  <2>2. /\ HasColumns(m)
        /\ m.tasks = WithRows(d, N) /\ m.scan = d.scan /\ m.order = d.order
        /\ m.total = [d.total EXCEPT ![q] = @ + Cardinality(N)]
        /\ m.count = [d.count EXCEPT ![q]["PENDING"] = @ + Cardinality(N)]
    BY <2>1, InsertedColumns
  <2> HIDE DEF m
  <2>3. Registered(m) = Registered(d)
    BY <2>2 DEF Registered
  <2>4. Sound(m)
    BY <1>2, <2>2, <2>3, AddRowsSound
  <2>5. \A r \in Queues : CountsKept(d, m, r)
    BY <2>2, AddRowsCounted, SMTT(30)
  <2> QED
    BY <1>2, <2>4, <2>5, KeptByQueue DEF InsertBatch, m
<1> QED
  BY <1>1, <1>2

\* populate_folder_from_scanned_sibling keeps the tables sound.  It sets the
\* counters of its queue: they claim no row too many, but match only when the
\* queue had none.
LEMMA PopulateKept ==
  ASSUME NEW d, Sound(d), NEW q \in Queues
  PROVE  /\ Sound(Populate(d, q)) /\ (RowsOf(d, q) = {} => Kept(d, Populate(d, q)))
         /\ \A p \in Queues : NotOverstated(d, p) => NotOverstated(Populate(d, q), p)
         /\ \A p \in Queues \ {q} : Counted(d, p) => Counted(Populate(d, q), p)
<1> DEFINE r == Head(Siblings(d, q))
           S == {t.image : t \in RowsOf(d, r)}
           N == NewRows(d, q, S)
           m == Populated(d, q, N)
<1>1. CASE ~CanPopulate(d, q)
  BY <1>1, KeptSame DEF Populate
<1>2. CASE CanPopulate(d, q) /\ d.scan[r] = "EMPTY"
  <2>1. Populate(d, q) = SetScan(d, q, "EMPTY")
    BY <1>2 DEF Populate
  <2> QED
    BY <2>1, SetScanKept DEF ScanStates, Kept, CountsKept
<1>3. CASE CanPopulate(d, q) /\ d.scan[r] # "EMPTY"
  <2>1. Populate(d, q) = m
    BY <1>3 DEF Populate
  <2>2. S \in SUBSET Images
    BY DEF RowsOf, Sound, TypedTables, Requests
  <2> HIDE DEF S
  <2>3. HasColumns(d) /\ Cardinality(N) \in Nat
    BY <2>2, NewRowsFacts DEF Sound, TypedTables
  <2>4. /\ HasColumns(m)
        /\ m.tasks = WithRows(d, N) /\ m.order = d.order
        /\ m.total = [d.total EXCEPT ![q] = Cardinality(N)]
        /\ m.count = [d.count EXCEPT ![q]["PENDING"] = Cardinality(N)]
        /\ m.scan = [d.scan EXCEPT ![q] = "SCANNED"]
    BY <2>3, PopulatedColumns
  <2> HIDE DEF m
  <2>5. q \in Registered(d)
    BY <1>3 DEF Registered, CanPopulate
  <2>6. Registered(m) = Registered(d)
    BY <2>3, <2>4, <2>5 DEF Registered, HasColumns
  <2>7. Sound(m)
    BY <2>2, <2>4, <2>5, <2>6, AddRowsSound
  <2>8. /\ N \cap Rows(d) = {} /\ IsFiniteSet(N) /\ Cardinality(N) \in Int
        /\ \A t \in N : t.queue = q
    BY <2>2, NewRowsFacts
  <2> HIDE DEF N
  <2>9. Rows(m) = Rows(d) \cup N
    BY <2>4 DEF Rows, WithRows
  <2>10. \A t \in Rows(m) : m.tasks[t] = IF t \in N THEN "PENDING" ELSE d.tasks[t]
    BY <2>4, <2>9 DEF WithRows
  <2>11. ASSUME NEW p \in Queues, p # q PROVE CountsKept(d, m, p)
    <3>1. \A s : Tally(m, p, s) = Tally(d, p, s) /\ RowsOf(m, p) = RowsOf(d, p)
      BY <2>8, <2>9, <2>10, <2>11 DEF Tally, RowsOf
    <3>2. m.count[p] = d.count[p] /\ m.total[p] = d.total[p]
      BY <2>3, <2>4, <2>11 DEF HasColumns
    <3> QED
      BY <3>1, <3>2, ZenonT(60) DEF CountsKept, Counted, NotOverstated
  <2>12. ASSUME NotOverstated(d, q) PROVE NotOverstated(m, q)
    <3>1. \A s \in Statuses \ {"PENDING"} :
            Tally(m, q, s) = Tally(d, q, s) /\ m.count[q][s] = d.count[q][s]
      <4> SUFFICES ASSUME NEW s \in Statuses \ {"PENDING"}
                   PROVE  Tally(m, q, s) = Tally(d, q, s) /\ m.count[q][s] = d.count[q][s]
        OBVIOUS
      <4>1. Tally(m, q, s) = Tally(d, q, s)
        BY <2>8, <2>9, <2>10 DEF Tally
      <4>2. m.count[q][s] = d.count[q][s]
        BY <2>3, <2>4 DEF HasColumns
      <4> QED
        BY <4>1, <4>2
    <3>2. /\ m.count[q]["PENDING"] = Cardinality(N) /\ m.total[q] = Cardinality(N)
      BY <2>3, <2>4 DEF HasColumns, Statuses, Unfinished
    <3>3. N \subseteq Tally(m, q, "PENDING") /\ N \subseteq RowsOf(m, q)
      BY <2>8, <2>9, <2>10 DEF Tally, RowsOf
    <3>4. /\ IsFiniteSet(Tally(m, q, "PENDING")) /\ IsFiniteSet(RowsOf(m, q))
      BY <2>7, TallyFinite DEF Sound
    <3>5. /\ Cardinality(N) <= Cardinality(Tally(m, q, "PENDING"))
          /\ Cardinality(N) <= Cardinality(RowsOf(m, q))
      BY <3>3, <3>4, FS_Subset
    <3>6. \A s \in Statuses \ {"PENDING"} : d.count[q][s] = Cardinality(Tally(d, q, s))
      BY <2>12 DEF NotOverstated
    <3> QED
      BY <3>1, <3>2, <3>5, <3>6 DEF NotOverstated
  <2>13. ASSUME RowsOf(d, q) = {}, Counted(d, q) PROVE Counted(m, q)
    <3>1. Tally(d, q, "PENDING") = {}
      BY <2>13 DEF Tally, RowsOf
    <3>2. d.total[q] = 0 /\ d.count[q]["PENDING"] = 0
      BY <2>13, <3>1, FS_EmptySet DEF Counted, Statuses, Unfinished
    <3>3. /\ d.total[q] + Cardinality(N) = Cardinality(N)
          /\ d.count[q]["PENDING"] + Cardinality(N) = Cardinality(N)
      BY <2>3, <3>2
    <3>4. /\ m.total = [d.total EXCEPT ![q] = @ + Cardinality(N)]
          /\ m.count = [d.count EXCEPT ![q]["PENDING"] = @ + Cardinality(N)]
      BY <2>4, <3>3
    <3>5. /\ m.tasks = WithRows(d, NewRows(d, q, S))
          /\ m.total = [d.total EXCEPT ![q] = @ + Cardinality(NewRows(d, q, S))]
          /\ m.count = [d.count EXCEPT ![q]["PENDING"] = @ + Cardinality(NewRows(d, q, S))]
      BY <2>4, <3>4 DEF N
    <3>6. \A p \in Queues : CountsKept(d, m, p)
      BY <2>2, <3>5, AddRowsCounted
    <3> QED
      BY <2>13, <3>6 DEF CountsKept
  <2>14. RowsOf(d, q) = {} => Kept(d, m)
    BY <2>7, <2>11, <2>12, <2>13, KeptByQueue DEF CountsKept
  <2> QED
    BY <2>1, <2>7, <2>11, <2>12, <2>14 DEF CountsKept, m
<1> QED
  BY <1>1, <1>2, <1>3

\* The columns m of d after the queues of D were deleted with their rows.
Lacks(d, D, m) ==
  /\ HasColumns(m)
  /\ m.tasks = [t \in {u \in Rows(d) : u.queue \notin D} |-> d.tasks[t]]
  /\ m.order = Only(d.order, Queues \ D)
  /\ m.scan  = [q \in Queues |-> IF q \in D THEN "NONE" ELSE d.scan[q]]
  /\ m.total = [q \in Queues |-> IF q \in D THEN 0 ELSE d.total[q]]
  /\ m.count = [q \in Queues |-> IF q \in D THEN ZeroCount ELSE d.count[q]]

\* A deletion gives them.
LEMMA WithoutColumns ==
  ASSUME NEW d, HasColumns(d), NEW D
  PROVE  Lacks(d, D, WithoutQueues(d, D))
<1> DEFINE m == WithoutQueues(d, D)
           order == Only(d.order, Queues \ D)
           tasks == [t \in {u \in Rows(d) : u.queue \notin D} |-> d.tasks[t]]
<1>1. ZeroCount \in [Statuses -> Int] /\ "NONE" \in ScanStates
  BY DEF ZeroCount, ScanStates
<1>2. m = [d EXCEPT
            !.scan  = [q \in Queues |-> IF q \in D THEN "NONE" ELSE @[q]],
            !.held  = [q \in Queues |-> IF q \in D THEN FALSE ELSE @[q]],
            !.total = [q \in Queues |-> IF q \in D THEN 0 ELSE @[q]],
            !.count = [q \in Queues |-> IF q \in D THEN ZeroCount ELSE @[q]],
            !.order = order, !.tasks = tasks, !.gen = @ + 1]
  BY DEF WithoutQueues
<1> HIDE DEF m, order, tasks
<1>3. HasColumns(m)
  <2> DEFINE sc == [q \in Queues |-> IF q \in D THEN "NONE" ELSE d.scan[q]]
             he == [q \in Queues |-> IF q \in D THEN FALSE ELSE d.held[q]]
             to == [q \in Queues |-> IF q \in D THEN 0 ELSE d.total[q]]
             co == [q \in Queues |-> IF q \in D THEN ZeroCount ELSE d.count[q]]
  <2>1. /\ sc \in [Queues -> ScanStates] /\ he \in [Queues -> BOOLEAN]
        /\ to \in [Queues -> Int] /\ co \in [Queues -> [Statuses -> Int]]
        /\ d.gen + 1 \in Nat
    <3>1. sc \in [Queues -> ScanStates]
      BY <1>1 DEF HasColumns
    <3>2. he \in [Queues -> BOOLEAN]
      BY DEF HasColumns
    <3>3. to \in [Queues -> Int]
      BY DEF HasColumns
    <3>4. co \in [Queues -> [Statuses -> Int]]
      BY <1>1 DEF HasColumns
    <3>5. d.gen + 1 \in Nat
      BY DEF HasColumns
    <3> QED
      BY <3>1, <3>2, <3>3, <3>4, <3>5
  <2>2. m = [d EXCEPT !.scan = sc, !.held = he, !.total = to, !.count = co,
                      !.order = order, !.tasks = tasks, !.gen = @ + 1]
    BY <1>2
  <2> HIDE DEF sc, he, to, co
  <2> QED
    BY <2>1, <2>2 DEF HasColumns
<1>4. /\ m.tasks = tasks /\ m.order = order
      /\ m.scan  = [q \in Queues |-> IF q \in D THEN "NONE" ELSE d.scan[q]]
      /\ m.total = [q \in Queues |-> IF q \in D THEN 0 ELSE d.total[q]]
      /\ m.count = [q \in Queues |-> IF q \in D THEN ZeroCount ELSE d.count[q]]
  BY <1>2 DEF HasColumns
<1> QED
  BY <1>3, <1>4 DEF m, tasks, order, Lacks

\* delete_pending_folders keeps the tables.
LEMMA DeleteKept ==
  ASSUME NEW d, Sound(d), NEW S
  PROVE  Kept(d, Delete(d, S))
<1> DEFINE D == {q \in S \cap Registered(d) : Deletable(d, q)}
           m == WithoutQueues(d, D)
<1>0. HasColumns(d)
  BY DEF Sound, TypedTables
<1> HIDE DEF D
<1>1. /\ HasColumns(m)
      /\ m.tasks = [t \in {u \in Rows(d) : u.queue \notin D} |-> d.tasks[t]]
      /\ m.order = Only(d.order, Queues \ D)
      /\ m.scan  = [q \in Queues |-> IF q \in D THEN "NONE" ELSE d.scan[q]]
      /\ m.total = [q \in Queues |-> IF q \in D THEN 0 ELSE d.total[q]]
      /\ m.count = [q \in Queues |-> IF q \in D THEN ZeroCount ELSE d.count[q]]
  <2>1. Lacks(d, D, m)
    BY <1>0, WithoutColumns
  <2> QED
    BY <2>1 DEF Lacks
<1> HIDE DEF m
<1>2. Rows(m) = {u \in Rows(d) : u.queue \notin D}
  BY <1>1 DEF Rows
<1>3. \A t \in Rows(m) : m.tasks[t] = d.tasks[t]
  BY <1>1, <1>2
<1>4. /\ Rows(d) \subseteq Requests /\ IsFiniteSet(Rows(d)) /\ d.tasks \in [Rows(d) -> Statuses]
  BY DEF Sound, TypedTables
<1>5. TypedTables(m)
  <2>1. IsFiniteSet(Rows(m))
    BY <1>2, <1>4, FS_Subset
  <2>2. m.tasks \in [Rows(m) -> Statuses]
    BY <1>1, <1>2, <1>4
  <2> QED
    BY <1>1, <1>2, <1>4, <2>1, <2>2 DEF TypedTables
<1>6. ASSUME NEW q \in Queues PROVE CountsKept(d, m, q)
  <2>1. CASE q \in D
    <3>1. \A s : Tally(m, q, s) = {} /\ RowsOf(m, q) = {}
      BY <1>2, <2>1 DEF Tally, RowsOf
    <3>2. m.count[q] = ZeroCount /\ m.total[q] = 0
      BY <1>1, <2>1
    <3>3. /\ \A s \in Statuses : m.count[q][s] = 0 /\ Cardinality(Tally(m, q, s)) = 0
          /\ "PENDING" \in Statuses
          /\ m.total[q] = 0 /\ Cardinality(RowsOf(m, q)) = 0
      BY <3>1, <3>2, FS_EmptySet DEF ZeroCount, Statuses, Unfinished
    <3> QED
      BY <3>3 DEF CountsKept, Counted, NotOverstated
  <2>2. CASE q \notin D
    <3>1. \A s : Tally(m, q, s) = Tally(d, q, s) /\ RowsOf(m, q) = RowsOf(d, q)
      BY <1>2, <1>3, <2>2 DEF Tally, RowsOf
    <3>2. m.count[q] = d.count[q] /\ m.total[q] = d.total[q]
      BY <1>1, <2>2
    <3> QED
      BY <3>1, <3>2, ZenonT(60) DEF CountsKept, Counted, NotOverstated
  <2> QED
    BY <2>1, <2>2
<1>7. OwnedRows(m)
  BY <1>1, <1>2 DEF Sound, OwnedRows, Registered
<1>8. CompleteOrder(m)
  <2>1. Enumerates(d.order, Registered(d)) /\ d.order \in Seq(Registered(d))
    BY DEF Sound, CompleteOrder, Enumerates
  <2>2. Enumerates(m.order, Registered(d) \cap (Queues \ D))
    <3>1. Enumerates(Only(d.order, Queues \ D), Registered(d) \cap (Queues \ D))
      BY <2>1, OnlyFacts
    <3> QED
      BY <1>1, <3>1
  <2>3. Registered(m) = Registered(d) \cap (Queues \ D)
    BY <1>1 DEF Registered
  <2> QED
    BY <2>2, <2>3 DEF CompleteOrder
<1>9. Kept(d, m)
  BY <1>5, <1>6, <1>7, <1>8, KeptByQueue DEF Sound
<1>10. Kept(d, d)
  BY KeptSame
<1> QED
  BY <1>9, <1>10 DEF Delete, m, D

\* recover_claimed_tasks keeps the tables.
LEMMA ReleaseKept ==
  ASSUME NEW d, Sound(d) PROVE Kept(d, ReleaseClaimed(d))
<1>1. RowsIn(d, {"CLAIMED"}) \in SUBSET Rows(d) /\ "PENDING" \in Statuses
  BY DEF RowsIn, Statuses, Unfinished
<1> QED
  BY <1>1, MoveKept DEF ReleaseClaimed

\* pause_by_user keeps the tables.
LEMMA PauseKept ==
  ASSUME NEW d, Sound(d) PROVE Kept(d, PauseByUser(d))
<1> DEFINE r == ReleaseClaimed(d)
           m == PauseByUser(d)
<1>1. Kept(d, r)
  BY ReleaseKept
<1>2. m = [r EXCEPT !.session = "PAUSED_BY_USER", !.resume = TRUE]
  BY DEF PauseByUser
<1> HIDE DEF r, m
<1>3. /\ m.tasks = r.tasks /\ m.count = r.count /\ m.total = r.total
      /\ m.order = r.order /\ Registered(m) = Registered(r) /\ HasColumns(m)
  BY <1>1, <1>2, ZenonT(60) DEF Kept, Sound, TypedTables, HasColumns, Registered, SessionStates
<1>4. Kept(r, m)
  BY <1>1, <1>3, SameQueuesKept DEF Kept
<1>5. Kept(d, m)
  BY <1>1, <1>4, KeptTwice
<1> QED
  BY <1>5 DEF m

\* A new session has sound tables whose counters match.
LEMMA NewSessionKept ==
  ASSUME NEW d, Sound(d) PROVE Kept(d, NewSession(d)) /\ Kept(d, PrepareSession(d))
<1>1. d.gen + 1 \in Nat
  BY DEF Sound, TypedTables, HasColumns
<1>2. Kept(d, NewSession(d))
  BY <1>1, EmptySound DEF NewSession, Kept, CountsKept, CountersMatch
<1> QED
  BY <1>2, KeptSame DEF PrepareSession

\* clear_session keeps the tables.
LEMMA ClearKept ==
  ASSUME NEW d, Sound(d) PROVE Kept(d, ClearSession(d))
<1> DEFINE m == [d EXCEPT !.session = "ACTIVE", !.resume = FALSE]
<1>1. /\ m.tasks = d.tasks /\ m.count = d.count /\ m.total = d.total
      /\ m.order = d.order /\ Registered(m) = Registered(d) /\ HasColumns(m)
  BY DEF Sound, TypedTables, HasColumns, Registered, SessionStates
<1> HIDE DEF m
<1>2. Kept(d, m)
  BY <1>1, SameQueuesKept
<1> QED
  BY <1>2, NewSessionKept DEF ClearSession, m

\* Opening the database again keeps the tables.
LEMMA ReopenKept ==
  ASSUME NEW d, Sound(d) PROVE Kept(d, Reopen(d))
<1> DEFINE p == PrepareSession(d)
           r == ReleaseClaimed(p)
<1>1. Kept(d, p)
  BY NewSessionKept
<1>2. Kept(p, r)
  BY <1>1, ReleaseKept DEF Kept
<1>3. Kept(r, RecoverScans(r))
  BY <1>2, RecoverScansKept DEF Kept
<1> HIDE DEF p, r
<1>4. Kept(d, RecoverScans(r))
  BY <1>1, <1>2, <1>3, KeptTwice
<1> QED
  BY <1>4 DEF Reopen, p, r

\* The guarded status changes of one request.
LEMMA TransitionKept ==
  ASSUME NEW d, Sound(d), NEW t, NEW target \in Statuses, NEW allowed
  PROVE  Kept(d, Transition(d, t, target, allowed))
<1>1. CASE t \in RowsIn(d, allowed)
  <2>1. {t} \in SUBSET Rows(d)
    BY <1>1 DEF RowsIn
  <2> QED
    BY <1>1, <2>1, MoveKept DEF Transition
<1>2. CASE t \notin RowsIn(d, allowed)
  BY <1>2, KeptSame DEF Transition
<1> QED
  BY <1>1, <1>2

-----------------------------------------------------------------------------
(* The order of the rows. *)

\* A queue has a position of its own.
LEMMA PositionFacts ==
  ASSUME NEW d, CompleteOrder(d)
  PROVE  /\ \A q \in Registered(d) : Position(d, q) \in Nat
         /\ \A q, r \in Registered(d) : Position(d, q) = Position(d, r) => q = r
<1>1. d.order \in Seq(Registered(d)) /\ DOMAIN d.order \subseteq Nat
  BY DEF CompleteOrder, Enumerates
<1>2. \A q \in Registered(d) : \E i \in DOMAIN d.order : d.order[i] = q
  BY DEF CompleteOrder, Enumerates
<1>3. \A q \in Registered(d) :
        Position(d, q) \in DOMAIN d.order /\ d.order[Position(d, q)] = q
  BY <1>2 DEF Position
<1> QED
  BY <1>1, <1>3

\* How many rows of T are before each.
RowRank(d, T) == [t \in T |-> Cardinality({u \in T : Before(d, u, t)})]

\* Position, then rowid: no two rows of a set have the same rank.
LEMMA RowRankFacts ==
  ASSUME NEW d, Sound(d), NEW T \in SUBSET Rows(d)
  PROVE  /\ IsFiniteSet(T) /\ T \subseteq Requests
         /\ RowRank(d, T) \in [T -> Nat]
         /\ \A t, u \in T : RowRank(d, T)[t] = RowRank(d, T)[u] => t = u
         /\ \A t \in T : RowRank(d, T)[t] < Cardinality(T)
<1> DEFINE below == [t \in T |-> {u \in T : Before(d, u, t)}]
           rank == RowRank(d, T)
<1>1. IsFiniteSet(T) /\ T \subseteq Requests
  <2>1. IsFiniteSet(Rows(d)) /\ Rows(d) \subseteq Requests
    BY DEF Sound, TypedTables
  <2> QED
    BY <2>1, FS_Subset
<1>2. \A t \in T : t.queue \in Registered(d) /\ t.image \in Int
  BY <1>1, TablesAssumption DEF Sound, OwnedRows, Requests
<1>3. \A t, u \in T : (t.queue = u.queue /\ t.image = u.image) => t = u
  BY DEF Sound, OwnedRows
<1>4. /\ \A q \in Registered(d) : Position(d, q) \in Nat
      /\ \A q, r \in Registered(d) : Position(d, q) = Position(d, r) => q = r
  BY PositionFacts DEF Sound
<1>5. \A t \in T : ~Before(d, t, t)
  BY <1>2 DEF Before
<1>6. \A t, u \in T : t # u => Before(d, t, u) \/ Before(d, u, t)
  BY <1>2, <1>3, <1>4 DEF Before
<1>7. \A t, u, v \in T : Before(d, t, u) /\ Before(d, u, v) => Before(d, t, v)
  BY <1>2, <1>4 DEF Before
<1>8. /\ below \in [T -> SUBSET T]
      /\ \A t \in T : t \notin below[t]
      /\ \A t, u \in T : t # u => t \in below[u] \/ u \in below[t]
      /\ \A t, u \in T : t \in below[u] => below[t] \subseteq below[u]
  BY <1>5, <1>6, <1>7
<1>9. rank = [t \in T |-> Cardinality(below[t])]
  BY DEF RowRank
<1> HIDE DEF below, rank
<1>10. /\ rank \in [T -> Nat]
       /\ \A t, u \in T : rank[t] = rank[u] => t = u
       /\ \A t \in T : rank[t] < Cardinality(T)
  BY <1>1, <1>8, <1>9, RankOfOrder
<1> QED
  BY <1>1, <1>10 DEF rank

\* ORDER BY position, rowid gives every row of a set once.
LEMMA ListedFacts ==
  ASSUME NEW d, Sound(d), NEW T \in SUBSET Rows(d)
  PROVE  Enumerates(Listed(d, T), T) /\ Listed(d, T) \in Seq(Requests)
<1> DEFINE rank == RowRank(d, T)
<1>1. Listed(d, T) = ByRank(T, rank)
  BY DEF Listed, RowRank
<1>2. /\ IsFiniteSet(T) /\ T \subseteq Requests /\ rank \in [T -> Nat]
      /\ \A t, u \in T : rank[t] = rank[u] => t = u
      /\ \A t \in T : rank[t] < Cardinality(T)
  BY RowRankFacts
<1> HIDE DEF rank
<1>3. Enumerates(Listed(d, T), T)
  BY <1>1, <1>2, RankedList
<1> QED
  BY <1>2, <1>3 DEF Enumerates

\* LIMIT: rows that each have fewer than n before them are n at most.
LEMMA ClaimSize ==
  ASSUME NEW d, Sound(d), NEW F, NEW n \in Int, n > 0
  PROVE  LET T == ClaimBatch(d, F, n)
         IN  IsFiniteSet(T) /\ Cardinality(T) \in Nat /\ Cardinality(T) <= n
<1> DEFINE ready == {t \in RowsIn(d, {"PENDING"}) : t.queue \in F /\ ~d.held[t.queue]}
           T == ClaimBatch(d, F, n)
           rank == RowRank(d, T)
           m == Cardinality(T)
<1>1. /\ T \subseteq ready /\ ready \subseteq Rows(d)
      /\ \A t \in T : Cardinality({u \in ready : Before(d, u, t)}) < n
  BY DEF ClaimBatch, RowsIn
<1>2. \A t \in T : rank[t] = Cardinality({u \in T : Before(d, u, t)})
  BY DEF RowRank
<1> HIDE DEF ready, T
<1>3. /\ IsFiniteSet(T) /\ rank \in [T -> Nat]
      /\ \A t, u \in T : rank[t] = rank[u] => t = u
      /\ \A t \in T : rank[t] < Cardinality(T)
  BY <1>1, RowRankFacts
<1>4. IsFiniteSet(ready)
  <2>1. IsFiniteSet(Rows(d))
    BY DEF Sound, TypedTables
  <2> QED
    BY <1>1, <2>1, FS_Subset
<1>5. ASSUME NEW t \in T PROVE rank[t] < n
  <2> DEFINE U == {u \in T : Before(d, u, t)}
             V == {u \in ready : Before(d, u, t)}
  <2>1. U \subseteq V /\ V \subseteq ready
    BY <1>1
  <2>2. rank[t] = Cardinality(U) /\ Cardinality(V) < n
    BY <1>1, <1>2
  <2> HIDE DEF U, V, rank
  <2>3. IsFiniteSet(V)
    BY <1>4, <2>1, FS_Subset
  <2>4. IsFiniteSet(U) /\ Cardinality(U) <= Cardinality(V)
    BY <2>1, <2>3, FS_Subset
  <2>5. Cardinality(U) \in Nat /\ Cardinality(V) \in Nat
    BY <2>3, <2>4, FS_CardinalityType
  <2> QED
    BY <2>2, <2>4, <2>5
<1>6. m \in Nat
  BY <1>3, FS_CardinalityType
<1> HIDE DEF rank
<1>7. /\ Enumerates(ByRank(T, rank), T) /\ DOMAIN ByRank(T, rank) = 1..m
      /\ \A k \in 1..m : rank[ByRank(T, rank)[k]] = k - 1
  BY <1>3, RankedList
<1>8. CASE m = 0
  BY <1>3, <1>6, <1>8 DEF T
<1>9. CASE m > 0
  <2> DEFINE l == ByRank(T, rank)
  <2>1. m \in 1..m
    BY <1>6, <1>9
  <2>2. l \in Seq(T) /\ DOMAIN l = 1..m
    BY <1>7 DEF Enumerates
  <2>3. l[m] \in T
    BY <2>1, <2>2
  <2>4. rank[l[m]] = m - 1
    BY <1>7, <2>1
  <2>5. m - 1 < n
    BY <1>5, <2>3, <2>4
  <2> HIDE DEF m
  <2>6. m <= n
    BY <1>6, <2>5
  <2> QED
    BY <1>3, <1>6, <2>6 DEF T, m
<1> QED
  BY <1>6, <1>8, <1>9

=============================================================================
