---------------------------- MODULE EagerProofs ----------------------------
(***************************************************************************)
(* Proofs about the session in eager mode, for any folders, images, caps   *)
(* and numbers of threads.  With every action and fault allowed, the store *)
(* in memory keeps the promise of module TaskPromise.  Under the           *)
(* conditions each theorem names, the open folders stay within the cap,    *)
(* nothing is sent twice, nothing is forgotten, and the poll thread tracks *)
(* every task.  Each part has its invariant: first what it says of the     *)
(* operations of the store and the routines of the dispatcher, then each   *)
(* step of the session.                                                    *)
(***************************************************************************)
EXTENDS EagerSession, FiniteSetTheorems, WellFoundedInduction, TLAPS

-----------------------------------------------------------------------------
(* Natural numbers, finite sets, lists. *)

\* A set of numbers up to n that has a member has a least one.
LEMMA Least ==
  ASSUME NEW n \in Nat, NEW B \in SUBSET (0..n), B # {}
  PROVE  \E m \in B : \A k \in B : m <= k
<1> DEFINE T == {0..i : i \in B}
           R == StrictSubsetOrdering(0..n)
           S == FiniteSubsetsOf(0..n)
<1>1. IsWellFoundedOn(R, S)
  BY FS_StrictSubsetOrderingWellFounded
<1>2. T \subseteq S /\ T # {}
  <2>1. \A i \in B : 0..i \in SUBSET (0..n)
    OBVIOUS
  <2>2. \A i \in B : IsFiniteSet(0..i)
    BY FS_Interval
  <2> QED
    BY <2>1, <2>2 DEF FiniteSubsetsOf
<1> HIDE DEF T, R, S
<1>3. PICK x \in T : \A y \in T : ~(<<y, x>> \in R)
  BY <1>1, <1>2, WFMin
<1>4. PICK m \in B : x = 0..m
  BY DEF T
<1>5. ASSUME NEW k \in B, k < m PROVE FALSE
  <2>1. 0..k \in T
    BY DEF T
  <2>2. m \in 0..m /\ m \notin 0..k
    BY <1>5
  <2>3. 0..k \subseteq 0..m /\ 0..k # 0..m
    BY <1>5, <2>2
  <2>4. 0..k \in SUBSET (0..n) /\ 0..m \in SUBSET (0..n)
    OBVIOUS
  <2>5. <<0..k, x>> \in R
    BY <2>3, <2>4, <1>4 DEF R, StrictSubsetOrdering
  <2> QED
    BY <1>3, <2>1, <2>5
<1> QED
  BY <1>5

\* What holds at 0 and passes from each number to the next holds up to n.
LEMMA Upward ==
  ASSUME NEW n \in Nat, NEW G, 0 \in G, \A i \in 0..n : i < n /\ i \in G => i + 1 \in G
  PROVE  0..n \subseteq G
<1> DEFINE B == (0..n) \ G
<1>1. SUFFICES ASSUME B # {} PROVE FALSE
  OBVIOUS
<1>2. PICK m \in B : \A k \in B : m <= k
  BY <1>1, Least
<1>3. m # 0 /\ m - 1 \in 0..n /\ m - 1 \notin B
  BY <1>2
<1>4. m - 1 \in G /\ m - 1 < n /\ (m - 1) + 1 = m
  BY <1>3
<1> QED
  BY <1>3, <1>4

\* f starts with base and takes the step of i from each i - 1 to i.
Stepwise(f, n, X, base, step) ==
  f \in [0..n -> X] /\ f[0] = base /\ \A i \in 1..n : f[i] = step[i][f[i-1]]

\* A recursion over 0..n with its values in X has a solution.
LEMMA RecursionExists ==
  ASSUME NEW n \in Nat, NEW X, NEW base \in X, NEW step \in [1..n -> [X -> X]]
  PROVE  \E f : Stepwise(f, n, X, base, step)
<1> DEFINE Solves(f, m) ==
             f \in [0..m -> X] /\ f[0] = base /\ \A i \in 1..m : f[i] = step[i][f[i-1]]
           G == {m \in 0..n : \E f : Solves(f, m)}
<1>1. 0 \in G
  <2>1. Solves([i \in 0..0 |-> base], 0)
    OBVIOUS
  <2> HIDE DEF Solves
  <2> QED
    BY <2>1
<1>2. ASSUME NEW m \in 0..n, m < n, m \in G PROVE m + 1 \in G
  <2>1. PICK f : Solves(f, m)
    BY <1>2
  <2> DEFINE g == [i \in 0..m+1 |-> IF i = m + 1 THEN step[m + 1][f[m]] ELSE f[i]]
  <2>2. m + 1 \in 1..n /\ f[m] \in X
    BY <1>2, <2>1
  <2>3. step[m + 1] \in [X -> X]
    BY <2>2
  <2>4. step[m + 1][f[m]] \in X
    BY <2>2, <2>3
  <2>5. \A i \in 0..m : g[i] = f[i]
    OBVIOUS
  <2>6. g[m + 1] = step[m + 1][f[m]]
    OBVIOUS
  <2>7. g \in [0..m+1 -> X]
    BY <2>1, <2>4
  <2> HIDE DEF g
  <2>8. g[0] = base
    BY <2>1, <2>5
  <2>9. ASSUME NEW i \in 1..m+1 PROVE g[i] = step[i][g[i-1]]
    <3>1. CASE i = m + 1
      <4>1. i - 1 = m /\ g[i-1] = f[m]
        BY <2>5, <3>1
      <4> QED
        BY <2>6, <3>1, <4>1
    <3>2. CASE i # m + 1
      <4>1. i \in 1..m /\ i - 1 \in 0..m
        BY <3>2
      <4> QED
        BY <2>1, <2>5, <4>1
    <3> QED
      BY <3>1, <3>2
  <2>10. Solves(g, m + 1)
    BY <2>7, <2>8, <2>9
  <2> QED
    BY <2>2, <2>10
<1> HIDE DEF Solves
<1>3. n \in G
  <2> HIDE DEF G
  <2>1. 0..n \subseteq G
    BY <1>1, <1>2, Upward
  <2> QED
    BY <2>1
<1>4. PICK f : Solves(f, n)
  BY <1>3
<1>5. Stepwise(f, n, X, base, step)
  BY <1>4 DEF Solves, Stepwise
<1> QED
  BY <1>5

\* A part of a finite set that leaves something out is smaller.
LEMMA StrictlySmaller ==
  ASSUME NEW A, IsFiniteSet(A), NEW B \in SUBSET A, A # B
  PROVE  /\ IsFiniteSet(B) /\ Cardinality(A) \in Nat /\ Cardinality(B) \in Nat
         /\ Cardinality(B) < Cardinality(A)
<1>1. /\ IsFiniteSet(B) /\ Cardinality(B) <= Cardinality(A)
      /\ Cardinality(A) = Cardinality(B) => A = B
  BY FS_Subset
<1>2. Cardinality(A) \in Nat /\ Cardinality(B) \in Nat
  BY <1>1, FS_CardinalityType
<1> QED
  BY <1>1, <1>2

\* A ranking that gives no number twice lists its set.
LEMMA RankedList ==
  ASSUME NEW S, IsFiniteSet(S), NEW rank \in [S -> Nat],
         \A x, y \in S : rank[x] = rank[y] => x = y,
         \A x \in S : rank[x] < Cardinality(S)
  PROVE  /\ Enumerates(ByRank(S, rank), S)
         /\ Len(ByRank(S, rank)) = Cardinality(S)
         /\ DOMAIN ByRank(S, rank) = 1..Cardinality(S)
         /\ \A k \in 1..Cardinality(S) : rank[ByRank(S, rank)[k]] = k - 1
<1> DEFINE n == Cardinality(S)
           l == ByRank(S, rank)
           next == [x \in S |-> rank[x] + 1]
<1>1. n \in Nat
  BY FS_CardinalityType
<1> HIDE DEF n
<1>2. next \in Injection(S, 1..n)
  BY <1>1 DEF Injection, IsInjective, n
<1>3. IsFiniteSet(1..n) /\ Cardinality(1..n) = n
  BY <1>1, FS_Interval
<1>4. next \in Surjection(S, 1..n)
  BY <1>2, <1>3, FS_Injection DEF n
<1>5. \A k \in 1..n : \E x \in S : rank[x] = k - 1
  <2>1. ASSUME NEW k \in 1..n PROVE \E x \in S : rank[x] = k - 1
    <3>1. PICK x \in S : next[x] = k
      BY <1>4 DEF Surjection
    <3>2. rank[x] \in Nat /\ rank[x] + 1 = k
      BY <3>1
    <3> QED
      BY <3>2
  <2> QED
    BY <2>1
<1>6. l = [k \in 1..n |-> CHOOSE x \in S : rank[x] = k - 1]
  BY DEF ByRank, n
<1> HIDE DEF l
<1>7. \A k \in 1..n : l[k] \in S /\ rank[l[k]] = k - 1
  BY <1>5, <1>6
<1>8. l \in Seq(S) /\ Len(l) = n /\ DOMAIN l = 1..n
  BY <1>1, <1>6, <1>7
<1>9. \A i, j \in DOMAIN l : l[i] = l[j] => i = j
  BY <1>7, <1>8
<1>10. ASSUME NEW x \in S PROVE \E i \in DOMAIN l : l[i] = x
  <2>1. rank[x] + 1 \in 1..n /\ (rank[x] + 1) - 1 = rank[x]
    BY <1>1 DEF n
  <2>2. rank[l[rank[x] + 1]] = rank[x] /\ l[rank[x] + 1] \in S
    BY <1>7, <2>1
  <2> QED
    BY <1>8, <2>1, <2>2
<1> QED
  BY <1>7, <1>8, <1>9, <1>10 DEF Enumerates, l, n

\* Counting what is before each member ranks a finite set, for any strict total order.
LEMMA RankOfOrder ==
  ASSUME NEW S, IsFiniteSet(S), NEW below \in [S -> SUBSET S],
         \A x \in S : x \notin below[x],
         \A x, y \in S : x # y => x \in below[y] \/ y \in below[x],
         \A x, y \in S : x \in below[y] => below[x] \subseteq below[y],
         NEW rank, rank = [x \in S |-> Cardinality(below[x])]
  PROVE  /\ rank \in [S -> Nat]
         /\ \A x, y \in S : rank[x] = rank[y] => x = y
         /\ \A x \in S : rank[x] < Cardinality(S)
<1>1. ASSUME NEW x \in S
      PROVE  IsFiniteSet(below[x]) /\ rank[x] \in Nat /\ rank[x] < Cardinality(S)
  <2>1. below[x] \in SUBSET S /\ below[x] # S
    OBVIOUS
  <2> QED
    BY <2>1, StrictlySmaller
<1>2. ASSUME NEW x \in S, NEW y \in S, x \in below[y] PROVE rank[x] < rank[y]
  <2>1. below[x] \in SUBSET below[y] /\ x \notin below[x]
    BY <1>2
  <2>2. below[x] # below[y]
    BY <1>2, <2>1
  <2>3. IsFiniteSet(below[y])
    BY <1>1
  <2> QED
    BY <2>1, <2>2, <2>3, StrictlySmaller
<1>3. ASSUME NEW x \in S, NEW y \in S, rank[x] = rank[y] PROVE x = y
  <2>1. rank[x] \in Nat /\ rank[y] \in Nat
    BY <1>1
  <2>2. ~(rank[x] < rank[y]) /\ ~(rank[y] < rank[x])
    BY <1>3, <2>1
  <2> QED
    BY <1>2, <2>2
<1> QED
  BY <1>1, <1>3

\* The numbers of a finite set.
LEMMA RankOfNumbers ==
  ASSUME NEW S \in SUBSET Int, IsFiniteSet(S)
  PROVE  LET rank == [i \in S |-> Cardinality({j \in S : j < i})]
         IN  /\ rank \in [S -> Nat]
             /\ \A i, j \in S : rank[i] = rank[j] => i = j
             /\ \A i \in S : rank[i] < Cardinality(S)
<1> DEFINE below == [i \in S |-> {j \in S : j < i}]
           rank == [i \in S |-> Cardinality({j \in S : j < i})]
<1>0. IsFiniteSet(S) /\ \A i \in S : i \in Int
  OBVIOUS
<1>1. below \in [S -> SUBSET S]
  OBVIOUS
<1>2. \A i, j \in S : i \in below[j] <=> i < j
  OBVIOUS
<1>3. rank = [i \in S |-> Cardinality(below[i])]
  OBVIOUS
<1> HIDE DEF below, rank
<1>4. \A i \in S : i \notin below[i]
  BY <1>0, <1>2
<1>5. \A i, j \in S : i # j => i \in below[j] \/ j \in below[i]
  BY <1>0, <1>2
<1>6. ASSUME NEW i \in S, NEW j \in S, i \in below[j] PROVE below[i] \subseteq below[j]
  <2> SUFFICES ASSUME NEW k \in below[i] PROVE k \in below[j]
    OBVIOUS
  <2>1. k \in S
    BY <1>1
  <2>2. k < i /\ i < j
    BY <1>2, <1>6, <2>1
  <2>3. k < j
    BY <1>0, <2>1, <2>2
  <2> QED
    BY <1>2, <2>1, <2>3
<1>7. /\ rank \in [S -> Nat]
      /\ \A i, j \in S : rank[i] = rank[j] => i = j
      /\ \A i \in S : rank[i] < Cardinality(S)
  <2>1. \A i, j \in S : i \in below[j] => below[i] \subseteq below[j]
    BY <1>6
  <2>2. LET r == [x \in S |-> Cardinality(below[x])]
        IN  /\ r \in [S -> Nat]
            /\ \A x, y \in S : r[x] = r[y] => x = y
            /\ \A x \in S : r[x] < Cardinality(S)
    BY <1>0, <1>1, <1>4, <1>5, <2>1, RankOfOrder, Zenon
  <2> QED
    BY <1>3, <2>2, Zenon
<1> QED
  BY <1>7 DEF rank

\* A finite set of numbers, smallest first.
LEMMA AscendingFacts ==
  ASSUME NEW S \in SUBSET Int, IsFiniteSet(S)
  PROVE  /\ Enumerates(Ascending(S), S)
         /\ Len(Ascending(S)) = Cardinality(S)
         /\ DOMAIN Ascending(S) = 1..Cardinality(S)
<1> DEFINE rank == [i \in S |-> Cardinality({j \in S : j < i})]
<1>1. /\ rank \in [S -> Nat]
      /\ \A i, j \in S : rank[i] = rank[j] => i = j
      /\ \A i \in S : rank[i] < Cardinality(S)
  BY RankOfNumbers
<1>2. Ascending(S) = ByRank(S, rank)
  BY DEF Ascending
<1> HIDE DEF rank
<1>3. /\ Enumerates(ByRank(S, rank), S) /\ Len(ByRank(S, rank)) = Cardinality(S)
      /\ DOMAIN ByRank(S, rank) = 1..Cardinality(S)
  BY <1>1, RankedList, Zenon
<1> QED
  BY <1>1, <1>2, <1>3, Zenon

\* The part of a list that is in C: its entries, once each when the list has no
\* entry twice.
LEMMA OnlyFacts ==
  ASSUME NEW A, NEW list \in Seq(A), NEW C
  PROVE  /\ Only(list, C) \in Seq(A \cap C)
         /\ Len(Only(list, C)) = Cardinality({i \in DOMAIN list : list[i] \in C})
         /\ Enumerates(list, A) => Enumerates(Only(list, C), A \cap C)
<1> DEFINE n == Len(list)
           S == {i \in DOMAIN list : list[i] \in C}
           kept == Ascending(S)
           o == Only(list, C)
<1>1. n \in Nat /\ S \in SUBSET (1..n)
  OBVIOUS
<1> HIDE DEF n
<1>2. IsFiniteSet(S) /\ S \in SUBSET Int
  <2> HIDE DEF S
  <2>1. IsFiniteSet(1..n)
    BY <1>1, FS_Interval
  <2>2. IsFiniteSet(S)
    BY <1>1, <2>1, FS_Subset
  <2> QED
    BY <1>1, <2>2
<1>3. o = [k \in DOMAIN kept |-> list[kept[k]]]
  BY DEF Only
<1>4. \A i \in S : i \in DOMAIN list /\ list[i] \in A \cap C
  OBVIOUS
<1>5. \A i \in DOMAIN list : list[i] \in C => i \in S
  OBVIOUS
<1> HIDE DEF S, o
<1>6. Enumerates(kept, S) /\ Len(kept) = Cardinality(S) /\ DOMAIN kept = 1..Cardinality(S)
  BY <1>2, AscendingFacts
<1>7. Cardinality(S) \in Nat
  BY <1>2, FS_CardinalityType
<1> HIDE DEF kept
<1>8. \A k \in 1..Cardinality(S) : kept[k] \in S
  BY <1>6 DEF Enumerates
<1>9. o \in Seq(A \cap C) /\ Len(o) = Cardinality(S) /\ DOMAIN o = 1..Cardinality(S)
  BY <1>3, <1>4, <1>6, <1>7, <1>8
<1>10. ASSUME Enumerates(list, A) PROVE Enumerates(o, A \cap C)
  <2>1. \A i, j \in DOMAIN o : o[i] = o[j] => i = j
    BY <1>3, <1>4, <1>6, <1>8, <1>9, <1>10 DEF Enumerates
  <2>2. ASSUME NEW x \in A \cap C PROVE \E k \in DOMAIN o : o[k] = x
    <3>1. PICK i \in DOMAIN list : list[i] = x
      BY <1>10 DEF Enumerates
    <3>2. i \in S
      BY <1>5, <3>1
    <3>3. PICK k \in DOMAIN kept : kept[k] = i
      BY <1>6, <3>2 DEF Enumerates
    <3> QED
      BY <1>3, <3>1, <3>3
  <2> QED
    BY <1>9, <2>1, <2>2 DEF Enumerates
<1> QED
  BY <1>9, <1>10 DEF o, S

\* One more queue at the end of the list.
LEMMA AppendEnumerates ==
  ASSUME NEW C, NEW l, Enumerates(l, C), NEW x, x \notin C
  PROVE  Enumerates(Append(l, x), C \cup {x})
<1> DEFINE m == Append(l, x)
           n == Len(l)
<1>1. l \in Seq(C) /\ n \in Nat /\ DOMAIN l = 1..n
  BY DEF Enumerates
<1>2. l \in Seq(C \cup {x})
  BY <1>1
<1>3. m \in Seq(C \cup {x}) /\ DOMAIN m = 1..n+1
      /\ m[n+1] = x /\ \A i \in 1..n : m[i] = l[i]
  BY <1>1, <1>2
<1>4. \A i \in 1..n : l[i] \in C /\ i \in 1..n+1
  BY <1>1
<1>5. n+1 \in 1..n+1 /\ \A i \in 1..n+1 : i = n+1 \/ i \in 1..n
  BY <1>1
<1> HIDE DEF m, n
<1>6. \A i, j \in 1..n+1 : m[i] = m[j] => i = j
  BY <1>1, <1>3, <1>4, <1>5 DEF Enumerates
<1>7. \A y \in C \cup {x} : \E i \in 1..n+1 : m[i] = y
  BY <1>1, <1>3, <1>4, <1>5 DEF Enumerates
<1>8. Enumerates(m, C \cup {x})
  BY <1>3, <1>6, <1>7 DEF Enumerates
<1> QED
  BY <1>8 DEF m

LEMMA CountUpTo ==
  ASSUME NEW k \in Nat
  PROVE  IsFiniteSet(1..k) /\ Cardinality(1..k) = k
BY FS_Interval

-----------------------------------------------------------------------------
(* The store. *)

Statuses == Done \cup Inflight \cup {"PENDING"}

\* The inductive invariant: the types, that every task is in the list of its
\* folder, and that the answers on their way to the GUI thread are outcomes.
StoreOK(d) ==
  /\ DOMAIN d = {"order", "ids", "status", "life"}
  /\ d.life \in Nat
  /\ d.ids \in [Folders -> Seq(Requests)]
  /\ Known(d) \subseteq Requests
  /\ d.status \in [Known(d) -> Statuses]
  /\ \A t \in Known(d) : t \in ToSet(d.ids[t.folder])

IsOutcome(call) == call.kind = "result" => call.of.verdict \in Done
CallsOK(calls) == \E S : calls \in Seq(S) /\ \A c \in S : IsOutcome(c)

EagerInv == StoreOK(db) /\ CallsOK(events)

\* The mapping of KeepsPromise, on any store.
WaitingIn(d) == AllIn(d, {"PENDING"})
OutIn(d) == AllIn(d, Inflight)
VerdictIn(d) == [t \in AllIn(d, Done) |-> d.status[t]]

\* What each abstract action says of the store before and after it.
AcceptStep(d, e) ==
  /\ WaitingIn(d) \subseteq WaitingIn(e) /\ WaitingIn(e) \subseteq Requests
  /\ WaitingIn(e) \cap (OutIn(d) \cup DOMAIN VerdictIn(d)) = {}
  /\ OutIn(e) = OutIn(d) /\ VerdictIn(e) = VerdictIn(d)
HandOutStep(d, e) == \E R \in SUBSET WaitingIn(d) :
  /\ WaitingIn(e) = WaitingIn(d) \ R /\ OutIn(e) = OutIn(d) \cup R
  /\ VerdictIn(e) = VerdictIn(d)
SettleStep(d, e) == \E R \in SUBSET (WaitingIn(d) \cup OutIn(d)), v \in Done :
  /\ WaitingIn(e) = WaitingIn(d) \ R /\ OutIn(e) = OutIn(d) \ R
  /\ VerdictIn(e) =
       [r \in DOMAIN VerdictIn(d) \cup R |-> IF r \in R THEN v ELSE VerdictIn(d)[r]]
WithdrawStep(d, e) == \E R \in SUBSET WaitingIn(d) :
  /\ WaitingIn(e) = WaitingIn(d) \ R
  /\ OutIn(e) = OutIn(d) /\ VerdictIn(e) = VerdictIn(d)
ArchiveStep(d, e) ==
  WaitingIn(e) = {} /\ OutIn(e) = {} /\ VerdictIn(e) = [r \in {} |-> "none"]

SameView(d, e) ==
  WaitingIn(e) = WaitingIn(d) /\ OutIn(e) = OutIn(d) /\ VerdictIn(e) = VerdictIn(d)

PromiseStep(d, e) ==
  \/ AcceptStep(d, e) \/ HandOutStep(d, e) \/ SettleStep(d, e) \/ WithdrawStep(d, e)
  \/ ArchiveStep(d, e) \/ SameView(d, e)

-----------------------------------------------------------------------------
(* The operations of the store. *)

\* What a change of status changes.
LEMMA SetToFacts ==
  ASSUME NEW d, StoreOK(d), NEW T, NEW x \in Statuses
  PROVE  /\ StoreOK(SetTo(d, T, x)) /\ Known(SetTo(d, T, x)) = Known(d)
         /\ \A t \in Known(d) :
              SetTo(d, T, x).status[t] = IF t \in T THEN x ELSE d.status[t]
<1> DEFINE e == SetTo(d, T, x)
<1>1. e.status = [t \in Known(d) |-> IF t \in T THEN x ELSE d.status[t]]
  BY Zenon DEF SetTo, StoreOK, Known
<1>2. e.order = d.order /\ e.ids = d.ids /\ e.life = d.life /\ DOMAIN e = DOMAIN d
  BY Zenon DEF SetTo, StoreOK
<1>3. Known(e) = Known(d)
  BY <1>1 DEF Known
<1> HIDE DEF e
<1>4. e.status \in [Known(e) -> Statuses]
  BY <1>1, <1>3 DEF StoreOK
<1>5. StoreOK(e)
  BY <1>2, <1>3, <1>4 DEF StoreOK
<1> QED
  BY <1>1, <1>3, <1>5 DEF e

LEMMA DisjointStatuses ==
  /\ Done \cap Inflight = {} /\ "PENDING" \notin Done \cup Inflight
  /\ "SENT" \in Inflight /\ "RUNNING" \in Inflight /\ {"TIMEOUT", "ERROR"} \subseteq Done
  /\ Statuses = Done \cup Inflight \cup {"PENDING"}
BY DEF Done, Inflight, Statuses

\* Tasks that are not done get an outcome.
LEMMA Settling ==
  ASSUME NEW d, StoreOK(d), NEW T, NEW v \in Done, T \cap AllIn(d, Done) = {}
  PROVE  SettleStep(d, SetTo(d, T, v)) /\ StoreOK(SetTo(d, T, v))
<1> DEFINE e == SetTo(d, T, v)
           R == T \cap Known(d)
<1>1. v \in Statuses
  BY DisjointStatuses
<1>2. /\ StoreOK(e) /\ Known(e) = Known(d)
      /\ \A t \in Known(d) : e.status[t] = IF t \in T THEN v ELSE d.status[t]
  BY <1>1, SetToFacts
<1> HIDE DEF e
<1>3. R \in SUBSET (WaitingIn(d) \cup OutIn(d))
  BY DisjointStatuses DEF WaitingIn, OutIn, AllIn, StoreOK
<1>4. WaitingIn(e) = WaitingIn(d) \ R
  BY <1>2, DisjointStatuses DEF WaitingIn, AllIn
<1>5. OutIn(e) = OutIn(d) \ R
  BY <1>2, DisjointStatuses DEF OutIn, AllIn
<1>6. AllIn(e, Done) = AllIn(d, Done) \cup R
  BY <1>2 DEF AllIn
<1>7. VerdictIn(e) = [r \in DOMAIN VerdictIn(d) \cup R |->
                        IF r \in R THEN v ELSE VerdictIn(d)[r]]
  BY <1>2, <1>6 DEF VerdictIn, AllIn
<1>8. SettleStep(d, e)
  BY <1>3, <1>4, <1>5, <1>7 DEF SettleStep
<1> QED
  BY <1>2, <1>8 DEF e

\* A pending task is out once its publication is confirmed.
LEMMA Sending ==
  ASSUME NEW d, StoreOK(d), NEW t
  PROVE  HandOutStep(d, MarkSent(d, t)) /\ StoreOK(MarkSent(d, t))
<1> DEFINE R == {t} \cap AllIn(d, {"PENDING"})
           e == SetTo(d, R, "SENT")
<1>1. "SENT" \in Statuses
  BY DisjointStatuses
<1>2. /\ StoreOK(e) /\ Known(e) = Known(d)
      /\ \A u \in Known(d) : e.status[u] = IF u \in R THEN "SENT" ELSE d.status[u]
  BY <1>1, SetToFacts
<1>3. R \in SUBSET WaitingIn(d) /\ R \subseteq Known(d)
  BY DEF WaitingIn, AllIn
<1>4. \A u \in R : d.status[u] = "PENDING"
  BY DEF AllIn
<1>5. MarkSent(d, t) = e
  BY DEF MarkSent
<1> HIDE DEF e, R
<1>6. WaitingIn(e) = WaitingIn(d) \ R
  BY <1>2, <1>3, DisjointStatuses DEF WaitingIn, AllIn
<1>7. OutIn(e) = OutIn(d) \cup R
  BY <1>2, <1>3, DisjointStatuses DEF OutIn, AllIn
<1>8. AllIn(e, Done) = AllIn(d, Done)
  BY <1>2, <1>3, <1>4, DisjointStatuses DEF AllIn
<1>9. VerdictIn(e) = VerdictIn(d)
  BY <1>2, <1>4, <1>8, DisjointStatuses DEF VerdictIn, AllIn
<1> QED
  BY <1>2, <1>3, <1>5, <1>6, <1>7, <1>9 DEF HandOutStep

\* From SENT to RUNNING is no step of the promise.
LEMMA Running ==
  ASSUME NEW d, StoreOK(d)
  PROVE  StoreOK(MarkRunning(d)) /\ SameView(d, MarkRunning(d))
<1> DEFINE R == AllIn(d, {"SENT"})
           e == SetTo(d, R, "RUNNING")
<1>1. "RUNNING" \in Statuses
  BY DisjointStatuses
<1>2. /\ StoreOK(e) /\ Known(e) = Known(d)
      /\ \A u \in Known(d) : e.status[u] = IF u \in R THEN "RUNNING" ELSE d.status[u]
  BY <1>1, SetToFacts
<1>3. R \subseteq Known(d) /\ \A u \in R : d.status[u] = "SENT"
  BY DEF AllIn
<1>4. MarkRunning(d) = e
  BY DEF MarkRunning
<1> HIDE DEF e, R
<1>5. WaitingIn(e) = WaitingIn(d) /\ OutIn(e) = OutIn(d) /\ AllIn(e, Done) = AllIn(d, Done)
  BY <1>2, <1>3, DisjointStatuses DEF WaitingIn, OutIn, AllIn
<1>6. VerdictIn(e) = VerdictIn(d)
  BY <1>2, <1>3, <1>5, DisjointStatuses DEF VerdictIn, AllIn
<1> QED
  BY <1>2, <1>4, <1>5, <1>6 DEF SameView

\* A finite set in some order.
LEMMA SetToSeqFacts ==
  ASSUME NEW S, IsFiniteSet(S)
  PROVE  SetToSeq(S) \in Seq(S) /\ ToSet(SetToSeq(S)) = S
<1> DEFINE n == Cardinality(S)
           I == 1 .. n
<1>1. n \in Nat /\ ExistsBijection(I, S)
  BY FS_CardinalityType
<1>2. \E f \in [I -> S] : IsInjective(f)
  BY <1>1 DEF ExistsBijection, Bijection, Injection
<1>3. SetToSeq(S) \in [I -> S] /\ IsInjective(SetToSeq(S))
  BY <1>2 DEF SetToSeq
<1>4. SetToSeq(S) \in Injection(I, S)
  BY <1>3 DEF Injection
<1>5. Cardinality(I) = n
  BY <1>1, FS_Interval
<1>6. SetToSeq(S) \in Surjection(I, S)
  BY <1>4, <1>5, FS_Injection
<1> HIDE DEF n
<1>7. SetToSeq(S) \in Seq(S)
  BY <1>1, <1>3
<1>8. \A x \in S : \E i \in I : SetToSeq(S)[i] = x
  BY <1>6 DEF Surjection
<1>9. DOMAIN SetToSeq(S) = I
  BY <1>3
<1> QED
  BY <1>3, <1>7, <1>8, <1>9 DEF ToSet

\* The members of a sequence after others are added.
LEMMA ToSetConcat ==
  ASSUME NEW S, NEW s \in Seq(S), NEW t \in Seq(S)
  PROVE  s \o t \in Seq(S) /\ ToSet(s \o t) = ToSet(s) \cup ToSet(t)
<1>1. /\ s \o t \in Seq(S) /\ DOMAIN (s \o t) = 1 .. Len(s) + Len(t)
      /\ DOMAIN s = 1 .. Len(s) /\ DOMAIN t = 1 .. Len(t) /\ Len(s) \in Nat /\ Len(t) \in Nat
      /\ \A i \in 1 .. Len(s) + Len(t) :
           (s \o t)[i] = IF i <= Len(s) THEN s[i] ELSE t[i - Len(s)]
  OBVIOUS
<1>2. ASSUME NEW x \in ToSet(s \o t) PROVE x \in ToSet(s) \cup ToSet(t)
  BY <1>1 DEF ToSet
<1>3. ASSUME NEW x \in ToSet(s) PROVE x \in ToSet(s \o t)
  <2>1. PICK i \in 1 .. Len(s) : x = s[i]
    BY <1>1 DEF ToSet
  <2>2. i \in 1 .. Len(s) + Len(t) /\ (s \o t)[i] = x
    BY <1>1, <2>1
  <2> QED
    BY <1>1, <2>2 DEF ToSet
<1>4. ASSUME NEW x \in ToSet(t) PROVE x \in ToSet(s \o t)
  <2>1. PICK i \in 1 .. Len(t) : x = t[i]
    BY <1>1 DEF ToSet
  <2>2. /\ i + Len(s) \in 1 .. Len(s) + Len(t) /\ ~(i + Len(s) <= Len(s))
        /\ i + Len(s) - Len(s) = i
    BY <1>1, <2>1
  <2>3. (s \o t)[i + Len(s)] = x
    BY <1>1, <2>1, <2>2
  <2> QED
    BY <1>1, <2>2, <2>3 DEF ToSet
<1> QED
  BY <1>1, <1>2, <1>3, <1>4

\* What a folder's registration adds: new requests of that folder, finitely many.
LEMMA UnregisteredFacts ==
  ASSUME NEW d, StoreOK(d), NEW f \in Folders, NEW items \in SUBSET Items[f]
  PROVE  LET new == Unregistered(d, f, items)
         IN  /\ IsFiniteSet(new) /\ new \subseteq Requests /\ new \cap Known(d) = {}
             /\ \A t \in new : t.folder = f
<1> DEFINE index == {t.item : t \in {u \in Known(d) : u.folder = f}}
           Row(i) == [folder |-> f, item |-> i, life |-> d.life]
           fresh == items \ index
           new == Unregistered(d, f, items)
<1>1. Items[f] \in SUBSET Nat /\ IsFiniteSet(Items[f])
  BY EagerAssumption
<1>2. new = {Row(i) : i \in fresh}
  BY DEF Unregistered
<1>3. fresh \in SUBSET Items[f]
  OBVIOUS
<1>4. IsFiniteSet(fresh)
  BY <1>1, <1>3, FS_Subset
<1>5. [i \in fresh |-> Row(i)] \in Surjection(fresh, new)
  BY <1>2 DEF Surjection
<1>6. IsFiniteSet(new)
  BY <1>4, <1>5, FS_Surjection
<1>7. new \subseteq Requests
  BY <1>1, <1>2, <1>3 DEF StoreOK, Requests
<1>8. \A t \in new : t.folder = f /\ t.item \in fresh
  BY <1>2
<1>9. ASSUME NEW t \in new, t \in Known(d) PROVE FALSE
  <2>1. t.item \in index
    BY <1>8, <1>9
  <2> QED
    BY <1>8, <2>1
<1> QED
  BY <1>6, <1>7, <1>8, <1>9

\* Registering a folder accepts its new requests, which wait.
LEMMA Registering ==
  ASSUME NEW d, StoreOK(d), NEW f \in Folders, NEW items \in SUBSET Items[f]
  PROVE  /\ StoreOK(RegisterFolder(d, f, items))
         /\ AcceptStep(d, RegisterFolder(d, f, items))
<1> DEFINE e == RegisterFolder(d, f, items)
           new == Unregistered(d, f, items)
           row == SetToSeq(new)
<1>1. CASE items = {}
  <2>1. e = d
    BY <1>1 DEF RegisterFolder
  <2>2. WaitingIn(d) \subseteq Requests
    BY DEF WaitingIn, AllIn, StoreOK
  <2>3. WaitingIn(d) \cap (OutIn(d) \cup DOMAIN VerdictIn(d)) = {}
    BY DisjointStatuses DEF WaitingIn, OutIn, VerdictIn, AllIn
  <2> QED
    BY <2>1, <2>2, <2>3 DEF AcceptStep
<1>2. CASE items # {}
  <2>1. /\ IsFiniteSet(new) /\ new \subseteq Requests /\ new \cap Known(d) = {}
        /\ \A t \in new : t.folder = f
    BY UnregisteredFacts
  <2>2. row \in Seq(new) /\ ToSet(row) = new
    BY <2>1, SetToSeqFacts
  <2> HIDE DEF new, row
  <2>3. /\ DOMAIN e = DOMAIN d /\ e.life = d.life
        /\ e.ids = [d.ids EXCEPT ![f] = @ \o row]
        /\ e.status = [t \in Known(d) \cup new |-> IF t \in new THEN "PENDING" ELSE d.status[t]]
    BY <1>2, Zenon DEF RegisterFolder, StoreOK, Known, new, row
  <2> HIDE DEF e
  <2>4. Known(e) = Known(d) \cup new
    BY <2>3 DEF Known
  <2>5. d.ids[f] \in Seq(Requests) /\ row \in Seq(Requests)
    BY <2>1, <2>2 DEF StoreOK
  <2>6. d.ids[f] \o row \in Seq(Requests) /\ ToSet(d.ids[f] \o row) = ToSet(d.ids[f]) \cup new
    BY <2>2, <2>5, ToSetConcat
  <2>7. e.ids \in [Folders -> Seq(Requests)]
    BY <2>3, <2>6 DEF StoreOK
  <2>8. "PENDING" \in Statuses
    BY DisjointStatuses
  <2>9. e.status \in [Known(e) -> Statuses] /\ Known(e) \subseteq Requests
    BY <2>1, <2>3, <2>4, <2>8 DEF StoreOK
  <2>10. ASSUME NEW t \in Known(e) PROVE t \in ToSet(e.ids[t.folder])
    <3>1. CASE t \in new
      BY <2>1, <2>3, <2>6, <3>1 DEF StoreOK
    <3>2. CASE t \in Known(d)
      <4>1. t \in ToSet(d.ids[t.folder]) /\ t.folder \in Folders
        BY <3>2 DEF StoreOK, Requests
      <4> QED
        BY <2>3, <2>6, <4>1 DEF StoreOK
    <3> QED
      BY <2>4, <3>1, <3>2
  <2>11. StoreOK(e)
    BY <2>3, <2>7, <2>9, <2>10 DEF StoreOK
  <2>12. \A t \in Known(d) : e.status[t] = d.status[t]
    BY <2>1, <2>3
  <2>13. \A t \in new : e.status[t] = "PENDING"
    BY <2>3
  <2>14. WaitingIn(e) = WaitingIn(d) \cup new
    BY <2>4, <2>12, <2>13 DEF WaitingIn, AllIn
  <2>15. OutIn(e) = OutIn(d) /\ AllIn(e, Done) = AllIn(d, Done)
    BY <2>4, <2>12, <2>13, DisjointStatuses DEF OutIn, AllIn
  <2>16. VerdictIn(e) = VerdictIn(d)
    BY <2>12, <2>15 DEF VerdictIn, AllIn
  <2>17. WaitingIn(e) \cap (OutIn(d) \cup DOMAIN VerdictIn(d)) = {}
    BY <2>15, DisjointStatuses DEF WaitingIn, OutIn, VerdictIn, AllIn
  <2>18. WaitingIn(e) \subseteq Requests
    BY <2>9 DEF WaitingIn, AllIn
  <2>19. AcceptStep(d, e)
    BY <2>14, <2>15, <2>16, <2>17, <2>18 DEF AcceptStep
  <2> QED
    BY <2>11, <2>19 DEF e
<1> QED
  BY <1>1, <1>2

\* A deletion takes waiting tasks alone, and all of its folders.
LEMMA Removing ==
  ASSUME NEW d, StoreOK(d), NEW S
  PROVE  StoreOK(RemoveFolders(d, S)) /\ WithdrawStep(d, RemoveFolders(d, S))
<1> DEFINE e == RemoveFolders(d, S)
           R == Removable(d, S)
           kept == {t \in Known(d) : t.folder \notin R}
           gone == Known(d) \ kept
<1>1. CASE R = {}
  <2>1. e = d
    BY <1>1 DEF RemoveFolders
  <2>2. {} \in SUBSET WaitingIn(d) /\ WaitingIn(d) = WaitingIn(d) \ {}
    OBVIOUS
  <2> QED
    BY <2>1, <2>2 DEF WithdrawStep
<1>2. CASE R # {}
  <2>1. /\ e = [order |-> e.order, ids |-> e.ids, status |-> e.status, life |-> e.life]
        /\ e.ids = [f \in Folders |-> IF f \in R THEN << >> ELSE d.ids[f]]
        /\ e.status = [t \in kept |-> d.status[t]] /\ e.life = d.life + 1
    BY <1>2 DEF RemoveFolders
  <2>2. \A f \in R : \A t \in ToSet(d.ids[f]) : d.status[t] = "PENDING"
    BY DEF Removable
  <2>3. \A t \in gone : d.status[t] = "PENDING"
    BY <2>2 DEF StoreOK
  <2> HIDE DEF e, R
  <2>4. Known(e) = kept /\ DOMAIN e = DOMAIN d /\ e.life \in Nat
    BY <2>1 DEF Known, StoreOK
  <2>5. e.ids \in [Folders -> Seq(Requests)]
    BY <2>1 DEF StoreOK
  <2>6. e.status \in [Known(e) -> Statuses] /\ Known(e) \subseteq Requests
    BY <2>1, <2>4 DEF StoreOK
  <2>7. \A t \in Known(e) : t \in ToSet(e.ids[t.folder])
    BY <2>1, <2>4 DEF StoreOK, Requests
  <2>8. StoreOK(e)
    BY <2>4, <2>5, <2>6, <2>7 DEF StoreOK
  <2>9. \A t \in Known(e) : e.status[t] = d.status[t]
    BY <2>1, <2>4
  <2>10. gone \in SUBSET WaitingIn(d) /\ WaitingIn(e) = WaitingIn(d) \ gone
    BY <2>3, <2>4, <2>9 DEF WaitingIn, AllIn
  <2>11. OutIn(e) = OutIn(d) /\ AllIn(e, Done) = AllIn(d, Done)
    BY <2>3, <2>4, <2>9, DisjointStatuses DEF OutIn, AllIn
  <2>12. VerdictIn(e) = VerdictIn(d)
    BY <2>9, <2>11 DEF VerdictIn, AllIn
  <2>13. WithdrawStep(d, e)
    BY <2>10, <2>11, <2>12 DEF WithdrawStep
  <2> QED
    BY <2>8, <2>13 DEF e
<1> QED
  BY <1>1, <1>2

\* A cleared store is empty.
LEMMA Clearing ==
  ASSUME NEW life \in Nat
  PROVE  LET e == EmptyStore(life)
         IN  /\ StoreOK(e) /\ WaitingIn(e) = {} /\ OutIn(e) = {}
             /\ VerdictIn(e) = [r \in {} |-> "none"]
<1> DEFINE e == EmptyStore(life)
<1>1. /\ DOMAIN e = {"order", "ids", "status", "life"} /\ e.life = life
      /\ e.ids = [f \in Folders |-> << >>] /\ e.status = << >>
  BY DEF EmptyStore
<1> HIDE DEF e
<1>2. Known(e) = {}
  BY <1>1 DEF Known
<1>3. StoreOK(e)
  BY <1>1, <1>2 DEF StoreOK, Known
<1>4. WaitingIn(e) = {} /\ OutIn(e) = {} /\ AllIn(e, Done) = {}
  BY <1>2 DEF WaitingIn, OutIn, AllIn
<1>5. VerdictIn(e) = [r \in {} |-> "none"]
  BY <1>4 DEF VerdictIn
<1> QED
  BY <1>3, <1>4, <1>5 DEF e

-----------------------------------------------------------------------------
(* The routines of the dispatcher leave the store and the queued calls alone. *)

HasFields(s) == DOMAIN s = {"db", "ctl", "pubs", "polls", "events"}
SameStore(s, r) == HasFields(r) /\ r.db = s.db /\ r.events = s.events

\* Looking at the threads, the folders in progress and what is tracked.
LEMMA LookingAlters ==
  ASSUME NEW s, HasFields(s), NEW T, NEW U
  PROVE  /\ SameStore(s, Synchronized(s)) /\ SameStore(s, PubChecked(s))
         /\ SameStore(s, PollChecked(s)) /\ SameStore(s, Tracking(s, T, U))
         /\ SameStore(s, StopPolling(s))
<1>1. SameStore(s, Synchronized(s))
  BY Zenon DEF Synchronized, HasFields, SameStore
<1>2. SameStore(s, PubChecked(s)) /\ SameStore(s, PollChecked(s))
  BY Zenon DEF PubChecked, PollChecked, HasFields, SameStore
<1>3. SameStore(s, Tracking(s, T, U)) /\ SameStore(s, StopPolling(s))
  BY Zenon DEF Tracking, StopPolling, HasFields, SameStore
<1> QED
  BY <1>1, <1>2, <1>3

\* Starting and stopping threads.
LEMMA ThreadsAlter ==
  ASSUME NEW s, HasFields(s), NEW todo
  PROVE  /\ SameStore(s, StartPublisher(s, todo)) /\ SameStore(s, StartPoller(s))
         /\ SameStore(s, StopAsked(s))
<1>1. SameStore(s, StartPublisher(s, todo)) /\ SameStore(s, StartPoller(s))
  BY Zenon DEF StartPublisher, StartPoller, HasFields, SameStore
<1>2. SameStore(s, StopAsked(s))
  BY Zenon DEF StopAsked, HasFields, SameStore
<1> QED
  BY <1>1, <1>2

\* Changes of the schedule.
LEMMA ScheduleAlters ==
  ASSUME NEW s, HasFields(s), NEW new, NEW R
  PROVE  /\ SameStore(s, ResetSchedule(s)) /\ SameStore(s, Appended(s, new))
         /\ SameStore(s, Pruned(s, R)) /\ SameStore(s, Stopped(s))
<1>1. SameStore(s, ResetSchedule(s))
  BY Zenon DEF ResetSchedule, HasFields, SameStore
<1>2. SameStore(s, Appended(s, new)) /\ SameStore(s, Pruned(s, R))
  BY Zenon DEF Appended, Pruned, HasFields, SameStore
<1>3. ASSUME NEW r, HasFields(r)
      PROVE  SameStore(r, [r EXCEPT !.ctl.pub = NoSlot, !.ctl.poll = NoSlot,
                                    !.ctl.active = FALSE, !.ctl.finished = TRUE])
  BY <1>3, Zenon DEF HasFields, SameStore
<1>4. SameStore(ResetSchedule(s), Stopped(s))
  BY <1>1, <1>3 DEF Stopped, SameStore
<1> QED
  BY <1>1, <1>2, <1>4 DEF SameStore

\* Opening batches.
LEMMA OpeningAlters ==
  ASSUME NEW s, HasFields(s), NEW n
  PROVE  SameStore(s, OpenBatches(s, n))
<1>1. SameStore(s, Take(s, n))
  BY Zenon DEF Take, HasFields, SameStore
<1>2. SameStore(Take(s, n), [Take(s, n) EXCEPT !.ctl.finished = FALSE])
  BY <1>1, Zenon DEF HasFields, SameStore
<1>3. ASSUME NEW todo
      PROVE  SameStore([Take(s, n) EXCEPT !.ctl.finished = FALSE],
                       StartPublisher([Take(s, n) EXCEPT !.ctl.finished = FALSE], todo))
  BY <1>2, ThreadsAlter DEF SameStore
<1> QED
  BY <1>1, <1>2, <1>3, Zenon DEF OpenBatches, SameStore

\* The whole decision on what to open.
LEMMA DispatchAlters ==
  ASSUME NEW s, HasFields(s)
  PROVE  SameStore(s, Dispatch(s))
<1> DEFINE r == PubChecked(Synchronized(s))
<1>1. SameStore(s, r)
  BY LookingAlters DEF SameStore
<1>2. SameStore(r, OpenBatches(r, Slots(r))) /\ SameStore(r, OpenBatches(r, 1))
  BY <1>1, OpeningAlters DEF SameStore
<1>3. Dispatch(s) \in {r, OpenBatches(r, Slots(r)), OpenBatches(r, 1)}
  BY Zenon DEF Dispatch
<1> HIDE DEF r
<1> QED
  BY <1>1, <1>2, <1>3, Zenon DEF SameStore

-----------------------------------------------------------------------------
(* What each turn of the GUI thread does to the store. *)

Written(s, r, d) == HasFields(r) /\ r.db = d /\ r.events = s.events

\* A command on folders changes the store by that command alone.
LEMMA CommandWrites ==
  ASSUME NEW s, HasFields(s), NEW f, NEW items, NEW S
  PROVE  /\ Written(s, Added(s, f, items), RegisterFolder(s.db, f, items))
         /\ Written(s, Removed(s, S), RemoveFolders(s.db, S))
         /\ SameStore(s, Started(s))
<1>1. Written(s, Added(s, f, items), RegisterFolder(s.db, f, items))
  <2> DEFINE d == RegisterFolder(s.db, f, items)
             new == PendingIds(d, f, s.ctl.scheduled)
             b == [folder |-> f, ids |-> new]
             r == [s EXCEPT !.db = d]
             q == [Appended(r, b) EXCEPT !.ctl.scheduled = @ \cup ToSet(new)]
             u == Tracking(q, ToSet(new), {})
  <2>1. Added(s, f, items) \in {r, Dispatch(u)}
    BY Zenon DEF Added
  <2> HIDE DEF d, new, b
  <2>2. Written(s, r, d)
    BY Zenon DEF HasFields, Written
  <2>3. Written(s, Appended(r, b), d)
    BY <2>2, ScheduleAlters DEF Written, SameStore
  <2> HIDE DEF r
  <2>4. Written(s, q, d)
    BY <2>3, Zenon DEF Written, HasFields
  <2> HIDE DEF q
  <2>5. Written(s, u, d)
    BY <2>4, LookingAlters DEF Written, SameStore
  <2>6. Written(s, Dispatch(u), d)
    BY <2>5, DispatchAlters DEF Written, SameStore
  <2> QED
    BY <2>1, <2>2, <2>6 DEF d
<1>2. Written(s, Removed(s, S), RemoveFolders(s.db, S))
  <2> DEFINE R == Removable(s.db, S)
             gone == {t \in Known(s.db) : t.folder \in R}
             q == [s EXCEPT !.db = RemoveFolders(@, S)]
             r == Tracking(Pruned(q, R), {}, gone)
  <2>1. Removed(s, S) = IF R = {} THEN s ELSE IF s.ctl.active THEN Dispatch(r) ELSE r
    BY Zenon DEF Removed
  <2>2. R = {} => RemoveFolders(s.db, S) = s.db
    BY DEF RemoveFolders
  <2> HIDE DEF R, gone
  <2>3. Written(s, q, RemoveFolders(s.db, S))
    BY Zenon DEF HasFields, Written
  <2> HIDE DEF q
  <2>4. Written(s, Pruned(q, R), RemoveFolders(s.db, S))
    BY <2>3, ScheduleAlters DEF Written, SameStore
  <2>5. SameStore(Pruned(q, R), r)
    BY <2>4, LookingAlters, Zenon DEF Written
  <2>6. Written(s, r, RemoveFolders(s.db, S))
    BY <2>4, <2>5 DEF Written, SameStore
  <2>7. Written(s, Dispatch(r), RemoveFolders(s.db, S))
    BY <2>6, DispatchAlters DEF Written, SameStore
  <2>8. CASE R = {}
    BY <2>1, <2>2, <2>8 DEF Written
  <2>9. CASE R # {}
    BY <2>1, <2>6, <2>7, <2>9
  <2> QED
    BY <2>8, <2>9
<1>3. SameStore(s, Started(s))
  <2> DEFINE groups == PendingBatches(s.db)
             fresh == [ResetSchedule(s) EXCEPT !.ctl.active = TRUE]
             sending == [fresh EXCEPT !.ctl.batches = groups, !.ctl.scheduled = IdsOf(groups)]
             waiting == [fresh EXCEPT !.ctl.finished = TRUE]
  <2>1. Started(s) \in {OpenBatches(sending, MaxInitial), StartPoller(waiting), s}
    BY Zenon DEF Started
  <2>2. SameStore(s, ResetSchedule(s))
    BY ScheduleAlters
  <2>3. SameStore(s, fresh)
    BY <2>2, Zenon DEF SameStore, HasFields
  <2> HIDE DEF fresh, groups
  <2>4. SameStore(s, sending) /\ SameStore(s, waiting)
    BY <2>3, Zenon DEF SameStore, HasFields
  <2> HIDE DEF sending, waiting
  <2>5. SameStore(s, OpenBatches(sending, MaxInitial))
    BY <2>4, OpeningAlters DEF SameStore
  <2>6. SameStore(s, StartPoller(waiting))
    BY <2>4, ThreadsAlter DEF SameStore
  <2> QED
    BY <2>1, <2>5, <2>6 DEF SameStore
<1> QED
  BY <1>1, <1>2, <1>3

\* A slot changes the store by what the signal reports alone.
LEMMA SlotWrites ==
  ASSUME NEW s, HasFields(s), NEW t, NEW verdict, NEW T, NEW p, NEW known
  PROVE  /\ Written(s, OnPublished(s, t), MarkSent(s.db, t))
         /\ Written(s, OnFailed(s, t), MarkError(s.db, t))
         /\ Written(s, OnResult(s, t, verdict), ApplyResult(s.db, t, verdict))
         /\ Written(s, OnPollCycle(s, T), MarkTimeouts(MarkRunning(s.db), T))
         /\ SameStore(s, OnQueueReady(s)) /\ SameStore(s, OnPubFinished(s, p, known))
         /\ SameStore(s, OnPubThreadFinished(s, p)) /\ SameStore(s, OnPollFinished(s, p))
<1>1. /\ Written(s, OnPublished(s, t), MarkSent(s.db, t))
      /\ Written(s, OnFailed(s, t), MarkError(s.db, t))
      /\ Written(s, OnResult(s, t, verdict), ApplyResult(s.db, t, verdict))
  BY Zenon DEF OnPublished, OnFailed, OnResult, Written, HasFields
<1>2. Written(s, OnPollCycle(s, T), MarkTimeouts(MarkRunning(s.db), T))
  <2> DEFINE q == [s EXCEPT !.db = MarkRunning(@)]
             r == Dispatch(q)
             aged == [r EXCEPT !.db = MarkTimeouts(@, T)]
  <2>1. OnPollCycle(s, T) \in {StopPolling(aged), aged}
    BY Zenon DEF OnPollCycle
  <2>2. Written(s, q, MarkRunning(s.db))
    BY Zenon DEF HasFields, Written
  <2> HIDE DEF q
  <2>3. Written(s, r, MarkRunning(s.db))
    BY <2>2, DispatchAlters DEF Written, SameStore
  <2> HIDE DEF r
  <2>4. Written(s, aged, MarkTimeouts(MarkRunning(s.db), T))
    BY <2>3, Zenon DEF HasFields, Written
  <2> HIDE DEF aged
  <2>5. Written(s, StopPolling(aged), MarkTimeouts(MarkRunning(s.db), T))
    BY <2>4, LookingAlters DEF Written, SameStore
  <2> QED
    BY <2>1, <2>4, <2>5
<1>3. SameStore(s, OnQueueReady(s))
  <2>1. SameStore(s, PollChecked(s))
    BY LookingAlters
  <2>2. SameStore(PollChecked(s), StartPoller(PollChecked(s)))
    BY <2>1, ThreadsAlter DEF SameStore
  <2> QED
    BY <2>1, <2>2, Zenon DEF OnQueueReady, SameStore
<1>4. SameStore(s, OnPubFinished(s, p, known))
  <2> DEFINE r == [s EXCEPT !.pubs[p].quit = TRUE]
             over == [r EXCEPT !.ctl.finished = TRUE]
  <2>1. OnPubFinished(s, p, known) \in {r, over, StopPolling(over)}
    BY Zenon DEF OnPubFinished
  <2>2. SameStore(s, r)
    BY Zenon DEF HasFields, SameStore
  <2> HIDE DEF r
  <2>3. SameStore(s, over)
    BY <2>2, Zenon DEF HasFields, SameStore
  <2> HIDE DEF over
  <2>4. SameStore(s, StopPolling(over))
    BY <2>3, LookingAlters DEF SameStore
  <2> QED
    BY <2>1, <2>2, <2>3, <2>4
<1>5. SameStore(s, OnPubThreadFinished(s, p)) /\ SameStore(s, OnPollFinished(s, p))
  BY Zenon DEF OnPubThreadFinished, OnPollFinished, HasFields, SameStore
<1> QED
  BY <1>1, <1>2, <1>3, <1>4, <1>5

-----------------------------------------------------------------------------
(* The calls queued for the GUI thread. *)

\* The next call, and those behind it.
LEMMA NextCall ==
  ASSUME NEW calls, CallsOK(calls), calls # << >>
  PROVE  IsOutcome(Head(calls)) /\ CallsOK(Tail(calls))
<1>1. PICK S : calls \in Seq(S) /\ \A c \in S : IsOutcome(c)
  BY DEF CallsOK
<1>2. Head(calls) \in S /\ Tail(calls) \in Seq(S)
  BY <1>1
<1> QED
  BY <1>1, <1>2 DEF CallsOK

\* A call posted behind the others.
LEMMA PostedCall ==
  ASSUME NEW calls, CallsOK(calls), NEW call, IsOutcome(call)
  PROVE  CallsOK(calls \o <<call>>)
<1>1. PICK S : calls \in Seq(S) /\ \A c \in S : IsOutcome(c)
  BY DEF CallsOK
<1> DEFINE U == S \cup {call}
<1>2. calls \in Seq(U) /\ <<call>> \in Seq(U)
  BY <1>1
<1>3. \A c \in U : IsOutcome(c)
  BY <1>1
<1> HIDE DEF U
<1>4. calls \o <<call>> \in Seq(U)
  BY <1>2
<1> QED
  BY <1>3, <1>4 DEF CallsOK

\* No call posted.
LEMMA PostedNone ==
  ASSUME NEW calls, CallsOK(calls)
  PROVE  calls \o << >> = calls
<1>1. PICK S : calls \in Seq(S)
  BY DEF CallsOK
<1> QED
  BY <1>1

-----------------------------------------------------------------------------
(* The steps of the session. *)

Good == PromiseStep(db, db') /\ StoreOK(db') /\ CallsOK(events')

\* What leaves the store alone is no step of the promise.
LEMMA Unchanged ==
  ASSUME EagerInv, db' = db, CallsOK(events')
  PROVE  Good
BY DEF EagerInv, Good, PromiseStep, SameView

\* The situation at the start of a turn.
LEMMA Situations ==
  /\ HasFields(Situation) /\ Situation.db = db /\ Situation.events = events
  /\ HasFields(Next1) /\ Next1.db = db /\ Next1.events = Tail(events)
BY DEF HasFields, Situation, Next1

\* The steps of the user, and the end of a stop.
LEMMA UserSteps ==
  ASSUME EagerInv,
         \/ \E f \in Folders : \E items \in SUBSET Items[f] : AddFolder(f, items)
         \/ \E S \in SUBSET Grouped(db) \ {{}} : DeleteFolders(S)
         \/ Start \/ Stop \/ Reset \/ StopEnds
  PROVE  Good
<1>1. ASSUME NEW f \in Folders, NEW items \in SUBSET Items[f], AddFolder(f, items)
      PROVE  Good
  <2>1. db' = RegisterFolder(db, f, items) /\ events' = events
    BY <1>1, Situations, CommandWrites DEF AddFolder, UserTurn, GuiTurn, Become, Written
  <2>2. StoreOK(db') /\ AcceptStep(db, db')
    BY <2>1, Registering DEF EagerInv
  <2> QED
    BY <2>1, <2>2 DEF Good, PromiseStep, EagerInv
<1>2. ASSUME NEW S, DeleteFolders(S) PROVE Good
  <2>1. db' = RemoveFolders(db, S) /\ events' = events
    BY <1>2, Situations, CommandWrites DEF DeleteFolders, UserTurn, GuiTurn, Become, Written
  <2>2. StoreOK(db') /\ WithdrawStep(db, db')
    BY <2>1, Removing DEF EagerInv
  <2> QED
    BY <2>1, <2>2 DEF Good, PromiseStep, EagerInv
<1>3. CASE Start
  <2>1. db' = db /\ events' = events
    BY <1>3, Situations, CommandWrites DEF Start, UserTurn, GuiTurn, Become, SameStore
  <2> QED
    BY <2>1, Unchanged DEF EagerInv
<1>4. CASE Stop \/ Reset
  <2>1. db' = db /\ events' = events
    BY <1>4, Situations, ThreadsAlter DEF Stop, Reset, StopBegins, Become, SameStore
  <2> QED
    BY <2>1, Unchanged DEF EagerInv
<1>5. CASE StopEnds
  <2> DEFINE s == Stopped(Situation)
             cleared == [s EXCEPT !.db = EmptyStore(db.life + 1)]
  <2>1. SameStore(Situation, s)
    BY Situations, ScheduleAlters
  <2>2. Become(cleared) \/ Become(s)
    BY <1>5 DEF StopEnds
  <2> HIDE DEF s
  <2>3. cleared.db = EmptyStore(db.life + 1) /\ cleared.events = s.events
    BY <2>1, Zenon DEF SameStore, HasFields
  <2>4. /\ db' = EmptyStore(db.life + 1) \/ db' = db
        /\ events' = events
    BY <2>1, <2>2, <2>3, Situations DEF Become, SameStore
  <2>5. db.life + 1 \in Nat
    BY DEF EagerInv, StoreOK
  <2>6. StoreOK(EmptyStore(db.life + 1)) /\ ArchiveStep(db, EmptyStore(db.life + 1))
    BY <2>5, Clearing DEF ArchiveStep
  <2>7. CASE db' = EmptyStore(db.life + 1)
    BY <2>4, <2>6, <2>7 DEF Good, PromiseStep, EagerInv
  <2>8. CASE db' = db
    BY <2>4, <2>8, Unchanged DEF EagerInv
  <2> QED
    BY <2>4, <2>7, <2>8
<1> QED
  BY <1>1, <1>2, <1>3, <1>4, <1>5

\* The GUI thread takes a queued call.
LEMMA CallSteps ==
  ASSUME EagerInv, HandleCall
  PROVE  Good
<1>1. events # << >>
  BY DEF HandleCall, HandleQueueReady, HandlePublished, HandleFailed, HandleResult,
         HandlePollCycle, HandlePubFinished, HandlePubThreadFinished, HandlePollFinished, Called
<1>2. CallsOK(Tail(events)) /\ IsOutcome(Head(events)) /\ StoreOK(db)
  BY <1>1, NextCall DEF EagerInv
<1> DEFINE s == Next1
<1>slots. /\ HasFields(s) /\ s.db = db /\ s.events = Tail(events)
      /\ Written(s, OnPublished(s, Arg), MarkSent(s.db, Arg))
      /\ Written(s, OnFailed(s, Arg), MarkError(s.db, Arg))
      /\ Written(s, OnResult(s, Arg.task, Arg.verdict), ApplyResult(s.db, Arg.task, Arg.verdict))
      /\ \A T : Written(s, OnPollCycle(s, T), MarkTimeouts(MarkRunning(s.db), T))
      /\ SameStore(s, OnQueueReady(s)) /\ \A known : SameStore(s, OnPubFinished(s, Arg, known))
      /\ SameStore(s, OnPubThreadFinished(s, Arg)) /\ SameStore(s, OnPollFinished(s, Arg))
  BY Situations, SlotWrites
<1>3. CASE HandleQueueReady \/ HandlePubFinished \/ HandlePubThreadFinished \/ HandlePollFinished
  <2>1. db' = db /\ events' = Tail(events)
    BY <1>3, <1>slots DEF HandleQueueReady, HandlePubFinished,
       HandlePubThreadFinished, HandlePollFinished, GuiTurn, Become, SameStore
  <2> QED
    BY <1>2, <2>1, Unchanged
<1>4. CASE HandlePublished
  <2>1. db' = MarkSent(db, Arg) /\ events' = Tail(events)
    BY <1>4, <1>slots DEF HandlePublished, GuiTurn, Become, Written
  <2>2. HandOutStep(db, db') /\ StoreOK(db')
    BY <1>2, <2>1, Sending
  <2> QED
    BY <1>2, <2>1, <2>2 DEF Good, PromiseStep
<1>5. CASE HandleFailed
  <2>1. db' = SetTo(db, {Arg} \ AllIn(db, Done), "ERROR") /\ events' = Tail(events)
    BY <1>5, <1>slots DEF HandleFailed, GuiTurn, Become, Written, MarkError
  <2>2. SettleStep(db, db') /\ StoreOK(db')
    BY <1>2, <2>1, Settling, DisjointStatuses
  <2> QED
    BY <1>2, <2>1, <2>2 DEF Good, PromiseStep
<1>6. CASE HandleResult
  <2>1. /\ db' = SetTo(db, {Arg.task} \ AllIn(db, Done), Arg.verdict)
        /\ events' = Tail(events) /\ Head(events).kind = "result"
    BY <1>6, <1>slots DEF HandleResult, Called, GuiTurn, Become, Written, ApplyResult
  <2>2. Arg.verdict \in Done
    BY <1>2, <2>1 DEF IsOutcome, Arg
  <2>3. SettleStep(db, db') /\ StoreOK(db')
    BY <1>2, <2>1, <2>2, Settling
  <2> QED
    BY <1>2, <2>1, <2>3 DEF Good, PromiseStep
<1>7. ASSUME NEW T, HandlePollCycle(T) PROVE Good
  <2> DEFINE d == MarkRunning(db)
             aged == T \cap AllIn(d, Inflight)
  <2>1. db' = SetTo(d, aged, "TIMEOUT") /\ events' = Tail(events)
    BY <1>7, <1>slots DEF HandlePollCycle, GuiTurn, Become, Written, MarkTimeouts
  <2>2. StoreOK(d) /\ SameView(db, d)
    BY <1>2, Running
  <2>3. aged \cap AllIn(d, Done) = {} /\ "TIMEOUT" \in Done
    BY DisjointStatuses DEF AllIn
  <2> HIDE DEF d, aged
  <2>4. SettleStep(d, db') /\ StoreOK(db')
    BY <2>1, <2>2, <2>3, Settling
  <2>5. SettleStep(db, db')
    BY <2>2, <2>4 DEF SettleStep, SameView
  <2> QED
    BY <1>2, <2>1, <2>4, <2>5 DEF Good, PromiseStep
<1> QED
  BY <1>3, <1>4, <1>5, <1>6, <1>7 DEF HandleCall

\* The threads only post calls, and the answers they post are outcomes.
LEMMA ThreadSteps ==
  ASSUME EagerInv,
         \/ \E p \in PubSlots : PubRuns(p)
         \/ \E w \in PollSlots : \/ PollConnect(w) \/ PollTick(w) \/ PollEnd(w)
                                 \/ \E t \in BagToSet(mq), v \in Verdicts : PollDeliver(w, t, v)
  PROVE  Good
<1>1. CallsOK(events)
  BY DEF EagerInv
<1>2. ASSUME NEW kind, kind # "result", NEW of PROVE IsOutcome(Call(kind, of))
  BY <1>2 DEF IsOutcome, Call
<1>3. ASSUME NEW t, NEW v \in Verdicts
      PROVE  IsOutcome(Call("result", [task |-> t, verdict |-> v]))
  BY SessionAssumption DEF IsOutcome, Call, Done
<1>4. ASSUME NEW p \in PubSlots, PubRuns(p) PROVE Good
  <2>1. /\ db' = db
        /\ \/ events' = events \o << >>
           \/ \E kind, of : kind # "result" /\ events' = events \o <<Call(kind, of)>>
    <3>1. CASE PubConnect(p)
      BY <3>1, Zenon DEF PubConnect, PubStep
    <3>2. CASE PubSend(p)
      BY <3>2, Zenon DEF PubSend, PubStep
    <3>3. CASE PubReport(p)
      BY <3>3, Zenon DEF PubReport, PubStep
    <3>4. CASE PubEnd(p) \/ PubExit(p)
      BY <3>4, Zenon DEF PubEnd, PubExit, PubStep
    <3> QED
      BY <1>4, <3>1, <3>2, <3>3, <3>4 DEF PubRuns
  <2>2. CallsOK(events')
    <3>1. CASE events' = events \o << >>
      BY <1>1, <3>1, PostedNone
    <3>2. CASE \E kind, of : kind # "result" /\ events' = events \o <<Call(kind, of)>>
      <4>1. PICK kind, of : kind # "result" /\ events' = events \o <<Call(kind, of)>>
        BY <3>2
      <4>2. IsOutcome(Call(kind, of))
        BY <1>2, <4>1
      <4> QED
        BY <1>1, <4>1, <4>2, PostedCall
    <3> QED
      BY <2>1, <3>1, <3>2
  <2> QED
    BY <2>1, <2>2, Unchanged
<1>5. ASSUME NEW w \in PollSlots, PollConnect(w) \/ PollTick(w) \/ PollEnd(w) PROVE Good
  <2>1. /\ db' = db
        /\ \/ events' = events \o << >>
           \/ \E kind, of : kind # "result" /\ events' = events \o <<Call(kind, of)>>
    BY <1>5, Zenon DEF PollConnect, PollTick, PollEnd, PollStep
  <2>2. CallsOK(events')
    <3>1. CASE events' = events \o << >>
      BY <1>1, <3>1, PostedNone
    <3>2. CASE \E kind, of : kind # "result" /\ events' = events \o <<Call(kind, of)>>
      <4>1. PICK kind, of : kind # "result" /\ events' = events \o <<Call(kind, of)>>
        BY <3>2
      <4>2. IsOutcome(Call(kind, of))
        BY <1>2, <4>1
      <4> QED
        BY <1>1, <4>1, <4>2, PostedCall
    <3> QED
      BY <2>1, <3>1, <3>2
  <2> QED
    BY <2>1, <2>2, Unchanged
<1>6. ASSUME NEW w \in PollSlots, NEW t, NEW v \in Verdicts, PollDeliver(w, t, v) PROVE Good
  <2> DEFINE answer == Call("result", [task |-> t, verdict |-> v])
  <2>1. db' = db /\ (events' = events \o << >> \/ events' = events \o <<answer>>)
    BY <1>6, Zenon DEF PollDeliver, PollStep
  <2>2. IsOutcome(answer)
    BY <1>3
  <2> HIDE DEF answer
  <2>3. CallsOK(events')
    BY <1>1, <2>1, <2>2, PostedCall, PostedNone
  <2> QED
    BY <2>1, <2>3, Unchanged
<1> QED
  BY <1>4, <1>5, <1>6

-----------------------------------------------------------------------------
(* The refinement. *)

\* The store is empty at first, and nothing is queued.
LEMMA EagerStart == Init => EagerInv /\ Promise!Init
<1> SUFFICES ASSUME Init PROVE EagerInv /\ Promise!Init
  OBVIOUS
<1>1. db = EmptyStore(0) /\ events = << >>
  BY DEF Init
<1>2. /\ StoreOK(db) /\ WaitingIn(db) = {} /\ OutIn(db) = {}
      /\ VerdictIn(db) = [r \in {} |-> "none"]
  BY <1>1, Clearing
<1>3. << >> \in Seq({})
  OBVIOUS
<1>4. \A c \in {} : IsOutcome(c)
  OBVIOUS
<1>5. CallsOK(events)
  <2>1. \A S : S = {} => << >> \in Seq(S) /\ \A c \in S : IsOutcome(c)
    BY <1>3, <1>4
  <2>2. PICK S : S = {}
    OBVIOUS
  <2> QED
    BY <1>1, <2>1, <2>2 DEF CallsOK
<1> QED
  BY <1>2, <1>5 DEF EagerInv, Promise!Init, WaitingIn, OutIn, VerdictIn

\* A step on the store is a step of the promise.
LEMMA PromiseMapped ==
  ASSUME PromiseStep(db, db')
  PROVE  [Promise!Next]_Promise!vars
<1>1. CASE AcceptStep(db, db')
  <2>1. Promise!Accept
    BY <1>1 DEF AcceptStep, Promise!Accept, WaitingIn, OutIn, VerdictIn
  <2> QED
    BY <2>1 DEF Promise!Next
<1>2. CASE HandOutStep(db, db')
  <2>1. Promise!HandOut
    BY <1>2 DEF HandOutStep, Promise!HandOut, WaitingIn, OutIn, VerdictIn
  <2> QED
    BY <2>1 DEF Promise!Next
<1>3. CASE SettleStep(db, db')
  <2>1. Promise!Settle
    BY <1>3 DEF SettleStep, Promise!Settle, WaitingIn, OutIn, VerdictIn
  <2> QED
    BY <2>1 DEF Promise!Next
<1>4. CASE WithdrawStep(db, db')
  <2>1. Promise!Withdraw
    BY <1>4 DEF WithdrawStep, Promise!Withdraw, WaitingIn, OutIn, VerdictIn
  <2> QED
    BY <2>1 DEF Promise!Next
<1>5. CASE ArchiveStep(db, db')
  <2>1. Promise!Archive
    BY <1>5 DEF ArchiveStep, Promise!Archive, WaitingIn, OutIn, VerdictIn
  <2> QED
    BY <2>1 DEF Promise!Next
<1>6. CASE SameView(db, db')
  BY <1>6 DEF SameView, Promise!vars, WaitingIn, OutIn, VerdictIn
<1> QED
  BY <1>1, <1>2, <1>3, <1>4, <1>5, <1>6 DEF PromiseStep

\* Every step of the session keeps the invariant and is a step of the promise.
LEMMA EagerSteps ==
  ASSUME EagerInv, [Next]_vars
  PROVE  EagerInv' /\ [Promise!Next]_Promise!vars
<1>1. CASE Next
  <2>1. Good
    BY <1>1, UserSteps, CallSteps, ThreadSteps DEF Next
  <2>2. StoreOK(db)' /\ CallsOK(events)'
    BY <2>1 DEF Good
  <2> QED
    BY <2>1, <2>2, PromiseMapped DEF Good, EagerInv
<1>2. CASE UNCHANGED vars
  <2>1. db' = db /\ events' = events
    BY <1>2 DEF vars
  <2>2. Good
    BY <2>1, Unchanged DEF EagerInv
  <2> QED
    BY <2>2, PromiseMapped DEF Good, EagerInv
<1> QED
  BY <1>1, <1>2

\* A run without a database keeps the same promise as one with it, for any
\* folders and images, with every user action and fault, early stops and late
\* confirmations: a request waits, is out or is settled, what is settled keeps its
\* outcome until a reset, and only waiting requests are deleted. The invariant
\* adds what the deletion relies on (a task is in the list of its own folder) and
\* that only answers with an outcome reach ApplyResult.
THEOREM EagerKeepsPromise == Spec => KeepsPromise
<1>1. Init => EagerInv /\ Promise!Init
  BY EagerStart
<1>2. EagerInv /\ [Next]_vars => EagerInv' /\ [Promise!Next]_Promise!vars
  BY EagerSteps
<1> QED
  BY <1>1, <1>2, PTL DEF Spec, KeepsPromise, Promise!Spec

-----------------------------------------------------------------------------
(* The lists of the store: each folder once, each of its tasks once. *)

\* Two lists without common members.
LEMMA ConcatEnumerates ==
  ASSUME NEW A, NEW B, NEW s, NEW t, Enumerates(s, A), Enumerates(t, B), A \cap B = {}
  PROVE  Enumerates(s \o t, A \cup B)
<1> DEFINE U == A \cup B
           m == s \o t
<1>1. /\ s \in Seq(A) /\ t \in Seq(B) /\ Len(s) \in Nat /\ Len(t) \in Nat
      /\ DOMAIN s = 1..Len(s) /\ DOMAIN t = 1..Len(t)
  BY DEF Enumerates
<1>2. s \in Seq(U) /\ t \in Seq(U)
  BY <1>1
<1>3. /\ m \in Seq(U) /\ DOMAIN m = 1..Len(s) + Len(t)
      /\ \A i \in 1..Len(s) + Len(t) : m[i] = IF i <= Len(s) THEN s[i] ELSE t[i - Len(s)]
  BY <1>2
<1> HIDE DEF m
<1>4. \A i \in 1..Len(s) + Len(t) :
        \/ i \in 1..Len(s) /\ m[i] = s[i] /\ m[i] \in A
        \/ i - Len(s) \in 1..Len(t) /\ m[i] = t[i - Len(s)] /\ m[i] \in B
  BY <1>1, <1>3
<1>5. ASSUME NEW i \in DOMAIN m, NEW j \in DOMAIN m, m[i] = m[j] PROVE i = j
  <2>1. \/ i \in 1..Len(s) /\ j \in 1..Len(s) /\ s[i] = s[j]
        \/ /\ i - Len(s) \in 1..Len(t) /\ j - Len(s) \in 1..Len(t)
           /\ t[i - Len(s)] = t[j - Len(s)]
    BY <1>3, <1>4, <1>5
  <2>2. i = j \/ i - Len(s) = j - Len(s)
    BY <1>1, <2>1 DEF Enumerates
  <2> QED
    BY <1>1, <1>3, <2>2
<1>6. ASSUME NEW x \in U PROVE \E i \in DOMAIN m : m[i] = x
  <2>1. CASE x \in A
    <3>1. PICK i \in 1..Len(s) : s[i] = x
      BY <1>1, <2>1 DEF Enumerates
    <3>2. i \in DOMAIN m /\ m[i] = x
      BY <1>1, <1>3, <3>1
    <3> QED
      BY <3>2
  <2>2. CASE x \in B
    <3>1. PICK i \in 1..Len(t) : t[i] = x
      BY <1>1, <2>2 DEF Enumerates
    <3>2. i + Len(s) \in DOMAIN m /\ ~(i + Len(s) <= Len(s)) /\ (i + Len(s)) - Len(s) = i
      BY <1>1, <1>3, <3>1
    <3>3. m[i + Len(s)] = x
      BY <1>3, <3>1, <3>2
    <3> QED
      BY <3>2, <3>3
  <2> QED
    BY <2>1, <2>2
<1> QED
  BY <1>3, <1>5, <1>6 DEF Enumerates, m

LEMMA EnumeratesMembers ==
  ASSUME NEW C, NEW l, Enumerates(l, C)
  PROVE  ToSet(l) = C
<1>1. l \in Seq(C) /\ DOMAIN l = 1..Len(l)
  BY DEF Enumerates
<1>2. \A i \in DOMAIN l : l[i] \in C
  BY <1>1
<1> QED
  BY <1>2 DEF Enumerates, ToSet

\* A finite set in some order has every member once.
LEMMA SetToSeqEnumerates ==
  ASSUME NEW S, IsFiniteSet(S)
  PROVE  Enumerates(SetToSeq(S), S)
<1> DEFINE n == Cardinality(S)
<1>1. n \in Nat /\ ExistsBijection(1..n, S)
  BY FS_CardinalityType
<1>2. \E f \in [1..n -> S] : IsInjective(f)
  BY <1>1 DEF ExistsBijection, Bijection, Injection
<1>3. SetToSeq(S) \in [1..n -> S] /\ IsInjective(SetToSeq(S))
  BY <1>2 DEF SetToSeq
<1>4. ToSet(SetToSeq(S)) = S /\ SetToSeq(S) \in Seq(S)
  BY SetToSeqFacts
<1> QED
  BY <1>3, <1>4 DEF Enumerates, ToSet, IsInjective

OfFolder(d, f) == {t \in Known(d) : t.folder = f}
ListsFit(d) ==
  /\ Enumerates(d.order, Grouped(d)) /\ Grouped(d) \subseteq Folders
  /\ \A t \in Known(d) : t.folder \in Grouped(d) /\ t.life <= d.life
  /\ \A f \in Folders : Enumerates(d.ids[f], OfFolder(d, f))
StoreFits(d) == StoreOK(d) /\ ListsFit(d)

\* A change of status: nothing that is done is undone, and nothing waits again.
Moved(d, e) ==
  /\ e.order = d.order /\ e.ids = d.ids /\ e.life = d.life /\ Known(e) = Known(d)
  /\ \A t \in Known(d) :
       /\ d.status[t] \in Done => e.status[t] \in Done
       /\ e.status[t] = "PENDING" => d.status[t] = "PENDING"

LEMMA MovedFits ==
  ASSUME NEW d, NEW e, ListsFit(d), Moved(d, e)
  PROVE  ListsFit(e)
<1>1. Grouped(e) = Grouped(d) /\ \A f : OfFolder(e, f) = OfFolder(d, f)
  BY DEF Moved, Grouped, OfFolder
<1> QED
  BY <1>1 DEF Moved, ListsFit

\* What each report does to the store.
LEMMA Marking ==
  ASSUME NEW d, StoreFits(d), NEW t, NEW v \in Done, NEW T
  PROVE  /\ StoreFits(MarkSent(d, t)) /\ Moved(d, MarkSent(d, t))
         /\ WaitingIn(MarkSent(d, t)) = WaitingIn(d) \ {t}
         /\ StoreFits(MarkError(d, t)) /\ Moved(d, MarkError(d, t))
         /\ WaitingIn(MarkError(d, t)) = WaitingIn(d) \ {t}
         /\ StoreFits(ApplyResult(d, t, v)) /\ Moved(d, ApplyResult(d, t, v))
         /\ WaitingIn(ApplyResult(d, t, v)) = WaitingIn(d) \ {t}
         /\ StoreFits(MarkRunning(d)) /\ Moved(d, MarkRunning(d))
         /\ WaitingIn(MarkRunning(d)) = WaitingIn(d)
         /\ StoreFits(MarkTimeouts(d, T)) /\ Moved(d, MarkTimeouts(d, T))
         /\ WaitingIn(MarkTimeouts(d, T)) = WaitingIn(d)
<1>1. ASSUME NEW R, NEW x \in Statuses, x # "PENDING",
             R \cap AllIn(d, Done) = {} \/ x \in Done
      PROVE  /\ StoreFits(SetTo(d, R, x)) /\ Moved(d, SetTo(d, R, x))
             /\ WaitingIn(SetTo(d, R, x)) = WaitingIn(d) \ R
  <2> DEFINE e == SetTo(d, R, x)
  <2>1. /\ StoreOK(e) /\ Known(e) = Known(d)
        /\ \A u \in Known(d) : e.status[u] = IF u \in R THEN x ELSE d.status[u]
    BY SetToFacts DEF StoreFits
  <2>2. e.order = d.order /\ e.ids = d.ids /\ e.life = d.life
    BY Zenon DEF SetTo, StoreOK, StoreFits
  <2> HIDE DEF e
  <2>3. Moved(d, e)
    BY <1>1, <2>1, <2>2 DEF Moved, AllIn
  <2>4. WaitingIn(e) = WaitingIn(d) \ R
    BY <1>1, <2>1 DEF WaitingIn, AllIn
  <2>5. StoreFits(e)
    BY <2>1, <2>3, MovedFits DEF StoreFits
  <2> QED
    BY <2>3, <2>4, <2>5 DEF e
<1>2. /\ {"SENT", "RUNNING", "ERROR", "TIMEOUT"} \subseteq Statuses /\ v \in Statuses
      /\ v # "PENDING"
  BY DisjointStatuses
<1>3. /\ StoreFits(MarkSent(d, t)) /\ Moved(d, MarkSent(d, t))
      /\ WaitingIn(MarkSent(d, t)) = WaitingIn(d) \ {t}
  <2> DEFINE R == {t} \cap AllIn(d, {"PENDING"})
  <2>1. R \cap AllIn(d, Done) = {} /\ WaitingIn(d) \ R = WaitingIn(d) \ {t}
    BY DisjointStatuses DEF AllIn, WaitingIn
  <2>2. MarkSent(d, t) = SetTo(d, R, "SENT")
    BY DEF MarkSent
  <2> HIDE DEF R
  <2> QED
    BY <1>1, <1>2, <2>1, <2>2
<1>4. ASSUME NEW x \in Done
      PROVE  LET e == SetTo(d, {t} \ AllIn(d, Done), x)
             IN  StoreFits(e) /\ Moved(d, e) /\ WaitingIn(e) = WaitingIn(d) \ {t}
  <2> DEFINE R == {t} \ AllIn(d, Done)
  <2>1. WaitingIn(d) \ R = WaitingIn(d) \ {t}
    BY DisjointStatuses DEF AllIn, WaitingIn
  <2>2. x \in Statuses /\ x # "PENDING"
    BY DisjointStatuses
  <2> HIDE DEF R
  <2>3. /\ StoreFits(SetTo(d, R, x)) /\ Moved(d, SetTo(d, R, x))
        /\ WaitingIn(SetTo(d, R, x)) = WaitingIn(d) \ {t}
    BY <1>1, <2>1, <2>2
  <2> QED
    BY <2>3 DEF R
<1>5. /\ StoreFits(MarkError(d, t)) /\ Moved(d, MarkError(d, t))
      /\ WaitingIn(MarkError(d, t)) = WaitingIn(d) \ {t}
  BY <1>4, DisjointStatuses DEF MarkError
<1>6. /\ StoreFits(ApplyResult(d, t, v)) /\ Moved(d, ApplyResult(d, t, v))
      /\ WaitingIn(ApplyResult(d, t, v)) = WaitingIn(d) \ {t}
  BY <1>4 DEF ApplyResult
<1>7. /\ StoreFits(MarkRunning(d)) /\ Moved(d, MarkRunning(d))
      /\ WaitingIn(MarkRunning(d)) = WaitingIn(d)
  <2> DEFINE R == AllIn(d, {"SENT"})
  <2>1. R \cap AllIn(d, Done) = {} /\ WaitingIn(d) \ R = WaitingIn(d)
    BY DisjointStatuses DEF AllIn, WaitingIn
  <2>2. MarkRunning(d) = SetTo(d, R, "RUNNING")
    BY DEF MarkRunning
  <2> HIDE DEF R
  <2> QED
    BY <1>1, <1>2, <2>1, <2>2
<1>8. /\ StoreFits(MarkTimeouts(d, T)) /\ Moved(d, MarkTimeouts(d, T))
      /\ WaitingIn(MarkTimeouts(d, T)) = WaitingIn(d)
  <2> DEFINE R == T \cap AllIn(d, Inflight)
  <2>1. R \cap AllIn(d, Done) = {} /\ WaitingIn(d) \ R = WaitingIn(d)
    BY DisjointStatuses DEF AllIn, WaitingIn
  <2>2. MarkTimeouts(d, T) = SetTo(d, R, "TIMEOUT")
    BY DEF MarkTimeouts
  <2> HIDE DEF R
  <2> QED
    BY <1>1, <1>2, <2>1, <2>2
<1> QED
  BY <1>3, <1>5, <1>6, <1>7, <1>8

\* What a registration adds: its folder, and tasks of it that were never known.
Extended(d, e, f, items, new) ==
  /\ Known(e) = Known(d) \cup new /\ new \cap Known(d) = {} /\ e.life = d.life
  /\ \A t \in new : t \in Requests /\ t.folder = f /\ t.life = d.life /\ t.item \in items
  /\ \A t \in new : \A u \in OfFolder(d, f) : u.item # t.item
  /\ \A t \in Known(d) : e.status[t] = d.status[t]
  /\ \A t \in new : e.status[t] = "PENDING"
  /\ \A i \in items : \E t \in OfFolder(e, f) : t.item = i
  /\ items # {} => Grouped(e) = Grouped(d) \cup {f}
  /\ items = {} => e = d
  /\ new = {} => Grouped(e) \subseteq Grouped(d) \cup {f}

LEMMA RegisteringFits ==
  ASSUME NEW d, StoreFits(d), NEW f \in Folders, NEW items \in SUBSET Items[f]
  PROVE  LET e == RegisterFolder(d, f, items)
         IN  StoreFits(e) /\ \E new : Extended(d, e, f, items, new)
<1> DEFINE e == RegisterFolder(d, f, items)
           new == Unregistered(d, f, items)
           row == SetToSeq(new)
<1>0. StoreOK(e)
  BY Registering DEF StoreFits
<1>1. CASE items = {}
  <2>1. e = d
    BY <1>1 DEF RegisterFolder
  <2>2. Extended(d, e, f, items, {})
    BY <1>1, <2>1 DEF Extended
  <2> QED
    BY <2>1, <2>2
<1>2. CASE items # {}
  <2>1. /\ IsFiniteSet(new) /\ new \subseteq Requests /\ new \cap Known(d) = {}
        /\ \A t \in new : t.folder = f
    BY UnregisteredFacts DEF StoreFits
  <2>2. ASSUME NEW t \in new
        PROVE  t.life = d.life /\ t.item \in items /\ \A u \in OfFolder(d, f) : u.item # t.item
    <3> DEFINE index == {u.item : u \in {x \in Known(d) : x.folder = f}}
    <3>1. PICK i \in items \ index : t = [folder |-> f, item |-> i, life |-> d.life]
      BY DEF Unregistered
    <3>2. \A u \in OfFolder(d, f) : u.item \in index
      BY DEF OfFolder
    <3> QED
      BY <3>1, <3>2
  <2>3. ASSUME NEW i \in items PROVE \E t \in Known(d) \cup new : t.folder = f /\ t.item = i
    <3> DEFINE index == {t.item : t \in {u \in Known(d) : u.folder = f}}
               row1 == [folder |-> f, item |-> i, life |-> d.life]
    <3>1. new = {[folder |-> f, item |-> j, life |-> d.life] : j \in items \ index}
      BY DEF Unregistered
    <3>2. CASE i \in index
      <4>1. PICK t \in {u \in Known(d) : u.folder = f} : t.item = i
        BY <3>2
      <4> QED
        BY <4>1
    <3>3. CASE i \notin index
      <4>1. row1 \in new /\ row1.folder = f /\ row1.item = i
        BY <3>1, <3>3
      <4> QED
        BY <4>1
    <3> QED
      BY <3>2, <3>3
  <2>4. Enumerates(row, new)
    BY <2>1, SetToSeqEnumerates
  <2> HIDE DEF new, row
  <2>5. /\ e.life = d.life /\ e.order = IF f \in ToSet(d.order) THEN d.order ELSE Append(d.order, f)
        /\ e.ids = [d.ids EXCEPT ![f] = @ \o row]
        /\ e.status = [t \in Known(d) \cup new |-> IF t \in new THEN "PENDING" ELSE d.status[t]]
    BY <1>2, Zenon DEF RegisterFolder, StoreFits, StoreOK, Known, new, row
  <2> HIDE DEF e
  <2>6. Known(e) = Known(d) \cup new
    BY <2>5 DEF Known
  <2>7. OfFolder(e, f) = OfFolder(d, f) \cup new /\ \A g : g # f => OfFolder(e, g) = OfFolder(d, g)
    BY <2>1, <2>6 DEF OfFolder
  <2>8. Enumerates(d.ids[f] \o row, OfFolder(d, f) \cup new)
    <3>1. OfFolder(d, f) \cap new = {} /\ Enumerates(d.ids[f], OfFolder(d, f))
      BY <2>1 DEF OfFolder, StoreFits, ListsFit
    <3> QED
      BY <2>4, <3>1, ConcatEnumerates
  <2>9. \A g \in Folders : Enumerates(e.ids[g], OfFolder(e, g))
    BY <2>5, <2>7, <2>8 DEF StoreFits, ListsFit, StoreOK
  <2>10. Enumerates(e.order, Grouped(e)) /\ Grouped(e) = Grouped(d) \cup {f}
    <3>1. CASE f \in ToSet(d.order)
      BY <2>5, <3>1 DEF StoreFits, ListsFit, Grouped
    <3>2. CASE f \notin ToSet(d.order)
      <4>1. e.order = Append(d.order, f) /\ Enumerates(d.order, Grouped(d)) /\ f \notin Grouped(d)
        BY <2>5, <3>2 DEF StoreFits, ListsFit, Grouped
      <4>2. Enumerates(e.order, Grouped(d) \cup {f})
        BY <4>1, AppendEnumerates
      <4>3. Grouped(e) = Grouped(d) \cup {f}
        BY <4>2, EnumeratesMembers DEF Grouped
      <4> QED
        BY <4>2, <4>3
    <3> QED
      BY <3>1, <3>2
  <2>11. ASSUME NEW t \in Known(e) PROVE t.folder \in Grouped(e) /\ t.life <= e.life
    BY <2>1, <2>2, <2>5, <2>6, <2>10 DEF StoreFits, ListsFit, StoreOK
  <2>12. ListsFit(e)
    BY <2>9, <2>10, <2>11 DEF StoreFits, ListsFit
  <2>13. \A i \in items : \E t \in OfFolder(e, f) : t.item = i
    BY <2>3, <2>6 DEF OfFolder
  <2>14. Extended(d, e, f, items, new)
    BY <1>2, <2>1, <2>2, <2>5, <2>6, <2>10, <2>13 DEF Extended
  <2> QED
    BY <1>0, <2>12, <2>14 DEF StoreFits, e
<1> QED
  BY <1>1, <1>2

\* What a deletion takes: folders with all of their tasks, each of them waiting.
Reduced(d, e, R) ==
  /\ Known(e) = {t \in Known(d) : t.folder \notin R} /\ Grouped(e) = Grouped(d) \ R
  /\ \A t \in Known(e) : e.status[t] = d.status[t]
  /\ e.life = d.life + 1
  /\ \A f \in Folders \ R : e.ids[f] = d.ids[f]

LEMMA RemovingFits ==
  ASSUME NEW d, StoreFits(d), NEW S, Removable(d, S) # {}
  PROVE  /\ StoreFits(RemoveFolders(d, S)) /\ Reduced(d, RemoveFolders(d, S), Removable(d, S))
         /\ Removable(d, S) \subseteq Grouped(d)
<1> DEFINE e == RemoveFolders(d, S)
           R == Removable(d, S)
           kept == {t \in Known(d) : t.folder \notin R}
<1>0. StoreOK(e) /\ R \subseteq Grouped(d)
  BY Removing DEF StoreFits, Removable
<1>1. /\ e.order = Only(d.order, Grouped(d) \ R)
      /\ e.ids = [f \in Folders |-> IF f \in R THEN << >> ELSE d.ids[f]]
      /\ e.status = [t \in kept |-> d.status[t]] /\ e.life = d.life + 1
  BY DEF RemoveFolders
<1> HIDE DEF e, R
<1>2. Known(e) = kept
  BY <1>1 DEF Known
<1>3. Enumerates(e.order, Grouped(d) \ R)
  <2>1. d.order \in Seq(Grouped(d)) /\ Enumerates(d.order, Grouped(d))
    BY DEF StoreFits, ListsFit, Enumerates
  <2>2. Enumerates(Only(d.order, Grouped(d) \ R), Grouped(d) \cap (Grouped(d) \ R))
    BY <2>1, OnlyFacts
  <2>3. Grouped(d) \cap (Grouped(d) \ R) = Grouped(d) \ R
    OBVIOUS
  <2> QED
    BY <1>1, <2>2, <2>3
<1>4. Grouped(e) = Grouped(d) \ R
  BY <1>3 DEF Enumerates, Grouped, ToSet
<1>5. ASSUME NEW f \in Folders PROVE Enumerates(e.ids[f], OfFolder(e, f))
  <2>1. CASE f \in R
    <3>1. OfFolder(e, f) = {} /\ e.ids[f] = << >>
      BY <1>1, <1>2, <2>1 DEF OfFolder
    <3> QED
      BY <3>1 DEF Enumerates
  <2>2. CASE f \notin R
    <3>1. OfFolder(e, f) = OfFolder(d, f) /\ e.ids[f] = d.ids[f]
      BY <1>1, <1>2, <2>2 DEF OfFolder
    <3> QED
      BY <3>1 DEF StoreFits, ListsFit
  <2> QED
    BY <2>1, <2>2
<1>6. ASSUME NEW t \in Known(e) PROVE t.folder \in Grouped(e) /\ t.life <= e.life
  <2>1. t \in Known(d) /\ t.folder \notin R
    BY <1>2
  <2>2. t.folder \in Grouped(d) /\ t.life <= d.life /\ t.life \in Nat /\ d.life \in Nat
    BY <2>1 DEF StoreFits, ListsFit, StoreOK, Requests
  <2> QED
    BY <1>1, <1>4, <2>1, <2>2
<1>7. ListsFit(e)
  BY <1>3, <1>4, <1>5, <1>6 DEF StoreFits, ListsFit
<1>8. Reduced(d, e, R)
  BY <1>1, <1>2, <1>4 DEF Reduced
<1> QED
  BY <1>0, <1>7, <1>8 DEF StoreFits, e, R

LEMMA ClearingFits ==
  ASSUME NEW life \in Nat
  PROVE  StoreFits(EmptyStore(life)) /\ Known(EmptyStore(life)) = {} /\ Grouped(EmptyStore(life)) = {}
<1> DEFINE e == EmptyStore(life)
<1>1. /\ e.order = << >> /\ e.ids = [f \in Folders |-> << >>] /\ e.status = << >>
      /\ StoreOK(e)
  BY Clearing DEF EmptyStore
<1> HIDE DEF e
<1>2. Known(e) = {} /\ Grouped(e) = {} /\ \A f : OfFolder(e, f) = {}
  BY <1>1 DEF Known, Grouped, ToSet, OfFolder
<1>3. Enumerates(<< >>, {})
  BY DEF Enumerates
<1>4. ListsFit(e)
  BY <1>1, <1>2, <1>3 DEF ListsFit
<1> QED
  BY <1>1, <1>2, <1>4 DEF StoreFits, e

-----------------------------------------------------------------------------
(* The schedule: the batches, those taken, and the threads they go to. *)

CtlFields == DOMAIN FreshController
Batches == [folder : Folders, ids : Seq(Requests)]

Shaped(s) ==
  /\ HasFields(s) /\ DOMAIN s.ctl = CtlFields
  /\ s.ctl.batches \in Seq(Batches) /\ s.ctl.next \in 0..Len(s.ctl.batches)

\* Batches are of folders in the store, and each holds tasks of its own folder.
ScheduleFits(s) ==
  /\ Shaped(s) /\ FoldersOf(s.ctl.batches) \subseteq Grouped(s.db)
  /\ \A k \in DOMAIN s.ctl.batches : \A t \in ToSet(s.ctl.batches[k].ids) :
       t.folder = s.ctl.batches[k].folder

LEMMA CtlNames ==
  CtlFields = {"active", "finished", "batches", "next", "opened", "open", "scheduled",
               "pub", "poll"}
BY DEF CtlFields, FreshController

\* Two parts of a list.
Cut(b, n) ==
  LET s == SubSeq(b, 1, n)
      u == SubSeq(b, n + 1, Len(b))
  IN  /\ Len(s) = n /\ DOMAIN s = 1..n /\ \A i \in 1..n : s[i] = b[i]
      /\ Len(u) = Len(b) - n /\ DOMAIN u = 1..Len(b) - n
      /\ \A i \in 1..Len(b) - n : u[i] = b[n + i]

LEMMA Parts ==
  ASSUME NEW A, NEW b \in Seq(A), NEW n \in 0..Len(b)
  PROVE  SubSeq(b, 1, n) \in Seq(A) /\ SubSeq(b, n + 1, Len(b)) \in Seq(A) /\ Cut(b, n)
<1>1. n \in Nat /\ Len(b) \in Nat /\ n <= Len(b)
  OBVIOUS
<1>2. /\ SubSeq(b, 1, n) \in Seq(A) /\ Len(SubSeq(b, 1, n)) = n
      /\ DOMAIN SubSeq(b, 1, n) = 1..n /\ \A i \in 1..n : SubSeq(b, 1, n)[i] = b[i]
  BY <1>1
<1>3. /\ SubSeq(b, n + 1, Len(b)) \in Seq(A) /\ Len(SubSeq(b, n + 1, Len(b))) = Len(b) - n
      /\ DOMAIN SubSeq(b, n + 1, Len(b)) = 1..Len(b) - n
      /\ \A i \in 1..Len(b) - n : SubSeq(b, n + 1, Len(b))[i] = b[n + i]
  BY <1>1
<1> QED
  BY <1>2, <1>3 DEF Cut

\* The folders of the first batches.
FoldersUpTo(b, n) == {b[k].folder : k \in 1..n}

LEMMA TakenFolders ==
  ASSUME NEW s, Shaped(s)
  PROVE  /\ FoldersOf(Taken(s)) = FoldersUpTo(s.ctl.batches, s.ctl.next)
         /\ FoldersOf(s.ctl.batches) = FoldersUpTo(s.ctl.batches, Len(s.ctl.batches))
         /\ Remaining(s) = Len(s.ctl.batches) - s.ctl.next
<1> DEFINE b == s.ctl.batches
           n == s.ctl.next
<1>1. b \in Seq(Batches) /\ n \in 0..Len(b) /\ Len(b) \in Nat /\ DOMAIN b = 1..Len(b)
  BY DEF Shaped
<1>0. Taken(s) = SubSeq(b, 1, n) /\ Remaining(s) = Len(SubSeq(b, n + 1, Len(b)))
  BY DEF Taken, Remaining, Untaken
<1> HIDE DEF b, n
<1>2. /\ DOMAIN Taken(s) = 1..n /\ \A i \in 1..n : Taken(s)[i] = b[i]
      /\ Remaining(s) = Len(b) - n
  <2>1. /\ DOMAIN SubSeq(b, 1, n) = 1..n /\ \A i \in 1..n : SubSeq(b, 1, n)[i] = b[i]
        /\ Len(SubSeq(b, n + 1, Len(b))) = Len(b) - n
    <3>1. Cut(b, n)
      BY <1>1, Parts
    <3> QED
      BY <3>1 DEF Cut
  <2> QED
    BY <1>0, <2>1, Zenon
<1>3. FoldersOf(Taken(s)) = FoldersUpTo(b, n)
  BY <1>2 DEF FoldersOf, FoldersUpTo
<1>4. FoldersOf(b) = FoldersUpTo(b, Len(b))
  BY <1>1 DEF FoldersOf, FoldersUpTo
<1> QED
  BY <1>2, <1>3, <1>4 DEF b, n

LEMMA FewFolders ==
  ASSUME NEW b, NEW n \in Nat
  PROVE  IsFiniteSet(FoldersUpTo(b, n)) /\ Cardinality(FoldersUpTo(b, n)) <= n
<1> DEFINE F == FoldersUpTo(b, n)
           I == 1..n
           g == [k \in I |-> b[k].folder]
<1>1. IsFiniteSet(I) /\ Cardinality(I) = n
  BY CountUpTo
<1>2. g \in Surjection(I, F)
  BY DEF Surjection, FoldersUpTo
<1> HIDE DEF g, F, I
<1>3. IsFiniteSet(F) /\ Cardinality(F) <= Cardinality(I)
  BY <1>1, <1>2, FS_Surjection
<1> QED
  BY <1>1, <1>3 DEF F

\* Min and Max of two numbers.
LEMMA TwoNumbers ==
  ASSUME NEW a \in Int, NEW c \in Int
  PROVE  /\ Min({a, c}) = IF a <= c THEN a ELSE c
         /\ Max({a, c}) = IF a <= c THEN c ELSE a
<1>1. \E x \in {a, c} : \A y \in {a, c} : x <= y
  <2>1. CASE a <= c
    BY <2>1
  <2>2. CASE ~(a <= c)
    BY <2>2
  <2> QED
    BY <2>1, <2>2
<1>2. \E x \in {a, c} : \A y \in {a, c} : x >= y
  <2>1. CASE a <= c
    BY <2>1
  <2>2. CASE ~(a <= c)
    BY <2>2
  <2> QED
    BY <2>1, <2>2
<1>3. Min({a, c}) \in {a, c} /\ \A y \in {a, c} : Min({a, c}) <= y
  BY <1>1 DEF Min
<1>4. Max({a, c}) \in {a, c} /\ \A y \in {a, c} : Max({a, c}) >= y
  BY <1>2 DEF Max
<1> QED
  BY <1>3, <1>4

\* What the dispatcher does when it opens nothing.
Rested(s, r) ==
  /\ SameStore(s, r) /\ r.pubs = s.pubs /\ r.polls = s.polls /\ DOMAIN r.ctl = CtlFields
  /\ r.ctl.batches = s.ctl.batches /\ r.ctl.next = s.ctl.next
  /\ r.ctl.scheduled = s.ctl.scheduled /\ r.ctl.active = s.ctl.active
  /\ r.ctl.finished = s.ctl.finished /\ r.ctl.poll = s.ctl.poll
  /\ r.ctl.pub # s.ctl.pub => r.ctl.pub = NoSlot /\ ~PubRunning(s) /\ s.ctl.finished

\* And when it opens n batches in a situation r.
OpenedFrom(r, u, n) ==
  /\ SameStore(r, u) /\ u.polls = r.polls /\ DOMAIN u.ctl = CtlFields
  /\ u.ctl.batches = r.ctl.batches /\ u.ctl.next = r.ctl.next + n
  /\ u.ctl.scheduled = r.ctl.scheduled /\ u.ctl.active = r.ctl.active
  /\ u.ctl.finished = FALSE /\ u.ctl.poll = r.ctl.poll
  /\ LET p == Min(UnusedPubs(r))
         todo == Joined(SubSeq(Untaken(r), 1, n))
     IN  /\ u.ctl.pub = p
         /\ u.pubs = [r.pubs EXCEPT ![p] = [NoThread EXCEPT !.run = "connecting", !.todo = todo]]

LEMMA OpeningDoes ==
  ASSUME NEW r, Shaped(r), NEW count \in Nat \ {0}, Remaining(r) # 0
  PROVE  \E n \in 1..Remaining(r) : n <= count /\ OpenedFrom(r, OpenBatches(r, count), n)
<1> DEFINE n == Min({count, Remaining(r)})
           t == Take(r, count)
           c == [r.ctl EXCEPT !.next = @ + n, !.opened = @ \cup FoldersOf(SubSeq(Untaken(r), 1, n)),
                              !.open = @ \cup FoldersOf(SubSeq(Untaken(r), 1, n))]
           todo == Joined(SubSeq(Untaken(r), 1, n))
           v == [t EXCEPT !.ctl.finished = FALSE]
           u == OpenBatches(r, count)
<1>1. Remaining(r) \in Nat
  BY TakenFolders DEF Shaped
<1>2. n \in 1..Remaining(r) /\ n <= count
  BY <1>1, TwoNumbers
<1>3. t = [r EXCEPT !.ctl = c]
  BY Zenon DEF Take
<1>4. u = StartPublisher(v, todo)
  BY Zenon DEF OpenBatches
<1> HIDE DEF n, t, u, todo
<1>5. /\ DOMAIN c = CtlFields /\ c.batches = r.ctl.batches /\ c.next = r.ctl.next + n
      /\ c.scheduled = r.ctl.scheduled /\ c.active = r.ctl.active /\ c.poll = r.ctl.poll
      /\ c.pub = r.ctl.pub
  BY CtlNames DEF Shaped
<1> HIDE DEF c
<1>6. /\ HasFields(t) /\ t.ctl = c /\ t.db = r.db /\ t.events = r.events
      /\ t.pubs = r.pubs /\ t.polls = r.polls
  BY <1>3 DEF Shaped, HasFields
<1> DEFINE cv == [c EXCEPT !.finished = FALSE]
<1>7. v = [t EXCEPT !.ctl = cv]
  BY <1>6
<1>8. /\ DOMAIN cv = CtlFields /\ cv.batches = c.batches /\ cv.next = c.next /\ cv.finished = FALSE
      /\ cv.scheduled = c.scheduled /\ cv.active = c.active /\ cv.poll = c.poll /\ cv.pub = c.pub
  BY <1>5, CtlNames
<1> HIDE DEF cv, v
<1>9. /\ HasFields(v) /\ v.ctl = cv /\ v.db = r.db /\ v.events = r.events
      /\ v.pubs = r.pubs /\ v.polls = r.polls
  BY <1>6, <1>7 DEF HasFields
<1>10. UnusedPubs(v) = UnusedPubs(r)
  BY <1>5, <1>8, <1>9 DEF UnusedPubs, Unused
<1> DEFINE p == Min(UnusedPubs(r))
           cu == [cv EXCEPT !.pub = p]
           ps == [r.pubs EXCEPT ![p] = [NoThread EXCEPT !.run = "connecting", !.todo = todo]]
<1>11. u = [v EXCEPT !.ctl = cu, !.pubs = ps]
  BY <1>4, <1>9, <1>10 DEF StartPublisher
<1>12. /\ DOMAIN cu = CtlFields /\ cu.batches = cv.batches /\ cu.next = cv.next
       /\ cu.finished = FALSE /\ cu.scheduled = cv.scheduled /\ cu.active = cv.active
       /\ cu.poll = cv.poll /\ cu.pub = p
  BY <1>8, CtlNames
<1> HIDE DEF cu, ps, p
<1>13. /\ HasFields(u) /\ u.ctl = cu /\ u.db = r.db /\ u.events = r.events
       /\ u.pubs = ps /\ u.polls = r.polls
  BY <1>9, <1>11 DEF HasFields
<1>14. OpenedFrom(r, u, n)
  BY <1>5, <1>8, <1>12, <1>13 DEF OpenedFrom, SameStore, p, ps, todo
<1> QED
  BY <1>2, <1>14 DEF u

\* The look at folders and thread that precedes the decision.
LEMMA LookingRests ==
  ASSUME NEW s, Shaped(s)
  PROVE  /\ Rested(s, PubChecked(Synchronized(s))) /\ Shaped(PubChecked(Synchronized(s)))
         /\ PubChecked(Synchronized(s)).ctl.open = Synchronized(s).ctl.open
<1> DEFINE q == Synchronized(s)
           r == PubChecked(q)
           c == q.ctl
<1>1. /\ HasFields(q) /\ q.db = s.db /\ q.events = s.events /\ q.pubs = s.pubs
      /\ q.polls = s.polls
  BY Zenon DEF Synchronized, HasFields, Shaped
<1>2. /\ DOMAIN c = CtlFields /\ c.batches = s.ctl.batches /\ c.next = s.ctl.next
      /\ c.scheduled = s.ctl.scheduled /\ c.active = s.ctl.active
      /\ c.finished = s.ctl.finished /\ c.poll = s.ctl.poll /\ c.pub = s.ctl.pub
  BY CtlNames, Zenon DEF Synchronized, Shaped, HasFields
<1> HIDE DEF q
<1>3. PubRunning(q) <=> PubRunning(s)
  BY <1>1, <1>2 DEF PubRunning
<1>4. \/ r = q
      \/ r = [q EXCEPT !.ctl = [c EXCEPT !.pub = NoSlot]] /\ ~PubRunning(s) /\ s.ctl.finished
  BY <1>2, <1>3, Zenon DEF PubChecked
<1> HIDE DEF r
<1>5. ASSUME r = q PROVE Rested(s, r) /\ Shaped(r) /\ r.ctl.open = q.ctl.open
  BY <1>1, <1>2, <1>5 DEF Rested, SameStore, Shaped
<1>6. ASSUME r = [q EXCEPT !.ctl = [c EXCEPT !.pub = NoSlot]],
             ~PubRunning(s) /\ s.ctl.finished
      PROVE  Rested(s, r) /\ Shaped(r) /\ r.ctl.open = q.ctl.open
  <2> DEFINE cr == [c EXCEPT !.pub = NoSlot]
  <2>1. /\ DOMAIN cr = CtlFields /\ cr.batches = c.batches /\ cr.next = c.next /\ cr.open = c.open
        /\ cr.scheduled = c.scheduled /\ cr.active = c.active
        /\ cr.finished = c.finished /\ cr.poll = c.poll /\ cr.pub = NoSlot
    BY <1>2, CtlNames
  <2> HIDE DEF cr
  <2>2. /\ HasFields(r) /\ r.ctl = cr /\ r.db = q.db /\ r.events = q.events
        /\ r.pubs = q.pubs /\ r.polls = q.polls
    BY <1>1, <1>6 DEF HasFields, cr
  <2>3. Rested(s, r) /\ Shaped(r)
    BY <1>1, <1>2, <1>6, <2>1, <2>2 DEF Rested, SameStore, Shaped
  <2> QED
    BY <2>1, <2>2, <2>3
<1>7. Rested(s, r) /\ Shaped(r) /\ r.ctl.open = q.ctl.open
  BY <1>4, <1>5, <1>6
<1> QED
  BY <1>7 DEF r, q

\* The folders the dispatcher counts as open.
LEMMA CountedOpen ==
  ASSUME NEW s, Shaped(s)
  PROVE  /\ {f \in FoldersOf(Taken(s)) \cap Grouped(s.db) : ~Finished(s.db, f)}
              \subseteq Synchronized(s).ctl.open
         /\ IsFiniteSet(Synchronized(s).ctl.open)
<1> DEFINE all == FoldersOf(s.ctl.batches)
           seen == (FoldersOf(Taken(s)) \cup (s.ctl.opened \cap all)) \cap Grouped(s.db)
           busy == {f \in all : InProgress(s.db, f)}
           open == {f \in seen : ~Finished(s.db, f)} \cup busy
<1>1. Synchronized(s).ctl.open = open
  BY CtlNames DEF Synchronized, Shaped, HasFields
<1>2. IsFiniteSet(all) /\ FoldersOf(Taken(s)) \subseteq all
  <2>1. IsFiniteSet(all)
    BY TakenFolders, FewFolders DEF Shaped
  <2>2. s.ctl.next \in Nat /\ Len(s.ctl.batches) \in Nat /\ s.ctl.next <= Len(s.ctl.batches)
    BY DEF Shaped
  <2>3. \A b, n, m : n \in Nat /\ m \in Nat /\ n <= m => FoldersUpTo(b, n) \subseteq FoldersUpTo(b, m)
    BY DEF FoldersUpTo
  <2>4. FoldersOf(Taken(s)) \subseteq all
    BY <2>2, <2>3, TakenFolders
  <2> QED
    BY <2>1, <2>4
<1>3. open \subseteq all
  BY <1>2
<1>4. IsFiniteSet(open)
  BY <1>2, <1>3, FS_Subset
<1> QED
  BY <1>1, <1>4

\* The whole decision: nothing, or some of the batches that are left, to a thread
\* of their own, and no more of them than there are slots for folders.
LEMMA DispatchDoes ==
  ASSUME NEW s, Shaped(s)
  PROVE  \/ Rested(s, Dispatch(s))
         \/ \E r, n :
              /\ Rested(s, r) /\ n \in 1..Remaining(s) /\ ~PubRunning(s)
              /\ Cardinality(Synchronized(s).ctl.open) + n <= MaxActive
              /\ OpenedFrom(r, Dispatch(s), n)
<1> DEFINE r == PubChecked(Synchronized(s))
           u == Dispatch(s)
<1>1. Rested(s, r) /\ Shaped(r) /\ r.ctl.open = Synchronized(s).ctl.open
  BY LookingRests
<1>2. \/ u = r
      \/ /\ Remaining(r) # 0 /\ ~PubRunning(r) /\ Slots(r) # 0
         /\ u = OpenBatches(r, Slots(r)) \/ u = OpenBatches(r, 1)
  BY Zenon DEF Dispatch
<1> HIDE DEF r, u
<1>3. Remaining(r) = Remaining(s)
  BY <1>1 DEF Rested, Remaining, Untaken
<1>4. PubRunning(s) => PubRunning(r)
  BY <1>1 DEF Rested, PubRunning
<1>5. ASSUME Slots(r) # 0
      PROVE  Slots(r) \in Nat \ {0} /\ Cardinality(Synchronized(s).ctl.open) + Slots(r) = MaxActive
  <2>1. Cardinality(r.ctl.open) \in Nat /\ MaxActive \in Nat
    BY <1>1, CountedOpen, FS_CardinalityType, EagerAssumption
  <2> DEFINE free == MaxActive - Cardinality(r.ctl.open)
  <2>2. free \in Int /\ Slots(r) = Max({0, free})
    BY <2>1 DEF Slots
  <2> HIDE DEF free
  <2>3. Max({0, free}) = IF 0 <= free THEN free ELSE 0
    BY <2>2, TwoNumbers
  <2> QED
    BY <1>1, <1>5, <2>1, <2>2, <2>3 DEF free
<1>6. ASSUME Remaining(r) # 0, ~PubRunning(r), Slots(r) # 0, NEW count \in {1, Slots(r)},
             u = OpenBatches(r, count)
      PROVE  \E n : /\ n \in 1..Remaining(s) /\ ~PubRunning(s)
                    /\ Cardinality(Synchronized(s).ctl.open) + n <= MaxActive
                    /\ OpenedFrom(r, u, n)
  <2>1. count \in Nat \ {0} /\ count <= Slots(r)
    BY <1>5, <1>6
  <2>2. PICK n \in 1..Remaining(r) : n <= count /\ OpenedFrom(r, u, n)
    BY <1>1, <1>6, <2>1, OpeningDoes
  <2>3. n \in Nat /\ Cardinality(Synchronized(s).ctl.open) \in Nat
    BY CountedOpen, FS_CardinalityType
  <2>4. Cardinality(Synchronized(s).ctl.open) + n <= MaxActive
    BY <1>5, <1>6, <2>1, <2>2, <2>3
  <2> QED
    BY <1>3, <1>4, <1>6, <2>2, <2>4
<1>7. CASE u = r
  BY <1>1, <1>7 DEF u
<1>8. CASE u # r
  <2>1. /\ Remaining(r) # 0 /\ ~PubRunning(r) /\ Slots(r) # 0
        /\ \E count \in {1, Slots(r)} : u = OpenBatches(r, count)
    BY <1>2, <1>8
  <2>2. \E n : /\ n \in 1..Remaining(s) /\ ~PubRunning(s)
               /\ Cardinality(Synchronized(s).ctl.open) + n <= MaxActive
               /\ OpenedFrom(r, u, n)
    BY <1>6, <2>1
  <2> QED
    BY <1>1, <2>2 DEF u
<1> QED
  BY <1>7, <1>8

-----------------------------------------------------------------------------
(* What each routine of the controller does to schedule and publishers. *)

\* Everything but the polling threads and what the controller says of them.
SamePublishing(s, r) ==
  /\ HasFields(r) /\ r.events = s.events /\ r.pubs = s.pubs
  /\ DOMAIN r.ctl = CtlFields
  /\ r.ctl.batches = s.ctl.batches /\ r.ctl.next = s.ctl.next
  /\ r.ctl.scheduled = s.ctl.scheduled /\ r.ctl.finished = s.ctl.finished
  /\ r.ctl.pub = s.ctl.pub

LEMMA PollingRoutines ==
  ASSUME NEW s, Shaped(s), NEW T, NEW U
  PROVE  /\ SamePublishing(s, StopPolling(s)) /\ SameStore(s, StopPolling(s))
         /\ StopPolling(s).ctl = s.ctl
         /\ SamePublishing(s, Tracking(s, T, U)) /\ SameStore(s, Tracking(s, T, U))
         /\ Tracking(s, T, U).ctl = s.ctl
         /\ SamePublishing(s, OnQueueReady(s)) /\ SameStore(s, OnQueueReady(s))
         /\ OnQueueReady(s).ctl.active = s.ctl.active
<1>1. ASSUME NEW ps PROVE LET r == [s EXCEPT !.polls = ps]
                          IN  SamePublishing(s, r) /\ SameStore(s, r) /\ r.ctl = s.ctl
  BY DEF Shaped, HasFields, SamePublishing, SameStore
<1>2. SamePublishing(s, s) /\ SameStore(s, s)
  BY DEF Shaped, SamePublishing, SameStore
<1>3. StopPolling(s) = s \/ \E ps : StopPolling(s) = [s EXCEPT !.polls = ps]
  <2> DEFINE ps == [s.polls EXCEPT ![s.ctl.poll].stop = TRUE]
  <2>1. StopPolling(s) = s \/ StopPolling(s) = [s EXCEPT !.polls = ps]
    BY Zenon DEF StopPolling, Shaped, HasFields
  <2> QED
    BY <2>1
<1>4. Tracking(s, T, U) = s \/ \E ps : Tracking(s, T, U) = [s EXCEPT !.polls = ps]
  <2> DEFINE ps == [s.polls EXCEPT ![s.ctl.poll].tracked = (@ \cup T) \ U]
  <2>1. Tracking(s, T, U) = s \/ Tracking(s, T, U) = [s EXCEPT !.polls = ps]
    BY Zenon DEF Tracking, Shaped, HasFields
  <2> QED
    BY <2>1
<1>5. ASSUME NEW x PROVE LET r == [s EXCEPT !.ctl.poll = x]
                         IN  SamePublishing(s, r) /\ SameStore(s, r) /\ Shaped(r)
                             /\ r.ctl.active = s.ctl.active /\ r.polls = s.polls
                             /\ r.ctl.poll = x
  <2> DEFINE r == [s EXCEPT !.ctl.poll = x]
             c == [s.ctl EXCEPT !.poll = x]
  <2>1. r = [s EXCEPT !.ctl = c]
    OBVIOUS
  <2>2. /\ DOMAIN c = CtlFields /\ c.batches = s.ctl.batches /\ c.next = s.ctl.next
        /\ c.scheduled = s.ctl.scheduled /\ c.finished = s.ctl.finished /\ c.poll = x
        /\ c.pub = s.ctl.pub /\ c.active = s.ctl.active
    BY CtlNames DEF Shaped
  <2> HIDE DEF c, r
  <2>3. /\ HasFields(r) /\ r.ctl = c /\ r.db = s.db /\ r.events = s.events
        /\ r.pubs = s.pubs /\ r.polls = s.polls
    BY <2>1 DEF Shaped, HasFields
  <2>4. SamePublishing(s, r) /\ SameStore(s, r) /\ Shaped(r)
    BY <2>2, <2>3 DEF Shaped, SamePublishing, SameStore
  <2> QED
    BY <2>2, <2>3, <2>4 DEF r
<1>6. /\ SamePublishing(s, OnQueueReady(s)) /\ SameStore(s, OnQueueReady(s))
      /\ OnQueueReady(s).ctl.active = s.ctl.active
  <2> DEFINE q == PollChecked(s)
             w == Min(UnusedPolls(q))
             t == [q EXCEPT !.ctl.poll = w]
             ps == [q.polls EXCEPT ![w] = [NoPoll EXCEPT !.run = "connecting", !.tracked = Known(q.db)]]
  <2>1. q = s \/ q = [s EXCEPT !.ctl.poll = NoSlot]
    BY DEF PollChecked
  <2>2. SamePublishing(s, q) /\ SameStore(s, q) /\ Shaped(q) /\ q.ctl.active = s.ctl.active
    <3> DEFINE r == [s EXCEPT !.ctl.poll = NoSlot]
    <3>1. SamePublishing(s, r) /\ SameStore(s, r) /\ Shaped(r) /\ r.ctl.active = s.ctl.active
      BY <1>5
    <3> HIDE DEF r
    <3>2. q = s \/ q = r
      BY <2>1 DEF r
    <3> HIDE DEF q
    <3> QED
      BY <1>2, <3>1, <3>2
  <2>3. OnQueueReady(s) = q \/ OnQueueReady(s) = StartPoller(q)
    BY Zenon DEF OnQueueReady
  <2> HIDE DEF q
  <2>4. StartPoller(q) = [q EXCEPT !.ctl.poll = w, !.polls = ps]
    BY <2>2, Zenon DEF StartPoller, Shaped, HasFields
  <2> DEFINE c == [q.ctl EXCEPT !.poll = w]
             r == [q EXCEPT !.ctl = c, !.polls = ps]
  <2>5. StartPoller(q) = r
    BY <2>4
  <2>6. /\ DOMAIN c = CtlFields /\ c.batches = q.ctl.batches /\ c.next = q.ctl.next
        /\ c.scheduled = q.ctl.scheduled /\ c.finished = q.ctl.finished
        /\ c.pub = q.ctl.pub /\ c.active = q.ctl.active
    BY <2>2, CtlNames DEF Shaped
  <2> HIDE DEF c, ps, w
  <2>7. HasFields(r) /\ r.ctl = c /\ r.db = q.db /\ r.events = q.events /\ r.pubs = q.pubs
    BY <2>2 DEF Shaped, HasFields
  <2> HIDE DEF r
  <2>8. SamePublishing(s, r) /\ SameStore(s, r) /\ r.ctl.active = s.ctl.active
    BY <2>2, <2>6, <2>7 DEF SamePublishing, SameStore
  <2> QED
    BY <2>2, <2>3, <2>5, <2>8
<1> QED
  BY <1>1, <1>2, <1>3, <1>4, <1>6

\* The slots of the publishing thread's end, and of the poll thread's.
PubFinishes(s, r, p, known) ==
  /\ SameStore(s, r) /\ Shaped(r)
  /\ r.ctl.batches = s.ctl.batches /\ r.ctl.next = s.ctl.next
  /\ r.ctl.scheduled = s.ctl.scheduled /\ r.ctl.active = s.ctl.active
  /\ r.ctl.pub = s.ctl.pub /\ r.ctl.poll = s.ctl.poll
  /\ r.ctl.finished = IF known /\ s.ctl.pub # p THEN s.ctl.finished ELSE TRUE
  /\ r.pubs = [s.pubs EXCEPT ![p].quit = TRUE]
  /\ r.polls = s.polls \/ r.polls = StopPolling(s).polls
PubThreadFinishes(s, r, p) ==
  /\ SameStore(s, r) /\ Shaped(r) /\ r.polls = s.polls
  /\ r.ctl.batches = s.ctl.batches /\ r.ctl.next = s.ctl.next
  /\ r.ctl.scheduled = s.ctl.scheduled /\ r.ctl.active = s.ctl.active
  /\ r.ctl.finished = s.ctl.finished /\ r.ctl.poll = s.ctl.poll
  /\ r.ctl.pub = IF s.ctl.pub = p THEN NoSlot ELSE s.ctl.pub
  /\ r.pubs = [s.pubs EXCEPT ![p] = NoThread]
PollFinishes(s, r, w) ==
  /\ SameStore(s, r) /\ Shaped(r) /\ SamePublishing(s, r)
  /\ r.ctl.active = (s.ctl.active /\ ~s.ctl.finished)
  /\ r.ctl.poll = NoSlot /\ r.polls = [s.polls EXCEPT ![w] = Quit(@)]

LEMMA FinishRoutines ==
  ASSUME NEW s, Shaped(s), NEW p, NEW known
  PROVE  /\ PubFinishes(s, OnPubFinished(s, p, known), p, known)
         /\ PubThreadFinishes(s, OnPubThreadFinished(s, p), p)
         /\ PollFinishes(s, OnPollFinished(s, p), p)
<1>1. LET r == OnPubFinished(s, p, known)
      IN  /\ SameStore(s, r) /\ Shaped(r)
          /\ r.ctl.batches = s.ctl.batches /\ r.ctl.next = s.ctl.next
          /\ r.ctl.scheduled = s.ctl.scheduled /\ r.ctl.active = s.ctl.active
          /\ r.ctl.pub = s.ctl.pub /\ r.ctl.poll = s.ctl.poll
          /\ r.ctl.finished = IF known /\ s.ctl.pub # p THEN s.ctl.finished ELSE TRUE
          /\ r.pubs = [s.pubs EXCEPT ![p].quit = TRUE]
          /\ r.polls = s.polls \/ r.polls = StopPolling(s).polls
  <2> DEFINE ps == [s.pubs EXCEPT ![p].quit = TRUE]
             r == [s EXCEPT !.pubs[p].quit = TRUE]
             over == [r EXCEPT !.ctl.finished = TRUE]
             c == [s.ctl EXCEPT !.finished = TRUE]
             u == OnPubFinished(s, p, known)
  <2>1. /\ HasFields(r) /\ r.db = s.db /\ r.events = s.events /\ r.pubs = ps /\ r.ctl = s.ctl
        /\ r.polls = s.polls
    BY DEF Shaped, HasFields
  <2>2. u = IF known /\ s.ctl.pub # p THEN r
            ELSE IF AllTerminal(s.db) THEN StopPolling(over) ELSE over
    BY Zenon DEF OnPubFinished
  <2> HIDE DEF r, ps
  <2>3. over = [r EXCEPT !.ctl = c]
    BY <2>1
  <2>4. /\ DOMAIN c = CtlFields /\ c.batches = s.ctl.batches /\ c.next = s.ctl.next
        /\ c.scheduled = s.ctl.scheduled /\ c.finished = TRUE /\ c.poll = s.ctl.poll
        /\ c.pub = s.ctl.pub /\ c.active = s.ctl.active
    BY CtlNames DEF Shaped
  <2> HIDE DEF c, over
  <2>5. /\ HasFields(over) /\ over.db = s.db /\ over.events = s.events /\ over.pubs = ps
        /\ over.ctl = c
    BY <2>1, <2>3 DEF HasFields
  <2>poll. over.polls = s.polls
    BY <2>1, <2>3 DEF HasFields
  <2>stop. StopPolling(over).polls = StopPolling(s).polls
    <3>1. ASSUME NEW x, HasFields(x)
          PROVE  StopPolling(x).polls = IF x.ctl.poll = NoSlot THEN x.polls
                                        ELSE [x.polls EXCEPT ![x.ctl.poll].stop = TRUE]
      <4> DEFINE qs == [x.polls EXCEPT ![x.ctl.poll].stop = TRUE]
      <4>1. StopPolling(x) = IF x.ctl.poll = NoSlot THEN x ELSE [x EXCEPT !.polls = qs]
        BY <3>1, Zenon DEF StopPolling, HasFields
      <4> HIDE DEF qs
      <4>2. StopPolling(x).polls = IF x.ctl.poll = NoSlot THEN x.polls ELSE qs
        BY <3>1, <4>1 DEF HasFields
      <4> QED
        BY <4>2 DEF qs
    <3> DEFINE stopped(all, w) == [all EXCEPT ![w].stop = TRUE]
    <3>2. ASSUME NEW x, HasFields(x)
          PROVE  StopPolling(x).polls = IF x.ctl.poll = NoSlot THEN x.polls
                                        ELSE stopped(x.polls, x.ctl.poll)
      BY <3>1, <3>2
    <3> HIDE DEF stopped
    <3>3. HasFields(s) /\ over.ctl.poll = s.ctl.poll
      BY <2>4, <2>5 DEF Shaped
    <3> QED
      BY <2>5, <2>poll, <3>2, <3>3
  <2>6. Shaped(over) /\ Shaped(r)
    BY <2>1, <2>4, <2>5 DEF Shaped
  <2>7. SameStore(over, StopPolling(over)) /\ SamePublishing(over, StopPolling(over))
        /\ StopPolling(over).ctl = over.ctl
    BY <2>6, PollingRoutines
  <2> HIDE DEF u
  <2>8. CASE known /\ s.ctl.pub # p
    <3>1. u = r
      BY <2>2, <2>8
    <3> QED
      BY <2>1, <2>6, <2>8, <3>1 DEF SameStore, u, ps
  <2>9. CASE ~(known /\ s.ctl.pub # p)
    <3>1. u = over \/ u = StopPolling(over)
      BY <2>2, <2>9
    <3>2. /\ HasFields(u) /\ u.db = s.db /\ u.events = s.events /\ u.pubs = ps /\ u.ctl = c
      BY <2>5, <2>7, <3>1 DEF SameStore, SamePublishing
    <3>3. Shaped(u)
      BY <2>4, <3>2 DEF Shaped
    <3> QED
      BY <2>4, <2>9, <2>poll, <2>stop, <3>1, <3>2, <3>3 DEF SameStore, u, ps
  <2> QED
    BY <2>8, <2>9
<1>2. LET r == OnPubThreadFinished(s, p)
      IN  /\ SameStore(s, r) /\ Shaped(r) /\ r.polls = s.polls
          /\ r.ctl.batches = s.ctl.batches /\ r.ctl.next = s.ctl.next
          /\ r.ctl.scheduled = s.ctl.scheduled /\ r.ctl.active = s.ctl.active
          /\ r.ctl.finished = s.ctl.finished /\ r.ctl.poll = s.ctl.poll
          /\ r.ctl.pub = IF s.ctl.pub = p THEN NoSlot ELSE s.ctl.pub
          /\ r.pubs = [s.pubs EXCEPT ![p] = NoThread]
  <2> DEFINE c == [s.ctl EXCEPT !.pub = IF @ = p THEN NoSlot ELSE @]
             ps == [s.pubs EXCEPT ![p] = NoThread]
             r == OnPubThreadFinished(s, p)
  <2>1. r = [s EXCEPT !.pubs = ps, !.ctl = c]
    BY Zenon DEF OnPubThreadFinished, Shaped, HasFields
  <2>2. /\ DOMAIN c = CtlFields /\ c.batches = s.ctl.batches /\ c.next = s.ctl.next
        /\ c.scheduled = s.ctl.scheduled /\ c.finished = s.ctl.finished /\ c.poll = s.ctl.poll
        /\ c.pub = (IF s.ctl.pub = p THEN NoSlot ELSE s.ctl.pub) /\ c.active = s.ctl.active
    BY CtlNames DEF Shaped
  <2> HIDE DEF c, ps, r
  <2>3. /\ HasFields(r) /\ r.db = s.db /\ r.events = s.events /\ r.pubs = ps /\ r.ctl = c
        /\ r.polls = s.polls
    BY <2>1 DEF Shaped, HasFields
  <2>4. Shaped(r)
    BY <2>2, <2>3 DEF Shaped
  <2> QED
    BY <2>2, <2>3, <2>4 DEF SameStore, r, ps
<1>3. LET r == OnPollFinished(s, p)
      IN  /\ SameStore(s, r) /\ Shaped(r) /\ SamePublishing(s, r)
          /\ r.ctl.active = (s.ctl.active /\ ~s.ctl.finished)
          /\ r.ctl.poll = NoSlot /\ r.polls = [s.polls EXCEPT ![p] = Quit(@)]
  <2> DEFINE c == [s.ctl EXCEPT !.poll = NoSlot, !.active = @ /\ ~s.ctl.finished]
             ps == [s.polls EXCEPT ![p] = Quit(@)]
             r == OnPollFinished(s, p)
  <2>1. r = [s EXCEPT !.polls = ps, !.ctl = c]
    BY Zenon DEF OnPollFinished, Shaped, HasFields
  <2>2. /\ DOMAIN c = CtlFields /\ c.batches = s.ctl.batches /\ c.next = s.ctl.next
        /\ c.scheduled = s.ctl.scheduled /\ c.finished = s.ctl.finished /\ c.poll = NoSlot
        /\ c.pub = s.ctl.pub
    BY CtlNames DEF Shaped
  <2>4. c.active = (s.ctl.active /\ ~s.ctl.finished)
    BY CtlNames, Zenon DEF Shaped
  <2> HIDE DEF c, ps, r
  <2>3. /\ HasFields(r) /\ r.db = s.db /\ r.events = s.events /\ r.pubs = s.pubs /\ r.ctl = c
        /\ r.polls = ps
    BY <2>1 DEF Shaped, HasFields
  <2>5. Shaped(r) /\ SameStore(s, r) /\ SamePublishing(s, r)
    BY <2>2, <2>3 DEF Shaped, SameStore, SamePublishing
  <2>6. r.ctl.active = (s.ctl.active /\ ~s.ctl.finished)
    BY <2>3, <2>4, Zenon
  <2> QED
    BY <2>2, <2>3, <2>5, <2>6, Zenon DEF r, ps
<1> QED
  BY <1>1, <1>2, <1>3, Zenon DEF PubFinishes, PubThreadFinishes, PollFinishes

-----------------------------------------------------------------------------
(* Batches added, and batches taken out. *)

\* The entries of a part of a list are entries of the list, each at a place of its own.
Drawn(list, C, o, g) ==
  /\ g \in [DOMAIN o -> DOMAIN list] /\ \A k, l \in DOMAIN o : g[k] = g[l] => k = l
  /\ \A k \in DOMAIN o : o[k] = list[g[k]] /\ list[g[k]] \in C
  /\ \A i \in DOMAIN list : list[i] \in C => \E k \in DOMAIN o : g[k] = i

LEMMA OnlyDrawn ==
  ASSUME NEW A, NEW list \in Seq(A), NEW C
  PROVE  \E g : Drawn(list, C, Only(list, C), g)
<1> DEFINE S == {i \in DOMAIN list : list[i] \in C}
           g == Ascending(S)
           o == Only(list, C)
<1>1. Len(list) \in Nat /\ DOMAIN list = 1..Len(list) /\ S \subseteq 1..Len(list)
  OBVIOUS
<1>2. o = [k \in DOMAIN g |-> list[g[k]]]
  BY DEF Only
<1>3. \A i : i \in S <=> i \in DOMAIN list /\ list[i] \in C
  OBVIOUS
<1> HIDE DEF S, o
<1>4. IsFiniteSet(1..Len(list)) /\ S \in SUBSET Int
  BY <1>1, CountUpTo
<1>5. IsFiniteSet(S)
  BY <1>1, <1>4, FS_Subset
<1>6. Enumerates(g, S)
  BY <1>4, <1>5, AscendingFacts
<1> HIDE DEF g
<1>7. g \in Seq(S) /\ \A k \in DOMAIN g : g[k] \in S
  <2>1. g \in Seq(S)
    BY <1>6 DEF Enumerates
  <2> QED
    BY <2>1
<1>8. DOMAIN o = DOMAIN g /\ g \in [DOMAIN o -> DOMAIN list]
  BY <1>2, <1>3, <1>7
<1>9. \A k, l \in DOMAIN o : g[k] = g[l] => k = l
  BY <1>6, <1>8 DEF Enumerates
<1>10. \A k \in DOMAIN o : o[k] = list[g[k]] /\ list[g[k]] \in C
  BY <1>2, <1>3, <1>7, <1>8
<1>11. \A i \in DOMAIN list : list[i] \in C => \E k \in DOMAIN o : g[k] = i
  BY <1>3, <1>6, <1>8 DEF Enumerates
<1>12. Drawn(list, C, o, g)
  BY <1>8, <1>9, <1>10, <1>11 DEF Drawn
<1> QED
  BY <1>12 DEF o

\* One list behind another.
LEMMA JoinedParts ==
  ASSUME NEW A, NEW a \in Seq(A), NEW c \in Seq(A)
  PROVE  /\ a \o c \in Seq(A) /\ Len(a) \in 0..Len(a \o c)
         /\ SubSeq(a \o c, 1, Len(a)) = a
         /\ SubSeq(a \o c, Len(a) + 1, Len(a \o c)) = c
<1> DEFINE b == a \o c
<1>1. /\ b \in Seq(A) /\ Len(b) = Len(a) + Len(c) /\ Len(a) \in Nat /\ Len(c) \in Nat
      /\ \A i \in 1..Len(a) : b[i] = a[i]
      /\ \A i \in 1..Len(c) : b[Len(a) + i] = c[i]
  OBVIOUS
<1> HIDE DEF b
<1>2. Len(a) \in 0..Len(b) /\ Len(b) - Len(a) = Len(c)
  BY <1>1
<1>3. /\ SubSeq(b, 1, Len(a)) \in Seq(A) /\ SubSeq(b, Len(a) + 1, Len(b)) \in Seq(A)
      /\ Cut(b, Len(a))
  BY <1>1, <1>2, Parts
<1>4. SubSeq(b, 1, Len(a)) = a
  <2>1. /\ Len(SubSeq(b, 1, Len(a))) = Len(a)
        /\ \A i \in 1..Len(a) : SubSeq(b, 1, Len(a))[i] = a[i]
    BY <1>1, <1>3 DEF Cut
  <2> QED
    BY <1>3, <2>1
<1>5. SubSeq(b, Len(a) + 1, Len(b)) = c
  <2>1. /\ Len(SubSeq(b, Len(a) + 1, Len(b))) = Len(c)
        /\ \A i \in 1..Len(c) : SubSeq(b, Len(a) + 1, Len(b))[i] = c[i]
    BY <1>1, <1>2, <1>3 DEF Cut
  <2> QED
    BY <1>3, <2>1
<1> QED
  BY <1>1, <1>2, <1>4, <1>5 DEF b

\* All but the schedule.
Replanned(s, r) ==
  /\ SameStore(s, r) /\ r.pubs = s.pubs /\ r.polls = s.polls /\ DOMAIN r.ctl = CtlFields
  /\ r.ctl.active = s.ctl.active /\ r.ctl.finished = s.ctl.finished
  /\ r.ctl.pub = s.ctl.pub /\ r.ctl.poll = s.ctl.poll

\* Batch x goes to place m of those still to be taken, or to the end.
JoinsAt(a, c, n, x, m) ==
  /\ m \in n+1..Len(a)+1 /\ Len(c) = IF m <= Len(a) THEN Len(a) ELSE m
  /\ m <= Len(a) => a[m].folder = x.folder
  /\ c[m].folder = x.folder
  /\ c[m].ids = IF m <= Len(a) THEN a[m].ids \o x.ids ELSE x.ids
  /\ \A k \in 1..Len(a) : k # m => c[k] = a[k]

LEMMA AppendedDoes ==
  ASSUME NEW s, Shaped(s), NEW x \in Batches
  PROVE  LET r == Appended(s, x)
         IN  /\ Replanned(s, r) /\ Shaped(r)
             /\ r.ctl.next = s.ctl.next /\ r.ctl.scheduled = s.ctl.scheduled
             /\ \E m : JoinsAt(s.ctl.batches, r.ctl.batches, s.ctl.next, x, m)
<1> DEFINE a == s.ctl.batches
           n == s.ctl.next
           at == {k \in DOMAIN a : k > n /\ a[k].folder = x.folder}
           b == IF at = {} THEN Append(a, x) ELSE [a EXCEPT ![Min(at)].ids = @ \o x.ids]
           c == [s.ctl EXCEPT !.batches = b]
           r == Appended(s, x)
<1>1. r = [s EXCEPT !.ctl = c]
  <2>1. r = [s EXCEPT !.ctl.batches = b]
    BY DEF Appended
  <2> HIDE DEF b
  <2> QED
    BY <2>1
<1>2. a \in Seq(Batches) /\ n \in 0..Len(a) /\ Len(a) \in Nat /\ DOMAIN a = 1..Len(a)
  BY DEF Shaped
<1>3. /\ DOMAIN c = CtlFields /\ c.batches = b /\ c.next = n /\ c.scheduled = s.ctl.scheduled
      /\ c.active = s.ctl.active /\ c.finished = s.ctl.finished /\ c.pub = s.ctl.pub
      /\ c.poll = s.ctl.poll
  BY CtlNames DEF Shaped
<1> HIDE DEF c, r
<1>4. /\ HasFields(r) /\ r.ctl = c /\ r.db = s.db /\ r.events = s.events
      /\ r.pubs = s.pubs /\ r.polls = s.polls
  BY <1>1 DEF Shaped, HasFields
<1>5. b \in Seq(Batches) /\ n \in 0..Len(b) /\ \E m : JoinsAt(a, b, n, x, m)
  <2> HIDE DEF a, n
  <2>1. CASE at = {}
    <3>1. b = Append(a, x)
      BY <2>1
    <3> HIDE DEF at, b
    <3>2. /\ b \in Seq(Batches) /\ Len(b) = Len(a) + 1 /\ b[Len(a) + 1] = x
          /\ \A k \in 1..Len(a) : b[k] = a[k]
      BY <1>2, <3>1
    <3>3. JoinsAt(a, b, n, x, Len(a) + 1)
      BY <1>2, <3>2 DEF JoinsAt
    <3> QED
      BY <1>2, <3>2, <3>3
  <2>2. CASE at # {}
    <3> DEFINE m == Min(at)
    <3>1. \A k \in at : k \in 1..Len(a) /\ k > n /\ a[k].folder = x.folder
      BY <1>2
    <3>2. \E k \in at : \A j \in at : k <= j
      <4> HIDE DEF at
      <4>1. at \in SUBSET (0..Len(a))
        BY <1>2, <3>1
      <4> QED
        BY <1>2, <2>2, <4>1, Least
    <3>3. m \in at
      BY <3>2 DEF Min
    <3>4. b = [a EXCEPT ![m].ids = @ \o x.ids]
      BY <2>2
    <3> HIDE DEF at, m, b
    <3>5. m \in 1..Len(a) /\ m > n /\ a[m].folder = x.folder
      BY <3>1, <3>3
    <3>6. /\ a[m] \in Batches /\ a[m].ids \in Seq(Requests) /\ x.ids \in Seq(Requests)
          /\ a[m].ids \o x.ids \in Seq(Requests)
      <4>1. a[m] \in Batches
        BY <1>2, <3>5
      <4>2. \A y \in Batches : y.ids \in Seq(Requests)
        BY DEF Batches
      <4>3. a[m].ids \in Seq(Requests) /\ x.ids \in Seq(Requests)
        BY <4>1, <4>2
      <4> QED
        BY <4>1, <4>3
    <3> DEFINE row == [a[m] EXCEPT !.ids = a[m].ids \o x.ids]
    <3>7. row \in Batches /\ row.folder = x.folder /\ row.ids = a[m].ids \o x.ids
      BY <3>5, <3>6 DEF Batches
    <3>8. b = [a EXCEPT ![m] = row]
      <4> DEFINE y == a[m].ids \o x.ids
      <4>1. b = [a EXCEPT ![m].ids = y] /\ row = [a[m] EXCEPT !.ids = y]
        BY <3>4
      <4> HIDE DEF y, row
      <4> QED
        BY <4>1
    <3> HIDE DEF row
    <3>9. /\ b \in Seq(Batches) /\ Len(b) = Len(a) /\ b[m] = row
          /\ \A k \in 1..Len(a) : k # m => b[k] = a[k]
      BY <1>2, <3>5, <3>7, <3>8
    <3>10. JoinsAt(a, b, n, x, m)
      <4>1. m \in n+1..Len(a)+1 /\ m <= Len(a)
        BY <1>2, <3>5
      <4>2. Len(b) = IF m <= Len(a) THEN Len(a) ELSE m
        BY <3>5, <3>9, <4>1
      <4>3. b[m].folder = x.folder
            /\ b[m].ids = IF m <= Len(a) THEN a[m].ids \o x.ids ELSE x.ids
        BY <3>7, <3>9, <4>1
      <4> QED
        BY <3>5, <3>9, <4>1, <4>2, <4>3, Zenon DEF JoinsAt
    <3> QED
      BY <1>2, <3>9, <3>10
  <2> QED
    BY <2>1, <2>2
<1> HIDE DEF b
<1>6. Replanned(s, r) /\ Shaped(r) /\ r.ctl.batches = b /\ r.ctl.next = n
      /\ r.ctl.scheduled = s.ctl.scheduled
  BY <1>3, <1>4, <1>5 DEF Replanned, SameStore, Shaped
<1> QED
  BY <1>5, <1>6 DEF r

\* What is left without the batches of some folders.
LEMMA KeptFacts ==
  ASSUME NEW b \in Seq(Batches), NEW R
  PROVE  /\ Kept(b, R) \in Seq(Batches) /\ Len(Kept(b, R)) \in Nat
         /\ FoldersOf(Kept(b, R)) = FoldersOf(b) \ R
         /\ \E C, g : Drawn(b, C, Kept(b, R), g) /\ C = {x \in ToSet(b) : x.folder \notin R}
<1> DEFINE C == {x \in ToSet(b) : x.folder \notin R}
           o == Kept(b, R)
<1>1. o = Only(b, C)
  BY DEF Kept
<1>2. o \in Seq(Batches \cap C)
  BY <1>1, OnlyFacts
<1>3. PICK g : Drawn(b, C, o, g)
  BY <1>1, OnlyDrawn
<1>4. \A x : x \in C <=> x \in ToSet(b) /\ x.folder \notin R
  OBVIOUS
<1>5. \A i \in DOMAIN b : b[i] \in ToSet(b)
  BY DEF ToSet
<1> HIDE DEF C, o
<1>6. o \in Seq(Batches) /\ Len(o) \in Nat
  BY <1>2
<1>7. FoldersOf(o) = FoldersOf(b) \ R
  <2>1. ASSUME NEW k \in DOMAIN o PROVE o[k].folder \in FoldersOf(b) \ R
    <3>1. g[k] \in DOMAIN b /\ o[k] = b[g[k]] /\ b[g[k]] \in C
      BY <1>3 DEF Drawn
    <3> QED
      BY <1>4, <3>1 DEF FoldersOf
  <2>2. ASSUME NEW i \in DOMAIN b, b[i].folder \notin R PROVE b[i].folder \in FoldersOf(o)
    <3>1. b[i] \in C
      BY <1>4, <1>5, <2>2
    <3>2. PICK k \in DOMAIN o : g[k] = i
      BY <1>3, <3>1 DEF Drawn
    <3>3. o[k] = b[i]
      BY <1>3, <3>2 DEF Drawn
    <3> QED
      BY <3>3 DEF FoldersOf
  <2> QED
    BY <2>1, <2>2 DEF FoldersOf
<1>8. C = {x \in ToSet(b) : x.folder \notin R}
  BY DEF C
<1> QED
  BY <1>3, <1>6, <1>7, <1>8 DEF o

LEMMA PrunedDoes ==
  ASSUME NEW s, Shaped(s), NEW R
  PROVE  LET r == Pruned(s, R)
         IN  /\ Replanned(s, r) /\ Shaped(r)
             /\ Taken(r) = Kept(Taken(s), R) /\ Untaken(r) = Kept(Untaken(s), R)
             /\ r.ctl.batches = Kept(Taken(s), R) \o Kept(Untaken(s), R)
             /\ r.ctl.scheduled = {t \in s.ctl.scheduled : t.folder \notin R}
<1> DEFINE a == Kept(Taken(s), R)
           b == Kept(Untaken(s), R)
           c == [s.ctl EXCEPT !.batches = a \o b, !.next = Len(a), !.opened = @ \ R,
                              !.open = @ \ R, !.scheduled = {t \in @ : t.folder \notin R}]
           r == Pruned(s, R)
<1>1. r = [s EXCEPT !.ctl = c]
  BY Zenon DEF Pruned
<1>2. Taken(s) \in Seq(Batches) /\ Untaken(s) \in Seq(Batches)
  <2> DEFINE l == s.ctl.batches
             n == s.ctl.next
  <2>1. l \in Seq(Batches) /\ n \in 0..Len(l)
    BY DEF Shaped
  <2>2. Taken(s) = SubSeq(l, 1, n) /\ Untaken(s) = SubSeq(l, n + 1, Len(l))
    BY DEF Taken, Untaken
  <2> HIDE DEF l, n
  <2> QED
    BY <2>1, <2>2, Parts
<1>3. a \in Seq(Batches) /\ b \in Seq(Batches)
  BY <1>2, KeptFacts
<1> HIDE DEF a, b
<1>4. /\ a \o b \in Seq(Batches) /\ Len(a) \in 0..Len(a \o b)
      /\ SubSeq(a \o b, 1, Len(a)) = a
      /\ SubSeq(a \o b, Len(a) + 1, Len(a \o b)) = b
  BY <1>3, JoinedParts
<1>5. /\ DOMAIN c = CtlFields /\ c.batches = a \o b /\ c.next = Len(a)
      /\ c.scheduled = {t \in s.ctl.scheduled : t.folder \notin R}
      /\ c.active = s.ctl.active /\ c.finished = s.ctl.finished /\ c.pub = s.ctl.pub
      /\ c.poll = s.ctl.poll
  BY CtlNames DEF Shaped
<1> HIDE DEF c, r
<1>6. /\ HasFields(r) /\ r.ctl = c /\ r.db = s.db /\ r.events = s.events
      /\ r.pubs = s.pubs /\ r.polls = s.polls
  BY <1>1 DEF Shaped, HasFields
<1>7. Replanned(s, r) /\ Shaped(r)
  BY <1>4, <1>5, <1>6 DEF Replanned, SameStore, Shaped
<1>8. Taken(r) = a /\ Untaken(r) = b
  BY <1>4, <1>5, <1>6 DEF Taken, Untaken
<1> QED
  BY <1>5, <1>6, <1>7, <1>8 DEF a, b, r

-----------------------------------------------------------------------------
(* What the commands and the poll cycle do before and after the decision. *)

SameThreads(s, q) ==
  /\ HasFields(q) /\ DOMAIN q.ctl = CtlFields /\ q.events = s.events /\ q.pubs = s.pubs
  /\ q.ctl.active = s.ctl.active /\ q.ctl.finished = s.ctl.finished
  /\ q.ctl.pub = s.ctl.pub /\ q.ctl.poll = s.ctl.poll
SamePlan(s, q) ==
  /\ q.ctl.batches = s.ctl.batches /\ q.ctl.next = s.ctl.next
  /\ q.ctl.scheduled = s.ctl.scheduled
Tracked(s, q, add, drop) ==
  q.polls = IF s.ctl.poll = NoSlot THEN s.polls
            ELSE [s.polls EXCEPT ![s.ctl.poll].tracked = (@ \cup add) \ drop]

LEMMA Storing ==
  ASSUME NEW s, Shaped(s), NEW d
  PROVE  LET q == [s EXCEPT !.db = d]
         IN  /\ SameThreads(s, q) /\ SamePlan(s, q) /\ Shaped(q)
             /\ q.db = d /\ q.polls = s.polls
<1> DEFINE q == [s EXCEPT !.db = d]
<1>1. /\ HasFields(q) /\ q.ctl = s.ctl /\ q.db = d /\ q.events = s.events
      /\ q.pubs = s.pubs /\ q.polls = s.polls
  BY DEF Shaped, HasFields
<1> HIDE DEF q
<1>2. SameThreads(s, q) /\ SamePlan(s, q) /\ Shaped(q)
  BY <1>1 DEF SameThreads, SamePlan, Shaped
<1> QED
  BY <1>1, <1>2 DEF q

LEMMA TrackingDoes ==
  ASSUME NEW s, Shaped(s), NEW T, NEW U
  PROVE  LET q == Tracking(s, T, U)
         IN  /\ SameThreads(s, q) /\ SamePlan(s, q) /\ Shaped(q)
             /\ q.db = s.db /\ Tracked(s, q, T, U)
<1> DEFINE q == Tracking(s, T, U)
           ps == [s.polls EXCEPT ![s.ctl.poll].tracked = (@ \cup T) \ U]
<1>1. /\ SamePublishing(s, q) /\ SameStore(s, q) /\ q.ctl = s.ctl
  BY PollingRoutines
<1>2. Tracked(s, q, T, U)
  <2>1. q = IF s.ctl.poll = NoSlot THEN s ELSE [s EXCEPT !.polls = ps]
    BY Zenon DEF Tracking, Shaped, HasFields
  <2> HIDE DEF q, ps
  <2>2. q.polls = IF s.ctl.poll = NoSlot THEN s.polls ELSE ps
    BY <2>1 DEF Shaped, HasFields
  <2> QED
    BY <2>2 DEF Tracked, ps
<1> HIDE DEF q
<1>3. SameThreads(s, q) /\ SamePlan(s, q) /\ Shaped(q) /\ q.db = s.db
  BY <1>1 DEF SamePublishing, SameStore, SameThreads, SamePlan, Shaped
<1> QED
  BY <1>2, <1>3 DEF q

\* The waiting tasks of a folder, without those excluded.
LEMMA PendingFacts ==
  ASSUME NEW d, StoreFits(d), NEW f \in Folders, NEW X
  PROVE  /\ Enumerates(PendingIds(d, f, X), (OfFolder(d, f) \cap WaitingIn(d)) \ X)
         /\ PendingIds(d, f, X) \in Seq(Requests)
         /\ ToSet(PendingIds(d, f, X)) = (OfFolder(d, f) \cap WaitingIn(d)) \ X
<1> DEFINE C == AllIn(d, {"PENDING"}) \ X
           A == OfFolder(d, f)
           o == PendingIds(d, f, X)
<1>1. o = Only(d.ids[f], C) /\ Enumerates(d.ids[f], A)
  BY DEF PendingIds, StoreFits, ListsFit
<1>2. A \cap C = (OfFolder(d, f) \cap WaitingIn(d)) \ X /\ A \subseteq Requests
  BY DEF WaitingIn, OfFolder, StoreFits, StoreOK
<1> HIDE DEF A, C, o
<1>3. d.ids[f] \in Seq(A)
  BY <1>1 DEF Enumerates
<1>4. Enumerates(o, A \cap C)
  BY <1>1, <1>3, OnlyFacts
<1>5. ToSet(o) = A \cap C
  BY <1>4, EnumeratesMembers
<1>6. o \in Seq(A \cap C) /\ A \cap C \subseteq Requests
  BY <1>2, <1>4 DEF Enumerates
<1>7. o \in Seq(Requests)
  BY <1>6
<1> QED
  BY <1>2, <1>4, <1>5, <1>7 DEF o

\* The situation in which a registration leaves it to the dispatcher.
Joining(s, q, d, f, new) ==
  /\ SameThreads(s, q) /\ Shaped(q) /\ q.db = d /\ Tracked(s, q, ToSet(new), {})
  /\ q.ctl.next = s.ctl.next /\ q.ctl.scheduled = s.ctl.scheduled \cup ToSet(new)
  /\ \E m : JoinsAt(s.ctl.batches, q.ctl.batches, s.ctl.next, [folder |-> f, ids |-> new], m)

LEMMA AddingDoes ==
  ASSUME NEW s, Shaped(s), StoreFits(s.db), NEW f \in Folders, NEW items \in SUBSET Items[f]
  PROVE  LET d == RegisterFolder(s.db, f, items)
             new == PendingIds(d, f, s.ctl.scheduled)
             r == Added(s, f, items)
         IN  \/ /\ ~s.ctl.active \/ d = s.db \/ new = << >>
                /\ r = [s EXCEPT !.db = d]
             \/ /\ s.ctl.active /\ d # s.db /\ new # << >>
                /\ \E q : Joining(s, q, d, f, new) /\ r = Dispatch(q)
<1> DEFINE d == RegisterFolder(s.db, f, items)
           new == PendingIds(d, f, s.ctl.scheduled)
           r == [s EXCEPT !.db = d]
           x == [folder |-> f, ids |-> new]
           p == Appended(r, x)
           t == [p EXCEPT !.ctl.scheduled = @ \cup ToSet(new)]
           q == Tracking(t, ToSet(new), {})
<1>1. Added(s, f, items) = IF ~s.ctl.active \/ d = s.db \/ new = << >> THEN r ELSE Dispatch(q)
  BY Zenon DEF Added
<1>2. StoreFits(d)
  BY RegisteringFits
<1> HIDE DEF d
<1>3. x \in Batches
  <2>1. new \in Seq(Requests)
    BY <1>2, PendingFacts
  <2> QED
    BY <2>1 DEF Batches
<1>4. SameThreads(s, r) /\ SamePlan(s, r) /\ Shaped(r) /\ r.db = d /\ r.polls = s.polls
  BY Storing
<1> HIDE DEF r, new, x
<1>5. /\ Replanned(r, p) /\ Shaped(p) /\ p.ctl.next = r.ctl.next
      /\ p.ctl.scheduled = r.ctl.scheduled
      /\ \E m : JoinsAt(r.ctl.batches, p.ctl.batches, r.ctl.next, x, m)
  BY <1>3, <1>4, AppendedDoes
<1> HIDE DEF p
<1> DEFINE c == [p.ctl EXCEPT !.scheduled = @ \cup ToSet(new)]
<1>6. t = [p EXCEPT !.ctl = c]
  OBVIOUS
<1>7. /\ DOMAIN c = CtlFields /\ c.batches = p.ctl.batches /\ c.next = p.ctl.next
      /\ c.scheduled = p.ctl.scheduled \cup ToSet(new)
      /\ c.active = p.ctl.active /\ c.finished = p.ctl.finished /\ c.pub = p.ctl.pub
      /\ c.poll = p.ctl.poll
  BY <1>5, CtlNames DEF Shaped
<1> HIDE DEF c, t
<1>8. /\ HasFields(t) /\ t.ctl = c /\ t.db = p.db /\ t.events = p.events
      /\ t.pubs = p.pubs /\ t.polls = p.polls
  BY <1>5, <1>6 DEF Shaped, HasFields
<1>9. /\ SameThreads(s, t) /\ Shaped(t) /\ t.db = d /\ t.polls = s.polls
      /\ t.ctl.batches = p.ctl.batches /\ t.ctl.next = s.ctl.next
      /\ t.ctl.scheduled = s.ctl.scheduled \cup ToSet(new)
  BY <1>4, <1>5, <1>7, <1>8 DEF SameThreads, SamePlan, Replanned, SameStore, Shaped
<1>10. SameThreads(t, q) /\ SamePlan(t, q) /\ Shaped(q) /\ q.db = t.db
       /\ Tracked(t, q, ToSet(new), {})
  BY <1>9, TrackingDoes
<1> HIDE DEF q
<1>11. \E m : JoinsAt(s.ctl.batches, q.ctl.batches, s.ctl.next, x, m)
  BY <1>4, <1>5, <1>9, <1>10, Zenon DEF SamePlan
<1>12. Tracked(s, q, ToSet(new), {})
  BY <1>9, <1>10 DEF Tracked, SameThreads
<1>13. /\ SameThreads(s, q) /\ q.db = d /\ q.ctl.next = s.ctl.next
       /\ q.ctl.scheduled = s.ctl.scheduled \cup ToSet(new)
  BY <1>9, <1>10 DEF SameThreads, SamePlan
<1>14. Joining(s, q, d, f, new)
  BY <1>10, <1>11, <1>12, <1>13, Zenon DEF Joining, x
<1> QED
  BY <1>1, <1>14, Zenon DEF d, r, new

\* And a deletion.
Leaving(s, q, R, d, gone) ==
  /\ SameThreads(s, q) /\ Shaped(q) /\ q.db = d /\ Tracked(s, q, {}, gone)
  /\ Taken(q) = Kept(Taken(s), R) /\ Untaken(q) = Kept(Untaken(s), R)
  /\ q.ctl.batches = Kept(Taken(s), R) \o Kept(Untaken(s), R)
  /\ q.ctl.scheduled = {t \in s.ctl.scheduled : t.folder \notin R}

LEMMA RemovingDoes ==
  ASSUME NEW s, Shaped(s), StoreFits(s.db), NEW S
  PROVE  LET R == Removable(s.db, S)
             gone == {t \in Known(s.db) : t.folder \in R}
             r == Removed(s, S)
         IN  \/ R = {} /\ r = s
             \/ /\ R # {}
                /\ \E q : /\ Leaving(s, q, R, RemoveFolders(s.db, S), gone)
                          /\ r = IF s.ctl.active THEN Dispatch(q) ELSE q
<1> DEFINE R == Removable(s.db, S)
           gone == {t \in Known(s.db) : t.folder \in R}
           d == RemoveFolders(s.db, S)
           b == [s EXCEPT !.db = d]
           p == Pruned(b, R)
           q == Tracking(p, {}, gone)
<1>1. Removed(s, S) = IF R = {} THEN s ELSE IF s.ctl.active THEN Dispatch(q) ELSE q
  <2>1. b = [s EXCEPT !.db = RemoveFolders(@, S)]
    OBVIOUS
  <2> HIDE DEF b
  <2>2. Removed(s, S) = IF R = {} THEN s ELSE IF s.ctl.active
           THEN Dispatch(Tracking(Pruned([s EXCEPT !.db = RemoveFolders(@, S)], R), {}, gone))
           ELSE Tracking(Pruned([s EXCEPT !.db = RemoveFolders(@, S)], R), {}, gone)
    BY Zenon DEF Removed
  <2> QED
    BY <2>1, <2>2, Zenon
<1> HIDE DEF R, gone
<1>2. SameThreads(s, b) /\ SamePlan(s, b) /\ Shaped(b) /\ b.db = d /\ b.polls = s.polls
  BY Storing
<1> HIDE DEF b, d
<1>3. /\ Replanned(b, p) /\ Shaped(p)
      /\ Taken(p) = Kept(Taken(b), R) /\ Untaken(p) = Kept(Untaken(b), R)
      /\ p.ctl.batches = Kept(Taken(b), R) \o Kept(Untaken(b), R)
      /\ p.ctl.scheduled = {t \in b.ctl.scheduled : t.folder \notin R}
  BY <1>2, PrunedDoes
<1> HIDE DEF p
<1>4. SameThreads(p, q) /\ SamePlan(p, q) /\ Shaped(q) /\ q.db = p.db /\ Tracked(p, q, {}, gone)
  BY <1>3, TrackingDoes
<1> HIDE DEF q
<1>5. Taken(b) = Taken(s) /\ Untaken(b) = Untaken(s) /\ Taken(q) = Taken(p) /\ Untaken(q) = Untaken(p)
  BY <1>2, <1>4 DEF Taken, Untaken, SamePlan
<1>6. SameThreads(s, p) /\ p.db = d /\ p.polls = s.polls
  BY <1>2, <1>3 DEF SameThreads, Replanned, SameStore, Shaped
<1>7. SameThreads(s, q) /\ q.db = d /\ Tracked(s, q, {}, gone)
  <2>1. SameThreads(s, q) /\ q.db = d
    BY <1>4, <1>6 DEF SameThreads
  <2>2. Tracked(s, q, {}, gone)
    BY <1>4, <1>6 DEF SameThreads, Tracked
  <2> QED
    BY <2>1, <2>2
<1>8. q.ctl.batches = Kept(Taken(s), R) \o Kept(Untaken(s), R)
      /\ q.ctl.scheduled = {t \in s.ctl.scheduled : t.folder \notin R}
  BY <1>2, <1>3, <1>4, <1>5 DEF SamePlan
<1>9. Leaving(s, q, R, d, gone)
  BY <1>3, <1>4, <1>5, <1>7, <1>8, Zenon DEF Leaving
<1> QED
  BY <1>1, <1>9, Zenon DEF R, gone, d

LEMMA CycleDoes ==
  ASSUME NEW s, Shaped(s), NEW T
  PROVE  \E q, a :
           /\ SameThreads(s, q) /\ SamePlan(s, q) /\ Shaped(q) /\ q.polls = s.polls
           /\ q.db = MarkRunning(s.db)
           /\ a = [Dispatch(q) EXCEPT !.db = MarkTimeouts(Dispatch(q).db, T)]
           /\ OnPollCycle(s, T) \in {a, StopPolling(a)}
<1> DEFINE q == [s EXCEPT !.db = MarkRunning(s.db)]
           a == [Dispatch(q) EXCEPT !.db = MarkTimeouts(Dispatch(q).db, T)]
<1>1. SameThreads(s, q) /\ SamePlan(s, q) /\ Shaped(q) /\ q.db = MarkRunning(s.db)
      /\ q.polls = s.polls
  BY Storing
<1>2. OnPollCycle(s, T) \in {a, StopPolling(a)}
  <2>1. q = [s EXCEPT !.db = MarkRunning(@)] /\ a = [Dispatch(q) EXCEPT !.db = MarkTimeouts(@, T)]
    OBVIOUS
  <2> HIDE DEF q, a
  <2>2. OnPollCycle(s, T) = IF a.ctl.finished /\ AllTerminal(a.db) THEN StopPolling(a) ELSE a
    BY <2>1, Zenon DEF OnPollCycle
  <2> QED
    BY <2>2
<1> QED
  BY <1>1, <1>2

-----------------------------------------------------------------------------
(* The start and the end of a run. *)

\* One batch for each folder with waiting tasks, with all of them.
Grouping(d, b) ==
  /\ b \in Seq(Batches)
  /\ \A k \in DOMAIN b :
       /\ b[k].folder \in Grouped(d)
       /\ Enumerates(b[k].ids, OfFolder(d, b[k].folder) \cap WaitingIn(d))
  /\ \A k, l \in DOMAIN b : b[k].folder = b[l].folder => k = l
  /\ \A t \in WaitingIn(d) : \E k \in DOMAIN b : t \in ToSet(b[k].ids)

LEMMA GroupingFacts ==
  ASSUME NEW d, StoreFits(d)
  PROVE  Grouping(d, PendingBatches(d)) /\ IdsOf(PendingBatches(d)) = WaitingIn(d)
<1> DEFINE C == {f \in Grouped(d) : PendingIds(d, f, {}) # << >>}
           list == Only(d.order, C)
           b == PendingBatches(d)
<1>1. b = [k \in DOMAIN list |-> [folder |-> list[k], ids |-> PendingIds(d, list[k], {})]]
  BY DEF PendingBatches
<1>2. Enumerates(d.order, Grouped(d)) /\ Grouped(d) \subseteq Folders
  BY DEF StoreFits, ListsFit
<1>3. Grouped(d) \cap C = C /\ C \subseteq Grouped(d)
  OBVIOUS
<1>4. \A f \in Grouped(d) : PendingIds(d, f, {}) # << >> => f \in C
  OBVIOUS
<1> HIDE DEF C, list, b
<1>5. Enumerates(list, C)
  <2>1. d.order \in Seq(Grouped(d))
    BY <1>2 DEF Enumerates
  <2>2. Enumerates(Only(d.order, C), Grouped(d) \cap C)
    BY <1>2, <2>1, OnlyFacts
  <2> QED
    BY <1>3, <2>2 DEF list
<1>6. list \in Seq(C) /\ Len(list) \in Nat /\ DOMAIN list = 1..Len(list)
  BY <1>5 DEF Enumerates
<1>7. \A k \in DOMAIN list : list[k] \in C /\ list[k] \in Grouped(d) /\ list[k] \in Folders
  BY <1>2, <1>3, <1>6
<1>8. \A f \in Folders :
        /\ PendingIds(d, f, {}) \in Seq(Requests)
        /\ Enumerates(PendingIds(d, f, {}), OfFolder(d, f) \cap WaitingIn(d))
        /\ ToSet(PendingIds(d, f, {})) = OfFolder(d, f) \cap WaitingIn(d)
  <2>1. \A f \in Folders : (OfFolder(d, f) \cap WaitingIn(d)) \ {} = OfFolder(d, f) \cap WaitingIn(d)
    OBVIOUS
  <2> QED
    BY <2>1, PendingFacts
<1>9. DOMAIN b = DOMAIN list /\ Len(b) = Len(list)
      /\ \A k \in DOMAIN b : b[k].folder = list[k] /\ b[k].ids = PendingIds(d, list[k], {})
                             /\ b[k] \in Batches
  <2>1. \A k \in DOMAIN list : [folder |-> list[k], ids |-> PendingIds(d, list[k], {})] \in Batches
    BY <1>7, <1>8 DEF Batches
  <2> QED
    BY <1>1, <1>6, <2>1
<1>10. b \in Seq(Batches)
  BY <1>1, <1>6, <1>9
<1>11. \A k \in DOMAIN b : /\ b[k].folder \in Grouped(d)
                           /\ Enumerates(b[k].ids, OfFolder(d, b[k].folder) \cap WaitingIn(d))
  BY <1>7, <1>8, <1>9
<1>12. \A k, l \in DOMAIN b : b[k].folder = b[l].folder => k = l
  BY <1>5, <1>9 DEF Enumerates
<1>13. ASSUME NEW t \in WaitingIn(d) PROVE \E k \in DOMAIN b : t \in ToSet(b[k].ids)
  <2>1. t \in Known(d) /\ t.folder \in Grouped(d) /\ t.folder \in Folders
        /\ t \in OfFolder(d, t.folder)
    BY <1>2 DEF WaitingIn, AllIn, StoreFits, ListsFit, OfFolder
  <2>2. t \in ToSet(PendingIds(d, t.folder, {}))
    BY <1>8, <2>1
  <2>3. PendingIds(d, t.folder, {}) # << >>
    BY <2>2 DEF ToSet
  <2>4. t.folder \in C
    BY <1>4, <2>1, <2>3
  <2>5. PICK k \in DOMAIN list : list[k] = t.folder
    BY <1>5, <2>4 DEF Enumerates
  <2>6. k \in DOMAIN b /\ t \in ToSet(b[k].ids)
    BY <1>9, <2>2, <2>5
  <2> QED
    BY <2>6
<1>14. IdsOf(b) = WaitingIn(d)
  <2>1. \A k \in DOMAIN b : ToSet(b[k].ids) \subseteq WaitingIn(d)
    <3>1. \A l, X : Enumerates(l, X) => ToSet(l) = X
      BY EnumeratesMembers
    <3> QED
      BY <1>11, <3>1
  <2> QED
    BY <1>13, <2>1 DEF IdsOf
<1> QED
  BY <1>10, <1>11, <1>12, <1>13, <1>14 DEF Grouping, b

LEMMA NothingPlanned ==
  ASSUME NEW s, HasFields(s), DOMAIN s.ctl = CtlFields, s.ctl.batches = << >>, s.ctl.next = 0
  PROVE  Shaped(s)
<1>1. << >> \in Seq(Batches) /\ 0 \in 0..Len(<< >>)
  OBVIOUS
<1> QED
  BY <1>1 DEF Shaped

\* The situation in which a start opens its first batches.
Fresh(s, q) ==
  /\ SameStore(s, q) /\ Shaped(q) /\ q.pubs = s.pubs /\ q.polls = s.polls
  /\ q.ctl.active = TRUE /\ q.ctl.pub = s.ctl.pub /\ q.ctl.poll = s.ctl.poll /\ q.ctl.next = 0

StartedPolling(q, r) ==
  LET w == Min(UnusedPolls(q))
  IN  /\ SameStore(q, r) /\ Shaped(r) /\ SamePlan(q, r) /\ r.pubs = q.pubs
      /\ r.ctl.active = q.ctl.active /\ r.ctl.finished = q.ctl.finished
      /\ r.ctl.pub = q.ctl.pub /\ r.ctl.poll = w
      /\ r.polls = [q.polls EXCEPT ![w] = [NoPoll EXCEPT !.run = "connecting", !.tracked = Known(q.db)]]

LEMMA PollerStarts ==
  ASSUME NEW q, Shaped(q)
  PROVE  StartedPolling(q, StartPoller(q))
<1> DEFINE w == Min(UnusedPolls(q))
           ps == [q.polls EXCEPT ![w] = [NoPoll EXCEPT !.run = "connecting", !.tracked = Known(q.db)]]
           c == [q.ctl EXCEPT !.poll = w]
           r == StartPoller(q)
<1>1. r = [q EXCEPT !.ctl = c, !.polls = ps]
  <2>1. r = [q EXCEPT !.ctl.poll = w, !.polls = ps]
    BY Zenon DEF StartPoller, Shaped, HasFields
  <2> HIDE DEF r, w, ps
  <2> QED
    BY <2>1
<1>2. /\ DOMAIN c = CtlFields /\ c.batches = q.ctl.batches /\ c.next = q.ctl.next
      /\ c.scheduled = q.ctl.scheduled /\ c.finished = q.ctl.finished
      /\ c.pub = q.ctl.pub /\ c.active = q.ctl.active /\ c.poll = w
  BY CtlNames DEF Shaped
<1> HIDE DEF c, ps, w, r
<1>3. /\ HasFields(r) /\ r.ctl = c /\ r.db = q.db /\ r.events = q.events /\ r.pubs = q.pubs
      /\ r.polls = ps
  BY <1>1 DEF Shaped, HasFields
<1>4. /\ SameStore(q, r) /\ Shaped(r) /\ SamePlan(q, r) /\ r.pubs = q.pubs
      /\ r.ctl.active = q.ctl.active /\ r.ctl.finished = q.ctl.finished
      /\ r.ctl.pub = q.ctl.pub /\ r.ctl.poll = w
  BY <1>2, <1>3 DEF SameStore, Shaped, SamePlan
<1> QED
  BY <1>3, <1>4 DEF StartedPolling, r, w, ps

LEMMA StartingDoes ==
  ASSUME NEW s, Shaped(s), StoreFits(s.db)
  PROVE  \/ Started(s) = s
         \/ \E q, n : /\ Fresh(s, q) /\ q.ctl.batches = PendingBatches(s.db)
                      /\ q.ctl.scheduled = IdsOf(PendingBatches(s.db))
                      /\ n \in 1..Remaining(q) /\ n <= MaxInitial /\ OpenedFrom(q, Started(s), n)
         \/ \E q : /\ Fresh(s, q) /\ q.ctl.batches = << >> /\ q.ctl.scheduled = {}
                   /\ q.ctl.finished = TRUE
                   /\ PendingBatches(s.db) = << >> /\ StartedPolling(q, Started(s))
<1> DEFINE groups == PendingBatches(s.db)
           reset == ResetSchedule(s)
           fresh == [reset EXCEPT !.ctl.active = TRUE]
           q1 == [fresh EXCEPT !.ctl.batches = groups, !.ctl.scheduled = IdsOf(groups)]
           q2 == [fresh EXCEPT !.ctl.finished = TRUE]
           r == Started(s)
<1>1. r = IF groups # << >> THEN OpenBatches(q1, MaxInitial)
          ELSE IF AllIn(s.db, Inflight) # {} THEN StartPoller(q2) ELSE s
  BY Zenon DEF Started
<1> HIDE DEF r, groups
<1> DEFINE c0 == [s.ctl EXCEPT !.batches = << >>, !.next = 0, !.opened = {}, !.open = {},
                               !.scheduled = {}]
           c == [c0 EXCEPT !.active = TRUE]
           c1 == [c EXCEPT !.batches = groups, !.scheduled = IdsOf(groups)]
           c2 == [c EXCEPT !.finished = TRUE]
<1>2. reset = [s EXCEPT !.ctl = c0]
  BY Zenon DEF ResetSchedule
<1>3. /\ DOMAIN c0 = CtlFields /\ c0.batches = << >> /\ c0.next = 0 /\ c0.scheduled = {}
      /\ c0.pub = s.ctl.pub /\ c0.poll = s.ctl.poll
  BY CtlNames DEF Shaped
<1> HIDE DEF c0, reset
<1>4. /\ HasFields(reset) /\ reset.ctl = c0 /\ reset.db = s.db /\ reset.events = s.events
      /\ reset.pubs = s.pubs /\ reset.polls = s.polls
  BY <1>2 DEF Shaped, HasFields
<1>5. fresh = [reset EXCEPT !.ctl = c]
  BY <1>4
<1>6. /\ DOMAIN c = CtlFields /\ c.batches = << >> /\ c.next = 0 /\ c.scheduled = {}
      /\ c.pub = s.ctl.pub /\ c.poll = s.ctl.poll /\ c.active = TRUE
  BY <1>3, CtlNames
<1> HIDE DEF c, fresh
<1>7. /\ HasFields(fresh) /\ fresh.ctl = c /\ fresh.db = s.db /\ fresh.events = s.events
      /\ fresh.pubs = s.pubs /\ fresh.polls = s.polls
  BY <1>4, <1>5 DEF HasFields
<1>8. q1 = [fresh EXCEPT !.ctl = c1] /\ q2 = [fresh EXCEPT !.ctl = c2]
  BY <1>7
<1>9. /\ DOMAIN c1 = CtlFields /\ c1.batches = groups /\ c1.next = 0
      /\ c1.scheduled = IdsOf(groups)
      /\ c1.pub = s.ctl.pub /\ c1.poll = s.ctl.poll /\ c1.active = TRUE
  BY <1>6, CtlNames
<1>10. /\ DOMAIN c2 = CtlFields /\ c2.batches = << >> /\ c2.next = 0 /\ c2.scheduled = {}
       /\ c2.pub = s.ctl.pub /\ c2.poll = s.ctl.poll /\ c2.active = TRUE /\ c2.finished = TRUE
  BY <1>6, CtlNames
<1> HIDE DEF c1, c2, q1, q2
<1>11. /\ HasFields(q1) /\ q1.ctl = c1 /\ q1.db = s.db /\ q1.events = s.events
       /\ q1.pubs = s.pubs /\ q1.polls = s.polls
  BY <1>7, <1>8 DEF HasFields
<1>12. /\ HasFields(q2) /\ q2.ctl = c2 /\ q2.db = s.db /\ q2.events = s.events
       /\ q2.pubs = s.pubs /\ q2.polls = s.polls
  BY <1>7, <1>8 DEF HasFields
<1>13. groups \in Seq(Batches)
  BY GroupingFacts DEF Grouping, groups
<1>14. Fresh(s, q1) /\ q1.ctl.batches = groups /\ q1.ctl.scheduled = IdsOf(groups)
  BY <1>9, <1>11, <1>13 DEF Fresh, SameStore, Shaped
<1>15. Fresh(s, q2) /\ q2.ctl.batches = << >> /\ q2.ctl.scheduled = {} /\ q2.ctl.finished = TRUE
  <2>1. Shaped(q2)
    BY <1>10, <1>12, NothingPlanned
  <2> QED
    BY <1>10, <1>12, <2>1 DEF Fresh, SameStore
<1>16. CASE groups # << >>
  <2>1. r = OpenBatches(q1, MaxInitial)
    BY <1>1, <1>16
  <2>2. Remaining(q1) # 0
    <3>1. Remaining(q1) = Len(groups) - 0 /\ Len(groups) \in Nat
      BY <1>9, <1>11, <1>13, <1>14, TakenFolders DEF Fresh
    <3>2. Len(groups) # 0
      BY <1>13, <1>16
    <3> QED
      BY <3>1, <3>2
  <2>3. MaxInitial \in Nat \ {0} /\ Shaped(q1)
    BY <1>14, EagerAssumption DEF Fresh
  <2>4. \E n \in 1..Remaining(q1) : n <= MaxInitial /\ OpenedFrom(q1, OpenBatches(q1, MaxInitial), n)
    BY <2>2, <2>3, OpeningDoes
  <2> QED
    BY <1>14, <2>1, <2>4 DEF r, groups
<1>17. CASE groups = << >>
  <2>1. StartedPolling(q2, StartPoller(q2))
    BY <1>15, PollerStarts DEF Fresh
  <2>2. r = StartPoller(q2) \/ r = s
    BY <1>1, <1>17
  <2> QED
    BY <1>15, <1>17, <2>1, <2>2 DEF r, groups
<1> QED
  BY <1>16, <1>17

\* A stop asks both threads to end, and afterwards forgets them with the schedule.
LEMMA StoppingDoes ==
  ASSUME NEW s, Shaped(s)
  PROVE  /\ LET r == StopAsked(s)
            IN  /\ SameStore(s, r) /\ Shaped(r) /\ r.ctl = s.ctl
                /\ r.pubs = [k \in DOMAIN s.pubs |-> IF k = s.ctl.pub
                        THEN [s.pubs[k] EXCEPT !.stop = TRUE, !.quit = TRUE] ELSE s.pubs[k]]
                /\ r.polls = [k \in DOMAIN s.polls |-> IF k = s.ctl.poll
                        THEN Quit([s.polls[k] EXCEPT !.stop = TRUE]) ELSE s.polls[k]]
         /\ LET r == Stopped(s)
            IN  /\ SameStore(s, r) /\ Shaped(r) /\ r.pubs = s.pubs /\ r.polls = s.polls
                /\ r.ctl.batches = << >> /\ r.ctl.next = 0 /\ r.ctl.scheduled = {}
                /\ r.ctl.pub = NoSlot /\ r.ctl.poll = NoSlot /\ r.ctl.active = FALSE
<1>1. LET r == StopAsked(s)
      IN  /\ SameStore(s, r) /\ Shaped(r) /\ r.ctl = s.ctl
          /\ r.pubs = [k \in DOMAIN s.pubs |-> IF k = s.ctl.pub
                  THEN [s.pubs[k] EXCEPT !.stop = TRUE, !.quit = TRUE] ELSE s.pubs[k]]
          /\ r.polls = [k \in DOMAIN s.polls |-> IF k = s.ctl.poll
                  THEN Quit([s.polls[k] EXCEPT !.stop = TRUE]) ELSE s.polls[k]]
  <2> DEFINE ps == [k \in DOMAIN s.pubs |-> IF k = s.ctl.pub
                      THEN [s.pubs[k] EXCEPT !.stop = TRUE, !.quit = TRUE] ELSE s.pubs[k]]
             ws == [k \in DOMAIN s.polls |-> IF k = s.ctl.poll
                      THEN Quit([s.polls[k] EXCEPT !.stop = TRUE]) ELSE s.polls[k]]
             r == StopAsked(s)
  <2>1. r = [s EXCEPT !.pubs = ps, !.polls = ws]
    BY Zenon DEF StopAsked
  <2> HIDE DEF ps, ws, r
  <2>2. /\ HasFields(r) /\ r.ctl = s.ctl /\ r.db = s.db /\ r.events = s.events /\ r.pubs = ps
        /\ r.polls = ws
    BY <2>1 DEF Shaped, HasFields
  <2>3. SameStore(s, r) /\ Shaped(r)
    BY <2>2 DEF SameStore, Shaped
  <2> QED
    BY <2>2, <2>3 DEF r, ps, ws
<1>2. LET r == Stopped(s)
      IN  /\ SameStore(s, r) /\ Shaped(r) /\ r.pubs = s.pubs /\ r.polls = s.polls
          /\ r.ctl.batches = << >> /\ r.ctl.next = 0 /\ r.ctl.scheduled = {}
          /\ r.ctl.pub = NoSlot /\ r.ctl.poll = NoSlot /\ r.ctl.active = FALSE
  <2> DEFINE c0 == [s.ctl EXCEPT !.batches = << >>, !.next = 0, !.opened = {}, !.open = {},
                                 !.scheduled = {}]
             reset == ResetSchedule(s)
             c == [c0 EXCEPT !.pub = NoSlot, !.poll = NoSlot, !.active = FALSE, !.finished = TRUE]
             r == Stopped(s)
  <2>1. reset = [s EXCEPT !.ctl = c0]
    BY Zenon DEF ResetSchedule
  <2>2. r = [reset EXCEPT !.ctl.pub = NoSlot, !.ctl.poll = NoSlot,
                          !.ctl.active = FALSE, !.ctl.finished = TRUE]
    BY Zenon DEF Stopped
  <2>3. /\ DOMAIN c0 = CtlFields /\ c0.batches = << >> /\ c0.next = 0 /\ c0.scheduled = {}
    BY CtlNames DEF Shaped
  <2> HIDE DEF c0, reset, r
  <2>4. /\ HasFields(reset) /\ reset.ctl = c0 /\ reset.db = s.db /\ reset.events = s.events
        /\ reset.pubs = s.pubs /\ reset.polls = s.polls
    BY <2>1 DEF Shaped, HasFields
  <2>5. r = [reset EXCEPT !.ctl = c]
    BY <2>2, <2>4
  <2>6. /\ DOMAIN c = CtlFields /\ c.batches = << >> /\ c.next = 0 /\ c.scheduled = {}
        /\ c.pub = NoSlot /\ c.poll = NoSlot /\ c.active = FALSE
    BY <2>3, CtlNames
  <2> HIDE DEF c
  <2>7. /\ HasFields(r) /\ r.ctl = c /\ r.db = s.db /\ r.events = s.events
        /\ r.pubs = s.pubs /\ r.polls = s.polls
    BY <2>4, <2>5 DEF HasFields
  <2>8. Shaped(r)
    BY <2>6, <2>7, NothingPlanned
  <2>9. SameStore(s, r) /\ Shaped(r)
    BY <2>7, <2>8 DEF SameStore
  <2> QED
    BY <2>6, <2>7, <2>9 DEF r
<1> QED
  BY <1>1, <1>2

-----------------------------------------------------------------------------
(* The cap on the folders worked on at once. *)

OpenNow(s) == {f \in FoldersOf(Taken(s)) \cap Grouped(s.db) : ~Finished(s.db, f)}
Capped(s) == Cardinality(OpenNow(s)) <= MaxActive
\* Without extensions a folder in the store has all of its images there.
AllRegistered(d) == \A f \in Grouped(d) : \A i \in Items[f] : \E t \in OfFolder(d, f) : t.item = i
CapFits(s) ==
  /\ StoreFits(s.db) /\ ScheduleFits(s)
  /\ "extend" \notin Allowed => AllRegistered(s.db) /\ Capped(s)

LEMMA Narrower ==
  ASSUME NEW s, Shaped(s), Capped(s), NEW r, OpenNow(r) \subseteq OpenNow(s)
  PROVE  Capped(r)
<1>1. IsFiniteSet(FoldersOf(Taken(s)))
  <2>1. FoldersOf(Taken(s)) = FoldersUpTo(s.ctl.batches, s.ctl.next) /\ s.ctl.next \in Nat
    BY TakenFolders DEF Shaped
  <2> QED
    BY <2>1, FewFolders
<1>2. OpenNow(s) \subseteq FoldersOf(Taken(s))
  BY DEF OpenNow
<1>3. IsFiniteSet(OpenNow(s))
  BY <1>1, <1>2, FS_Subset
<1>4. /\ Cardinality(OpenNow(r)) <= Cardinality(OpenNow(s))
      /\ Cardinality(OpenNow(r)) \in Nat /\ Cardinality(OpenNow(s)) \in Nat
  BY <1>3, FS_Subset, FS_CardinalityType
<1> QED
  BY <1>4, EagerAssumption DEF Capped

\* Whether a folder is done, by its tasks.
LEMMA FinishedTasks ==
  ASSUME NEW d, StoreFits(d), NEW f
  PROVE  Finished(d, f) <=> f \in Grouped(d) /\ \A t \in OfFolder(d, f) : d.status[t] \in Done
<1>1. \A g \in Grouped(d) : ToSet(d.ids[g]) = OfFolder(d, g)
  BY EnumeratesMembers DEF StoreFits, ListsFit
<1> QED
  BY <1>1 DEF Finished

\* The statuses move on, and the schedule stays.
LEMMA CapMoves ==
  ASSUME NEW s, CapFits(s), NEW r, Shaped(r), StoreFits(r.db), Moved(s.db, r.db) \/ r.db = s.db,
         r.ctl.batches = s.ctl.batches, r.ctl.next = s.ctl.next
  PROVE  CapFits(r)
<1>1. Moved(s.db, r.db)
  BY DEF Moved
<1>2. Grouped(r.db) = Grouped(s.db) /\ \A f : OfFolder(r.db, f) = OfFolder(s.db, f)
  BY <1>1 DEF Moved, Grouped, OfFolder
<1>3. ScheduleFits(r)
  BY <1>2 DEF CapFits, ScheduleFits
<1>4. ASSUME "extend" \notin Allowed PROVE AllRegistered(r.db) /\ Capped(r)
  <2>1. AllRegistered(r.db)
    BY <1>2, <1>4 DEF CapFits, AllRegistered
  <2>2. Taken(r) = Taken(s)
    BY DEF Taken
  <2>3. ASSUME NEW f, Finished(s.db, f) PROVE Finished(r.db, f)
    <3>1. \A t \in OfFolder(s.db, f) : t \in Known(s.db) /\ s.db.status[t] \in Done
      BY <2>3, FinishedTasks DEF CapFits, OfFolder
    <3>2. f \in Grouped(r.db)
      BY <1>2, <2>3 DEF Finished
    <3> QED
      BY <1>1, <1>2, <3>1, <3>2, FinishedTasks DEF Moved
  <2>4. OpenNow(r) \subseteq OpenNow(s)
    BY <1>2, <2>2, <2>3 DEF OpenNow
  <2> QED
    BY <1>4, <2>1, <2>4, Narrower DEF CapFits, ScheduleFits
<1> QED
  BY <1>3, <1>4 DEF CapFits

\* What a decision leaves as it was.
LEMMA DispatchKeeps ==
  ASSUME NEW s, Shaped(s)
  PROVE  LET r == Dispatch(s)
         IN  /\ SameStore(s, r) /\ Shaped(r) /\ r.polls = s.polls
             /\ r.ctl.batches = s.ctl.batches /\ r.ctl.scheduled = s.ctl.scheduled
             /\ r.ctl.active = s.ctl.active /\ r.ctl.poll = s.ctl.poll
<1> DEFINE r == Dispatch(s)
<1>0. s.ctl.batches \in Seq(Batches) /\ s.ctl.next \in 0..Len(s.ctl.batches)
      /\ Remaining(s) = Len(s.ctl.batches) - s.ctl.next /\ Len(s.ctl.batches) \in Nat
  BY TakenFolders DEF Shaped
<1>1. \/ Rested(s, r)
      \/ \E q, n : Rested(s, q) /\ n \in 1..Remaining(s) /\ OpenedFrom(q, r, n)
  BY DispatchDoes
<1> HIDE DEF r
<1>2. CASE Rested(s, r)
  BY <1>0, <1>2 DEF Rested, SameStore, Shaped, r
<1>3. ASSUME NEW q, NEW n, Rested(s, q), n \in 1..Remaining(s), OpenedFrom(q, r, n)
      PROVE  /\ SameStore(s, r) /\ Shaped(r) /\ r.polls = s.polls
             /\ r.ctl.batches = s.ctl.batches /\ r.ctl.scheduled = s.ctl.scheduled
             /\ r.ctl.active = s.ctl.active /\ r.ctl.poll = s.ctl.poll
  <2>1. s.ctl.next + n \in 0..Len(s.ctl.batches)
    BY <1>0, <1>3
  <2> QED
    BY <1>0, <1>3, <2>1 DEF Rested, OpenedFrom, SameStore, Shaped
<1> QED
  BY <1>1, <1>2, <1>3 DEF r

\* The dispatcher opens as many folders as there is room for.
LEMMA CapDispatch ==
  ASSUME NEW s, CapFits(s)
  PROVE  CapFits(Dispatch(s))
<1> DEFINE r == Dispatch(s)
<1>1. Shaped(s)
  BY DEF CapFits, ScheduleFits
<1>2. SameStore(s, r) /\ Shaped(r) /\ r.ctl.batches = s.ctl.batches
  BY <1>1, DispatchKeeps
<1>3. \/ Rested(s, r)
      \/ \E q, n : /\ Rested(s, q) /\ n \in 1..Remaining(s) /\ OpenedFrom(q, r, n)
                   /\ Cardinality(Synchronized(s).ctl.open) + n <= MaxActive
  BY <1>1, DispatchDoes
<1> HIDE DEF r
<1>4. StoreFits(r.db) /\ ScheduleFits(r)
  BY <1>2 DEF CapFits, ScheduleFits, SameStore
<1>5. CASE Rested(s, r)
  BY <1>2, <1>4, <1>5, CapMoves DEF Rested, SameStore, r
<1>6. ASSUME NEW q, NEW n, Rested(s, q), n \in 1..Remaining(s), OpenedFrom(q, r, n),
             Cardinality(Synchronized(s).ctl.open) + n <= MaxActive
      PROVE  Capped(r)
  <2> DEFINE b == s.ctl.batches
             k == s.ctl.next
             open == Synchronized(s).ctl.open
             added == {b[k + i].folder : i \in 1..n}
  <2>1. n \in Nat /\ k \in Nat /\ r.ctl.next = k + n /\ r.ctl.batches = b
    BY <1>1, <1>2, <1>6, TakenFolders DEF Rested, OpenedFrom, Shaped
  <2>2. IsFiniteSet(added) /\ Cardinality(added) <= n
    <3> DEFINE g == [i \in 1..n |-> b[k + i].folder]
    <3>1. IsFiniteSet(1..n) /\ Cardinality(1..n) = n
      BY <2>1, CountUpTo
    <3>2. g \in Surjection(1..n, added)
      BY DEF Surjection
    <3> HIDE DEF g, added
    <3>3. IsFiniteSet(added) /\ Cardinality(added) <= Cardinality(1..n)
      BY <3>1, <3>2, FS_Surjection
    <3> QED
      BY <3>1, <3>3
  <2>3. FoldersOf(Taken(r)) \subseteq FoldersOf(Taken(s)) \cup added
    <3>1. FoldersOf(Taken(s)) = FoldersUpTo(b, k) /\ FoldersOf(Taken(r)) = FoldersUpTo(b, k + n)
      BY <1>1, <1>2, <2>1, TakenFolders
    <3>2. ASSUME NEW i \in 1..k + n, i \notin 1..k PROVE b[i].folder \in added
      <4>1. i - k \in 1..n /\ k + (i - k) = i
        BY <2>1, <3>2
      <4> QED
        BY <4>1
    <3> HIDE DEF added
    <3> QED
      BY <2>1, <3>1, <3>2 DEF FoldersUpTo
  <2>4. OpenNow(s) \subseteq open /\ IsFiniteSet(open)
    BY <1>1, CountedOpen DEF OpenNow
  <2> HIDE DEF added, open
  <2>5. OpenNow(r) \subseteq open \cup added
    BY <1>2, <2>3, <2>4 DEF OpenNow, SameStore
  <2>6. IsFiniteSet(open \cup added) /\ Cardinality(open \cup added) <= Cardinality(open) + Cardinality(added)
    <3>1. /\ IsFiniteSet(open \cap added) /\ IsFiniteSet(open \cup added)
          /\ Cardinality(open \cup added) = Cardinality(open) + Cardinality(added)
                                              - Cardinality(open \cap added)
      BY <2>2, <2>4, FS_Union, FS_Intersection
    <3>2. /\ Cardinality(open) \in Nat /\ Cardinality(added) \in Nat
          /\ Cardinality(open \cap added) \in Nat
      BY <2>2, <2>4, <3>1, FS_CardinalityType
    <3> QED
      BY <3>1, <3>2
  <2>7. /\ Cardinality(OpenNow(r)) <= Cardinality(open \cup added)
        /\ Cardinality(OpenNow(r)) \in Nat /\ Cardinality(open \cup added) \in Nat
        /\ Cardinality(open) \in Nat /\ Cardinality(added) \in Nat
    BY <2>2, <2>4, <2>5, <2>6, FS_Subset, FS_CardinalityType
  <2>8. Cardinality(open) + n <= MaxActive /\ MaxActive \in Nat
    BY <1>6, EagerAssumption DEF open
  <2> QED
    BY <2>1, <2>2, <2>6, <2>7, <2>8 DEF Capped
<1>7. ASSUME "extend" \notin Allowed, ~Rested(s, r) PROVE AllRegistered(r.db) /\ Capped(r)
  BY <1>2, <1>3, <1>6, <1>7 DEF CapFits, SameStore
<1> QED
  BY <1>4, <1>5, <1>7 DEF CapFits, r

\* The batches taken, and those still to be taken.
TwoParts(a, n, t, u) ==
  /\ t \in Seq(Batches) /\ u \in Seq(Batches) /\ n \in Nat /\ Len(a) \in Nat /\ n <= Len(a)
  /\ DOMAIN a = 1..Len(a) /\ DOMAIN t = 1..n /\ DOMAIN u = 1..Len(a) - n
  /\ \A k \in 1..n : k \in DOMAIN a /\ t[k] = a[k]
  /\ \A k \in 1..Len(a) - n : n + k \in DOMAIN a /\ u[k] = a[n + k]

LEMMA TakenEntries ==
  ASSUME NEW s, Shaped(s)
  PROVE  TwoParts(s.ctl.batches, s.ctl.next, Taken(s), Untaken(s))
<1> DEFINE a == s.ctl.batches
           n == s.ctl.next
<1>1. a \in Seq(Batches) /\ n \in 0..Len(a)
  BY DEF Shaped
<1>2. Taken(s) = SubSeq(a, 1, n) /\ Untaken(s) = SubSeq(a, n + 1, Len(a))
  BY DEF Taken, Untaken
<1> HIDE DEF a, n
<1>3. /\ SubSeq(a, 1, n) \in Seq(Batches) /\ SubSeq(a, n + 1, Len(a)) \in Seq(Batches)
      /\ Cut(a, n)
  BY <1>1, Parts, SMTT(30)
<1>4. n \in Nat /\ Len(a) \in Nat /\ n <= Len(a) /\ DOMAIN a = 1..Len(a)
  BY <1>1
<1>5. /\ \A k \in 1..n : k \in 1..Len(a)
      /\ \A k \in 1..Len(a) - n : n + k \in 1..Len(a)
  BY <1>4
<1>6. TwoParts(a, n, Taken(s), Untaken(s))
  BY <1>2, <1>3, <1>4, <1>5 DEF TwoParts, Cut
<1> QED
  BY <1>6 DEF a, n

\* A registration: the folders that were in the store gain nothing, and a folder
\* that is new to the store has no batch yet.
LEMMA CapRegisters ==
  ASSUME NEW s, CapFits(s), NEW f \in Folders, NEW items \in SUBSET Items[f],
         "extend" \in Allowed \/ items = Items[f],
         NEW r, Shaped(r), r.db = RegisterFolder(s.db, f, items), ScheduleFits(r),
         FoldersOf(Taken(r)) = FoldersOf(Taken(s))
  PROVE  CapFits(r)
<1> DEFINE d == s.db
           e == r.db
<1>1. StoreFits(d) /\ Shaped(s) /\ FoldersOf(s.ctl.batches) \subseteq Grouped(d)
  BY DEF CapFits, ScheduleFits
<1>2. PICK new : StoreFits(e) /\ Extended(d, e, f, items, new)
  BY <1>1, RegisteringFits
<1> HIDE DEF d, e
<1>3. ASSUME "extend" \notin Allowed PROVE AllRegistered(e) /\ Capped(r)
  <2>1. items = Items[f] /\ AllRegistered(d) /\ Capped(s)
    BY <1>3 DEF CapFits, d
  <2>2. ASSUME f \in Grouped(d) PROVE new = {}
    <3>1. SUFFICES ASSUME NEW t \in new PROVE FALSE
      OBVIOUS
    <3>2. t.item \in Items[f] /\ \A u \in OfFolder(d, f) : u.item # t.item
      BY <1>2, <2>1 DEF Extended
    <3> QED
      BY <2>1, <2>2, <3>2 DEF AllRegistered
  <2>3. ASSUME NEW g, g \in Grouped(d) \/ g # f
        PROVE  OfFolder(e, g) = OfFolder(d, g)
               /\ \A t \in OfFolder(d, g) : e.status[t] = d.status[t]
    BY <1>2, <2>2, <2>3 DEF Extended, OfFolder
  <2>4. Grouped(e) \subseteq Grouped(d) \cup {f} /\ Grouped(d) \subseteq Grouped(e)
    BY <1>2 DEF Extended
  <2>5. AllRegistered(e)
    <3>1. ASSUME NEW g \in Grouped(e), NEW i \in Items[g]
          PROVE  \E t \in OfFolder(e, g) : t.item = i
      <4>1. CASE g = f
        BY <1>2, <2>1, <4>1 DEF Extended
      <4>2. CASE g # f
        BY <2>1, <2>3, <2>4, <4>2 DEF AllRegistered
      <4> QED
        BY <4>1, <4>2
    <3> QED
      BY <3>1 DEF AllRegistered
  <2>6. FoldersOf(Taken(s)) \subseteq Grouped(d)
    <3>1. Len(s.ctl.batches) \in Nat /\ s.ctl.next \in 0..Len(s.ctl.batches)
      BY <1>1 DEF Shaped
    <3>2. \A b, n, m : n \in Nat /\ m \in Nat /\ n <= m => FoldersUpTo(b, n) \subseteq FoldersUpTo(b, m)
      BY DEF FoldersUpTo
    <3>3. FoldersOf(Taken(s)) \subseteq FoldersOf(s.ctl.batches)
      BY <1>1, <3>1, <3>2, TakenFolders
    <3> QED
      BY <1>1, <3>3
  <2>7. ASSUME NEW g \in Grouped(d), Finished(d, g) PROVE Finished(e, g)
    BY <1>1, <1>2, <2>3, <2>4, <2>7, FinishedTasks
  <2>8. OpenNow(r) \subseteq OpenNow(s)
    BY <2>6, <2>7 DEF OpenNow, d, e
  <2> QED
    BY <1>1, <2>1, <2>5, <2>8, Narrower
<1> QED
  BY <1>2, <1>3 DEF CapFits, e

LEMMA CapAdded ==
  ASSUME NEW s, CapFits(s), NEW f \in Folders, NEW items \in SUBSET Items[f],
         "extend" \in Allowed \/ items = Items[f]
  PROVE  CapFits(Added(s, f, items))
<1> DEFINE d == RegisterFolder(s.db, f, items)
           new == PendingIds(d, f, s.ctl.scheduled)
           r == Added(s, f, items)
<1>1. /\ StoreFits(s.db) /\ Shaped(s) /\ ScheduleFits(s)
  BY DEF CapFits, ScheduleFits
<1>2. PICK fresh : StoreFits(d) /\ Extended(s.db, d, f, items, fresh)
  BY <1>1, RegisteringFits
<1>3. Grouped(s.db) \subseteq Grouped(d) /\ (d # s.db => f \in Grouped(d))
  BY <1>2 DEF Extended
<1>4. ToSet(new) \subseteq OfFolder(d, f) /\ new \in Seq(Requests)
  <2> DEFINE X == s.ctl.scheduled
  <2>1. StoreFits(d) /\ new = PendingIds(d, f, X)
    BY <1>2
  <2> HIDE DEF d, X, new
  <2>2. /\ ToSet(PendingIds(d, f, X)) = (OfFolder(d, f) \cap WaitingIn(d)) \ X
        /\ PendingIds(d, f, X) \in Seq(Requests)
    BY <2>1, PendingFacts
  <2> QED
    BY <2>1, <2>2
<1>5. \/ r = [s EXCEPT !.db = d]
      \/ d # s.db /\ \E q : Joining(s, q, d, f, new) /\ r = Dispatch(q)
  BY <1>1, AddingDoes
<1> HIDE DEF new, r
<1>6. CASE r = [s EXCEPT !.db = d]
  <2>1. SamePlan(s, r) /\ Shaped(r) /\ r.db = d
    BY <1>1, <1>6, Storing
  <2>2. ScheduleFits(r) /\ Taken(r) = Taken(s)
    BY <1>1, <1>3, <2>1 DEF ScheduleFits, SamePlan, Taken
  <2> QED
    BY <2>1, <2>2, CapRegisters DEF r
<1>7. ASSUME NEW q, d # s.db, Joining(s, q, d, f, new), r = Dispatch(q) PROVE CapFits(r)
  <2> HIDE DEF d
  <2> DEFINE a == s.ctl.batches
             c == q.ctl.batches
             n == s.ctl.next
             x == [folder |-> f, ids |-> new]
  <2>1. Shaped(q) /\ q.db = d /\ q.ctl.next = n
    BY <1>7 DEF Joining
  <2>2. PICK m : JoinsAt(a, c, n, x, m)
    BY <1>7 DEF Joining
  <2>3. /\ a \in Seq(Batches) /\ n \in Nat /\ n <= Len(a) /\ Len(a) \in Nat /\ DOMAIN a = 1..Len(a)
        /\ c \in Seq(Batches) /\ Len(c) \in Nat /\ DOMAIN c = 1..Len(c)
    BY <1>1, <2>1 DEF Shaped
  <2>4. x.folder = f /\ x.ids = new
    OBVIOUS
  <2> HIDE DEF a, c, n, x
  <2>5. m \in Nat /\ m > n /\ m <= Len(a) + 1 /\ Len(c) = (IF m <= Len(a) THEN Len(a) ELSE m)
    BY <2>2, <2>3 DEF JoinsAt
  <2>6. ASSUME NEW k \in DOMAIN c, k # m PROVE k \in DOMAIN a /\ c[k] = a[k]
    <3>1. k \in 1..Len(a)
      BY <2>3, <2>5, <2>6
    <3> QED
      BY <2>2, <2>3, <2>6, <3>1 DEF JoinsAt
  <2>7. c[m].folder = f /\ ToSet(c[m].ids) \subseteq (IF m <= Len(a) THEN ToSet(a[m].ids) ELSE {}) \cup ToSet(new)
    <3>1. c[m].folder = f /\ c[m].ids = IF m <= Len(a) THEN a[m].ids \o new ELSE new
      BY <2>2, <2>4 DEF JoinsAt
    <3>2. CASE m <= Len(a)
      <4>1. m \in 1..Len(a)
        BY <2>3, <2>5, <3>2
      <4>2. a[m] \in Batches
        BY <2>3, <4>1
      <4>3. a[m].ids \in Seq(Requests)
        BY <4>2 DEF Batches
      <4>4. ToSet(a[m].ids \o new) = ToSet(a[m].ids) \cup ToSet(new)
        BY <1>4, <4>3, ToSetConcat
      <4> QED
        BY <3>1, <3>2, <4>4
    <3>3. CASE ~(m <= Len(a))
      BY <3>1, <3>3
    <3> QED
      BY <3>2, <3>3
  <2>8. FoldersOf(c) \subseteq Grouped(d)
    <3>1. \A k \in DOMAIN a : a[k].folder \in Grouped(d)
      BY <1>1, <1>3 DEF ScheduleFits, FoldersOf, a
    <3> QED
      BY <1>3, <1>7, <2>6, <2>7, <3>1 DEF FoldersOf
  <2>9. ASSUME NEW k \in DOMAIN c, NEW t \in ToSet(c[k].ids) PROVE t.folder = c[k].folder
    <3>1. \A l \in DOMAIN a : \A u \in ToSet(a[l].ids) : u.folder = a[l].folder
      BY <1>1 DEF ScheduleFits, a
    <3>2. CASE k # m
      BY <2>6, <3>1, <3>2
    <3>3. CASE k = m
      <4>1. t \in ToSet(new) => t.folder = f
        BY <1>4 DEF OfFolder
      <4>2. m <= Len(a) => m \in DOMAIN a /\ a[m].folder = f
        BY <2>2, <2>3, <2>4, <2>5 DEF JoinsAt
      <4> QED
        BY <2>7, <2>9, <3>1, <3>3, <4>1, <4>2
    <3> QED
      BY <3>2, <3>3
  <2>10. ScheduleFits(q)
    BY <2>1, <2>8, <2>9 DEF ScheduleFits, c
  <2>11. FoldersOf(Taken(q)) = FoldersOf(Taken(s))
    <3>1. \A k \in 1..n : c[k] = a[k]
      BY <2>2, <2>3, <2>5 DEF JoinsAt
    <3>2. FoldersUpTo(c, n) = FoldersUpTo(a, n)
      BY <3>1 DEF FoldersUpTo
    <3> QED
      BY <1>1, <2>1, <3>2, TakenFolders DEF a, c, n
  <2>12. CapFits(q)
    BY <2>1, <2>10, <2>11, CapRegisters DEF d
  <2> QED
    BY <1>7, <2>12, CapDispatch
<1> QED
  BY <1>5, <1>6, <1>7 DEF r

LEMMA CapRemoved ==
  ASSUME NEW s, CapFits(s), NEW S
  PROVE  CapFits(Removed(s, S))
<1> DEFINE R == Removable(s.db, S)
           gone == {t \in Known(s.db) : t.folder \in R}
           d == s.db
           e == RemoveFolders(s.db, S)
           r == Removed(s, S)
<1>1. StoreFits(d) /\ Shaped(s) /\ ScheduleFits(s)
  BY DEF CapFits, ScheduleFits
<1>2. \/ R = {} /\ r = s
      \/ /\ R # {}
         /\ \E q : Leaving(s, q, R, e, gone) /\ r = IF s.ctl.active THEN Dispatch(q) ELSE q
  BY <1>1, RemovingDoes
<1>3. R # {} => StoreFits(e) /\ Reduced(d, e, R)
  BY <1>1, RemovingFits
<1> HIDE DEF R, gone, d, e, r
<1>4. ASSUME NEW q, R # {}, Leaving(s, q, R, e, gone) PROVE CapFits(q)
  <2>1. Shaped(q) /\ q.db = e /\ Taken(q) = Kept(Taken(s), R)
        /\ q.ctl.batches = Kept(Taken(s), R) \o Kept(Untaken(s), R)
    BY <1>4 DEF Leaving
  <2>2. StoreFits(e) /\ Reduced(d, e, R)
    BY <1>3, <1>4
  <2> DEFINE a == s.ctl.batches
             n == s.ctl.next
             u == Kept(Taken(s), R)
             v == Kept(Untaken(s), R)
  <2>4. TwoParts(a, n, Taken(s), Untaken(s))
    BY <1>1, TakenEntries
  <2>5. /\ u \in Seq(Batches) /\ FoldersOf(u) = FoldersOf(Taken(s)) \ R
        /\ \E C, g : Drawn(Taken(s), C, u, g) /\ C = {x \in ToSet(Taken(s)) : x.folder \notin R}
        /\ v \in Seq(Batches) /\ FoldersOf(v) = FoldersOf(Untaken(s)) \ R
        /\ \E C, g : Drawn(Untaken(s), C, v, g) /\ C = {x \in ToSet(Untaken(s)) : x.folder \notin R}
    BY <2>4, KeptFacts DEF TwoParts
  <2>6. ASSUME NEW x \in ToSet(Taken(s)) \cup ToSet(Untaken(s)) PROVE x \in ToSet(a)
    <3> HIDE DEF a, n
    <3> QED
      BY <2>4, <2>6 DEF TwoParts, ToSet
  <2> HIDE DEF u, v
  <2>7. ASSUME NEW x \in ToSet(u) \cup ToSet(v) PROVE x \in ToSet(a) /\ x.folder \notin R
    <3>1. PICK C, g : Drawn(Taken(s), C, u, g) /\ C = {y \in ToSet(Taken(s)) : y.folder \notin R}
      BY <2>5
    <3>2. PICK D, h : Drawn(Untaken(s), D, v, h) /\ D = {y \in ToSet(Untaken(s)) : y.folder \notin R}
      BY <2>5
    <3>3. x \in C \/ x \in D
      BY <2>7, <3>1, <3>2 DEF Drawn, ToSet
    <3> QED
      BY <2>6, <3>1, <3>2, <3>3
  <2>8. ToSet(q.ctl.batches) = ToSet(u) \cup ToSet(v)
    BY <2>1, <2>5, ToSetConcat DEF u, v
  <2>9. ScheduleFits(q)
    <3>1. \A x \in ToSet(a) : x.folder \in Grouped(d) /\ \A t \in ToSet(x.ids) : t.folder = x.folder
      BY <1>1 DEF ScheduleFits, FoldersOf, ToSet, d
    <3>2. Grouped(e) = Grouped(d) \ R
      BY <2>2 DEF Reduced
    <3>3. \A k \in DOMAIN q.ctl.batches : q.ctl.batches[k] \in ToSet(a) /\ q.ctl.batches[k].folder \notin R
      <4>1. \A k \in DOMAIN q.ctl.batches : q.ctl.batches[k] \in ToSet(q.ctl.batches)
        BY DEF ToSet
      <4> QED
        BY <2>7, <2>8, <4>1
    <3> HIDE DEF a
    <3> QED
      BY <2>1, <3>1, <3>2, <3>3 DEF ScheduleFits, FoldersOf
  <2>10. ASSUME "extend" \notin Allowed PROVE AllRegistered(e) /\ Capped(q)
    <3>1. AllRegistered(d) /\ Capped(s)
      BY <2>10 DEF CapFits, d
    <3>2. \A f : f \notin R => OfFolder(e, f) = OfFolder(d, f)
                               /\ \A t \in OfFolder(d, f) : e.status[t] = d.status[t]
      BY <2>2 DEF Reduced, OfFolder
    <3>3. Grouped(e) = Grouped(d) \ R
      BY <2>2 DEF Reduced
    <3>4. AllRegistered(e)
      BY <3>1, <3>2, <3>3 DEF AllRegistered
    <3>5. ASSUME NEW f, f \notin R, Finished(d, f) PROVE Finished(e, f)
      BY <1>1, <2>2, <3>2, <3>3, <3>5, FinishedTasks
    <3>6. FoldersOf(Taken(q)) = FoldersOf(Taken(s)) \ R
      BY <2>1, <2>5 DEF u
    <3>7. OpenNow(q) \subseteq OpenNow(s)
      BY <2>1, <3>3, <3>5, <3>6 DEF OpenNow, d
    <3> QED
      BY <1>1, <3>1, <3>4, <3>7, Narrower
  <2> QED
    BY <2>1, <2>2, <2>9, <2>10 DEF CapFits
<1>5. CASE R = {}
  BY <1>2, <1>5 DEF r
<1>6. CASE R # {}
  BY <1>2, <1>4, <1>6, CapDispatch DEF r
<1> QED
  BY <1>5, <1>6

LEMMA CapStarted ==
  ASSUME NEW s, CapFits(s)
  PROVE  CapFits(Started(s))
<1> DEFINE r == Started(s)
           groups == PendingBatches(s.db)
<1>1. StoreFits(s.db) /\ Shaped(s)
  BY DEF CapFits, ScheduleFits
<1>2. Grouping(s.db, groups)
  BY <1>1, GroupingFacts
<1>3. \/ r = s
      \/ \E q, n : /\ Fresh(s, q) /\ q.ctl.batches = groups
                   /\ n \in 1..Remaining(q) /\ n <= MaxInitial /\ OpenedFrom(q, r, n)
      \/ \E q : Fresh(s, q) /\ q.ctl.batches = << >> /\ StartedPolling(q, r)
  BY <1>1, StartingDoes
<1> HIDE DEF r, groups
<1>4. ASSUME NEW q, Fresh(s, q), q.ctl.batches = groups \/ q.ctl.batches = << >>
      PROVE  Shaped(q) /\ q.db = s.db /\ q.ctl.next = 0 /\ ScheduleFits(q)
  <2>1. Shaped(q) /\ q.db = s.db /\ q.ctl.next = 0
    BY <1>4 DEF Fresh, SameStore
  <2>2. \A k \in DOMAIN groups : groups[k].folder \in Grouped(s.db)
          /\ \A t \in ToSet(groups[k].ids) : t.folder = groups[k].folder
    <3>1. ASSUME NEW k \in DOMAIN groups, NEW t \in ToSet(groups[k].ids)
          PROVE  t.folder = groups[k].folder
      <4>1. ToSet(groups[k].ids) = OfFolder(s.db, groups[k].folder) \cap WaitingIn(s.db)
        BY <1>2, EnumeratesMembers DEF Grouping
      <4> QED
        BY <3>1, <4>1 DEF OfFolder
    <3> QED
      BY <1>2, <3>1 DEF Grouping
  <2>3. CASE q.ctl.batches = groups
    BY <2>1, <2>2, <2>3 DEF ScheduleFits, FoldersOf
  <2>4. CASE q.ctl.batches = << >>
    BY <2>1, <2>4 DEF ScheduleFits, FoldersOf
  <2> QED
    BY <1>4, <2>1, <2>3, <2>4
<1>5. ASSUME NEW n \in Nat, n <= MaxInitial, Shaped(r), FoldersOf(Taken(r)) = FoldersUpTo(groups, n)
      PROVE  Capped(r)
  <2>1. IsFiniteSet(FoldersUpTo(groups, n)) /\ Cardinality(FoldersUpTo(groups, n)) <= n
    BY FewFolders
  <2>2. OpenNow(r) \subseteq FoldersUpTo(groups, n)
    BY <1>5 DEF OpenNow
  <2>3. /\ Cardinality(OpenNow(r)) <= Cardinality(FoldersUpTo(groups, n))
        /\ Cardinality(OpenNow(r)) \in Nat /\ Cardinality(FoldersUpTo(groups, n)) \in Nat
    BY <2>1, <2>2, FS_Subset, FS_CardinalityType
  <2> QED
    BY <1>5, <2>1, <2>3, EagerAssumption DEF Capped
<1>6. CASE r = s
  BY <1>6 DEF r
<1>7. ASSUME NEW q, NEW n, Fresh(s, q), q.ctl.batches = groups, n \in 1..Remaining(q),
             n <= MaxInitial, OpenedFrom(q, r, n)
      PROVE  CapFits(r)
  <2>1. Shaped(q) /\ q.db = s.db /\ q.ctl.next = 0 /\ ScheduleFits(q)
    BY <1>4, <1>7
  <2>2. n \in Nat /\ n <= Len(groups) /\ Len(groups) \in Nat
    BY <1>2, <1>7, <2>1, TakenFolders DEF Grouping
  <2>3. Shaped(r) /\ r.db = s.db /\ r.ctl.batches = groups /\ r.ctl.next = n
    BY <1>2, <1>7, <2>1, <2>2 DEF OpenedFrom, SameStore, Shaped, Grouping
  <2>4. ScheduleFits(r)
    BY <1>7, <2>1, <2>3 DEF ScheduleFits
  <2>5. Capped(r)
    BY <1>5, <1>7, <2>2, <2>3, TakenFolders
  <2> QED
    BY <2>3, <2>4, <2>5 DEF CapFits, r
<1>8. ASSUME NEW q, Fresh(s, q), q.ctl.batches = << >>, StartedPolling(q, r)
      PROVE  CapFits(r)
  <2>1. Shaped(q) /\ q.db = s.db /\ q.ctl.next = 0 /\ ScheduleFits(q)
    BY <1>4, <1>8
  <2>2. Shaped(r) /\ r.db = s.db /\ r.ctl.batches = << >> /\ r.ctl.next = 0
    BY <1>8, <2>1 DEF StartedPolling, SameStore, SamePlan
  <2>3. ScheduleFits(r)
    BY <1>8, <2>1, <2>2 DEF ScheduleFits
  <2>4. FoldersOf(Taken(r)) = FoldersUpTo(groups, 0)
    BY <2>2, TakenFolders DEF FoldersUpTo
  <2>5. 0 \in Nat /\ 0 <= MaxInitial
    BY EagerAssumption
  <2>6. Capped(r)
    BY <1>5, <2>2, <2>4, <2>5
  <2> QED
    BY <2>2, <2>3, <2>6 DEF CapFits, r
<1> QED
  BY <1>3, <1>6, <1>7, <1>8 DEF r

LEMMA CapCleared ==
  ASSUME NEW s, Shaped(s), StoreFits(s.db), s.ctl.batches = << >>, s.ctl.next = 0,
         "extend" \notin Allowed => AllRegistered(s.db)
  PROVE  CapFits(s)
<1>1. ScheduleFits(s)
  BY DEF ScheduleFits, FoldersOf
<1>2. FoldersOf(Taken(s)) = FoldersUpTo(<< >>, 0)
  BY TakenFolders
<1>3. OpenNow(s) = {}
  BY <1>2 DEF OpenNow, FoldersUpTo
<1>4. Capped(s)
  BY <1>3, FS_EmptySet, EagerAssumption DEF Capped
<1> QED
  BY <1>1, <1>4 DEF CapFits

\* The end of a stop, with a reset or without.
LEMMA CapStopped ==
  ASSUME NEW s, CapFits(s)
  PROVE  /\ CapFits(Stopped(s))
         /\ CapFits([Stopped(s) EXCEPT !.db = EmptyStore(s.db.life + 1)])
<1> DEFINE r == Stopped(s)
           c == [r EXCEPT !.db = EmptyStore(s.db.life + 1)]
<1>1. /\ Shaped(s) /\ StoreFits(s.db) /\ s.db.life + 1 \in Nat
  BY DEF CapFits, ScheduleFits, StoreFits, StoreOK
<1>2. SameStore(s, r) /\ Shaped(r) /\ r.ctl.batches = << >> /\ r.ctl.next = 0
  BY <1>1, StoppingDoes
<1> HIDE DEF r
<1>3. CapFits(r)
  BY <1>1, <1>2, CapCleared DEF CapFits, SameStore
<1>4. SamePlan(r, c) /\ Shaped(c) /\ c.db = EmptyStore(s.db.life + 1)
  BY <1>2, Storing
<1>5. StoreFits(c.db) /\ Grouped(c.db) = {}
  BY <1>1, <1>4, ClearingFits
<1> HIDE DEF c
<1>6. AllRegistered(c.db)
  BY <1>5 DEF AllRegistered
<1>7. CapFits(c)
  BY <1>2, <1>4, <1>5, <1>6, CapCleared DEF SamePlan
<1> QED
  BY <1>3, <1>7 DEF r, c

\* The routines that leave the schedule alone.
LEMMA CapReports ==
  ASSUME NEW s, CapFits(s), NEW t, NEW v \in Done
  PROVE  /\ CapFits(OnPublished(s, t)) /\ CapFits(OnFailed(s, t)) /\ CapFits(OnResult(s, t, v))
<1>1. Shaped(s) /\ StoreFits(s.db)
  BY DEF CapFits, ScheduleFits
<1>2. ASSUME NEW e, StoreFits(e), Moved(s.db, e) PROVE CapFits([s EXCEPT !.db = e])
  <2> DEFINE q == [s EXCEPT !.db = e]
  <2>1. SamePlan(s, q) /\ Shaped(q) /\ q.db = e
    BY <1>1, Storing
  <2> HIDE DEF q
  <2>2. CapFits(q)
    BY <1>2, <2>1, CapMoves DEF SamePlan
  <2> QED
    BY <2>2 DEF q
<1>3. /\ StoreFits(MarkSent(s.db, t)) /\ Moved(s.db, MarkSent(s.db, t))
      /\ StoreFits(MarkError(s.db, t)) /\ Moved(s.db, MarkError(s.db, t))
      /\ StoreFits(ApplyResult(s.db, t, v)) /\ Moved(s.db, ApplyResult(s.db, t, v))
  BY <1>1, Marking
<1>4. /\ OnPublished(s, t) = [s EXCEPT !.db = MarkSent(s.db, t)]
      /\ OnFailed(s, t) = [s EXCEPT !.db = MarkError(s.db, t)]
      /\ OnResult(s, t, v) = [s EXCEPT !.db = ApplyResult(s.db, t, v)]
  BY DEF OnPublished, OnFailed, OnResult
<1> QED
  BY <1>2, <1>3, <1>4

LEMMA CapCycle ==
  ASSUME NEW s, CapFits(s), NEW T
  PROVE  CapFits(OnPollCycle(s, T))
<1>1. Shaped(s) /\ StoreFits(s.db)
  BY DEF CapFits, ScheduleFits
<1>2. PICK q, a :
        /\ SameThreads(s, q) /\ SamePlan(s, q) /\ Shaped(q) /\ q.polls = s.polls
        /\ q.db = MarkRunning(s.db)
        /\ a = [Dispatch(q) EXCEPT !.db = MarkTimeouts(Dispatch(q).db, T)]
        /\ OnPollCycle(s, T) \in {a, StopPolling(a)}
  BY <1>1, CycleDoes
<1>3. StoreFits(q.db) /\ Moved(s.db, q.db)
  BY <1>1, <1>2, Marking DEF Done
<1>4. CapFits(q)
  BY <1>2, <1>3, CapMoves DEF SamePlan
<1> DEFINE u == Dispatch(q)
<1>5. CapFits(u)
  BY <1>4, CapDispatch
<1> HIDE DEF u
<1>6. Shaped(u) /\ StoreFits(u.db)
  BY <1>5 DEF CapFits, ScheduleFits
<1>7. a = [u EXCEPT !.db = MarkTimeouts(u.db, T)]
  BY <1>2 DEF u
<1>8. SamePlan(u, a) /\ Shaped(a) /\ a.db = MarkTimeouts(u.db, T)
  BY <1>6, <1>7, Storing
<1>9. StoreFits(a.db) /\ Moved(u.db, a.db)
  BY <1>6, <1>8, Marking DEF Done
<1>10. CapFits(a)
  BY <1>5, <1>8, <1>9, CapMoves DEF SamePlan
<1>11. CapFits(StopPolling(a))
  <2> DEFINE z == StopPolling(a)
  <2>1. SamePublishing(a, z) /\ SameStore(a, z)
    BY <1>8, PollingRoutines
  <2> HIDE DEF z
  <2>2. Shaped(z) /\ z.db = a.db /\ z.ctl.batches = a.ctl.batches /\ z.ctl.next = a.ctl.next
    BY <1>8, <2>1 DEF SamePublishing, SameStore, Shaped
  <2>3. CapFits(z)
    BY <1>9, <1>10, <2>2, CapMoves
  <2> QED
    BY <2>3 DEF z
<1> QED
  BY <1>2, <1>10, <1>11

LEMMA CapSignals ==
  ASSUME NEW s, CapFits(s), NEW p, NEW known
  PROVE  /\ CapFits(OnQueueReady(s)) /\ CapFits(OnPubFinished(s, p, known))
         /\ CapFits(OnPubThreadFinished(s, p)) /\ CapFits(OnPollFinished(s, p))
         /\ CapFits(StopAsked(s))
<1>1. Shaped(s) /\ StoreFits(s.db)
  BY DEF CapFits, ScheduleFits
<1>2. ASSUME NEW r, Shaped(r), r.db = s.db, r.ctl.batches = s.ctl.batches, r.ctl.next = s.ctl.next
      PROVE  CapFits(r)
  BY <1>1, <1>2, CapMoves
<1>3. CapFits(OnQueueReady(s))
  <2>1. SamePublishing(s, OnQueueReady(s)) /\ SameStore(s, OnQueueReady(s))
    BY <1>1, PollingRoutines
  <2> QED
    BY <1>1, <1>2, <2>1 DEF SamePublishing, SameStore, Shaped
<1>4. CapFits(OnPubFinished(s, p, known)) /\ CapFits(OnPubThreadFinished(s, p))
  <2> DEFINE r == OnPubFinished(s, p, known)
             u == OnPubThreadFinished(s, p)
  <2>1. PubFinishes(s, r, p, known) /\ PubThreadFinishes(s, u, p)
    BY <1>1, FinishRoutines
  <2> HIDE DEF r, u
  <2>2. CapFits(r) /\ CapFits(u)
    BY <1>2, <2>1 DEF SameStore, PubFinishes, PubThreadFinishes
  <2> QED
    BY <2>2 DEF r, u
<1>5. CapFits(OnPollFinished(s, p))
  <2> DEFINE r == OnPollFinished(s, p)
  <2>1. PollFinishes(s, r, p)
    BY <1>1, FinishRoutines
  <2> HIDE DEF r
  <2>2. CapFits(r)
    BY <1>2, <2>1 DEF SameStore, SamePublishing, PollFinishes
  <2> QED
    BY <2>2 DEF r
<1>6. CapFits(StopAsked(s))
  BY <1>1, <1>2, StoppingDoes DEF SameStore
<1> QED
  BY <1>3, <1>4, <1>5, <1>6

-----------------------------------------------------------------------------
(* The steps of the session, and the schedule. *)

CapInv == EagerInv /\ CapFits(Situation)

LEMMA CapDepends ==
  ASSUME NEW s, CapFits(s), NEW r, HasFields(r), r.db = s.db, r.ctl = s.ctl
  PROVE  CapFits(r)
<1>1. Shaped(r) /\ Shaped(s)
  BY DEF CapFits, ScheduleFits, Shaped
<1> QED
  BY <1>1, CapMoves DEF CapFits

\* The situation after a step.
LEMMA Afterwards ==
  /\ HasFields(Situation') /\ Situation'.db = db' /\ Situation'.ctl = ctl'
  /\ Situation'.pubs = pubs' /\ Situation'.polls = polls' /\ Situation'.events = events'
  /\ HasFields(Situation) /\ Situation.db = db /\ Situation.ctl = ctl
  /\ Situation.pubs = pubs /\ Situation.polls = polls /\ Situation.events = events
  /\ HasFields(Next1) /\ Next1.db = db /\ Next1.ctl = ctl
  /\ Next1.pubs = pubs /\ Next1.polls = polls /\ Next1.events = Tail(events)
BY DEF HasFields, Situation, Next1

LEMMA CapBecomes ==
  ASSUME NEW r, CapFits(r), Become(r)
  PROVE  CapFits(Situation')
BY Afterwards, CapDepends DEF Become

LEMMA CapSteps ==
  ASSUME CapInv, Next
  PROVE  CapFits(Situation')
<1>1. CapFits(Situation) /\ CapFits(Next1)
  BY Afterwards, CapDepends DEF CapInv
<1>2. ASSUME NEW f \in Folders, NEW items \in SUBSET Items[f], AddFolder(f, items)
      PROVE  CapFits(Situation')
  <2>1. "extend" \in Allowed \/ items = Items[f]
    BY <1>2 DEF AddFolder
  <2>2. CapFits(Added(Situation, f, items))
    BY <1>1, <2>1, CapAdded
  <2> QED
    BY <1>2, <2>2, CapBecomes DEF AddFolder, UserTurn, GuiTurn
<1>3. ASSUME NEW S, DeleteFolders(S) PROVE CapFits(Situation')
  <2>1. CapFits(Removed(Situation, S))
    BY <1>1, CapRemoved
  <2> QED
    BY <1>3, <2>1, CapBecomes DEF DeleteFolders, UserTurn, GuiTurn
<1>4. CASE Start
  <2>1. CapFits(Started(Situation))
    BY <1>1, CapStarted
  <2> QED
    BY <1>4, <2>1, CapBecomes DEF Start, UserTurn, GuiTurn
<1>5. CASE Stop \/ Reset
  <2>1. CapFits(StopAsked(Situation))
    BY <1>1, CapSignals
  <2> QED
    BY <1>5, <2>1, CapBecomes DEF Stop, Reset, StopBegins
<1>6. CASE StopEnds
  <2> DEFINE r == Stopped(Situation)
             c == [r EXCEPT !.db = EmptyStore(db.life + 1)]
  <2>1. CapFits(r) /\ CapFits(c)
    BY <1>1, Afterwards, CapStopped
  <2>2. Become(r) \/ Become(c)
    BY <1>6 DEF StopEnds
  <2> HIDE DEF r, c
  <2> QED
    BY <2>1, <2>2, CapBecomes
<1>7. CASE HandleCall
  <2>1. ASSUME NEW p, NEW known
        PROVE  /\ CapFits(OnQueueReady(Next1)) /\ CapFits(OnPubFinished(Next1, p, known))
               /\ CapFits(OnPubThreadFinished(Next1, p)) /\ CapFits(OnPollFinished(Next1, p))
    BY <1>1, CapSignals
  <2>2. ASSUME NEW t, NEW v \in Done
        PROVE  /\ CapFits(OnPublished(Next1, t)) /\ CapFits(OnFailed(Next1, t))
               /\ CapFits(OnResult(Next1, t, v))
    BY <1>1, CapReports
  <2>3. "ERROR" \in Done
    BY DEF Done
  <2>4. CASE HandleQueueReady
    BY <2>1, <2>4, CapBecomes DEF HandleQueueReady, GuiTurn
  <2>5. CASE HandlePublished
    BY <2>2, <2>3, <2>5, CapBecomes DEF HandlePublished, GuiTurn
  <2>6. CASE HandleFailed
    BY <2>2, <2>3, <2>6, CapBecomes DEF HandleFailed, GuiTurn
  <2>7. CASE HandleResult
    <3>1. Arg.verdict \in Done
      BY <2>7, NextCall DEF CapInv, EagerInv, HandleResult, Called, IsOutcome, Arg
    <3> QED
      BY <2>2, <2>7, <3>1, CapBecomes DEF HandleResult, GuiTurn
  <2>8. ASSUME NEW T, HandlePollCycle(T) PROVE CapFits(Situation')
    BY <1>1, <2>8, CapCycle, CapBecomes DEF HandlePollCycle, GuiTurn
  <2>9. CASE HandlePubFinished
    BY <2>1, <2>9, CapBecomes DEF HandlePubFinished, GuiTurn
  <2>10. CASE HandlePubThreadFinished
    BY <2>1, <2>10, CapBecomes DEF HandlePubThreadFinished, GuiTurn
  <2>11. CASE HandlePollFinished
    BY <2>1, <2>11, CapBecomes DEF HandlePollFinished, GuiTurn
  <2> QED
    BY <1>7, <2>4, <2>5, <2>6, <2>7, <2>8, <2>9, <2>10, <2>11 DEF HandleCall
<1>8. ASSUME db' = db, ctl' = ctl PROVE CapFits(Situation')
  BY <1>1, <1>8, Afterwards, CapDepends
<1>9. ASSUME NEW p, PubRuns(p) PROVE db' = db /\ ctl' = ctl
  BY <1>9, Zenon DEF PubRuns, PubConnect, PubSend, PubReport, PubEnd, PubExit, PubStep
<1>10. ASSUME NEW w, NEW t, NEW v, PollConnect(w) \/ PollTick(w) \/ PollEnd(w) \/ PollDeliver(w, t, v)
       PROVE  db' = db /\ ctl' = ctl
  BY <1>10, Zenon DEF PollConnect, PollTick, PollEnd, PollDeliver, PollStep
<1> QED
  BY <1>2, <1>3, <1>4, <1>5, <1>6, <1>7, <1>8, <1>9, <1>10 DEF Next

LEMMA CapStart ==
  ASSUME Init PROVE CapInv
<1>1. EagerInv /\ db = EmptyStore(0) /\ ctl = FreshController
  BY EagerStart DEF Init
<1>2. StoreFits(db) /\ Grouped(db) = {}
  BY <1>1, ClearingFits
<1>3. DOMAIN ctl = CtlFields /\ ctl.batches = << >> /\ ctl.next = 0
  BY <1>1 DEF CtlFields, FreshController
<1>4. Shaped(Situation)
  BY <1>3, Afterwards, NothingPlanned
<1>5. CapFits(Situation)
  BY <1>2, <1>3, <1>4, Afterwards, CapCleared DEF AllRegistered
<1> QED
  BY <1>1, <1>5 DEF CapInv

LEMMA CapPreserved ==
  ASSUME CapInv, [Next]_vars PROVE CapInv'
<1>1. EagerInv'
  BY EagerSteps DEF CapInv
<1>2. CASE Next
  BY <1>1, <1>2, CapSteps DEF CapInv
<1>3. CASE UNCHANGED vars
  BY <1>1, <1>3, Afterwards, CapDepends DEF CapInv, vars
<1> QED
  BY <1>2, <1>3

\* Whatever is added, deleted, stopped and started while batches are being sent, no
\* more folders are worked on at once than max_active_open_folders. A folder may not
\* be extended after it is done: an extension opens it again without asking the
\* dispatcher. The invariant says what the dispatcher's count relies on: batches are
\* of folders in the store, and a folder in the store without batches left gains
\* no task.
THEOREM StaysWithinCap == "extend" \notin Allowed => (Spec => []WithinCap)
<1> SUFFICES ASSUME "extend" \notin Allowed PROVE Spec => []WithinCap
  OBVIOUS
<1>1. CapInv => WithinCap
  BY Afterwards DEF CapInv, CapFits, Capped, OpenNow, WithinCap
<1> QED
  BY CapStart, CapPreserved, <1>1, PTL DEF Spec

-----------------------------------------------------------------------------
(* The queue of the GUI thread. *)

\* No call of kinds K is behind one of kinds A.
Unfollowed(calls, A, K) ==
  \A i, j \in DOMAIN calls : i < j /\ calls[i].kind \in A => calls[j].kind \notin K

LEMMA FirstCall ==
  ASSUME NEW calls, CallsOK(calls), calls # << >>
  PROVE  /\ CallsOK(Tail(calls)) /\ ToSet(calls) = {Head(calls)} \cup ToSet(Tail(calls))
         /\ \A A, K : Unfollowed(calls, A, K) =>
              /\ Unfollowed(Tail(calls), A, K)
              /\ Head(calls).kind \in A => \A c \in ToSet(Tail(calls)) : c.kind \notin K
<1>1. PICK S : calls \in Seq(S)
  BY DEF CallsOK
<1> DEFINE t == Tail(calls)
           n == Len(calls)
<1>2. /\ n \in Nat \ {0} /\ DOMAIN calls = 1..n /\ DOMAIN t = 1..n - 1 /\ Head(calls) = calls[1]
      /\ \A i \in 1..n - 1 : t[i] = calls[i + 1]
  BY <1>1
<1>3. CallsOK(t)
  BY NextCall
<1> HIDE DEF t, n
<1>4. /\ 1 \in 1..n /\ \A i \in 1..n : i = 1 \/ (i - 1 \in 1..n - 1 /\ (i - 1) + 1 = i)
      /\ \A i \in 1..n - 1 : i + 1 \in 1..n /\ 1 < i + 1
  BY <1>2
<1>5. ASSUME NEW c \in ToSet(calls) PROVE c \in {Head(calls)} \cup ToSet(t)
  <2>1. PICK i \in 1..n : calls[i] = c
    BY <1>2, <1>5 DEF ToSet
  <2>2. i # 1 => calls[i] = t[i - 1] /\ i - 1 \in DOMAIN t
    BY <1>2, <1>4
  <2> QED
    BY <1>2, <2>1, <2>2 DEF ToSet
<1>6. ToSet(calls) = {Head(calls)} \cup ToSet(t)
  <2>1. \A k \in DOMAIN t : t[k] \in ToSet(calls)
    BY <1>2, <1>4 DEF ToSet
  <2>2. Head(calls) \in ToSet(calls)
    BY <1>2, <1>4 DEF ToSet
  <2>3. ToSet(t) \subseteq ToSet(calls)
    BY <2>1 DEF ToSet
  <2> QED
    BY <1>5, <2>2, <2>3
<1>7. ASSUME NEW A, NEW K, Unfollowed(calls, A, K)
      PROVE  /\ Unfollowed(t, A, K)
             /\ Head(calls).kind \in A => \A c \in ToSet(t) : c.kind \notin K
  <2>1. ASSUME NEW i \in 1..n - 1, NEW j \in 1..n - 1, i < j, t[i].kind \in A
        PROVE  t[j].kind \notin K
    <3>1. i + 1 \in 1..n /\ j + 1 \in 1..n /\ i + 1 < j + 1
      BY <1>2, <2>1
    <3> QED
      BY <1>2, <1>7, <2>1, <3>1 DEF Unfollowed
  <2>2. ASSUME Head(calls).kind \in A, NEW j \in 1..n - 1 PROVE t[j].kind \notin K
    BY <1>2, <1>4, <1>7, <2>2 DEF Unfollowed
  <2> QED
    BY <1>2, <2>1, <2>2 DEF Unfollowed, ToSet
<1> QED
  BY <1>3, <1>6, <1>7 DEF t

LEMMA LastCall ==
  ASSUME NEW calls, CallsOK(calls), NEW c
  PROVE  /\ ToSet(calls \o <<c>>) = ToSet(calls) \cup {c}
         /\ calls \o << >> = calls
         /\ \A A, K : (/\ Unfollowed(calls, A, K)
                       /\ c.kind \in K => \A x \in ToSet(calls) : x.kind \notin A)
                      => Unfollowed(calls \o <<c>>, A, K)
<1>1. PICK S : calls \in Seq(S)
  BY DEF CallsOK
<1> DEFINE t == calls \o <<c>>
           n == Len(calls)
<1>2. n \in Nat /\ DOMAIN calls = 1..n /\ calls \o << >> = calls
  BY <1>1
<1>3. DOMAIN t = 1..n + 1 /\ t[n + 1] = c /\ \A i \in 1..n : t[i] = calls[i]
  <2>1. calls \in Seq(S \cup {c}) /\ <<c>> \in Seq(S \cup {c})
    BY <1>1
  <2> QED
    BY <2>1
<1> HIDE DEF t, n
<1>4. \A i \in 1..n + 1 : i \in 1..n \/ i = n + 1
  BY <1>2
<1>5. ToSet(t) = ToSet(calls) \cup {c}
  <2>1. \A i \in 1..n : i \in 1..n + 1
    BY <1>2
  <2>2. n + 1 \in 1..n + 1
    BY <1>2
  <2> QED
    BY <1>2, <1>3, <1>4, <2>1, <2>2 DEF ToSet
<1>6. ASSUME NEW A, NEW K, Unfollowed(calls, A, K),
             c.kind \in K => \A x \in ToSet(calls) : x.kind \notin A
      PROVE  Unfollowed(t, A, K)
  <2>1. ASSUME NEW i \in 1..n + 1, NEW j \in 1..n + 1, i < j, t[i].kind \in A
        PROVE  t[j].kind \notin K
    <3>1. i \in 1..n
      BY <1>2, <2>1
    <3>2. CASE j \in 1..n
      BY <1>2, <1>3, <1>6, <2>1, <3>1, <3>2 DEF Unfollowed
    <3>3. CASE j = n + 1
      <4>1. t[i] \in ToSet(calls)
        BY <1>2, <1>3, <3>1 DEF ToSet
      <4> QED
        BY <1>3, <1>6, <2>1, <3>3, <4>1
    <3> QED
      BY <1>4, <3>2, <3>3
  <2> QED
    BY <1>3, <2>1 DEF Unfollowed
<1> QED
  BY <1>2, <1>5, <1>6 DEF t

-----------------------------------------------------------------------------
(* The publishing threads and what they have told. *)

PubStates == {"none", "connecting", "sending", "sent", "done", "exited"}
Threads == {t \in [run : PubStates, todo : Seq(Requests), stop : BOOLEAN, quit : BOOLEAN] :
              t.run = "sent" => t.todo # << >>}
Live(thread) == thread.run \in {"connecting", "sending", "sent"}
Busy(s) == \E p \in PubSlots : p = s.ctl.pub /\ Alive(s.pubs[p]) /\ ~s.pubs[p].quit
AtWork == {"queueReady", "published", "failed", "pubFinished"}
PubKinds == AtWork \cup {"pubThreadFinished"}

\* At any time: one thread at most, and its end is told when it is gone.
Threaded(s) ==
  /\ s.pubs \in [PubSlots -> Threads] /\ CallsOK(s.events)
  /\ \A p \in PubSlots : Alive(s.pubs[p]) => s.ctl.pub = p
  /\ \A c \in ToSet(s.events) : c.kind = "pubThreadFinished" =>
       c.of \in PubSlots /\ ~Alive(s.pubs[c.of])

\* In a run: calls are those of the current thread, but for the end of the last one.
Wired(s) ==
  /\ \A p \in PubSlots : /\ Alive(s.pubs[p]) => ~s.pubs[p].stop
                         /\ Live(s.pubs[p]) => ~s.pubs[p].quit
  /\ Busy(s) => ~s.ctl.finished
  /\ \A c \in ToSet(s.events) :
       /\ c.kind \in AtWork => Busy(s)
       /\ c.kind = "pubFinished" =>
            c.of = s.ctl.pub /\ c.of \in PubSlots /\ s.pubs[c.of].run = "done"
       /\ c.kind = "pubThreadFinished" => s.ctl.pub \in {NoSlot, c.of} \/ Busy(s)
  /\ Unfollowed(s.events, {"pubFinished"}, PubKinds)
  /\ Unfollowed(s.events, PubKinds, {"pubThreadFinished"})
InRun(s, h) == h = "none" /\ (s.ctl.active \/ s.ctl.batches # << >>)
ThreadsFit(s, h) == Threaded(s) /\ (InRun(s, h) => Wired(s))

\* A run has two slots for publishing threads, one for a thread that has ended and
\* whose end has not been told yet.
TwoSlots == \E p, q \in PubSlots : p # q

LEMMA MinFacts ==
  ASSUME NEW F \in SUBSET Nat, F # {}
  PROVE  Min(F) \in F
<1>1. PICK m \in F : TRUE
  OBVIOUS
<1> DEFINE G == {k \in F : k <= m}
<1>2. G \in SUBSET (0..m) /\ G # {} /\ m \in Nat
  <2>1. m \in Nat /\ \A k \in F : k \in Nat
    BY <1>1
  <2>2. m \in G /\ \A k \in G : k \in Nat /\ k <= m
    BY <1>1, <2>1
  <2> HIDE DEF G
  <2> QED
    BY <2>1, <2>2
<1> HIDE DEF G
<1>3. PICK k \in G : \A l \in G : k <= l
  BY <1>2, Least
<1>4. \A l \in F : l \in Nat /\ (l \in G \/ ~(l <= m))
  BY DEF G
<1>5. k \in F /\ k <= m /\ k \in Nat
  BY <1>3 DEF G
<1>6. \E j \in F : \A l \in F : j <= l
  BY <1>2, <1>3, <1>4, <1>5
<1> QED
  BY <1>6 DEF Min

LEMMA FreeSlot ==
  ASSUME TwoSlots, NEW s, Threaded(s), Wired(s), ~PubRunning(s)
  PROVE  /\ Min(UnusedPubs(s)) \in PubSlots /\ Min(UnusedPubs(s)) # NoSlot
         /\ ~Alive(s.pubs[Min(UnusedPubs(s))])
         /\ \A p \in PubSlots : ~Alive(s.pubs[p])
         /\ \A c \in ToSet(s.events) :
              /\ c.kind \notin AtWork
              /\ c.kind = "pubThreadFinished" => c.of # Min(UnusedPubs(s))
<1> DEFINE F == UnusedPubs(s)
<1>1. \A p \in PubSlots : p # NoSlot /\ p \in Nat
  BY EagerAssumption DEF NoSlot
<1>2. DOMAIN s.pubs = PubSlots /\ \A p \in PubSlots : Alive(s.pubs[p]) => s.ctl.pub = p
  BY DEF Threaded
<1>3. \A p \in PubSlots : ~Alive(s.pubs[p])
  BY <1>1, <1>2 DEF PubRunning
<1>4. ~Busy(s)
  BY <1>3 DEF Busy
<1>5. \A c \in ToSet(s.events) : c.kind \notin AtWork
        /\ (c.kind = "pubThreadFinished" => s.ctl.pub \in {NoSlot, c.of})
  BY <1>4 DEF Wired
<1>6. \A k : k \in F <=> /\ k \in PubSlots /\ k # s.ctl.pub /\ ~Alive(s.pubs[k])
                         /\ \A i \in DOMAIN s.events : s.events[i].kind \in
                              {"queueReady", "pubFinished", "pubThreadFinished"}
                                => s.events[i].of # k
  BY <1>2 DEF UnusedPubs, Unused
<1>7. \E k : k \in F
  <2>1. \A i \in DOMAIN s.events : s.events[i] \in ToSet(s.events)
    BY DEF ToSet
  <2>2. CASE \E i \in DOMAIN s.events : s.events[i].kind = "pubThreadFinished"
    <3>1. PICK i \in DOMAIN s.events : s.events[i].kind = "pubThreadFinished"
      BY <2>2
    <3>2. PICK k \in PubSlots : k # s.events[i].of
      BY DEF TwoSlots
    <3>3. s.ctl.pub # k
      BY <1>1, <1>5, <2>1, <3>1, <3>2
    <3>4. ASSUME NEW j \in DOMAIN s.events, s.events[j].kind = "pubThreadFinished" PROVE j = i
      <4>1. Unfollowed(s.events, PubKinds, {"pubThreadFinished"})
        BY DEF Wired
      <4>2. i \in Int /\ j \in Int
        <5>1. PICK S : s.events \in Seq(S)
          BY DEF Threaded, CallsOK
        <5> QED
          BY <5>1
      <4>3. ~(i < j) /\ ~(j < i)
        BY <3>1, <3>4, <4>1 DEF Unfollowed, PubKinds
      <4> QED
        BY <4>2, <4>3
    <3>5. \A j \in DOMAIN s.events :
            s.events[j].kind \in {"queueReady", "pubFinished", "pubThreadFinished"}
              => s.events[j].of # k
      BY <1>5, <2>1, <3>2, <3>4 DEF AtWork
    <3> QED
      BY <1>3, <1>6, <3>3, <3>5
  <2>3. CASE ~\E i \in DOMAIN s.events : s.events[i].kind = "pubThreadFinished"
    <3>1. PICK k \in PubSlots : k # s.ctl.pub
      BY DEF TwoSlots
    <3> QED
      BY <1>3, <1>5, <1>6, <2>1, <2>3, <3>1 DEF AtWork
  <2> QED
    BY <2>2, <2>3
<1>8. F \subseteq PubSlots
  BY <1>6
<1> HIDE DEF F
<1>9. Min(F) \in F
  <2>1. F \in SUBSET Nat /\ F # {}
    BY <1>1, <1>7, <1>8
  <2> QED
    BY <2>1, MinFacts
<1>10. \A c \in ToSet(s.events) : c.kind = "pubThreadFinished" => c.of # Min(F)
  BY <1>6, <1>9 DEF ToSet
<1> QED
  BY <1>1, <1>3, <1>5, <1>6, <1>9, <1>10 DEF F

-----------------------------------------------------------------------------
(* The ids of several batches in one list. *)

\* No id is twice in the batches.
Apart(b) ==
  /\ \A k \in DOMAIN b : Enumerates(b[k].ids, ToSet(b[k].ids))
  /\ \A k, l \in DOMAIN b : k # l => ToSet(b[k].ids) \cap ToSet(b[l].ids) = {}

LEMMA JoinedFacts ==
  ASSUME NEW b \in Seq(Batches)
  PROVE  /\ Joined(b) \in Seq(Requests) /\ ToSet(Joined(b)) = IdsOf(b)
         /\ Apart(b) => Enumerates(Joined(b), IdsOf(b))
<1> DEFINE n == Len(b)
           X == Seq(Requests)
           upto[k \in 0..Len(b)] == IF k = 0 THEN << >> ELSE upto[k-1] \o b[k].ids
           step == [i \in 1..n |-> [m \in X |-> m \o b[i].ids]]
           Ids(k) == UNION {ToSet(b[j].ids) : j \in 1..k}
           Fine(k) == /\ upto[k] \in X /\ ToSet(upto[k]) = Ids(k)
                      /\ Apart(b) => Enumerates(upto[k], Ids(k))
<1>1. /\ n \in Nat /\ DOMAIN b = 1..n /\ << >> \in X
      /\ \A k \in 1..n : b[k] \in Batches /\ b[k].ids \in X
  <2>1. n \in Nat /\ DOMAIN b = 1..n /\ << >> \in X /\ \A k \in 1..n : b[k] \in Batches
    OBVIOUS
  <2> QED
    BY <2>1, Zenon DEF Batches
<1>2. step \in [1..n -> [X -> X]]
  <2>1. ASSUME NEW i \in 1..n, NEW m \in X PROVE m \o b[i].ids \in X
    BY <1>1
  <2> QED
    BY <2>1
<1>3. Joined(b) = upto[n]
  BY DEF Joined
<1> HIDE DEF step, X, upto, n
<1>4. Ids(n) = IdsOf(b)
  BY <1>1, Zenon DEF IdsOf
<1>5. PICK f : Stepwise(f, n, X, << >>, step)
  BY <1>1, <1>2, RecursionExists
<1>6. ASSUME NEW i \in 1..n
      PROVE  f[i] = f[i-1] \o b[i].ids
  <2>1. f[i-1] \in X
    BY <1>1, <1>5 DEF Stepwise
  <2> QED
    BY <1>5, <2>1 DEF step, Stepwise
<1>7. f = [i \in 0..n |-> IF i = 0 THEN << >> ELSE f[i-1] \o b[i].ids]
  <2>1. /\ f = [i \in 0..n |-> f[i]] /\ f[0] = << >>
    BY <1>5 DEF Stepwise
  <2>2. \A i \in 0..n : f[i] = IF i = 0 THEN << >> ELSE f[i-1] \o b[i].ids
    BY <1>1, <1>6, <2>1
  <2> QED
    BY <2>1, <2>2
<1>8. upto = [i \in 0..n |-> IF i = 0 THEN << >> ELSE upto[i-1] \o b[i].ids]
  BY <1>7 DEF upto, n
<1> DEFINE G == {i \in 0..n : Fine(i)}
<1>9. 0 \in G
  <2>1. upto[0] = << >> /\ 0 \in 0..n
    BY <1>1, <1>8
  <2>2. Ids(0) = {}
    OBVIOUS
  <2>3. ToSet(<< >>) = {} /\ Enumerates(<< >>, {})
    BY DEF ToSet, Enumerates
  <2> QED
    BY <1>1, <2>1, <2>2, <2>3
<1>10. ASSUME NEW i \in 0..n, i < n, i \in G PROVE i + 1 \in G
  <2> DEFINE k == i + 1
  <2>1. k \in 1..n /\ k - 1 = i /\ k \in 0..n /\ k # 0 /\ \A j : j \in 1..k <=> j \in 1..i \/ j = k
    BY <1>1, <1>10
  <2>2. upto[k] = upto[i] \o b[k].ids
    BY <1>8, <2>1
  <2>3. Fine(i)
    BY <1>10
  <2> HIDE DEF k
  <2>4. Ids(k) = Ids(i) \cup ToSet(b[k].ids)
    BY <2>1
  <2>5. upto[k] \in X /\ ToSet(upto[k]) = Ids(k)
    <3>1. upto[i] \in Seq(Requests) /\ b[k].ids \in Seq(Requests) /\ ToSet(upto[i]) = Ids(i)
      BY <1>1, <2>1, <2>3 DEF X
    <3> HIDE DEF Ids
    <3> QED
      BY <2>2, <2>4, <3>1, ToSetConcat DEF X
  <2>6. ASSUME Apart(b) PROVE Enumerates(upto[k], Ids(k))
    <3>1. Enumerates(upto[i], Ids(i)) /\ Enumerates(b[k].ids, ToSet(b[k].ids))
      BY <1>1, <2>1, <2>3, <2>6 DEF Apart
    <3>2. Ids(i) \cap ToSet(b[k].ids) = {}
      <4>1. \A j \in 1..i : j \in DOMAIN b /\ j # k
        BY <1>1, <2>1
      <4>2. k \in DOMAIN b
        BY <1>1, <2>1
      <4> QED
        BY <2>6, <4>1, <4>2 DEF Apart
    <3> HIDE DEF Ids
    <3> QED
      BY <2>2, <2>4, <3>1, <3>2, ConcatEnumerates
  <2> QED
    BY <2>1, <2>5, <2>6 DEF k
<1>11. 0..n \subseteq G
  <2> HIDE DEF G
  <2> QED
    BY <1>1, <1>9, <1>10, Upward
<1>12. Fine(n)
  <2>1. n \in G
    <3> HIDE DEF G
    <3> QED
      BY <1>1, <1>11
  <2> QED
    BY <2>1, Zenon
<1> QED
  BY <1>3, <1>4, <1>12 DEF X

-----------------------------------------------------------------------------
(* What each routine does to the publishing threads. *)

LEMMA SameWires ==
  ASSUME NEW s, NEW r, r.pubs = s.pubs, r.events = s.events, r.ctl.pub = s.ctl.pub,
         r.ctl.finished = s.ctl.finished
  PROVE  /\ Threaded(s) => Threaded(r)
         /\ Wired(s) => Wired(r)
<1>1. Busy(r) <=> Busy(s)
  BY DEF Busy
<1> QED
  BY <1>1 DEF Threaded, Wired

\* The reference to a thread that has ended is dropped.
LEMMA WiresRested ==
  ASSUME NEW s, Threaded(s), NEW r, Rested(s, r)
  PROVE  /\ Threaded(r)
         /\ Wired(s) => Wired(r)
         /\ ~PubRunning(s) => ~PubRunning(r)
<1>1. /\ r.pubs = s.pubs /\ r.events = s.events /\ r.ctl.finished = s.ctl.finished
      /\ r.ctl.pub = s.ctl.pub \/ (r.ctl.pub = NoSlot /\ ~PubRunning(s))
  BY DEF Rested, SameStore
<1>2. CASE r.ctl.pub = s.ctl.pub
  BY <1>1, <1>2, SameWires DEF PubRunning
<1>3. CASE r.ctl.pub = NoSlot /\ ~PubRunning(s)
  <2>1. \A p \in PubSlots : p # NoSlot
    BY EagerAssumption DEF NoSlot
  <2>2. \A p \in PubSlots : ~Alive(s.pubs[p])
    BY <1>3, <2>1 DEF Threaded, PubRunning
  <2>3. ~Busy(s) /\ ~Busy(r)
    BY <1>1, <2>2 DEF Busy
  <2>4. Threaded(r)
    BY <1>1, <2>2 DEF Threaded
  <2>5. ASSUME Wired(s) PROVE Wired(r)
    <3>1. \A c \in ToSet(s.events) : c.kind \notin AtWork
      BY <2>3, <2>5 DEF Wired
    <3>2. "pubFinished" \in AtWork
      BY DEF AtWork
    <3> QED
      BY <1>1, <1>3, <2>3, <2>5, <3>1, <3>2 DEF Wired
  <2>6. ~PubRunning(r)
    BY <1>3 DEF PubRunning
  <2> QED
    BY <2>4, <2>5, <2>6
<1> QED
  BY <1>1, <1>2, <1>3

\* A new thread in a slot to which nothing refers.
LEMMA WiresOpened ==
  ASSUME NEW r, NEW u, NEW n, OpenedFrom(r, u, n), Shaped(r), n \in 1..Remaining(r),
         Threaded(r), \A p \in PubSlots : ~Alive(r.pubs[p]),
         Min(UnusedPubs(r)) \in PubSlots,
         \A c \in ToSet(r.events) : /\ c.kind \notin AtWork
                                    /\ c.kind = "pubThreadFinished" => c.of # Min(UnusedPubs(r)),
         Unfollowed(r.events, {"pubFinished"}, PubKinds),
         Unfollowed(r.events, PubKinds, {"pubThreadFinished"})
  PROVE  Threaded(u) /\ Wired(u)
<1> DEFINE p == Min(UnusedPubs(r))
           todo == Joined(SubSeq(Untaken(r), 1, n))
           thread == [NoThread EXCEPT !.run = "connecting", !.todo = todo]
<1>1. /\ u.pubs = [r.pubs EXCEPT ![p] = thread] /\ u.ctl.pub = p /\ u.ctl.finished = FALSE
      /\ u.events = r.events
  BY DEF OpenedFrom, SameStore
<1>2. todo \in Seq(Requests)
  <2>1. TwoParts(r.ctl.batches, r.ctl.next, Taken(r), Untaken(r))
    BY TakenEntries
  <2>2. Untaken(r) \in Seq(Batches) /\ n \in 0..Len(Untaken(r))
    BY <2>1 DEF TwoParts, Remaining
  <2>3. SubSeq(Untaken(r), 1, n) \in Seq(Batches)
    BY <2>2, Parts
  <2> QED
    BY <2>3, JoinedFacts
<1>3. thread.run = "connecting" /\ thread.todo = todo /\ ~thread.stop /\ ~thread.quit
  <2> HIDE DEF todo
  <2>1. thread.run = "connecting" /\ thread.todo = todo
    BY DEF NoThread
  <2>2. thread.stop = FALSE /\ thread.quit = FALSE
    BY Zenon DEF NoThread
  <2> QED
    BY <2>1, <2>2
<1>4. thread \in Threads
  <2>1. NoThread \in Threads
    BY DEF NoThread, Threads, PubStates
  <2> HIDE DEF todo
  <2> QED
    BY <1>2, <2>1 DEF Threads, PubStates
<1> HIDE DEF p, todo, thread
<1>5. p \in PubSlots /\ r.pubs \in [PubSlots -> Threads]
  BY DEF p, Threaded
<1>6. u.pubs \in [PubSlots -> Threads]
  BY <1>1, <1>4, <1>5
<1>7. \A q \in PubSlots : u.pubs[q] = IF q = p THEN thread ELSE r.pubs[q]
  BY <1>1, <1>5
<1>8. \A q \in PubSlots : q # p => ~Alive(u.pubs[q])
  BY <1>7
<1>9. Alive(thread) /\ ~thread.stop /\ ~thread.quit
  BY <1>3 DEF Alive
<1>10. Busy(u)
  BY <1>1, <1>5, <1>7, <1>9 DEF Busy
<1>11. Threaded(u)
  BY <1>1, <1>6, <1>8, <1>5 DEF Threaded, p
<1>12. \A q \in PubSlots : /\ Alive(u.pubs[q]) => ~u.pubs[q].stop
                           /\ Live(u.pubs[q]) => ~u.pubs[q].quit
  <2>1. \A q \in PubSlots : Live(u.pubs[q]) => Alive(u.pubs[q])
    BY DEF Live, Alive
  <2> QED
    BY <1>7, <1>8, <1>9, <2>1
<1>13. "pubFinished" \in AtWork
  BY DEF AtWork
<1> QED
  BY <1>1, <1>10, <1>11, <1>12, <1>13 DEF Wired

\* The dispatcher starts a thread only in a run, when the one before has ended.
LEMMA WiresDispatch ==
  ASSUME TwoSlots, NEW s, Shaped(s), ThreadsFit(s, "none")
  PROVE  ThreadsFit(Dispatch(s), "none")
<1>1. CASE Rested(s, Dispatch(s))
  <2>1. Threaded(Dispatch(s)) /\ (Wired(s) => Wired(Dispatch(s)))
    BY <1>1, WiresRested DEF ThreadsFit
  <2>2. InRun(Dispatch(s), "none") => InRun(s, "none")
    BY <1>1 DEF Rested, InRun
  <2> QED
    BY <2>1, <2>2 DEF ThreadsFit
<1>2. ASSUME NEW r, NEW n, Rested(s, r), n \in 1..Remaining(s), ~PubRunning(s),
             OpenedFrom(r, Dispatch(s), n)
      PROVE  ThreadsFit(Dispatch(s), "none")
  <2>1. s.ctl.batches # << >>
    <3>1. Remaining(s) = Len(s.ctl.batches) - s.ctl.next /\ s.ctl.next \in 0..Len(s.ctl.batches)
      BY TakenFolders DEF Shaped
    <3>2. s.ctl.batches \in Seq(Batches)
      BY DEF Shaped
    <3> QED
      BY <1>2, <3>1, <3>2
  <2>2. Threaded(s) /\ Wired(s)
    BY <2>1 DEF ThreadsFit, InRun
  <2>3. Threaded(r) /\ Wired(r) /\ ~PubRunning(r)
    BY <1>2, <2>2, WiresRested
  <2>4. Shaped(r) /\ n \in 1..Remaining(r)
    BY <1>2, Zenon DEF Rested, Shaped, SameStore, Remaining, Untaken
  <2> DEFINE u == Dispatch(s)
  <2> HIDE DEF u
  <2>5. OpenedFrom(r, u, n)
    BY <1>2 DEF u
  <2>6. Threaded(u) /\ Wired(u)
    <3>1. /\ Unfollowed(r.events, {"pubFinished"}, PubKinds)
          /\ Unfollowed(r.events, PubKinds, {"pubThreadFinished"})
      BY <2>3 DEF Wired
    <3>2. /\ Min(UnusedPubs(r)) \in PubSlots /\ \A p \in PubSlots : ~Alive(r.pubs[p])
          /\ \A c \in ToSet(r.events) :
               /\ c.kind \notin AtWork
               /\ c.kind = "pubThreadFinished" => c.of # Min(UnusedPubs(r))
      BY <2>3, FreeSlot
    <3> QED
      BY <2>3, <2>4, <2>5, <3>1, <3>2, WiresOpened
  <2> QED
    BY <2>6 DEF u, ThreadsFit
<1> QED
  BY <1>1, <1>2, DispatchDoes

LEMMA WiresSameThreads ==
  ASSUME NEW s, NEW q, SameThreads(s, q)
  PROVE  /\ Threaded(s) => Threaded(q)
         /\ Wired(s) => Wired(q)
<1>1. q.events = s.events /\ q.pubs = s.pubs /\ q.ctl.pub = s.ctl.pub /\ q.ctl.finished = s.ctl.finished
  BY DEF SameThreads
<1> QED
  BY <1>1, SameWires

\* A change of the store alone.
LEMMA WiresStored ==
  ASSUME NEW s, Shaped(s), ThreadsFit(s, "none"), NEW d
  PROVE  ThreadsFit([s EXCEPT !.db = d], "none")
<1> DEFINE q == [s EXCEPT !.db = d]
<1>1. SameThreads(s, q) /\ SamePlan(s, q)
  BY Storing
<1> HIDE DEF q
<1>2. Threaded(q) /\ (Wired(s) => Wired(q)) /\ (InRun(q, "none") => InRun(s, "none"))
  BY <1>1, WiresSameThreads DEF ThreadsFit, InRun, SameThreads, SamePlan
<1>3. ThreadsFit(q, "none")
  BY <1>2 DEF ThreadsFit
<1> QED
  BY <1>3 DEF q

LEMMA WiresAdded ==
  ASSUME TwoSlots, NEW s, Shaped(s), StoreFits(s.db), ThreadsFit(s, "none"),
         NEW f \in Folders, NEW items \in SUBSET Items[f]
  PROVE  ThreadsFit(Added(s, f, items), "none")
<1> DEFINE d == RegisterFolder(s.db, f, items)
           new == PendingIds(d, f, s.ctl.scheduled)
           r == Added(s, f, items)
<1>1. \/ r = [s EXCEPT !.db = d]
      \/ s.ctl.active /\ \E q : Joining(s, q, d, f, new) /\ r = Dispatch(q)
  BY AddingDoes
<1> HIDE DEF d, new, r
<1>2. CASE r = [s EXCEPT !.db = d]
  BY <1>2, WiresStored DEF r
<1>3. ASSUME s.ctl.active, NEW q, Joining(s, q, d, f, new), r = Dispatch(q)
      PROVE  ThreadsFit(r, "none")
  <2>1. SameThreads(s, q) /\ Shaped(q)
    BY <1>3 DEF Joining
  <2>2. Threaded(s) /\ Wired(s)
    BY <1>3 DEF ThreadsFit, InRun
  <2>3. ThreadsFit(q, "none")
    BY <2>1, <2>2, WiresSameThreads DEF ThreadsFit
  <2> QED
    BY <1>3, <2>1, <2>3, WiresDispatch
<1> QED
  BY <1>1, <1>2, <1>3 DEF r

\* A list with nothing in it, but for some folders, was empty or had only those.
LEMMA KeptOfNone ==
  ASSUME NEW s, Shaped(s), s.ctl.batches = << >>, NEW R
  PROVE  Kept(Taken(s), R) \o Kept(Untaken(s), R) = << >>
<1>1. TwoParts(s.ctl.batches, s.ctl.next, Taken(s), Untaken(s))
  BY TakenEntries
<1>2. /\ Taken(s) \in Seq(Batches) /\ Untaken(s) \in Seq(Batches)
      /\ DOMAIN Taken(s) = {} /\ DOMAIN Untaken(s) = {}
  <2>1. Len(s.ctl.batches) = 0
    OBVIOUS
  <2>2. s.ctl.next = 0
    BY <1>1, <2>1 DEF TwoParts
  <2>3. 1..0 = {} /\ 1..0-0 = {}
    OBVIOUS
  <2> QED
    BY <1>1, <2>1, <2>2, <2>3 DEF TwoParts
<1>3. ASSUME NEW b \in Seq(Batches), DOMAIN b = {} PROVE Kept(b, R) = << >>
  <2>1. PICK C, g : Drawn(b, C, Kept(b, R), g)
    BY KeptFacts
  <2>2. Kept(b, R) \in Seq(Batches)
    BY KeptFacts
  <2>3. DOMAIN Kept(b, R) = {}
    BY <1>3, <2>1 DEF Drawn
  <2> DEFINE o == Kept(b, R)
  <2> HIDE DEF o
  <2>4. o \in Seq(Batches) /\ DOMAIN o = {}
    BY <2>2, <2>3 DEF o
  <2>5. o = << >>
    BY <2>4
  <2> QED
    BY <2>5 DEF o
<1>4. Kept(Taken(s), R) = << >> /\ Kept(Untaken(s), R) = << >>
  BY <1>2, <1>3
<1> QED
  BY <1>4

LEMMA WiresRemoved ==
  ASSUME TwoSlots, NEW s, Shaped(s), StoreFits(s.db), ThreadsFit(s, "none"), NEW S
  PROVE  ThreadsFit(Removed(s, S), "none")
<1> DEFINE R == Removable(s.db, S)
           gone == {t \in Known(s.db) : t.folder \in R}
           d == RemoveFolders(s.db, S)
           r == Removed(s, S)
<1>1. \/ r = s
      \/ \E q : Leaving(s, q, R, d, gone) /\ r = IF s.ctl.active THEN Dispatch(q) ELSE q
  BY RemovingDoes
<1> HIDE DEF R, gone, d, r
<1>2. ASSUME NEW q, Leaving(s, q, R, d, gone), r = IF s.ctl.active THEN Dispatch(q) ELSE q
      PROVE  ThreadsFit(r, "none")
  <2>1. SameThreads(s, q) /\ Shaped(q)
    BY <1>2 DEF Leaving
  <2>2. s.ctl.batches = << >> => q.ctl.batches = << >>
    BY <1>2, KeptOfNone DEF Leaving
  <2>3. InRun(q, "none") => InRun(s, "none")
    BY <2>1, <2>2 DEF InRun, SameThreads
  <2>4. ThreadsFit(q, "none")
    BY <2>1, <2>3, WiresSameThreads DEF ThreadsFit
  <2> QED
    BY <1>2, <2>1, <2>4, WiresDispatch
<1> QED
  BY <1>1, <1>2 DEF r

\* A start finds no thread, and no call.
LEMMA WiresStarted ==
  ASSUME TwoSlots, NEW s, Shaped(s), StoreFits(s.db), ThreadsFit(s, "none"),
         s.events = << >>, UnusedPubs(s) = PubSlots
  PROVE  ThreadsFit(Started(s), "none")
<1>1. \A p \in PubSlots : ~Alive(s.pubs[p])
  BY DEF UnusedPubs, Unused
<1>2. Threaded(s) /\ DOMAIN s.events = {} /\ ToSet(s.events) = {}
  BY DEF ThreadsFit, ToSet
<1>3. ASSUME NEW q, NEW n, Fresh(s, q), n \in 1..Remaining(q), OpenedFrom(q, Started(s), n)
      PROVE  ThreadsFit(Started(s), "none")
  <2>1. /\ q.pubs = s.pubs /\ q.events = s.events /\ q.ctl.pub = s.ctl.pub /\ Shaped(q)
    BY <1>3 DEF Fresh, SameStore
  <2>2. UnusedPubs(q) = PubSlots
    <3>1. UnusedPubs(q) = UnusedPubs(s)
      BY <2>1 DEF UnusedPubs, Unused
    <3> QED
      BY <3>1
  <2>3. Min(PubSlots) \in PubSlots
    <3>1. PubSlots \in SUBSET Nat /\ PubSlots # {}
      BY EagerAssumption DEF TwoSlots
    <3> QED
      BY <3>1, MinFacts
  <2>4. Threaded(q)
    BY <1>1, <1>2, <2>1 DEF Threaded
  <2>5. DOMAIN q.events = {} /\ ToSet(q.events) = {} /\ \A p \in PubSlots : ~Alive(q.pubs[p])
    BY <1>1, <1>2, <2>1
  <2>6. /\ Unfollowed(q.events, {"pubFinished"}, PubKinds)
        /\ Unfollowed(q.events, PubKinds, {"pubThreadFinished"})
    BY <2>5 DEF Unfollowed
  <2>7. Threaded(Started(s)) /\ Wired(Started(s))
    BY <1>3, <2>1, <2>2, <2>3, <2>4, <2>5, <2>6, WiresOpened
  <2> QED
    BY <2>7 DEF ThreadsFit
<1>4. ASSUME NEW q, Fresh(s, q), StartedPolling(q, Started(s))
      PROVE  ThreadsFit(Started(s), "none")
  <2> DEFINE r == Started(s)
  <2> HIDE DEF r
  <2>1. r.pubs = s.pubs /\ r.events = s.events /\ r.ctl.pub = s.ctl.pub
    BY <1>4 DEF Fresh, SameStore, StartedPolling, r
  <2>2. Threaded(r)
    BY <1>1, <1>2, <2>1 DEF Threaded
  <2>3. Wired(r)
    <3>1. ~Busy(r) /\ \A p \in PubSlots : Live(r.pubs[p]) => Alive(r.pubs[p])
      BY <1>1, <2>1 DEF Busy, Live, Alive
    <3>2. Unfollowed(r.events, {"pubFinished"}, PubKinds) /\ Unfollowed(r.events, PubKinds, {"pubThreadFinished"})
      BY <1>2, <2>1 DEF Unfollowed
    <3> QED
      BY <1>1, <1>2, <2>1, <3>1, <3>2 DEF Wired
  <2> QED
    BY <2>2, <2>3 DEF ThreadsFit, r
<1>5. \/ Started(s) = s
      \/ \E q, n : Fresh(s, q) /\ n \in 1..Remaining(q) /\ OpenedFrom(q, Started(s), n)
      \/ \E q : Fresh(s, q) /\ StartedPolling(q, Started(s))
  BY StartingDoes
<1> QED
  BY <1>3, <1>4, <1>5

\* A stop: the thread may be anywhere; when it is over, it is gone.
LEMMA WiresStopped ==
  ASSUME NEW s, Shaped(s), Threaded(s)
  PROVE  /\ Threaded(StopAsked(s))
         /\ ~PubRunning(s) => /\ ThreadsFit(Stopped(s), "none")
                              /\ \A d : ThreadsFit([Stopped(s) EXCEPT !.db = d], "none")
<1>1. Threaded(StopAsked(s))
  <2> DEFINE r == StopAsked(s)
             stopped(k) == [s.pubs[k] EXCEPT !.stop = TRUE, !.quit = TRUE]
  <2>1. /\ r.events = s.events /\ r.ctl = s.ctl
        /\ r.pubs = [k \in DOMAIN s.pubs |-> IF k = s.ctl.pub THEN stopped(k) ELSE s.pubs[k]]
    BY StoppingDoes DEF SameStore
  <2> HIDE DEF r
  <2>2. s.pubs \in [PubSlots -> Threads]
    BY DEF Threaded
  <2>3. ASSUME NEW k \in PubSlots PROVE stopped(k) \in Threads /\ stopped(k).run = s.pubs[k].run
    BY <2>2 DEF Threads
  <2> HIDE DEF stopped
  <2>4. r.pubs \in [PubSlots -> Threads] /\ \A k \in PubSlots : r.pubs[k].run = s.pubs[k].run
    BY <2>1, <2>2, <2>3
  <2>5. Threaded(r)
    BY <2>1, <2>4 DEF Threaded, Alive
  <2> QED
    BY <2>5 DEF r
<1>2. ASSUME ~PubRunning(s), NEW r, r.pubs = s.pubs, r.events = s.events, ~r.ctl.active,
             r.ctl.batches = << >>
      PROVE  ThreadsFit(r, "none")
  <2>1. \A p \in PubSlots : p # NoSlot
    BY EagerAssumption DEF NoSlot
  <2>2. \A p \in PubSlots : ~Alive(s.pubs[p])
    BY <1>2, <2>1 DEF Threaded, PubRunning
  <2> QED
    BY <1>2, <2>2 DEF ThreadsFit, InRun, Threaded
<1>3. LET r == Stopped(s) IN HasFields(r) /\ r.pubs = s.pubs /\ r.events = s.events /\ ~r.ctl.active
              /\ r.ctl.batches = << >>
  BY StoppingDoes DEF SameStore
<1> DEFINE r == Stopped(s)
<1> HIDE DEF r
<1>4. /\ HasFields(r) /\ r.pubs = s.pubs /\ r.events = s.events /\ ~r.ctl.active
      /\ r.ctl.batches = << >>
  BY <1>3 DEF r
<1>5. ASSUME NEW d PROVE LET c == [r EXCEPT !.db = d]
        IN /\ c.pubs = s.pubs /\ c.events = s.events /\ ~c.ctl.active
           /\ c.ctl.batches = << >>
  <2>1. LET c == [r EXCEPT !.db = d] IN c.pubs = r.pubs /\ c.events = r.events /\ c.ctl = r.ctl
    BY <1>4 DEF HasFields
  <2> QED
    BY <1>4, <2>1
<1>6. ~PubRunning(s) => ThreadsFit(r, "none") /\ \A d : ThreadsFit([r EXCEPT !.db = d], "none")
  BY <1>2, <1>4, <1>5
<1> QED
  BY <1>1, <1>6 DEF r

\* The next call is taken from the queue.
LEMMA WiresTaken ==
  ASSUME NEW s, s.events # << >>, CallsOK(s.events), NEW r, r.pubs = s.pubs, r.ctl = s.ctl,
         r.events = Tail(s.events)
  PROVE  /\ Threaded(s) => Threaded(r)
         /\ Wired(s) => Wired(r)
         /\ \A h : ThreadsFit(s, h) => ThreadsFit(r, h)
<1>1. /\ CallsOK(r.events) /\ ToSet(r.events) \subseteq ToSet(s.events)
      /\ \A A, K : Unfollowed(s.events, A, K) => Unfollowed(r.events, A, K)
  BY FirstCall
<1>2. Busy(r) <=> Busy(s)
  BY DEF Busy
<1>3. Threaded(s) => Threaded(r)
  BY <1>1 DEF Threaded
<1>4. Wired(s) => Wired(r)
  BY <1>1, <1>2 DEF Wired
<1>5. \A h : InRun(r, h) <=> InRun(s, h)
  BY DEF InRun
<1> QED
  BY <1>3, <1>4, <1>5 DEF ThreadsFit

\* The reports of the publisher and the answers change the store alone.
LEMMA WiresReports ==
  ASSUME NEW s, Shaped(s), ThreadsFit(s, "none"), NEW t, NEW v
  PROVE  /\ ThreadsFit(OnPublished(s, t), "none") /\ ThreadsFit(OnFailed(s, t), "none")
         /\ ThreadsFit(OnResult(s, t, v), "none")
<1>1. /\ OnPublished(s, t) = [s EXCEPT !.db = MarkSent(s.db, t)]
      /\ OnFailed(s, t) = [s EXCEPT !.db = MarkError(s.db, t)]
      /\ OnResult(s, t, v) = [s EXCEPT !.db = ApplyResult(s.db, t, v)]
  BY Zenon DEF OnPublished, OnFailed, OnResult
<1> QED
  BY <1>1, WiresStored

\* Only the polling threads change, or what refers to them.
LEMMA WiresPolling ==
  ASSUME NEW s, ThreadsFit(s, "none"), NEW r, SamePublishing(s, r), r.ctl.active => s.ctl.active
  PROVE  ThreadsFit(r, "none")
<1>1. /\ r.events = s.events /\ r.pubs = s.pubs /\ r.ctl.pub = s.ctl.pub
      /\ r.ctl.finished = s.ctl.finished /\ r.ctl.batches = s.ctl.batches
  BY DEF SamePublishing
<1> QED
  BY <1>1, SameWires DEF ThreadsFit, InRun

LEMMA WiresCycle ==
  ASSUME TwoSlots, NEW s, Shaped(s), ThreadsFit(s, "none"), NEW T
  PROVE  ThreadsFit(OnPollCycle(s, T), "none")
<1>1. PICK q, a :
        /\ SameThreads(s, q) /\ SamePlan(s, q) /\ Shaped(q)
        /\ a = [Dispatch(q) EXCEPT !.db = MarkTimeouts(Dispatch(q).db, T)]
        /\ OnPollCycle(s, T) \in {a, StopPolling(a)}
  BY CycleDoes
<1>2. ThreadsFit(q, "none")
  BY <1>1, WiresSameThreads DEF ThreadsFit, InRun, SameThreads, SamePlan
<1>3. ThreadsFit(Dispatch(q), "none") /\ Shaped(Dispatch(q))
  BY <1>1, <1>2, WiresDispatch, DispatchKeeps
<1>4. ThreadsFit(a, "none") /\ Shaped(a)
  <2> DEFINE e == Dispatch(q)
             d == MarkTimeouts(Dispatch(q).db, T)
  <2>1. Shaped(e) /\ ThreadsFit(e, "none") /\ a = [e EXCEPT !.db = d]
    BY <1>1, <1>3
  <2> HIDE DEF e, d
  <2> QED
    BY <2>1, WiresStored, Storing
<1>5. ThreadsFit(StopPolling(a), "none")
  <2>1. SamePublishing(a, StopPolling(a)) /\ StopPolling(a).ctl = a.ctl
    BY <1>4, PollingRoutines
  <2> QED
    BY <1>4, <2>1, WiresPolling
<1> QED
  BY <1>1, <1>4, <1>5

LEMMA WiresPollSlots ==
  ASSUME NEW s, Shaped(s), ThreadsFit(s, "none"), NEW w
  PROVE  ThreadsFit(OnQueueReady(s), "none") /\ ThreadsFit(OnPollFinished(s, w), "none")
<1>1. SamePublishing(s, OnQueueReady(s)) /\ OnQueueReady(s).ctl.active = s.ctl.active
  BY PollingRoutines
<1>2. ThreadsFit(OnQueueReady(s), "none")
  BY <1>1, WiresPolling
<1>3. PollFinishes(s, OnPollFinished(s, w), w)
  BY FinishRoutines
<1>4. ThreadsFit(OnPollFinished(s, w), "none")
  BY <1>3, WiresPolling DEF PollFinishes
<1> QED
  BY <1>2, <1>4

\* A thread is told to quit.
OneQuits(ps, qs, p) ==
  /\ qs \in [PubSlots -> Threads]
  /\ \A k \in PubSlots : /\ qs[k].run = ps[k].run /\ qs[k].stop = ps[k].stop
                         /\ qs[k].todo = ps[k].todo
                         /\ k # p => qs[k] = ps[k]
                         /\ k = p => qs[k].quit

LEMMA QuitTold ==
  ASSUME NEW ps \in [PubSlots -> Threads], NEW p, NEW qs, qs = [ps EXCEPT ![p].quit = TRUE]
  PROVE  OneQuits(ps, qs, p)
<1>1. \A k \in PubSlots : qs[k] = IF k = p THEN [ps[k] EXCEPT !.quit = TRUE] ELSE ps[k]
  OBVIOUS
<1>2. ASSUME NEW k \in PubSlots
      PROVE  LET t == [ps[k] EXCEPT !.quit = TRUE]
             IN  /\ t \in Threads /\ t.quit = TRUE
                 /\ t.run = ps[k].run /\ t.stop = ps[k].stop /\ t.todo = ps[k].todo
  <2>1. ps[k] \in Threads
    OBVIOUS
  <2> QED
    BY <2>1 DEF Threads
<1>3. qs \in [PubSlots -> Threads]
  BY <1>1, <1>2
<1>4. ASSUME NEW k \in PubSlots
      PROVE  /\ qs[k].run = ps[k].run /\ qs[k].stop = ps[k].stop /\ qs[k].todo = ps[k].todo
             /\ k # p => qs[k] = ps[k]
             /\ k = p => qs[k].quit
  BY <1>1, <1>2
<1> QED
  BY <1>3, <1>4 DEF OneQuits

\* The end of a publisher: it has told nothing since.
LEMMA WiresFinished ==
  ASSUME NEW s, s.events # << >>, Head(s.events).kind = "pubFinished", ThreadsFit(s, "none"),
         NEW q, Shaped(q), q.pubs = s.pubs, q.ctl = s.ctl, q.events = Tail(s.events), NEW known
  PROVE  ThreadsFit(OnPubFinished(q, Head(s.events).of, known), "none")
<1> DEFINE p == Head(s.events).of
           r == OnPubFinished(q, p, known)
<1>1. CallsOK(s.events) /\ ThreadsFit(q, "none")
  BY WiresTaken DEF ThreadsFit, Threaded
<1>2. PubFinishes(q, r, p, known)
  BY FinishRoutines
<1> HIDE DEF r, p
<1>3. /\ r.events = q.events /\ r.ctl.batches = q.ctl.batches /\ r.ctl.active = q.ctl.active
      /\ r.ctl.pub = q.ctl.pub /\ r.pubs = [q.pubs EXCEPT ![p].quit = TRUE]
      /\ (known /\ q.ctl.pub # p) \/ r.ctl.finished = TRUE
  BY <1>2 DEF PubFinishes, SameStore
<1>4. q.pubs \in [PubSlots -> Threads]
  BY <1>1 DEF ThreadsFit, Threaded
<1>5. /\ r.pubs \in [PubSlots -> Threads]
      /\ \A k \in PubSlots : /\ r.pubs[k].run = q.pubs[k].run /\ r.pubs[k].stop = q.pubs[k].stop
                             /\ k # p => r.pubs[k] = q.pubs[k]
                             /\ k = p => r.pubs[k].quit
  <2> DEFINE ps == q.pubs
             qs == r.pubs
  <2>1. qs = [ps EXCEPT ![p].quit = TRUE] /\ ps \in [PubSlots -> Threads]
    BY <1>3, <1>4
  <2> HIDE DEF ps, qs
  <2>2. OneQuits(ps, qs, p)
    BY <2>1, QuitTold
  <2> QED
    BY <2>2 DEF ps, qs, OneQuits
<1>6. Threaded(r)
  BY <1>1, <1>3, <1>5 DEF ThreadsFit, Threaded, Alive
<1>7. ASSUME InRun(r, "none") PROVE Wired(r)
  <2>1. InRun(s, "none") /\ Wired(s) /\ Wired(q)
    BY <1>1, <1>3, <1>7 DEF InRun, ThreadsFit
  <2>2. /\ Head(s.events) \in ToSet(s.events)
        /\ \A c \in ToSet(q.events) : c.kind \notin PubKinds
    <3>1. Unfollowed(s.events, {"pubFinished"}, PubKinds)
      BY <2>1 DEF Wired
    <3> QED
      BY <1>1, <3>1, FirstCall
  <2>3. p = s.ctl.pub /\ p \in PubSlots /\ s.pubs[p].run = "done"
    BY <2>1, <2>2 DEF Wired, p
  <2>4. r.ctl.finished = TRUE
    BY <1>3, <2>3
  <2>5. ~Busy(r)
    <3>1. r.ctl.pub = p
      BY <1>3, <2>3
    <3>2. \A k \in PubSlots : k = p => r.pubs[k].quit
      BY <1>5
    <3> QED
      BY <3>1, <3>2 DEF Busy
  <2>6. \A k \in PubSlots : /\ Alive(r.pubs[k]) => ~r.pubs[k].stop
                            /\ Live(r.pubs[k]) => ~r.pubs[k].quit
    <3>1. \A k \in PubSlots : /\ Alive(q.pubs[k]) => ~q.pubs[k].stop
                              /\ Live(q.pubs[k]) => ~q.pubs[k].quit
      BY <2>1 DEF Wired
    <3>2. ~Live(r.pubs[p])
      BY <1>5, <2>3 DEF Live
    <3>3. \A k \in PubSlots : Alive(r.pubs[k]) = Alive(q.pubs[k])
      BY <1>5 DEF Alive
    <3> QED
      BY <1>5, <3>1, <3>2, <3>3
  <2>7. \A c \in ToSet(r.events) : c.kind \notin PubKinds
    BY <1>3, <2>2
  <2>8. /\ Unfollowed(r.events, {"pubFinished"}, PubKinds)
        /\ Unfollowed(r.events, PubKinds, {"pubThreadFinished"})
    BY <1>3, <2>1 DEF Wired
  <2> QED
    BY <2>5, <2>6, <2>7, <2>8 DEF Wired, PubKinds, AtWork
<1> QED
  BY <1>6, <1>7 DEF ThreadsFit, r, p

\* A thread that is gone is forgotten.
LEMMA WiresForgotten ==
  ASSUME NEW s, s.events # << >>, Head(s.events).kind = "pubThreadFinished", ThreadsFit(s, "none"),
         NEW q, Shaped(q), q.pubs = s.pubs, q.ctl = s.ctl, q.events = Tail(s.events)
  PROVE  ThreadsFit(OnPubThreadFinished(q, Head(s.events).of), "none")
<1> DEFINE p == Head(s.events).of
           r == OnPubThreadFinished(q, p)
<1>1. CallsOK(s.events) /\ ThreadsFit(q, "none")
  BY WiresTaken DEF ThreadsFit, Threaded
<1>2. PubThreadFinishes(q, r, p)
  BY FinishRoutines
<1> HIDE DEF r
<1>3. /\ r.events = q.events /\ r.ctl.batches = q.ctl.batches /\ r.ctl.active = q.ctl.active
      /\ r.ctl.pub = (IF q.ctl.pub = p THEN NoSlot ELSE q.ctl.pub)
      /\ r.pubs = [q.pubs EXCEPT ![p] = NoThread] /\ r.ctl.finished = q.ctl.finished
  BY <1>2 DEF PubThreadFinishes, SameStore
<1>4. q.pubs \in [PubSlots -> Threads] /\ p \in PubSlots /\ ~Alive(q.pubs[p])
  <2>1. Head(s.events) \in ToSet(s.events)
    BY <1>1, FirstCall
  <2> QED
    BY <1>1, <2>1 DEF ThreadsFit, Threaded
<1>5. NoThread \in Threads /\ ~Alive(NoThread) /\ ~Live(NoThread)
  BY DEF NoThread, Threads, PubStates, Alive, Live
<1>6. /\ r.pubs \in [PubSlots -> Threads]
      /\ \A k \in PubSlots : r.pubs[k] = IF k = p THEN NoThread ELSE q.pubs[k]
  BY <1>3, <1>4, <1>5
<1>7. \A k \in PubSlots : /\ Alive(r.pubs[k]) => Alive(q.pubs[k]) /\ k # p /\ r.pubs[k] = q.pubs[k]
                          /\ Live(r.pubs[k]) => Live(q.pubs[k]) /\ r.pubs[k] = q.pubs[k]
                          /\ Alive(q.pubs[k]) => k # p /\ r.pubs[k] = q.pubs[k]
  BY <1>4, <1>5, <1>6
<1>8. Threaded(r)
  BY <1>1, <1>3, <1>4, <1>6, <1>7 DEF ThreadsFit, Threaded
<1>9. ASSUME InRun(r, "none") PROVE Wired(r)
  <2>1. Wired(q)
    BY <1>1, <1>3, <1>9 DEF InRun, ThreadsFit
  <2>2. \A k \in PubSlots : k # NoSlot
    BY EagerAssumption DEF NoSlot
  <2> HIDE DEF p
  <2>3. Busy(r) <=> Busy(q)
    BY <1>3, <1>7, <2>2 DEF Busy
  <2>4. \A c \in ToSet(q.events) : c.kind = "pubFinished" =>
           c.of # p /\ c.of = r.ctl.pub /\ r.pubs[c.of].run = "done" /\ c.of \in PubSlots
    <3>1. \A c \in ToSet(q.events) : c.kind = "pubFinished" =>
            c.of = q.ctl.pub /\ c.of \in PubSlots /\ q.pubs[c.of].run = "done"
      BY <2>1 DEF Wired
    <3>2. \A k \in PubSlots : q.pubs[k].run = "done" => Alive(q.pubs[k])
      BY DEF Alive
    <3> QED
      BY <1>3, <1>7, <3>1, <3>2
  <2> QED
    BY <1>3, <1>7, <2>1, <2>3, <2>4 DEF Wired
<1> QED
  BY <1>8, <1>9 DEF ThreadsFit, r

\* The calls before a step of a thread, and after it.
Posts(s, r, c) == r.events = s.events \/ (IsOutcome(c) /\ r.events = s.events \o <<c>>)

LEMMA PostsFacts ==
  ASSUME NEW s, CallsOK(s.events), NEW r, NEW c, Posts(s, r, c)
  PROVE  /\ CallsOK(r.events)
         /\ \A x \in ToSet(s.events) : x \in ToSet(r.events)
         /\ \A x \in ToSet(r.events) : x \in ToSet(s.events) \/ (x = c /\ c \in ToSet(r.events))
         /\ \A A, K : (/\ Unfollowed(s.events, A, K)
                       /\ c.kind \in K => \A x \in ToSet(s.events) : x.kind \notin A)
                      => Unfollowed(r.events, A, K)
<1>1. CASE r.events = s.events
  BY <1>1
<1>2. CASE IsOutcome(c) /\ r.events = s.events \o <<c>>
  <2>1. CallsOK(r.events)
    BY <1>2, PostedCall
  <2>2. ToSet(r.events) = ToSet(s.events) \cup {c}
    BY <1>2, LastCall
  <2>3. \A A, K : (/\ Unfollowed(s.events, A, K)
                   /\ c.kind \in K => \A x \in ToSet(s.events) : x.kind \notin A)
                  => Unfollowed(r.events, A, K)
    BY <1>2, LastCall
  <2> QED
    BY <2>1, <2>2, <2>3
<1> QED
  BY <1>1, <1>2 DEF Posts

\* A publisher at work goes on, and posts a call of its own.
LEMMA WiresWork ==
  ASSUME NEW s, NEW h, ThreadsFit(s, h), NEW p \in PubSlots, Live(s.pubs[p]),
         NEW thread \in Threads, thread.run \in {"sending", "sent", "done"},
         thread.stop = s.pubs[p].stop, thread.quit = s.pubs[p].quit,
         NEW r, r.ctl = s.ctl, r.pubs = [s.pubs EXCEPT ![p] = thread],
         NEW c, Posts(s, r, c), c.kind \in AtWork,
         c.kind = "pubFinished" => c.of = p /\ thread.run = "done"
  PROVE  ThreadsFit(r, h)
<1>1. s.pubs \in [PubSlots -> Threads] /\ CallsOK(s.events)
  BY DEF ThreadsFit, Threaded
<1>2. /\ r.pubs \in [PubSlots -> Threads]
      /\ \A q \in PubSlots : r.pubs[q] = IF q = p THEN thread ELSE s.pubs[q]
  BY <1>1
<1>3. Alive(s.pubs[p]) /\ Alive(thread) /\ s.pubs[p].run # "done"
  BY DEF Live, Alive
<1>4. /\ CallsOK(r.events)
      /\ \A x \in ToSet(r.events) : x \in ToSet(s.events) \/ x = c
      /\ \A A, K : (/\ Unfollowed(s.events, A, K)
                    /\ c.kind \in K => \A x \in ToSet(s.events) : x.kind \notin A)
                   => Unfollowed(r.events, A, K)
  BY <1>1, PostsFacts
<1>5. c.kind # "pubThreadFinished"
  BY DEF AtWork
<1>6. \A q \in PubSlots : Alive(r.pubs[q]) <=> Alive(s.pubs[q])
  BY <1>2, <1>3
<1>7. Threaded(r)
  BY <1>2, <1>4, <1>5, <1>6 DEF ThreadsFit, Threaded
<1>8. ASSUME InRun(r, h) PROVE Wired(r)
  <2>1. Wired(s) /\ s.ctl.pub = p
    BY <1>3, <1>8 DEF InRun, ThreadsFit, Threaded
  <2>2. ~s.pubs[p].quit /\ ~s.pubs[p].stop
    BY <1>3, <2>1 DEF Wired
  <2>3. Busy(s) /\ Busy(r)
    BY <1>2, <1>3, <2>1, <2>2 DEF Busy
  <2>4. \A x \in ToSet(s.events) : x.kind # "pubFinished"
    BY <1>3, <2>1 DEF Wired
  <2>5. /\ Unfollowed(r.events, {"pubFinished"}, PubKinds)
        /\ Unfollowed(r.events, PubKinds, {"pubThreadFinished"})
    <3>1. /\ Unfollowed(s.events, {"pubFinished"}, PubKinds)
          /\ Unfollowed(s.events, PubKinds, {"pubThreadFinished"})
      BY <2>1 DEF Wired
    <3>2. /\ c.kind \in PubKinds => \A x \in ToSet(s.events) : x.kind \notin {"pubFinished"}
          /\ c.kind \in {"pubThreadFinished"} => \A x \in ToSet(s.events) : x.kind \notin PubKinds
      BY <1>5, <2>4
    <3> QED
      BY <1>4, <3>1, <3>2
  <2>6. \A q \in PubSlots : /\ Alive(r.pubs[q]) => ~r.pubs[q].stop
                            /\ Live(r.pubs[q]) => ~r.pubs[q].quit
    <3>1. ~thread.stop /\ ~thread.quit
      BY <2>2
    <3> QED
      BY <1>2, <2>1, <3>1 DEF Wired
  <2>7. ASSUME NEW x \in ToSet(r.events)
        PROVE  /\ x.kind \in AtWork => Busy(r)
               /\ x.kind = "pubFinished" =>
                    x.of = r.ctl.pub /\ x.of \in PubSlots /\ r.pubs[x.of].run = "done"
               /\ x.kind = "pubThreadFinished" => r.ctl.pub \in {NoSlot, x.of} \/ Busy(r)
    <3>1. x.kind = "pubFinished" => x = c
      BY <1>4, <2>4, <2>7
    <3> QED
      BY <1>2, <2>1, <2>3, <2>7, <3>1
  <2>8. ~r.ctl.finished
    BY <2>1, <2>3 DEF Wired
  <2> QED
    BY <2>5, <2>6, <2>7, <2>8 DEF Wired
<1> QED
  BY <1>7, <1>8 DEF ThreadsFit

\* A publisher that has ended leaves, and posts that it is gone.
LEMMA WiresExit ==
  ASSUME NEW s, NEW h, ThreadsFit(s, h), NEW p \in PubSlots,
         s.pubs[p].run = "done", s.pubs[p].quit,
         NEW thread \in Threads, thread.run = "exited",
         NEW r, r.ctl = s.ctl, r.pubs = [s.pubs EXCEPT ![p] = thread],
         NEW c, Posts(s, r, c), c.kind = "pubThreadFinished", c.of = p
  PROVE  ThreadsFit(r, h)
<1>1. s.pubs \in [PubSlots -> Threads] /\ CallsOK(s.events)
  BY DEF ThreadsFit, Threaded
<1>2. /\ r.pubs \in [PubSlots -> Threads]
      /\ \A q \in PubSlots : r.pubs[q] = IF q = p THEN thread ELSE s.pubs[q]
  BY <1>1
<1>3. Alive(s.pubs[p]) /\ ~Alive(thread) /\ ~Live(thread) /\ s.ctl.pub = p
  BY DEF Live, Alive, ThreadsFit, Threaded
<1>4. /\ CallsOK(r.events)
      /\ \A x \in ToSet(r.events) : x \in ToSet(s.events) \/ x = c
      /\ \A A, K : (/\ Unfollowed(s.events, A, K)
                    /\ c.kind \in K => \A x \in ToSet(s.events) : x.kind \notin A)
                   => Unfollowed(r.events, A, K)
  BY <1>1, PostsFacts
<1>5. \A q \in PubSlots : ~Alive(r.pubs[q])
  BY <1>2, <1>3 DEF ThreadsFit, Threaded
<1>6. Threaded(r)
  <2>1. ASSUME NEW x \in ToSet(r.events), x.kind = "pubThreadFinished"
        PROVE  x.of \in PubSlots
    BY <1>4, <2>1 DEF ThreadsFit, Threaded
  <2> QED
    BY <1>2, <1>4, <1>5, <2>1 DEF Threaded
<1>7. ASSUME InRun(r, h) PROVE Wired(r)
  <2>1. Wired(s)
    BY <1>7 DEF InRun, ThreadsFit
  <2>2. ~Busy(s) /\ ~Busy(r)
    BY <1>3, <1>5 DEF Busy
  <2>3. \A x \in ToSet(s.events) : x.kind \notin PubKinds
    <3>1. \A x \in ToSet(s.events) : x.kind \notin AtWork
      BY <2>1, <2>2 DEF Wired
    <3>2. ASSUME NEW x \in ToSet(s.events), x.kind = "pubThreadFinished" PROVE FALSE
      <4>1. s.ctl.pub \in {NoSlot, x.of} /\ x.of \in PubSlots /\ ~Alive(s.pubs[x.of])
        BY <2>1, <2>2, <3>2 DEF Wired, ThreadsFit, Threaded
      <4>2. p # NoSlot
        BY EagerAssumption DEF NoSlot
      <4> QED
        BY <1>3, <4>1, <4>2
    <3> QED
      BY <3>1, <3>2 DEF PubKinds
  <2>4. /\ Unfollowed(r.events, {"pubFinished"}, PubKinds)
        /\ Unfollowed(r.events, PubKinds, {"pubThreadFinished"})
    <3>1. /\ Unfollowed(s.events, {"pubFinished"}, PubKinds)
          /\ Unfollowed(s.events, PubKinds, {"pubThreadFinished"})
      BY <2>1 DEF Wired
    <3>2. \A x \in ToSet(s.events) : x.kind \notin {"pubFinished"}
      BY <2>3 DEF PubKinds, AtWork
    <3> QED
      BY <1>4, <2>3, <3>1, <3>2
  <2>5. \A q \in PubSlots : ~Live(r.pubs[q])
    BY <1>5 DEF Live, Alive
  <2>6. \A x \in ToSet(r.events) : x.kind \in PubKinds => x = c
    BY <1>4, <2>3
  <2>7. \A x \in ToSet(r.events) : /\ x.kind \notin AtWork /\ x.kind # "pubFinished"
                                   /\ x.kind = "pubThreadFinished" => r.ctl.pub = x.of
    <3>1. c.kind \notin AtWork /\ "pubFinished" \in AtWork /\ AtWork \subseteq PubKinds
          /\ "pubThreadFinished" \in PubKinds
      BY DEF AtWork, PubKinds
    <3> QED
      BY <1>3, <2>6, <3>1
  <2> QED
    BY <1>5, <2>2, <2>4, <2>5, <2>7 DEF Wired
<1> QED
  BY <1>6, <1>7 DEF ThreadsFit

\* What a poll thread posts says nothing of a publisher.
LEMMA WiresPolls ==
  ASSUME NEW s, NEW h, ThreadsFit(s, h), NEW r, r.ctl = s.ctl, r.pubs = s.pubs,
         NEW c, Posts(s, r, c), c.kind \notin PubKinds
  PROVE  ThreadsFit(r, h)
<1>1. CallsOK(s.events)
  BY DEF ThreadsFit, Threaded
<1>2. /\ CallsOK(r.events)
      /\ \A x \in ToSet(r.events) : x \in ToSet(s.events) \/ x = c
      /\ \A A, K : (/\ Unfollowed(s.events, A, K)
                    /\ c.kind \in K => \A x \in ToSet(s.events) : x.kind \notin A)
                   => Unfollowed(r.events, A, K)
  BY <1>1, PostsFacts
<1>3. AtWork \subseteq PubKinds /\ "pubThreadFinished" \in PubKinds /\ "pubFinished" \in AtWork
  BY DEF AtWork, PubKinds
<1>4. \A x \in ToSet(r.events) : x.kind \in PubKinds => x \in ToSet(s.events)
  BY <1>2
<1>5. Threaded(r)
  BY <1>2, <1>3, <1>4 DEF ThreadsFit, Threaded
<1>6. ASSUME Wired(s) PROVE Wired(r)
  <2>1. Busy(r) <=> Busy(s)
    BY DEF Busy
  <2>2. /\ Unfollowed(r.events, {"pubFinished"}, PubKinds)
        /\ Unfollowed(r.events, PubKinds, {"pubThreadFinished"})
    BY <1>2, <1>3, <1>6 DEF Wired
  <2> QED
    BY <1>3, <1>4, <1>6, <2>1, <2>2 DEF Wired
<1> QED
  BY <1>5, <1>6 DEF ThreadsFit, InRun

ThreadsInv == CapInv /\ ThreadsFit(Situation, halt)

LEMMA WiresDepend ==
  ASSUME NEW s, NEW h, ThreadsFit(s, h), NEW r, r.ctl = s.ctl, r.pubs = s.pubs, r.events = s.events
  PROVE  ThreadsFit(r, h)
  BY SameWires DEF ThreadsFit, InRun

LEMMA WiresBecome ==
  ASSUME NEW r, NEW h, ThreadsFit(r, h), Become(r)
  PROVE  ThreadsFit(Situation', h)
<1>1. Situation'.ctl = r.ctl /\ Situation'.pubs = r.pubs /\ Situation'.events = r.events
  BY Afterwards DEF Become
<1> QED
  BY <1>1, WiresDepend

\* A thread with another state.
LEMMA WiresThread ==
  ASSUME NEW thread \in Threads, NEW run \in PubStates
  PROVE  LET t == [thread EXCEPT !.run = run]
             u == [t EXCEPT !.todo = Tail(@)]
         IN  /\ run # "sent" \/ thread.todo # << >> => t \in Threads
             /\ t.run = run /\ t.stop = thread.stop /\ t.quit = thread.quit
             /\ t.todo = thread.todo
             /\ thread.todo # << >> =>
                  /\ run # "sent" => u \in Threads
                  /\ u.run = run /\ u.stop = thread.stop /\ u.quit = thread.quit
                  /\ u.todo = Tail(thread.todo)
<1> DEFINE t == [thread EXCEPT !.run = run]
           u == [t EXCEPT !.todo = Tail(@)]
           T == [run : PubStates, todo : Seq(Requests), stop : BOOLEAN, quit : BOOLEAN]
<1>1. /\ t \in T /\ t.run = run /\ t.stop = thread.stop /\ t.quit = thread.quit
      /\ t.todo = thread.todo /\ thread.todo \in Seq(Requests)
  BY DEF Threads
<1> HIDE DEF t
<1>2. ASSUME thread.todo # << >>
      PROVE  /\ u \in T /\ u.run = run /\ u.stop = thread.stop /\ u.quit = thread.quit
             /\ u.todo = Tail(thread.todo)
  <2>1. Tail(t.todo) \in Seq(Requests)
    BY <1>1, <1>2
  <2> QED
    BY <1>1, <2>1
<1> HIDE DEF u
<1> QED
  BY <1>1, <1>2 DEF t, u, Threads

\* The steps of the publishing threads.
LEMMA WiresPubSteps ==
  ASSUME ThreadsInv, NEW p \in PubSlots, PubRuns(p)
  PROVE  ThreadsFit(Situation', halt')
<1> DEFINE s == Situation
           r == Situation'
           at(run) == PubAt(p, run)
           told == [PubAt(p, "sending") EXCEPT !.todo = Tail(@)]
<1>1. /\ s.ctl = ctl /\ s.pubs = pubs /\ s.events = events
      /\ r.ctl = ctl' /\ r.pubs = pubs' /\ r.events = events'
  BY Afterwards
<1>2. ThreadsFit(s, halt) /\ CallsOK(events) /\ pubs[p] \in Threads
  BY <1>1 DEF ThreadsInv, ThreadsFit, Threaded
<1>3. /\ \A run \in PubStates : /\ run # "sent" \/ pubs[p].todo # << >> => at(run) \in Threads
                                /\ at(run).run = run
                                /\ at(run).stop = pubs[p].stop /\ at(run).quit = pubs[p].quit
      /\ pubs[p].todo # << >> => /\ told \in Threads /\ told.run = "sending"
                                 /\ told.stop = pubs[p].stop /\ told.quit = pubs[p].quit
  <2>1. ASSUME NEW run \in PubStates
        PROVE  /\ run # "sent" \/ pubs[p].todo # << >> => at(run) \in Threads
               /\ at(run).run = run
               /\ at(run).stop = pubs[p].stop /\ at(run).quit = pubs[p].quit
    BY <1>2, WiresThread DEF PubAt
  <2>2. "sending" \in PubStates
    BY DEF PubStates
  <2>3. pubs[p].todo # << >> => /\ told \in Threads /\ told.run = "sending"
                                /\ told.stop = pubs[p].stop /\ told.quit = pubs[p].quit
    BY <1>2, <2>2, WiresThread DEF PubAt
  <2> QED
    BY <2>1, <2>3
<1>4. {"sending", "sent", "done", "exited"} \subseteq PubStates
  BY DEF PubStates
<1> HIDE DEF s, r, at, told
<1>5. ASSUME NEW thread \in Threads, thread.run \in {"sending", "sent", "done"}, Live(pubs[p]),
             thread.stop = pubs[p].stop, thread.quit = pubs[p].quit,
             NEW c, PubStep(p, thread, <<c>>) \/ PubStep(p, thread, << >>), c.kind \in AtWork,
             c.kind = "pubFinished" => c.of = p /\ thread.run = "done"
      PROVE  ThreadsFit(r, halt')
  <2>1. pubs' = [pubs EXCEPT ![p] = thread] /\ ctl' = ctl /\ halt' = halt
        /\ (events' = events \o <<c>> \/ events' = events \o << >>)
    BY <1>5 DEF PubStep
  <2>2. IsOutcome(c)
    BY <1>5 DEF IsOutcome, AtWork
  <2>3. Posts(s, r, c)
    BY <1>1, <1>2, <2>1, <2>2, PostedNone DEF Posts
  <2>4. r.ctl = s.ctl /\ r.pubs = [s.pubs EXCEPT ![p] = thread] /\ s.pubs[p] = pubs[p]
    BY <1>1, <2>1
  <2>5. ThreadsFit(r, halt)
    BY <1>2, <1>5, <2>3, <2>4, WiresWork
  <2> QED
    BY <2>1, <2>5
<1>6. CASE PubConnect(p)
  <2>1. Live(pubs[p])
    BY <1>6 DEF PubConnect, Live
  <2> DEFINE c == Call("queueReady", p)
             e == Call("pubFinished", p)
  <2>2. /\ c.kind = "queueReady" /\ e.kind = "pubFinished" /\ e.of = p
        /\ c.kind \in AtWork /\ e.kind \in AtWork
    BY DEF Call, AtWork
  <2>3. PubStep(p, at("sending"), <<c>>) \/ PubStep(p, at("done"), <<e>>)
    BY <1>6 DEF PubConnect, at
  <2> HIDE DEF c, e
  <2> QED
    BY <1>3, <1>4, <1>5, <2>1, <2>2, <2>3 DEF r
<1>7. CASE PubSend(p)
  <2>1. Live(pubs[p])
    BY <1>7 DEF PubSend, Live
  <2> DEFINE c == Call("queueReady", p)
  <2>2. c.kind = "queueReady" /\ c.kind \in AtWork
    BY DEF Call, AtWork
  <2>3. PubStep(p, at("sent"), << >>) /\ pubs[p].todo # << >>
    BY <1>7 DEF PubSend, at
  <2> HIDE DEF c
  <2> QED
    BY <1>3, <1>4, <1>5, <2>1, <2>2, <2>3 DEF r
<1>8. CASE PubReport(p)
  <2>1. PICK kind \in {"published", "failed"} :
          /\ IF kind = "published" THEN pubs[p].run = "sent"
             ELSE pubs[p].run = "sending" /\ pubs[p].todo # << >>
          /\ PubStep(p, told, <<Call(kind, Head(pubs[p].todo))>>)
    BY <1>8 DEF PubReport, told
  <2>2. Live(pubs[p])
    BY <2>1 DEF Live
  <2>3. pubs[p].todo # << >>
    BY <1>2, <2>1 DEF Threads
  <2> DEFINE c == Call(kind, Head(pubs[p].todo))
  <2>4. c.kind \in AtWork /\ c.kind # "pubFinished" /\ PubStep(p, told, <<c>>)
    BY <2>1 DEF Call, AtWork
  <2> HIDE DEF c
  <2> QED
    BY <1>3, <1>5, <2>2, <2>3, <2>4 DEF r
<1>9. CASE PubEnd(p)
  <2>1. Live(pubs[p])
    BY <1>9 DEF PubEnd, Live
  <2> DEFINE e == Call("pubFinished", p)
  <2>2. e.kind = "pubFinished" /\ e.of = p /\ e.kind \in AtWork
    BY DEF Call, AtWork
  <2>3. PubStep(p, at("done"), <<e>>)
    BY <1>9 DEF PubEnd, at
  <2> HIDE DEF e
  <2> QED
    BY <1>3, <1>4, <1>5, <2>1, <2>2, <2>3 DEF r
<1>10. CASE PubExit(p)
  <2> DEFINE c == Call("pubThreadFinished", p)
             thread == at("exited")
  <2>1. /\ pubs' = [pubs EXCEPT ![p] = thread] /\ ctl' = ctl /\ halt' = halt
        /\ events' = events \o <<c>> /\ pubs[p].run = "done" /\ pubs[p].quit
    BY <1>10 DEF PubExit, PubStep, at
  <2>2. c.kind = "pubThreadFinished" /\ c.of = p /\ IsOutcome(c)
    BY DEF Call, IsOutcome
  <2>3. thread \in Threads /\ thread.run = "exited"
    BY <1>3, <1>4
  <2> HIDE DEF c, thread
  <2>4. Posts(s, r, c)
    BY <1>1, <2>1, <2>2 DEF Posts
  <2>5. r.ctl = s.ctl /\ r.pubs = [s.pubs EXCEPT ![p] = thread] /\ s.pubs[p] = pubs[p]
    BY <1>1, <2>1
  <2>6. ThreadsFit(r, halt)
    BY <1>2, <2>1, <2>2, <2>3, <2>4, <2>5, WiresExit
  <2> QED
    BY <2>1, <2>6 DEF r
<1> QED
  BY <1>6, <1>7, <1>8, <1>9, <1>10 DEF PubRuns, r

\* The steps of the polling threads.
LEMMA WiresPollSteps ==
  ASSUME ThreadsInv, NEW w \in PollSlots,
         \/ PollConnect(w) \/ PollTick(w) \/ PollEnd(w)
         \/ \E t \in BagToSet(mq), v \in Verdicts : PollDeliver(w, t, v)
  PROVE  ThreadsFit(Situation', halt')
<1> DEFINE s == Situation
           r == Situation'
<1>1. /\ s.ctl = ctl /\ s.pubs = pubs /\ s.events = events
      /\ r.ctl = ctl' /\ r.pubs = pubs' /\ r.events = events'
  BY Afterwards
<1>2. ThreadsFit(s, halt) /\ CallsOK(events)
  BY <1>1 DEF ThreadsInv, ThreadsFit, Threaded
<1> HIDE DEF s, r
<1>3. ASSUME NEW run, NEW c, PollStep(w, run, <<c>>) \/ PollStep(w, run, << >>),
             IsOutcome(c), c.kind \notin PubKinds
      PROVE  ThreadsFit(r, halt')
  <2>1. pubs' = pubs /\ ctl' = ctl /\ halt' = halt
        /\ (events' = events \o <<c>> \/ events' = events \o << >>)
    BY <1>3 DEF PollStep
  <2>2. Posts(s, r, c)
    BY <1>1, <1>2, <1>3, <2>1, PostedNone DEF Posts
  <2>3. ThreadsFit(r, halt)
    BY <1>1, <1>2, <1>3, <2>1, <2>2, WiresPolls
  <2> QED
    BY <2>1, <2>3
<1>4. ASSUME NEW kind \in {"pollFinished", "pollCycle"}, NEW of
      PROVE  IsOutcome(Call(kind, of)) /\ Call(kind, of).kind \notin PubKinds
  BY DEF IsOutcome, Call, PubKinds, AtWork
<1>5. CASE PollConnect(w)
  <2> DEFINE c == Call("pollFinished", w)
  <2>1. PollStep(w, "consuming", << >>) \/ PollStep(w, "done", <<c>>)
    BY <1>5 DEF PollConnect
  <2>2. IsOutcome(c) /\ c.kind \notin PubKinds
    BY <1>4
  <2> HIDE DEF c
  <2> QED
    BY <1>3, <2>1, <2>2 DEF r
<1>6. CASE PollTick(w)
  <2> DEFINE c == Call("pollCycle", w)
  <2>1. PollStep(w, "consuming", <<c>>)
    BY <1>6 DEF PollTick
  <2>2. IsOutcome(c) /\ c.kind \notin PubKinds
    BY <1>4
  <2> HIDE DEF c
  <2> QED
    BY <1>3, <2>1, <2>2 DEF r
<1>7. CASE PollEnd(w)
  <2> DEFINE c == Call("pollFinished", w)
  <2>1. PollStep(w, "done", <<c>>)
    BY <1>7 DEF PollEnd
  <2>2. IsOutcome(c) /\ c.kind \notin PubKinds
    BY <1>4
  <2> HIDE DEF c
  <2> QED
    BY <1>3, <2>1, <2>2 DEF r
<1>8. ASSUME NEW t, NEW v \in Verdicts, PollDeliver(w, t, v) PROVE ThreadsFit(r, halt')
  <2> DEFINE c == Call("result", [task |-> t, verdict |-> v])
  <2>1. PollStep(w, "consuming", <<c>>) \/ PollStep(w, "consuming", << >>)
    BY <1>8 DEF PollDeliver
  <2>2. IsOutcome(c) /\ c.kind \notin PubKinds
    BY SessionAssumption DEF IsOutcome, Call, PubKinds, AtWork, Done
  <2> HIDE DEF c
  <2> QED
    BY <1>3, <2>1, <2>2
<1> QED
  BY <1>5, <1>6, <1>7, <1>8 DEF r

\* What the GUI thread does with the next call.
Handles(q, r) ==
  \/ Called("queueReady") /\ r = OnQueueReady(q)
  \/ Called("published") /\ r = OnPublished(q, Arg)
  \/ Called("failed") /\ r = OnFailed(q, Arg)
  \/ Called("result") /\ r = OnResult(q, Arg.task, Arg.verdict)
  \/ Called("pollCycle") /\ \E T : r = OnPollCycle(q, T)
  \/ Called("pubFinished") /\ \E known : r = OnPubFinished(q, Arg, known)
  \/ Called("pubThreadFinished") /\ r = OnPubThreadFinished(q, Arg)
  \/ Called("pollFinished") /\ r = OnPollFinished(q, Arg)

LEMMA HandlingDoes ==
  ASSUME HandleCall
  PROVE  /\ halt = "none" /\ halt' = halt /\ mq' = mq /\ events # << >>
         /\ \E r : Become(r) /\ Handles(Next1, r)
<1> DEFINE q == Next1
<1>1. CASE HandleQueueReady
  BY <1>1 DEF HandleQueueReady, GuiTurn, Called, Handles
<1>2. CASE HandlePublished
  BY <1>2 DEF HandlePublished, GuiTurn, Called, Handles
<1>3. CASE HandleFailed
  BY <1>3 DEF HandleFailed, GuiTurn, Called, Handles
<1>4. CASE HandleResult
  BY <1>4 DEF HandleResult, GuiTurn, Called, Handles
<1>5. ASSUME NEW T, HandlePollCycle(T)
      PROVE  /\ halt = "none" /\ halt' = halt /\ mq' = mq /\ events # << >>
             /\ \E r : Become(r) /\ Handles(q, r)
  <2>1. /\ halt = "none" /\ halt' = halt /\ mq' = mq /\ events # << >>
        /\ Called("pollCycle") /\ Become(OnPollCycle(q, T))
    BY <1>5 DEF HandlePollCycle, GuiTurn, Called
  <2> HIDE DEF q
  <2> QED
    BY <2>1 DEF Handles
<1>6. CASE HandlePubFinished
  BY <1>6 DEF HandlePubFinished, GuiTurn, Called, Handles
<1>7. CASE HandlePubThreadFinished
  BY <1>7 DEF HandlePubThreadFinished, GuiTurn, Called, Handles
<1>8. CASE HandlePollFinished
  BY <1>8 DEF HandlePollFinished, GuiTurn, Called, Handles
<1> HIDE DEF q
<1> QED
  BY <1>1, <1>2, <1>3, <1>4, <1>5, <1>6, <1>7, <1>8 DEF HandleCall, q

\* The GUI thread takes a queued call.
LEMMA WiresCalls ==
  ASSUME TwoSlots, ThreadsInv, HandleCall
  PROVE  ThreadsFit(Situation', halt')
<1> DEFINE s == Situation
           q == Next1
<1>1. /\ s.ctl = ctl /\ s.pubs = pubs /\ s.events = events
      /\ q.ctl = ctl /\ q.pubs = pubs /\ q.events = Tail(events) /\ HasFields(q) /\ q.db = db
      /\ Shaped(s) /\ StoreFits(db)
  BY Afterwards DEF ThreadsInv, CapInv, CapFits, ScheduleFits
<1>2. /\ Shaped(q) /\ StoreFits(q.db)
  BY <1>1 DEF Shaped
<1>3. /\ halt = "none" /\ halt' = halt /\ events # << >>
      /\ \E r : Become(r) /\ Handles(q, r)
  BY HandlingDoes
<1>4. PICK r : Become(r) /\ Handles(q, r)
  BY <1>3
<1> HIDE DEF s, q
<1>5. ThreadsFit(s, "none") /\ CallsOK(s.events) /\ s.events # << >>
  BY <1>1, <1>3 DEF ThreadsInv, ThreadsFit, Threaded, s
<1>6. ThreadsFit(q, "none")
  BY <1>1, <1>5, WiresTaken
<1>7. ThreadsFit(r, "none")
  <2>1. CASE r = OnQueueReady(q) \/ r = OnPollFinished(q, Arg)
    BY <1>2, <1>6, <2>1, WiresPollSlots
  <2>2. CASE \/ r = OnPublished(q, Arg) \/ r = OnFailed(q, Arg)
             \/ r = OnResult(q, Arg.task, Arg.verdict)
    BY <1>2, <1>6, <2>2, WiresReports
  <2>3. CASE \E T : r = OnPollCycle(q, T)
    BY <1>2, <1>6, <2>3, WiresCycle
  <2>4. CASE Called("pubFinished") /\ \E known : r = OnPubFinished(q, Arg, known)
    <3>1. Head(s.events).kind = "pubFinished" /\ Arg = Head(s.events).of
      BY <1>1, <2>4 DEF Called, Arg
    <3>2. PICK known : r = OnPubFinished(q, Arg, known)
      BY <2>4
    <3>3. q.pubs = s.pubs /\ q.ctl = s.ctl /\ q.events = Tail(s.events)
      BY <1>1
    <3>4. ThreadsFit(OnPubFinished(q, Head(s.events).of, known), "none")
      BY <1>2, <1>5, <3>1, <3>3, WiresFinished
    <3> QED
      BY <3>1, <3>2, <3>4
  <2>5. CASE Called("pubThreadFinished") /\ r = OnPubThreadFinished(q, Arg)
    <3>1. Head(s.events).kind = "pubThreadFinished" /\ Arg = Head(s.events).of
      BY <1>1, <2>5 DEF Called, Arg
    <3>3. q.pubs = s.pubs /\ q.ctl = s.ctl /\ q.events = Tail(s.events)
      BY <1>1
    <3>4. ThreadsFit(OnPubThreadFinished(q, Head(s.events).of), "none")
      BY <1>2, <1>5, <3>1, <3>3, WiresForgotten
    <3> QED
      BY <2>5, <3>1, <3>4
  <2> QED
    BY <1>4, <2>1, <2>2, <2>3, <2>4, <2>5 DEF Handles
<1> QED
  BY <1>3, <1>4, <1>7, WiresBecome

\* The user, and the end of a stop.
LEMMA WiresUser ==
  ASSUME TwoSlots, ThreadsInv,
         \/ \E f \in Folders : \E items \in SUBSET Items[f] : AddFolder(f, items)
         \/ \E S \in SUBSET Grouped(db) \ {{}} : DeleteFolders(S)
         \/ Start \/ Stop \/ Reset \/ StopEnds
  PROVE  ThreadsFit(Situation', halt')
<1> DEFINE s == Situation
<1>1. /\ s.ctl = ctl /\ s.pubs = pubs /\ s.events = events /\ s.db = db
      /\ Shaped(s) /\ StoreFits(s.db) /\ ThreadsFit(s, halt)
  BY Afterwards DEF ThreadsInv, CapInv, CapFits, ScheduleFits
<1> HIDE DEF s
<1>2. ASSUME NEW f \in Folders, NEW items \in SUBSET Items[f], AddFolder(f, items)
      PROVE  ThreadsFit(Situation', halt')
  <2>1. Become(Added(s, f, items)) /\ halt = "none" /\ halt' = halt
    BY <1>2 DEF AddFolder, UserTurn, GuiTurn, s
  <2> QED
    BY <1>1, <2>1, WiresAdded, WiresBecome
<1>3. ASSUME NEW S, DeleteFolders(S) PROVE ThreadsFit(Situation', halt')
  <2>1. Become(Removed(s, S)) /\ halt = "none" /\ halt' = halt
    BY <1>3 DEF DeleteFolders, UserTurn, GuiTurn, s
  <2> QED
    BY <1>1, <2>1, WiresRemoved, WiresBecome
<1>4. CASE Start
  <2>1. /\ Become(Started(s)) /\ halt = "none" /\ halt' = halt
        /\ s.events = << >> /\ UnusedPubs(s) = PubSlots
    BY <1>1, <1>4 DEF Start, UserTurn, GuiTurn, s
  <2> QED
    BY <1>1, <2>1, WiresStarted, WiresBecome
<1>5. CASE Stop \/ Reset
  <2>1. Become(StopAsked(s)) /\ halt' \in {"stop", "reset"}
    BY <1>5 DEF Stop, Reset, StopBegins, s
  <2>2. Threaded(StopAsked(s))
    BY <1>1, WiresStopped DEF ThreadsFit
  <2>3. ThreadsFit(StopAsked(s), halt')
    BY <2>1, <2>2 DEF ThreadsFit, InRun
  <2> QED
    BY <2>1, <2>3, WiresBecome
<1>6. CASE StopEnds
  <2>1. /\ ~PubRunning(s) /\ halt' = "none"
        /\ \/ Become(Stopped(s))
           \/ Become([Stopped(s) EXCEPT !.db = EmptyStore(db.life + 1)])
    BY <1>6 DEF StopEnds, s
  <2>2. /\ ThreadsFit(Stopped(s), "none")
        /\ ThreadsFit([Stopped(s) EXCEPT !.db = EmptyStore(db.life + 1)], "none")
    BY <1>1, <2>1, WiresStopped DEF ThreadsFit
  <2> QED
    BY <2>1, <2>2, WiresBecome
<1> QED
  BY <1>2, <1>3, <1>4, <1>5, <1>6

LEMMA WiresSteps ==
  ASSUME TwoSlots, ThreadsInv, Next
  PROVE  ThreadsFit(Situation', halt')
  BY WiresUser, WiresCalls, WiresPubSteps, WiresPollSteps DEF Next

LEMMA WiresStart ==
  ASSUME Init PROVE ThreadsFit(Situation, halt)
<1> DEFINE s == Situation
<1>1. /\ s.pubs = [p \in PubSlots |-> NoThread] /\ s.events = << >> /\ s.ctl = FreshController
  BY Afterwards DEF Init
<1>2. NoThread \in Threads /\ ~Alive(NoThread)
  BY DEF NoThread, Threads, PubStates, Alive
<1>3. CallsOK(s.events) /\ ToSet(s.events) = {}
  <2>1. CallsOK(s.events)
    BY EagerStart, Afterwards DEF EagerInv
  <2>2. DOMAIN s.events = {}
    BY <1>1
  <2> QED
    BY <2>1, <2>2 DEF ToSet
<1>4. Threaded(s)
  BY <1>1, <1>2, <1>3 DEF Threaded
<1>5. s.ctl.active = FALSE /\ s.ctl.batches = << >>
  <2>1. FreshController.active = FALSE /\ FreshController.batches = << >>
    BY DEF FreshController
  <2> QED
    BY <1>1, <2>1
<1> HIDE DEF s
<1>6. ThreadsFit(s, halt)
  BY <1>4, <1>5 DEF ThreadsFit, InRun
<1> QED
  BY <1>6 DEF s

-----------------------------------------------------------------------------
(* Where each request is: in a batch, with the publisher, with the broker M, or on *)
(* its way to the GUI thread.                                                      *)

Told(s) == {c.of : c \in {x \in ToSet(s.events) : x.kind \in {"published", "failed"}}}
Answered(s) == {c.of.task : c \in {x \in ToSet(s.events) : x.kind = "result"}}
Todo(s) == UNION {ToSet(s.pubs[p].todo) : p \in {q \in PubSlots : Live(s.pubs[q])}}
Heads(s) == {Head(s.pubs[p].todo) : p \in {q \in PubSlots : s.pubs[q].run = "sent"}}
Ahead(s) == IdsOf(Untaken(s))

\* A request that a registration cannot create any more.
Earlier(d, t) == t \in Known(d) \/ (t.life \in Nat /\ t.life < d.life)

\* What is in a batch is nowhere else, and what is with the broker or answered has
\* been reported, or is about to be, unless it has left PENDING. In a run, the
\* controller knows what it has scheduled.
Books(s, M) ==
  /\ \A t \in Told(s) \cup Todo(s) \cup Answered(s) \cup M \cup s.ctl.scheduled : Earlier(s.db, t)
  /\ (M \cup Answered(s)) \cap WaitingIn(s.db) \subseteq Told(s) \cup Heads(s)
  /\ Ahead(s) \subseteq WaitingIn(s.db)
  /\ Ahead(s) \cap (Told(s) \cup Todo(s) \cup Answered(s) \cup M) = {}
  /\ s.ctl.active => /\ Ahead(s) \subseteq s.ctl.scheduled
                     /\ (Told(s) \cup Todo(s)) \cap Known(s.db) \subseteq s.ctl.scheduled

\* No request twice, and those with the publisher are still to be sent.
Fresher(thread, M) ==
  /\ Enumerates(thread.todo, ToSet(thread.todo))
  /\ \A i \in DOMAIN thread.todo : thread.run # "sent" \/ i > 1 => thread.todo[i] \notin M
Separate(s, M) ==
  Apart(Untaken(s)) /\ \A p \in PubSlots : Live(s.pubs[p]) => Fresher(s.pubs[p], M)

\* Nothing PENDING is forgotten while every publisher connects.
Complete(s) == s.ctl.active => WaitingIn(s.db) \subseteq Ahead(s) \cup Todo(s) \cup Told(s)
Ledger(s, M, h) ==
  /\ Books(s, M) /\ Separate(s, M)
  /\ "connectFailure" \notin Allowed /\ h = "none" => Complete(s)

\* The publishers at work are the same, and have the same in hand.
SameWork(s, r) ==
  \A p \in PubSlots : /\ Live(r.pubs[p]) <=> Live(s.pubs[p])
                      /\ r.pubs[p].run = "sent" <=> s.pubs[p].run = "sent"
                      /\ Live(s.pubs[p]) => r.pubs[p].todo = s.pubs[p].todo

LEMMA WorkFacts ==
  ASSUME NEW s, NEW r, SameWork(s, r)
  PROVE  /\ Todo(r) = Todo(s) /\ Heads(r) = Heads(s)
         /\ \A M : (\A p \in PubSlots : Live(s.pubs[p]) => Fresher(s.pubs[p], M))
                   => \A p \in PubSlots : Live(r.pubs[p]) => Fresher(r.pubs[p], M)
<1>1. \A p \in PubSlots : /\ Live(r.pubs[p]) <=> Live(s.pubs[p])
                          /\ r.pubs[p].run = "sent" <=> s.pubs[p].run = "sent"
                          /\ Live(s.pubs[p]) => r.pubs[p].todo = s.pubs[p].todo
  BY DEF SameWork
<1>2. Todo(r) = Todo(s)
  BY <1>1 DEF Todo
<1>3. \A x : x.run = "sent" => Live(x)
  BY DEF Live
<1>4. Heads(r) = Heads(s)
  <2>1. \A p \in PubSlots : r.pubs[p].run = "sent" <=> s.pubs[p].run = "sent"
    BY <1>1
  <2>2. \A p \in PubSlots : s.pubs[p].run = "sent" => r.pubs[p].todo = s.pubs[p].todo
    BY <1>1, <1>3
  <2> QED
    BY <2>1, <2>2 DEF Heads
<1>5. \A M, p : p \in PubSlots /\ Live(s.pubs[p]) => (Fresher(r.pubs[p], M) <=> Fresher(s.pubs[p], M))
  BY <1>1 DEF Fresher
<1> QED
  BY <1>1, <1>2, <1>4, <1>5

\* Requests leave PENDING, as they have been reported or answered; nothing else.
LEMMA LedgerSettles ==
  ASSUME NEW s, NEW M, NEW h, Ledger(s, M, h), NEW r, NEW k, k = "none" => h = "none", NEW T,
         Known(r.db) = Known(s.db), r.db.life = s.db.life,
         WaitingIn(r.db) = WaitingIn(s.db) \ T, T \subseteq Told(s) \cup Answered(s),
         Told(r) \subseteq Told(s), Told(s) \subseteq Told(r) \cup T,
         Answered(r) \subseteq Answered(s),
         SameWork(s, r), SamePlan(s, r), r.ctl.active => s.ctl.active
  PROVE  Ledger(r, M, k)
<1>1. Todo(r) = Todo(s) /\ Heads(r) = Heads(s)
  BY WorkFacts
<1>2. Ahead(r) = Ahead(s) /\ Untaken(r) = Untaken(s) /\ r.ctl.scheduled = s.ctl.scheduled
  BY DEF Ahead, Untaken, SamePlan
<1>3. Separate(r, M)
  <2>1. Apart(Untaken(r))
    BY <1>2 DEF Ledger, Separate
  <2>2. \A p \in PubSlots : Live(r.pubs[p]) => Fresher(r.pubs[p], M)
    BY WorkFacts DEF Ledger, Separate
  <2> QED
    BY <2>1, <2>2 DEF Separate
<1>4. \A t : Earlier(s.db, t) => Earlier(r.db, t)
  BY DEF Earlier
<1>5. Books(r, M)
  BY <1>1, <1>2, <1>4 DEF Ledger, Books
<1>6. "connectFailure" \notin Allowed /\ k = "none" => Complete(r)
  BY <1>1, <1>2 DEF Ledger, Complete
<1> QED
  BY <1>3, <1>5, <1>6 DEF Ledger

\* The ids of the first n batches, and of the others.
Splits(b, n, a, c) ==
  /\ b \in Seq(Batches) /\ n \in 0..Len(b) /\ a = SubSeq(b, 1, n)
  /\ DOMAIN c = 1..Len(b) - n /\ \A k \in 1..Len(b) - n : c[k] = b[n + k]
SplitFor(b, a, c) ==
  /\ IdsOf(b) = IdsOf(a) \cup IdsOf(c)
  /\ Apart(b) => Apart(a) /\ Apart(c) /\ IdsOf(a) \cap IdsOf(c) = {}

LEMMA SplitIds ==
  ASSUME NEW b, NEW n, NEW a, NEW c, Splits(b, n, a, c)
  PROVE  SplitFor(b, a, c)
<1>1. /\ Len(b) \in Nat /\ DOMAIN b = 1..Len(b) /\ DOMAIN a = 1..n
      /\ \A k \in 1..n : k \in DOMAIN b /\ a[k] = b[k]
      /\ \A k \in 1..Len(b) - n : n + k \in DOMAIN b /\ n + k > n
  <2>1. b \in Seq(Batches) /\ n \in 0..Len(b) /\ a = SubSeq(b, 1, n)
    BY DEF Splits
  <2> QED
    BY <2>1, Parts DEF Cut
<1>0. DOMAIN c = 1..Len(b) - n /\ \A k \in 1..Len(b) - n : c[k] = b[n + k]
  BY DEF Splits
<1>2. \A k \in DOMAIN b : k \in 1..n \/ (k - n \in 1..Len(b) - n /\ c[k - n] = b[k])
  <2>1. n \in Int
    BY DEF Splits
  <2>2. ASSUME NEW k \in 1..Len(b) PROVE k \in 1..n \/ (k - n \in 1..Len(b) - n /\ n + (k - n) = k)
    BY <1>1, <2>1
  <2> QED
    BY <1>0, <1>1, <2>2
<1> DEFINE L == Len(b)
<1> HIDE DEF L
<1>3. ASSUME NEW x \in IdsOf(b) PROVE x \in IdsOf(a) \cup IdsOf(c)
  <2>1. PICK k \in DOMAIN b : x \in ToSet(b[k].ids)
    BY <1>3 DEF IdsOf
  <2>2. CASE k \in 1..n
    BY <1>1, <2>1, <2>2 DEF IdsOf
  <2>3. CASE k - n \in 1..Len(b) - n /\ c[k - n] = b[k]
    BY <1>0, <2>1, <2>3 DEF IdsOf
  <2> QED
    BY <1>2, <2>1, <2>2, <2>3
<1>4. \A x \in IdsOf(a) : x \in IdsOf(b)
  BY <1>1 DEF IdsOf
<1>5. \A x \in IdsOf(c) : x \in IdsOf(b)
  BY <1>0, <1>1 DEF IdsOf
<1>6. IdsOf(b) = IdsOf(a) \cup IdsOf(c)
  BY <1>3, <1>4, <1>5
<1>7. ASSUME Apart(b) PROVE Apart(a) /\ Apart(c) /\ IdsOf(a) \cap IdsOf(c) = {}
  <2>1. Apart(a)
    BY <1>1, <1>7 DEF Apart
  <2>2. Apart(c)
    <3>1. \A k \in 1..Len(b) - n : Enumerates(c[k].ids, ToSet(c[k].ids))
      BY <1>0, <1>1, <1>7 DEF Apart
    <3>2. ASSUME NEW k \in 1..Len(b) - n, NEW l \in 1..Len(b) - n, k # l
          PROVE  ToSet(c[k].ids) \cap ToSet(c[l].ids) = {}
      <4>1. n + k \in DOMAIN b /\ n + l \in DOMAIN b /\ n + k # n + l
        BY <1>1, <3>2 DEF Splits
      <4> QED
        BY <1>0, <1>7, <4>1 DEF Apart
    <3> QED
      BY <1>0, <3>1, <3>2 DEF Apart
  <2>3. ASSUME NEW x \in IdsOf(a), x \in IdsOf(c) PROVE FALSE
    <3>1. PICK k \in 1..n : x \in ToSet(a[k].ids)
      BY <1>1 DEF IdsOf
    <3>2. PICK l \in 1..Len(b) - n : x \in ToSet(c[l].ids)
      BY <1>0, <2>3 DEF IdsOf
    <3>3. k \in DOMAIN b /\ n + l \in DOMAIN b /\ k # n + l
      BY <1>1 DEF Splits
    <3>4. x \in ToSet(b[k].ids) /\ x \in ToSet(b[n + l].ids)
      BY <1>0, <1>1, <3>1, <3>2
    <3> QED
      BY <1>7, <3>3, <3>4 DEF Apart
  <2> QED
    BY <2>1, <2>2, <2>3
<1> QED
  BY <1>6, <1>7 DEF SplitFor

\* Batches go to a new publisher, when no other is at work.
LEMMA LedgerOpened ==
  ASSUME NEW r, NEW M, NEW h, Ledger(r, M, h), Shaped(r), r.pubs \in [PubSlots -> Threads],
         \A p \in PubSlots : ~Alive(r.pubs[p]), Min(UnusedPubs(r)) \in PubSlots,
         NEW u, NEW n \in 1..Remaining(r), OpenedFrom(r, u, n)
  PROVE  Ledger(u, M, h)
<1> DEFINE p == Min(UnusedPubs(r))
           b == Untaken(r)
           a == SubSeq(b, 1, n)
           thread == [NoThread EXCEPT !.run = "connecting", !.todo = Joined(a)]
<1>1. /\ u.pubs = [r.pubs EXCEPT ![p] = thread] /\ u.events = r.events /\ u.db = r.db
      /\ u.ctl.batches = r.ctl.batches /\ u.ctl.next = r.ctl.next + n
      /\ u.ctl.scheduled = r.ctl.scheduled /\ u.ctl.active = r.ctl.active
      /\ HasFields(u) /\ DOMAIN u.ctl = CtlFields
  BY DEF OpenedFrom, SameStore
<1>2. thread.run = "connecting" /\ thread.todo = Joined(a)
  <2> DEFINE j == Joined(a)
  <2> HIDE DEF j
  <2>1. [NoThread EXCEPT !.run = "connecting", !.todo = j].run = "connecting"
        /\ [NoThread EXCEPT !.run = "connecting", !.todo = j].todo = j
    BY DEF NoThread
  <2> QED
    BY <2>1 DEF j
<1>3. TwoParts(r.ctl.batches, r.ctl.next, Taken(r), b)
  BY TakenEntries
<1>4. b \in Seq(Batches) /\ n \in 0..Len(b) /\ Len(b) \in Nat
      /\ Len(b) = Len(r.ctl.batches) - r.ctl.next /\ Len(r.ctl.batches) \in Nat /\ r.ctl.next \in Nat
  <2>1. b \in Seq(Batches) /\ DOMAIN b = 1..Len(r.ctl.batches) - r.ctl.next
        /\ Len(r.ctl.batches) \in Nat /\ r.ctl.next \in Nat /\ r.ctl.next <= Len(r.ctl.batches)
    BY <1>3 DEF TwoParts
  <2>2. Remaining(r) = Len(b)
    BY DEF Remaining
  <2>3. Len(b) \in Nat /\ DOMAIN b = 1..Len(b)
    BY <2>1
  <2>4. Remaining(r) = Len(r.ctl.batches) - r.ctl.next
    BY TakenFolders
  <2> QED
    BY <2>1, <2>2, <2>3, <2>4
<1>5. Shaped(u)
  BY <1>1, <1>4 DEF Shaped
<1>6. TwoParts(u.ctl.batches, u.ctl.next, Taken(u), Untaken(u))
  BY <1>5, TakenEntries
<1> DEFINE c == Untaken(u)
<1>7. DOMAIN c = 1..Len(b) - n /\ \A k \in 1..Len(b) - n : c[k] = b[n + k]
  <2>1. Len(b) - n = Len(u.ctl.batches) - u.ctl.next
    BY <1>1, <1>4
  <2>2. \A k \in 1..Len(b) - n : c[k] = r.ctl.batches[r.ctl.next + n + k]
    BY <1>1, <1>6, <2>1 DEF TwoParts
  <2>3. ASSUME NEW k \in 1..Len(b) - n PROVE b[n + k] = r.ctl.batches[r.ctl.next + n + k]
    <3>1. n + k \in 1..Len(r.ctl.batches) - r.ctl.next /\ r.ctl.next + (n + k) = r.ctl.next + n + k
      BY <1>4
    <3> QED
      BY <1>3, <3>1 DEF TwoParts
  <2> QED
    BY <1>6, <2>1, <2>2, <2>3 DEF TwoParts
<1> HIDE DEF a, b, c, thread, p
<1>8. Apart(b)
  BY DEF Ledger, Separate, b
<1>9. /\ IdsOf(b) = IdsOf(a) \cup IdsOf(c)
      /\ Apart(a) /\ Apart(c) /\ IdsOf(a) \cap IdsOf(c) = {}
  <2>1. Splits(b, n, a, c)
    BY <1>4, <1>7 DEF a, Splits
  <2>2. SplitFor(b, a, c)
    BY <2>1, SplitIds
  <2> QED
    BY <1>8, <2>2 DEF SplitFor
<1>10. Enumerates(thread.todo, IdsOf(a)) /\ ToSet(thread.todo) = IdsOf(a)
  <2>1. a \in Seq(Batches)
    BY <1>4, Parts DEF a
  <2> QED
    BY <1>2, <1>9, <2>1, JoinedFacts
<1>11. /\ \A q \in PubSlots : u.pubs[q] = IF q = p THEN thread ELSE r.pubs[q]
       /\ p \in PubSlots
  BY <1>1 DEF p
<1>12. /\ \A q \in PubSlots : ~Live(r.pubs[q]) /\ r.pubs[q].run # "sent"
       /\ \A q \in PubSlots : Live(u.pubs[q]) <=> q = p
       /\ \A q \in PubSlots : u.pubs[q].run # "sent"
  <2>1. \A q \in PubSlots : ~Live(r.pubs[q]) /\ r.pubs[q].run # "sent"
    BY DEF Live, Alive
  <2>2. Live(thread) /\ thread.run # "sent"
    BY <1>2 DEF Live
  <2> QED
    BY <1>11, <2>1, <2>2
<1>13. Todo(r) = {} /\ Heads(r) = {} /\ Todo(u) = IdsOf(a) /\ Heads(u) = {}
  BY <1>10, <1>11, <1>12 DEF Todo, Heads
<1>14. Told(u) = Told(r) /\ Answered(u) = Answered(r)
  BY <1>1 DEF Told, Answered
<1>15. Ahead(u) = IdsOf(c) /\ Ahead(r) = IdsOf(b)
  BY DEF Ahead, b, c
<1>16. Books(u, M)
  <2>1. \A t : Earlier(u.db, t) <=> Earlier(r.db, t)
    BY <1>1 DEF Earlier
  <2>2. \A t \in IdsOf(a) : Earlier(r.db, t)
    BY <1>9, <1>15 DEF Ledger, Books, Earlier, WaitingIn, AllIn
  <2> QED
    BY <1>1, <1>9, <1>13, <1>14, <1>15, <2>1, <2>2 DEF Ledger, Books
<1>17. Separate(u, M)
  <2>1. IdsOf(a) \cap M = {}
    BY <1>9, <1>15 DEF Ledger, Books
  <2>2. \A i \in DOMAIN thread.todo : thread.todo[i] \in ToSet(thread.todo)
    BY DEF ToSet
  <2>3. Fresher(thread, M)
    BY <1>10, <2>1, <2>2 DEF Fresher
  <2> QED
    BY <1>9, <1>11, <1>12, <2>3 DEF Separate, c
<1>18. "connectFailure" \notin Allowed /\ h = "none" => Complete(u)
  BY <1>1, <1>9, <1>13, <1>14, <1>15 DEF Ledger, Complete
<1> QED
  BY <1>16, <1>17, <1>18 DEF Ledger

\* What the dispatcher does is one of two: it opens nothing, or it opens batches
\* in a run, for a thread of their own.
OpensFreely(s, r, u, n) ==
  /\ Rested(s, r) /\ Shaped(r) /\ Threaded(r) /\ n \in 1..Remaining(r) /\ OpenedFrom(r, u, n)
  /\ Min(UnusedPubs(r)) \in PubSlots /\ \A p \in PubSlots : ~Alive(r.pubs[p])

LEMMA DispatchOpens ==
  ASSUME TwoSlots, NEW s, Shaped(s), ThreadsFit(s, "none")
  PROVE  Rested(s, Dispatch(s)) \/ \E r, n : OpensFreely(s, r, Dispatch(s), n)
<1> DEFINE u == Dispatch(s)
<1>1. \/ Rested(s, u)
      \/ \E r, n : Rested(s, r) /\ n \in 1..Remaining(s) /\ ~PubRunning(s) /\ OpenedFrom(r, u, n)
  BY DispatchDoes
<1> HIDE DEF u
<1>2. ASSUME NEW r, NEW n, Rested(s, r), n \in 1..Remaining(s), ~PubRunning(s), OpenedFrom(r, u, n)
      PROVE  OpensFreely(s, r, u, n)
  <2>1. s.ctl.batches # << >>
    <3>1. Remaining(s) = Len(s.ctl.batches) - s.ctl.next /\ s.ctl.next \in 0..Len(s.ctl.batches)
      BY TakenFolders DEF Shaped
    <3>2. s.ctl.batches \in Seq(Batches)
      BY DEF Shaped
    <3> QED
      BY <1>2, <3>1, <3>2
  <2>2. Threaded(s) /\ Wired(s)
    BY <2>1 DEF ThreadsFit, InRun
  <2>3. Threaded(r) /\ Wired(r) /\ ~PubRunning(r)
    BY <1>2, <2>2, WiresRested
  <2>4. Shaped(r) /\ n \in 1..Remaining(r)
    BY <1>2, Zenon DEF Rested, Shaped, SameStore, Remaining, Untaken
  <2>5. Min(UnusedPubs(r)) \in PubSlots /\ \A p \in PubSlots : ~Alive(r.pubs[p])
    BY <2>3, FreeSlot
  <2> QED
    BY <1>2, <2>3, <2>4, <2>5 DEF OpensFreely
<1> QED
  BY <1>1, <1>2 DEF u

LEMMA LedgerSame ==
  ASSUME NEW s, NEW M, NEW h, Ledger(s, M, h), NEW r, NEW k, k = "none" => h = "none",
         r.db = s.db, r.events = s.events,
         SameWork(s, r), SamePlan(s, r), r.ctl.active => s.ctl.active
  PROVE  Ledger(r, M, k)
<1>1. Told(r) = Told(s) /\ Answered(r) = Answered(s)
  BY DEF Told, Answered
<1> DEFINE T == {}
<1>2. /\ WaitingIn(r.db) = WaitingIn(s.db) \ T /\ T \subseteq Told(s) \cup Answered(s)
      /\ Told(r) \subseteq Told(s) /\ Told(s) \subseteq Told(r) \cup T
      /\ Answered(r) \subseteq Answered(s)
  BY <1>1
<1>3. Known(r.db) = Known(s.db) /\ r.db.life = s.db.life
  OBVIOUS
<1> HIDE DEF T
<1> QED
  BY <1>2, <1>3, LedgerSettles

LEMMA LedgerDispatch ==
  ASSUME TwoSlots, NEW s, Shaped(s), ThreadsFit(s, "none"), NEW M, Ledger(s, M, "none")
  PROVE  Ledger(Dispatch(s), M, "none")
<1>1. ASSUME NEW r, Rested(s, r) PROVE Ledger(r, M, "none")
  <2>1. /\ r.db = s.db /\ r.events = s.events /\ r.pubs = s.pubs /\ SamePlan(s, r)
        /\ r.ctl.active = s.ctl.active
    BY <1>1 DEF Rested, SameStore, SamePlan
  <2>2. SameWork(s, r)
    BY <2>1 DEF SameWork
  <2> QED
    BY <2>1, <2>2, LedgerSame
<1> DEFINE u == Dispatch(s)
<1>2. Rested(s, u) \/ \E r, n : OpensFreely(s, r, u, n)
  BY DispatchOpens
<1> HIDE DEF u
<1>3. ASSUME NEW r, NEW n, OpensFreely(s, r, u, n) PROVE Ledger(u, M, "none")
  <2>1. /\ Rested(s, r) /\ Shaped(r) /\ Threaded(r) /\ n \in 1..Remaining(r) /\ OpenedFrom(r, u, n)
        /\ Min(UnusedPubs(r)) \in PubSlots /\ \A p \in PubSlots : ~Alive(r.pubs[p])
    BY <1>3 DEF OpensFreely
  <2>2. Ledger(r, M, "none") /\ r.pubs \in [PubSlots -> Threads]
    BY <1>1, <2>1 DEF Threaded
  <2> QED
    BY <2>1, <2>2, LedgerOpened
<1> QED
  BY <1>1, <1>2, <1>3 DEF u

\* What a registration of the tasks new leaves of the ledger.
StillKept(s, r, M, h, new) ==
  /\ Books(r, M) /\ Separate(r, M)
  /\ s.ctl.active => new \cap s.ctl.scheduled = {}
  /\ (~s.ctl.active \/ new = {}) => Ledger(r, M, h)
  /\ WaitingIn(r.db) = WaitingIn(s.db) \cup new

\* A registration while no run is active, or one that gives nothing to schedule.
LEMMA LedgerExtends ==
  ASSUME NEW s, NEW M, NEW h, Ledger(s, M, h), s.db.life \in Nat,
         NEW r, NEW f, NEW items, NEW new,
         Extended(s.db, r.db, f, items, new),
         r.events = s.events, r.pubs = s.pubs, SamePlan(s, r), r.ctl.active = s.ctl.active
  PROVE  StillKept(s, r, M, h, new)
<1>1. /\ Told(r) = Told(s) /\ Answered(r) = Answered(s) /\ Todo(r) = Todo(s)
      /\ Heads(r) = Heads(s)
  BY DEF Told, Answered, Todo, Heads
<1>2. Ahead(r) = Ahead(s) /\ Untaken(r) = Untaken(s) /\ r.ctl.scheduled = s.ctl.scheduled
  BY DEF Ahead, Untaken, SamePlan
<1>3. /\ Known(r.db) = Known(s.db) \cup new /\ new \cap Known(s.db) = {} /\ r.db.life = s.db.life
      /\ \A t \in new : t.life = s.db.life /\ t \in Requests
      /\ \A t \in Known(s.db) : r.db.status[t] = s.db.status[t]
      /\ \A t \in new : r.db.status[t] = "PENDING"
  BY DEF Extended
<1>4. \A t : Earlier(s.db, t) => Earlier(r.db, t)
  BY <1>3 DEF Earlier
<1>5. WaitingIn(r.db) = WaitingIn(s.db) \cup new
  BY <1>3 DEF WaitingIn, AllIn
<1>6. \A t \in new : ~Earlier(s.db, t)
  BY <1>3 DEF Earlier
<1>7. Books(r, M)
  BY <1>1, <1>2, <1>3, <1>4, <1>5, <1>6 DEF Ledger, Books
<1>8. Separate(r, M)
  BY <1>2 DEF Ledger, Separate
<1>9. s.ctl.active => new \cap s.ctl.scheduled = {}
  BY <1>6 DEF Ledger, Books
<1>10. ASSUME ~s.ctl.active \/ new = {}, "connectFailure" \notin Allowed /\ h = "none" PROVE Complete(r)
  BY <1>1, <1>2, <1>5, <1>10 DEF Ledger, Complete
<1> QED
  BY <1>5, <1>7, <1>8, <1>9, <1>10 DEF Ledger, StillKept

\* A batch that joins those still to be taken.
LEMMA UntakenJoins ==
  ASSUME NEW s, Shaped(s), NEW q, Shaped(q), q.ctl.next = s.ctl.next, NEW x, NEW m,
         JoinsAt(s.ctl.batches, q.ctl.batches, s.ctl.next, x, m)
  PROVE  JoinsAt(Untaken(s), Untaken(q), 0, x, m - s.ctl.next)
<1> DEFINE a == s.ctl.batches
           c == q.ctl.batches
           u == Untaken(s)
           v == Untaken(q)
           n == s.ctl.next
<1>1. TwoParts(a, n, Taken(s), u) /\ TwoParts(c, n, Taken(q), v)
  BY TakenEntries
<1>2. /\ u \in Seq(Batches) /\ v \in Seq(Batches) /\ n \in Nat /\ Len(a) \in Nat /\ Len(c) \in Nat
      /\ n <= Len(a) /\ n <= Len(c)
      /\ DOMAIN u = 1..Len(a) - n /\ DOMAIN v = 1..Len(c) - n
      /\ \A k \in 1..Len(a) - n : u[k] = a[n + k]
      /\ \A k \in 1..Len(c) - n : v[k] = c[n + k]
  BY <1>1 DEF TwoParts
<1>3. /\ m \in n+1..Len(a)+1 /\ Len(c) = (IF m <= Len(a) THEN Len(a) ELSE m)
      /\ m <= Len(a) => a[m].folder = x.folder
      /\ c[m].folder = x.folder
      /\ c[m].ids = (IF m <= Len(a) THEN a[m].ids \o x.ids ELSE x.ids)
      /\ \A k \in 1..Len(a) : k # m => c[k] = a[k]
  BY DEF JoinsAt
<1> HIDE DEF a, c, u, v, n
<1>4. Len(u) = Len(a) - n /\ Len(v) = Len(c) - n
  <2>1. Len(u) \in Nat /\ DOMAIN u = 1..Len(u) /\ Len(v) \in Nat /\ DOMAIN v = 1..Len(v)
    BY <1>2
  <2>2. ASSUME NEW i \in Nat, NEW j \in Nat, 1..i = 1..j PROVE i = j
    <3>1. \A k \in Int : (1 <= k /\ k <= i) <=> (1 <= k /\ k <= j)
      BY <2>2
    <3> QED
      BY <3>1
  <2>3. Len(a) - n \in Nat /\ Len(c) - n \in Nat
    BY <1>2
  <2> QED
    BY <1>2, <2>1, <2>2, <2>3
<1> DEFINE j == m - n
<1>5. /\ j \in 1..Len(u)+1 /\ n + j = m /\ (j <= Len(u) <=> m <= Len(a))
      /\ Len(v) = IF j <= Len(u) THEN Len(u) ELSE j
  BY <1>2, <1>3, <1>4
<1>6. j \in 1..Len(v) /\ v[j] = c[m] /\ (j <= Len(u) => u[j] = a[m])
  <2>1. j \in 1..Len(v)
    BY <1>2, <1>4, <1>5
  <2>2. v[j] = c[m]
    BY <1>2, <1>4, <1>5, <2>1
  <2>3. j <= Len(u) => u[j] = a[m]
    BY <1>2, <1>4, <1>5
  <2> QED
    BY <2>1, <2>2, <2>3
<1>7. ASSUME NEW k \in 1..Len(u), k # j PROVE v[k] = u[k]
  <2>1. k \in 1..Len(v) /\ n + k \in 1..Len(a) /\ n + k # m
    BY <1>2, <1>3, <1>4, <1>5, <1>7
  <2> QED
    BY <1>2, <1>3, <1>4, <2>1
<1> HIDE DEF j
<1>8. JoinsAt(u, v, 0, x, j)
  BY <1>3, <1>5, <1>6, <1>7 DEF JoinsAt
<1> QED
  BY <1>8 DEF u, v, j, n

LEMMA JoinedApart ==
  ASSUME NEW u \in Seq(Batches), NEW v \in Seq(Batches), NEW x, NEW j, JoinsAt(u, v, 0, x, j),
         NEW N, Enumerates(x.ids, N), Apart(u), IdsOf(u) \cap N = {}, N \subseteq Requests
  PROVE  Apart(v) /\ IdsOf(v) = IdsOf(u) \cup N
<1>1. /\ DOMAIN u = 1..Len(u) /\ DOMAIN v = 1..Len(v) /\ Len(u) \in Nat /\ Len(v) \in Nat
      /\ j \in 1..Len(u)+1 /\ Len(v) = (IF j <= Len(u) THEN Len(u) ELSE j)
      /\ v[j].ids = (IF j <= Len(u) THEN u[j].ids \o x.ids ELSE x.ids)
      /\ \A k \in 1..Len(u) : k # j => v[k] = u[k]
  BY DEF JoinsAt
<1>2. /\ \A k \in DOMAIN u : Enumerates(u[k].ids, ToSet(u[k].ids)) /\ ToSet(u[k].ids) \subseteq IdsOf(u)
      /\ \A k, l \in DOMAIN u : k # l => ToSet(u[k].ids) \cap ToSet(u[l].ids) = {}
  BY DEF Apart, IdsOf
<1>3. j \in DOMAIN v /\ \A k \in DOMAIN v : k = j \/ k \in DOMAIN u
  BY <1>1
<1>4. \A k \in DOMAIN u : k \in DOMAIN v
  BY <1>1
<1> DEFINE old == IF j <= Len(u) THEN ToSet(u[j].ids) ELSE {}
<1>5. j <= Len(u) => j \in DOMAIN u
  BY <1>1
<1>6. Enumerates(v[j].ids, old \cup N) /\ ToSet(v[j].ids) = old \cup N
  <2>1. CASE j <= Len(u)
    <3>1. Enumerates(u[j].ids, ToSet(u[j].ids)) /\ ToSet(u[j].ids) \cap N = {}
      BY <1>2, <1>5, <2>1
    <3>2. Enumerates(u[j].ids \o x.ids, ToSet(u[j].ids) \cup N)
      BY <3>1, ConcatEnumerates
    <3>3. ToSet(u[j].ids \o x.ids) = ToSet(u[j].ids) \cup N
      BY <3>2, EnumeratesMembers
    <3> QED
      BY <1>1, <2>1, <3>2, <3>3
  <2>2. CASE ~(j <= Len(u))
    <3>1. v[j].ids = x.ids /\ old \cup N = N
      BY <1>1, <2>2
    <3>2. ToSet(x.ids) = N
      BY EnumeratesMembers
    <3> QED
      BY <3>1, <3>2
  <2> QED
    BY <2>1, <2>2
<1>7. /\ old \subseteq IdsOf(u)
      /\ \A k \in DOMAIN u : k # j => ToSet(u[k].ids) \cap old = {} /\ v[k] = u[k]
  BY <1>1, <1>2, <1>5
<1> HIDE DEF old
<1>8. Apart(v)
  <2>1. \A k \in DOMAIN v : Enumerates(v[k].ids, ToSet(v[k].ids))
    BY <1>2, <1>3, <1>6, <1>7
  <2>2. ASSUME NEW k \in DOMAIN v, NEW l \in DOMAIN v, k # l
        PROVE  ToSet(v[k].ids) \cap ToSet(v[l].ids) = {}
    <3>1. CASE k # j /\ l # j
      BY <1>2, <1>3, <1>7, <2>2, <3>1
    <3>2. ASSUME NEW i \in DOMAIN v, i # j PROVE ToSet(v[i].ids) \cap ToSet(v[j].ids) = {}
      BY <1>2, <1>3, <1>6, <1>7, <3>2
    <3> QED
      BY <2>2, <3>1, <3>2
  <2> QED
    BY <2>1, <2>2 DEF Apart
<1>9. IdsOf(v) = IdsOf(u) \cup N
  <2>1. ASSUME NEW y \in IdsOf(v) PROVE y \in IdsOf(u) \cup N
    <3>1. PICK k \in DOMAIN v : y \in ToSet(v[k].ids)
      BY <2>1 DEF IdsOf
    <3> QED
      BY <1>2, <1>3, <1>6, <1>7, <3>1
  <2>2. ASSUME NEW y \in IdsOf(u) PROVE y \in IdsOf(v)
    <3>1. PICK k \in DOMAIN u : y \in ToSet(u[k].ids)
      BY <2>2 DEF IdsOf
    <3>2. ToSet(u[k].ids) \subseteq ToSet(v[k].ids)
      <4>1. CASE k = j
        <5>1. old = ToSet(u[k].ids)
          BY <1>1, <3>1, <4>1 DEF old
        <5> QED
          BY <1>6, <4>1, <5>1
      <4>2. CASE k # j
        BY <1>7, <4>2
      <4> QED
        BY <4>1, <4>2
    <3> QED
      BY <1>4, <3>1, <3>2 DEF IdsOf
  <2>3. N \subseteq IdsOf(v)
    BY <1>3, <1>6 DEF IdsOf
  <2> QED
    BY <2>1, <2>2, <2>3
<1> QED
  BY <1>8, <1>9

\* What is just being sent is among what is in hand.
LEMMA HeadsInHand ==
  ASSUME NEW s, Threaded(s)
  PROVE  Heads(s) \subseteq Todo(s)
<1>1. ASSUME NEW p \in PubSlots, s.pubs[p].run = "sent" PROVE Head(s.pubs[p].todo) \in Todo(s)
  <2>1. s.pubs[p] \in Threads
    BY DEF Threaded
  <2>2. s.pubs[p].todo \in Seq(Requests) /\ s.pubs[p].todo # << >>
    BY <1>1, <2>1 DEF Threads
  <2>3. Head(s.pubs[p].todo) \in ToSet(s.pubs[p].todo)
    BY <2>2 DEF ToSet
  <2>4. Live(s.pubs[p])
    BY <1>1 DEF Live
  <2> QED
    BY <2>3, <2>4 DEF Todo
<1> QED
  BY <1>1 DEF Heads

\* A batch of requests that nobody has scheduled joins those to be taken.
LEMMA LedgerJoins ==
  ASSUME NEW r, NEW M, Books(r, M), Separate(r, M), r.ctl.active, Shaped(r), Threaded(r),
         NEW q, Shaped(q), q.db = r.db, q.events = r.events, q.pubs = r.pubs,
         q.ctl.next = r.ctl.next, NEW N, N \subseteq WaitingIn(r.db) \ r.ctl.scheduled,
         q.ctl.scheduled = r.ctl.scheduled \cup N, N \subseteq Requests,
         NEW x, Enumerates(x.ids, N), NEW m,
         JoinsAt(r.ctl.batches, q.ctl.batches, r.ctl.next, x, m)
  PROVE  Books(q, M) /\ Separate(q, M) /\ Ahead(q) = Ahead(r) \cup N
<1>1. /\ Told(q) = Told(r) /\ Answered(q) = Answered(r) /\ Todo(q) = Todo(r)
      /\ Heads(q) = Heads(r)
  BY DEF Told, Answered, Todo, Heads
<1>2. Untaken(r) \in Seq(Batches) /\ Untaken(q) \in Seq(Batches)
  BY TakenEntries DEF TwoParts
<1>3. JoinsAt(Untaken(r), Untaken(q), 0, x, m - r.ctl.next)
  BY UntakenJoins
<1>4. Apart(Untaken(r)) /\ Ahead(r) \subseteq r.ctl.scheduled
  BY DEF Books, Separate
<1>5. IdsOf(Untaken(r)) \cap N = {}
  BY <1>4 DEF Ahead
<1>6. Apart(Untaken(q)) /\ Ahead(q) = Ahead(r) \cup N
  BY <1>2, <1>3, <1>4, <1>5, JoinedApart DEF Ahead
<1>7. N \subseteq Known(r.db)
  BY DEF WaitingIn, AllIn
<1>8. Heads(r) \subseteq Todo(r)
  BY HeadsInHand
<1>9. N \cap (Told(r) \cup Todo(r) \cup Answered(r) \cup M) = {}
  BY <1>7, <1>8 DEF Books
<1>10. \A t \in N : Earlier(q.db, t)
  BY <1>7 DEF Earlier
<1>11. Books(q, M)
  <2>1. \A t : Earlier(q.db, t) <=> Earlier(r.db, t)
    BY DEF Earlier
  <2> QED
    BY <1>1, <1>6, <1>9, <1>10, <2>1 DEF Books
<1>12. Separate(q, M)
  BY <1>6 DEF Separate
<1> QED
  BY <1>6, <1>11, <1>12

LEMMA LedgerAdded ==
  ASSUME TwoSlots, NEW s, Shaped(s), StoreFits(s.db), ThreadsFit(s, "none"), NEW M, Ledger(s, M, "none"),
         NEW f \in Folders, NEW items \in SUBSET Items[f]
  PROVE  Ledger(Added(s, f, items), M, "none")
<1> DEFINE d == RegisterFolder(s.db, f, items)
           ids == PendingIds(d, f, s.ctl.scheduled)
           u == Added(s, f, items)
           r == [s EXCEPT !.db = d]
           N == (OfFolder(d, f) \cap WaitingIn(d)) \ s.ctl.scheduled
<1>1. \/ /\ ~s.ctl.active \/ d = s.db \/ ids = << >>
         /\ u = r
      \/ /\ s.ctl.active /\ d # s.db /\ ids # << >>
         /\ \E q : Joining(s, q, d, f, ids) /\ u = Dispatch(q)
  BY AddingDoes
<1>2. StoreFits(d) /\ \E new : Extended(s.db, d, f, items, new)
  BY RegisteringFits
<1>3. PICK new : Extended(s.db, d, f, items, new)
  BY <1>2
<1>4. /\ Enumerates(ids, N) /\ ids \in Seq(Requests) /\ ToSet(ids) = N
  BY <1>2, PendingFacts
<1>5. /\ SameThreads(s, r) /\ SamePlan(s, r) /\ Shaped(r) /\ r.db = d
  BY Storing
<1> HIDE DEF d, ids, u, r, N
<1>6. /\ r.events = s.events /\ r.pubs = s.pubs /\ r.ctl.active = s.ctl.active
      /\ r.ctl.batches = s.ctl.batches /\ r.ctl.next = s.ctl.next
      /\ r.ctl.scheduled = s.ctl.scheduled
  BY <1>5 DEF SameThreads, SamePlan
<1>7. s.db.life \in Nat
  BY DEF StoreFits, StoreOK
<1>8. /\ Books(r, M) /\ Separate(r, M)
      /\ s.ctl.active => new \cap s.ctl.scheduled = {}
      /\ (~s.ctl.active \/ new = {}) => Ledger(r, M, "none")
      /\ WaitingIn(d) = WaitingIn(s.db) \cup new
  <2>1. Extended(s.db, r.db, f, items, new)
    BY <1>3, <1>5
  <2>2. SamePlan(s, r) /\ r.events = s.events /\ r.pubs = s.pubs /\ r.ctl.active = s.ctl.active
    BY <1>5, <1>6
  <2>3. StillKept(s, r, M, "none", new)
    BY <1>7, <2>1, <2>2, LedgerExtends
  <2> QED
    BY <1>5, <2>3 DEF StillKept
<1>9. new \subseteq OfFolder(d, f) \cap WaitingIn(d)
  BY <1>3 DEF Extended, OfFolder, WaitingIn, AllIn
<1>10. ASSUME u = r, ~s.ctl.active \/ d = s.db \/ ids = << >>
       PROVE  Ledger(u, M, "none")
  <2>1. d = s.db => new = {}
    BY <1>3 DEF Extended
  <2>2. s.ctl.active /\ ids = << >> => new = {}
    <3>1. ids = << >> => N = {}
      BY <1>4 DEF ToSet
    <3> QED
      BY <1>8, <1>9, <3>1 DEF N
  <2>3. ~s.ctl.active \/ new = {}
    BY <1>10, <2>1, <2>2
  <2>4. Ledger(r, M, "none")
    BY <1>8, <2>3
  <2> QED
    BY <1>10, <2>4
<1>11. ASSUME s.ctl.active, NEW q, Joining(s, q, d, f, ids), u = Dispatch(q)
       PROVE  Ledger(u, M, "none")
  <2>1. /\ SameThreads(s, q) /\ Shaped(q) /\ q.db = d /\ q.ctl.next = s.ctl.next
        /\ q.ctl.scheduled = s.ctl.scheduled \cup N
    BY <1>4, <1>11 DEF Joining
  <2>2. PICK m : JoinsAt(s.ctl.batches, q.ctl.batches, s.ctl.next, [folder |-> f, ids |-> ids], m)
    BY <1>11 DEF Joining
  <2>3. q.events = s.events /\ q.pubs = s.pubs /\ q.ctl.active = s.ctl.active
    BY <2>1 DEF SameThreads
  <2> DEFINE x == [folder |-> f, ids |-> ids]
  <2>4. x.ids = ids
    OBVIOUS
  <2>5. JoinsAt(r.ctl.batches, q.ctl.batches, r.ctl.next, x, m)
    BY <1>6, <2>2
  <2> HIDE DEF x
  <2>6. N \subseteq WaitingIn(r.db) \ r.ctl.scheduled /\ N \subseteq Requests
    <3>1. WaitingIn(d) \subseteq Requests
      BY <1>2 DEF StoreFits, StoreOK, WaitingIn, AllIn
    <3> QED
      BY <1>5, <1>6, <3>1 DEF N
  <2>7. Threaded(s) /\ Wired(s)
    BY <1>11 DEF ThreadsFit, InRun
  <2>8. Threaded(r) /\ ThreadsFit(q, "none")
    BY <1>5, <2>1, <2>7, WiresSameThreads DEF ThreadsFit
  <2>9. /\ q.db = r.db /\ q.events = r.events /\ q.pubs = r.pubs /\ q.ctl.next = r.ctl.next
        /\ q.ctl.scheduled = r.ctl.scheduled \cup N /\ r.ctl.active /\ Enumerates(x.ids, N)
    BY <1>4, <1>5, <1>6, <1>11, <2>1, <2>3, <2>4
  <2>10. Books(q, M) /\ Separate(q, M) /\ Ahead(q) = Ahead(r) \cup N
    <3>1. Books(r, M) /\ Separate(r, M)
      BY <1>8
    <3>2. Shaped(r)
      BY <1>5
    <3>3. Threaded(r) /\ Shaped(q)
      BY <2>1, <2>8
    <3> QED
      BY <2>5, <2>6, <2>9, <3>1, <3>2, <3>3, LedgerJoins
  <2>11. "connectFailure" \notin Allowed => Complete(q)
    <3>1. Todo(q) = Todo(s) /\ Told(q) = Told(s)
      BY <2>3 DEF Todo, Told
    <3>2. Ahead(r) = Ahead(s)
      BY <1>6 DEF Ahead, Untaken
    <3>3. new \subseteq N
      BY <1>8, <1>9, <1>11 DEF N
    <3>4. "connectFailure" \notin Allowed => WaitingIn(s.db) \subseteq Ahead(s) \cup Todo(s) \cup Told(s)
      BY <1>11 DEF Ledger, Complete
    <3> QED
      BY <1>8, <2>1, <2>10, <3>1, <3>2, <3>3, <3>4 DEF Complete
  <2>12. Ledger(q, M, "none")
    BY <2>10, <2>11 DEF Ledger
  <2> QED
    BY <1>11, <2>1, <2>8, <2>12, LedgerDispatch
<1> QED
  BY <1>1, <1>10, <1>11 DEF u

\* The batches of some folders are taken out.
LEMMA KeptApart ==
  ASSUME NEW b \in Seq(Batches), \A k \in DOMAIN b : \A t \in ToSet(b[k].ids) : t.folder = b[k].folder,
         NEW R
  PROVE  /\ IdsOf(Kept(b, R)) = {t \in IdsOf(b) : t.folder \notin R}
         /\ Apart(b) => Apart(Kept(b, R))
<1> DEFINE o == Kept(b, R)
<1>1. PICK C, g : Drawn(b, C, o, g) /\ C = {x \in ToSet(b) : x.folder \notin R}
  BY KeptFacts
<1> HIDE DEF o
<1>2. /\ g \in [DOMAIN o -> DOMAIN b] /\ \A k, l \in DOMAIN o : g[k] = g[l] => k = l
      /\ \A k \in DOMAIN o : o[k] = b[g[k]] /\ b[g[k]] \in C
      /\ \A i \in DOMAIN b : b[i] \in C => \E k \in DOMAIN o : g[k] = i
  BY <1>1 DEF Drawn
<1>3. \A i \in DOMAIN b : b[i] \in C <=> b[i].folder \notin R
  BY <1>1 DEF ToSet
<1>4. ASSUME NEW t \in IdsOf(o) PROVE t \in IdsOf(b) /\ t.folder \notin R
  <2>1. PICK k \in DOMAIN o : t \in ToSet(o[k].ids)
    BY <1>4 DEF IdsOf
  <2>2. g[k] \in DOMAIN b /\ t \in ToSet(b[g[k]].ids) /\ b[g[k]].folder \notin R
    BY <1>2, <1>3, <2>1
  <2> QED
    BY <2>2 DEF IdsOf
<1>5. ASSUME NEW t \in IdsOf(b), t.folder \notin R PROVE t \in IdsOf(o)
  <2>1. PICK i \in DOMAIN b : t \in ToSet(b[i].ids)
    BY <1>5 DEF IdsOf
  <2>2. b[i] \in C
    BY <1>3, <1>5, <2>1
  <2>3. PICK k \in DOMAIN o : g[k] = i
    BY <1>2, <2>2
  <2>4. t \in ToSet(o[k].ids)
    BY <1>2, <2>1, <2>3
  <2> QED
    BY <2>4 DEF IdsOf
<1>6. ASSUME Apart(b) PROVE Apart(o)
  <2>1. \A k \in DOMAIN o : Enumerates(o[k].ids, ToSet(o[k].ids))
    BY <1>2, <1>6 DEF Apart
  <2>2. ASSUME NEW k \in DOMAIN o, NEW l \in DOMAIN o, k # l
        PROVE  ToSet(o[k].ids) \cap ToSet(o[l].ids) = {}
    <3>1. g[k] \in DOMAIN b /\ g[l] \in DOMAIN b /\ g[k] # g[l] /\ o[k] = b[g[k]] /\ o[l] = b[g[l]]
      BY <1>2, <2>2
    <3> QED
      BY <1>6, <3>1 DEF Apart
  <2> QED
    BY <2>1, <2>2 DEF Apart
<1> QED
  BY <1>4, <1>5, <1>6 DEF o

LEMMA LedgerRemoved ==
  ASSUME TwoSlots, NEW s, Shaped(s), ScheduleFits(s), StoreFits(s.db), ThreadsFit(s, "none"),
         NEW M, Ledger(s, M, "none"), NEW S
  PROVE  Ledger(Removed(s, S), M, "none")
<1> DEFINE R == Removable(s.db, S)
           gone == {t \in Known(s.db) : t.folder \in R}
           d == RemoveFolders(s.db, S)
           u == Removed(s, S)
<1>1. \/ u = s
      \/ /\ R # {}
         /\ \E q : Leaving(s, q, R, d, gone) /\ u = IF s.ctl.active THEN Dispatch(q) ELSE q
  BY RemovingDoes
<1>2. R # {} => Reduced(s.db, d, R)
  BY RemovingFits
<1> HIDE DEF R, gone, d, u
<1>3. ASSUME R # {}, NEW q, Leaving(s, q, R, d, gone), u = IF s.ctl.active THEN Dispatch(q) ELSE q
      PROVE  Ledger(u, M, "none")
  <2>1. /\ SameThreads(s, q) /\ Shaped(q) /\ q.db = d
        /\ Untaken(q) = Kept(Untaken(s), R)
        /\ q.ctl.scheduled = {t \in s.ctl.scheduled : t.folder \notin R}
    BY <1>3 DEF Leaving
  <2>2. s.ctl.batches = << >> => q.ctl.batches = << >>
    BY <1>3, KeptOfNone DEF Leaving
  <2>3. ThreadsFit(q, "none")
    <3>1. InRun(q, "none") => InRun(s, "none")
      BY <2>1, <2>2 DEF InRun, SameThreads
    <3> QED
      BY <2>1, <3>1, WiresSameThreads DEF ThreadsFit
  <2>4. /\ Known(d) = {t \in Known(s.db) : t.folder \notin R} /\ d.life = s.db.life + 1
        /\ \A t \in Known(d) : d.status[t] = s.db.status[t]
    BY <1>2, <1>3 DEF Reduced
  <2>5. WaitingIn(d) = {t \in WaitingIn(s.db) : t.folder \notin R}
    BY <2>4 DEF WaitingIn, AllIn
  <2>6. /\ q.events = s.events /\ q.pubs = s.pubs /\ q.ctl.active = s.ctl.active
    BY <2>1 DEF SameThreads
  <2>7. /\ Told(q) = Told(s) /\ Answered(q) = Answered(s) /\ Todo(q) = Todo(s)
        /\ Heads(q) = Heads(s)
    BY <2>6 DEF Told, Answered, Todo, Heads
  <2>8. /\ Ahead(q) = {t \in Ahead(s) : t.folder \notin R} /\ Apart(Untaken(q))
    <3> DEFINE b == Untaken(s)
    <3>1. TwoParts(s.ctl.batches, s.ctl.next, Taken(s), b)
      BY TakenEntries
    <3>2. b \in Seq(Batches) /\ \A k \in DOMAIN b : \A t \in ToSet(b[k].ids) : t.folder = b[k].folder
      <4>1. \A k \in DOMAIN s.ctl.batches : \A t \in ToSet(s.ctl.batches[k].ids) :
              t.folder = s.ctl.batches[k].folder
        BY DEF ScheduleFits
      <4> HIDE DEF b
      <4>2. /\ b \in Seq(Batches) /\ DOMAIN b = 1..Len(s.ctl.batches) - s.ctl.next
            /\ \A k \in 1..Len(s.ctl.batches) - s.ctl.next :
                 /\ s.ctl.next + k \in DOMAIN s.ctl.batches
                 /\ b[k] = s.ctl.batches[s.ctl.next + k]
        BY <3>1 DEF TwoParts
      <4> QED
        BY <4>1, <4>2
    <3>3. Apart(b)
      BY DEF Ledger, Separate
    <3> HIDE DEF b
    <3>4. /\ IdsOf(Kept(b, R)) = {t \in IdsOf(b) : t.folder \notin R}
          /\ Apart(Kept(b, R))
      BY <3>2, <3>3, KeptApart
    <3> QED
      BY <2>1, <3>4 DEF Ahead, b
  <2>9. \A t : Earlier(s.db, t) => Earlier(q.db, t)
    <3>1. s.db.life \in Nat /\ \A t \in Known(s.db) : t.life \in Nat /\ t.life <= s.db.life
      BY DEF StoreFits, ListsFit, StoreOK, Requests
    <3>2. \A n \in Nat : n <= s.db.life => n < q.db.life
      BY <2>1, <2>4, <3>1
    <3>3. ASSUME NEW t, Earlier(s.db, t) PROVE t.life \in Nat /\ t.life <= s.db.life
      BY <3>1, <3>3 DEF Earlier
    <3> QED
      BY <3>2, <3>3 DEF Earlier
  <2>10. Books(q, M)
    BY <2>1, <2>4, <2>5, <2>6, <2>7, <2>8, <2>9 DEF Ledger, Books
  <2>11. Separate(q, M)
    BY <2>6, <2>8 DEF Ledger, Separate
  <2>12. "connectFailure" \notin Allowed => Complete(q)
    BY <2>1, <2>5, <2>6, <2>7, <2>8 DEF Ledger, Complete
  <2>13. Ledger(q, M, "none")
    BY <2>10, <2>11, <2>12 DEF Ledger
  <2> QED
    BY <1>3, <2>1, <2>3, <2>13, LedgerDispatch
<1> QED
  BY <1>1, <1>3 DEF u

\* A schedule made from the store, while no thread and no call is left.
LEMMA LedgerFresh ==
  ASSUME NEW s, StoreFits(s.db), NEW M, Ledger(s, M, "none"), s.events = << >>,
         \A p \in PubSlots : ~Alive(s.pubs[p]),
         NEW r, r.db = s.db, r.events = s.events, r.pubs = s.pubs,
         Apart(Untaken(r)), Ahead(r) = WaitingIn(s.db), r.ctl.scheduled = WaitingIn(s.db)
  PROVE  Ledger(r, M, "none")
<1>1. \A p \in PubSlots : ~Live(s.pubs[p]) /\ s.pubs[p].run # "sent"
  BY DEF Live, Alive
<1>2. ToSet(s.events) = {}
  BY DEF ToSet
<1>3. Told(s) = {} /\ Answered(s) = {} /\ Todo(s) = {} /\ Heads(s) = {}
  BY <1>1, <1>2 DEF Told, Answered, Todo, Heads
<1>4. Told(r) = {} /\ Answered(r) = {} /\ Todo(r) = {} /\ Heads(r) = {}
  BY <1>1, <1>2 DEF Told, Answered, Todo, Heads
<1>5. M \cap WaitingIn(s.db) = {}
  BY <1>3 DEF Ledger, Books
<1>6. \A t \in WaitingIn(s.db) : t \in Known(s.db)
  BY DEF WaitingIn, AllIn
<1>7. Books(r, M)
  <2>1. \A t \in M : Earlier(r.db, t)
    BY DEF Ledger, Books
  <2>2. \A t \in WaitingIn(s.db) : Earlier(r.db, t)
    BY <1>6 DEF Earlier
  <2> QED
    BY <1>4, <1>5, <2>1, <2>2 DEF Books
<1>8. Separate(r, M)
  BY <1>1 DEF Separate
<1>9. Complete(r)
  BY DEF Complete
<1> QED
  BY <1>7, <1>8, <1>9 DEF Ledger

\* A run that starts.
LEMMA LedgerStarted ==
  ASSUME TwoSlots, NEW s, Shaped(s), StoreFits(s.db), ThreadsFit(s, "none"),
         s.events = << >>, UnusedPubs(s) = PubSlots, NEW M, Ledger(s, M, "none")
  PROVE  Ledger(Started(s), M, "none")
<1> DEFINE b == PendingBatches(s.db)
           u == Started(s)
<1>1. Grouping(s.db, b) /\ IdsOf(b) = WaitingIn(s.db)
  BY GroupingFacts
<1>2. \/ u = s
      \/ \E q, n : /\ Fresh(s, q) /\ q.ctl.batches = b /\ q.ctl.scheduled = IdsOf(b)
                   /\ n \in 1..Remaining(q) /\ OpenedFrom(q, u, n)
      \/ \E q : /\ Fresh(s, q) /\ q.ctl.batches = << >> /\ q.ctl.scheduled = {} /\ b = << >>
                /\ StartedPolling(q, u)
  BY StartingDoes
<1> HIDE DEF b, u
<1>3. Apart(b)
  <2>1. ASSUME NEW k \in DOMAIN b
        PROVE  /\ Enumerates(b[k].ids, OfFolder(s.db, b[k].folder) \cap WaitingIn(s.db))
               /\ ToSet(b[k].ids) = OfFolder(s.db, b[k].folder) \cap WaitingIn(s.db)
    <3>1. Enumerates(b[k].ids, OfFolder(s.db, b[k].folder) \cap WaitingIn(s.db))
      BY <1>1 DEF Grouping
    <3> QED
      BY <3>1, EnumeratesMembers
  <2>2. ASSUME NEW k \in DOMAIN b, NEW l \in DOMAIN b, k # l
        PROVE  ToSet(b[k].ids) \cap ToSet(b[l].ids) = {}
    <3>1. b[k].folder # b[l].folder
      BY <1>1, <2>2 DEF Grouping
    <3>2. ASSUME NEW x, x \in ToSet(b[k].ids), x \in ToSet(b[l].ids) PROVE FALSE
      <4>1. x \in OfFolder(s.db, b[k].folder) /\ x \in OfFolder(s.db, b[l].folder)
        BY <2>1, <3>2
      <4> QED
        BY <3>1, <4>1 DEF OfFolder
    <3> QED
      BY <3>2
  <2> QED
    BY <2>1, <2>2 DEF Apart
<1>4. \A p \in PubSlots : ~Alive(s.pubs[p])
  BY DEF UnusedPubs, Unused
<1>5. ASSUME NEW q, Shaped(q), q.ctl.next = 0 PROVE Untaken(q) = q.ctl.batches
  <2> DEFINE a == q.ctl.batches
             v == Untaken(q)
  <2>1. TwoParts(a, 0, Taken(q), v)
    BY <1>5, TakenEntries
  <2>2. a \in Seq(Batches)
    BY <1>5 DEF Shaped
  <2> HIDE DEF a, v
  <2>3. /\ v \in Seq(Batches) /\ Len(a) \in Nat /\ DOMAIN a = 1..Len(a) /\ DOMAIN v = 1..Len(a) - 0
        /\ \A k \in 1..Len(a) - 0 : v[k] = a[0 + k]
    BY <2>1 DEF TwoParts
  <2>4. Len(a) - 0 = Len(a) /\ \A k \in 1..Len(a) : 0 + k = k
    BY <2>3
  <2>5. v = a
    BY <2>2, <2>3, <2>4
  <2> QED
    BY <2>5 DEF a, v
<1>6. ASSUME NEW q, NEW n, Fresh(s, q), q.ctl.batches = b, q.ctl.scheduled = IdsOf(b),
             n \in 1..Remaining(q), OpenedFrom(q, u, n)
      PROVE  Ledger(u, M, "none")
  <2>1. /\ q.db = s.db /\ q.events = s.events /\ q.pubs = s.pubs /\ Shaped(q)
        /\ q.ctl.next = 0 /\ q.ctl.pub = s.ctl.pub
    BY <1>6 DEF Fresh, SameStore
  <2>2. Untaken(q) = b
    BY <1>5, <1>6, <2>1
  <2>3. Ahead(q) = WaitingIn(s.db) /\ Apart(Untaken(q))
    BY <1>1, <1>3, <2>2 DEF Ahead
  <2>4. q.ctl.scheduled = WaitingIn(s.db)
    BY <1>1, <1>6
  <2>5. Ledger(q, M, "none")
    BY <1>4, <2>1, <2>3, <2>4, LedgerFresh
  <2>6. Min(UnusedPubs(q)) \in PubSlots
    <3>1. UnusedPubs(q) = UnusedPubs(s)
      BY <2>1 DEF UnusedPubs, Unused
    <3>2. PubSlots \in SUBSET Nat /\ PubSlots # {}
      BY EagerAssumption DEF TwoSlots
    <3> QED
      BY <3>1, <3>2, MinFacts
  <2>7. q.pubs \in [PubSlots -> Threads] /\ \A p \in PubSlots : ~Alive(q.pubs[p])
    BY <1>4, <2>1 DEF ThreadsFit, Threaded
  <2> QED
    BY <1>6, <2>1, <2>5, <2>6, <2>7, LedgerOpened
<1>7. ASSUME NEW q, Fresh(s, q), q.ctl.batches = << >>, q.ctl.scheduled = {}, b = << >>,
             StartedPolling(q, u)
      PROVE  Ledger(u, M, "none")
  <2>1. /\ q.db = s.db /\ q.events = s.events /\ q.pubs = s.pubs /\ q.ctl.next = 0
    BY <1>7 DEF Fresh, SameStore
  <2>2. /\ u.db = q.db /\ u.events = q.events /\ u.pubs = q.pubs /\ Shaped(u)
        /\ u.ctl.next = 0 /\ u.ctl.batches = << >> /\ u.ctl.scheduled = {}
    BY <1>7, <2>1 DEF StartedPolling, SameStore, SamePlan
  <2>3. Untaken(u) = b
    BY <1>5, <1>7, <2>2
  <2>4. WaitingIn(s.db) = {}
    <3>1. IdsOf(b) = {}
      BY <1>7 DEF IdsOf
    <3> QED
      BY <1>1, <3>1
  <2>5. Ahead(u) = WaitingIn(s.db) /\ Apart(Untaken(u))
    BY <1>1, <1>3, <2>3 DEF Ahead
  <2> QED
    BY <1>4, <2>1, <2>2, <2>4, <2>5, LedgerFresh
<1>8. Ledger(u, M, "none")
  BY <1>2, <1>6, <1>7
<1> QED
  BY <1>8 DEF u

\* A stop: the publisher keeps what it has in hand, and the schedule is dropped.
LEMMA LedgerAsked ==
  ASSUME NEW s, Shaped(s), Threaded(s), NEW M, NEW h, Ledger(s, M, h), NEW k, k # "none"
  PROVE  Ledger(StopAsked(s), M, k)
<1> DEFINE r == StopAsked(s)
           stopped(i) == [s.pubs[i] EXCEPT !.stop = TRUE, !.quit = TRUE]
<1>1. /\ r.events = s.events /\ r.ctl = s.ctl /\ r.db = s.db
      /\ r.pubs = [i \in DOMAIN s.pubs |-> IF i = s.ctl.pub THEN stopped(i) ELSE s.pubs[i]]
  BY StoppingDoes DEF SameStore
<1>2. s.pubs \in [PubSlots -> Threads]
  BY DEF Threaded
<1>3. ASSUME NEW i \in PubSlots
      PROVE  stopped(i).run = s.pubs[i].run /\ stopped(i).todo = s.pubs[i].todo
  BY <1>2 DEF Threads
<1> HIDE DEF r, stopped
<1>4. SameWork(s, r)
  BY <1>1, <1>2, <1>3 DEF SameWork, Live
<1>5. SamePlan(s, r) /\ (r.ctl.active => s.ctl.active)
  BY <1>1 DEF SamePlan
<1>6. Ledger(r, M, k)
  BY <1>1, <1>4, <1>5, LedgerSame
<1> QED
  BY <1>6 DEF r

LEMMA LedgerStopped ==
  ASSUME NEW s, StoreFits(s.db), NEW M, NEW h, Ledger(s, M, h),
         NEW r, Shaped(r), r.events = s.events, r.pubs = s.pubs, ~r.ctl.active,
         r.ctl.batches = << >>, r.ctl.scheduled = {},
         r.db = s.db \/ r.db = EmptyStore(s.db.life + 1)
  PROVE  Ledger(r, M, "none")
<1>1. Untaken(r) = << >>
  <2>1. TwoParts(r.ctl.batches, r.ctl.next, Taken(r), Untaken(r))
    BY TakenEntries
  <2> DEFINE v == Untaken(r)
  <2> HIDE DEF v
  <2>2. v \in Seq(Batches) /\ DOMAIN v = 1..Len(<< >>) - r.ctl.next /\ r.ctl.next \in Nat
    BY <2>1 DEF TwoParts, v
  <2>3. v = << >>
    BY <2>2
  <2> QED
    BY <2>3 DEF v
<1>2. Ahead(r) = {} /\ Apart(Untaken(r))
  BY <1>1 DEF Ahead, IdsOf, Apart
<1>3. /\ Told(r) = Told(s) /\ Answered(r) = Answered(s) /\ Todo(r) = Todo(s)
      /\ Heads(r) = Heads(s)
  BY DEF Told, Answered, Todo, Heads
<1>4. WaitingIn(r.db) \subseteq WaitingIn(s.db) /\ \A t : Earlier(s.db, t) => Earlier(r.db, t)
  <2>1. CASE r.db = s.db
    BY <2>1
  <2>2. CASE r.db = EmptyStore(s.db.life + 1)
    <3>1. s.db.life \in Nat /\ \A t \in Known(s.db) : t.life \in Nat /\ t.life <= s.db.life
      BY DEF StoreFits, ListsFit, StoreOK, Requests
    <3>2. r.db.life = s.db.life + 1 /\ Known(r.db) = {}
      <4> DEFINE n == s.db.life + 1
      <4>1. n \in Nat
        BY <3>1
      <4>2. r.db = EmptyStore(n)
        BY <2>2
      <4> HIDE DEF n
      <4>3. EmptyStore(n).life = n
        BY DEF EmptyStore
      <4>4. Known(EmptyStore(n)) = {}
        BY <4>1, ClearingFits
      <4> QED
        BY <4>2, <4>3, <4>4 DEF n
    <3>3. WaitingIn(r.db) = {}
      BY <3>2 DEF WaitingIn, AllIn
    <3>4. \A n \in Nat : n <= s.db.life => n < r.db.life
      BY <3>1, <3>2
    <3>5. ASSUME NEW t, Earlier(s.db, t) PROVE t.life \in Nat /\ t.life <= s.db.life
      BY <3>1, <3>5 DEF Earlier
    <3> QED
      BY <3>3, <3>4, <3>5 DEF Earlier
  <2> QED
    BY <2>1, <2>2
<1>5. Books(r, M)
  BY <1>2, <1>3, <1>4 DEF Ledger, Books
<1>6. Separate(r, M)
  BY <1>2 DEF Ledger, Separate
<1>7. Complete(r)
  BY DEF Complete
<1> QED
  BY <1>5, <1>6, <1>7 DEF Ledger

\* What the next call says, and what the others say.
LEMMA TellsNext ==
  ASSUME NEW s, s.events # << >>, CallsOK(s.events), NEW r, r.events = Tail(s.events),
         NEW x, x = Head(s.events)
  PROVE  /\ Told(r) \subseteq Told(s) /\ Answered(r) \subseteq Answered(s)
         /\ IF x.kind \in {"published", "failed"}
            THEN x.of \in Told(s) /\ Told(s) \subseteq Told(r) \cup {x.of}
            ELSE Told(s) = Told(r)
         /\ IF x.kind = "result" THEN x.of.task \in Answered(s) ELSE Answered(s) = Answered(r)
<1>1. ToSet(s.events) = {x} \cup ToSet(r.events)
  BY FirstCall
<1> DEFINE told(S) == {c.of : c \in {y \in S : y.kind \in {"published", "failed"}}}
           answered(S) == {c.of.task : c \in {y \in S : y.kind = "result"}}
<1>2. /\ Told(s) = told(ToSet(s.events)) /\ Told(r) = told(ToSet(r.events))
      /\ Answered(s) = answered(ToSet(s.events)) /\ Answered(r) = answered(ToSet(r.events))
  BY DEF Told, Answered
<1>3. ASSUME NEW S
      PROVE  /\ told(S) \subseteq told({x} \cup S)
             /\ IF x.kind \in {"published", "failed"}
                THEN x.of \in told({x} \cup S) /\ told({x} \cup S) \subseteq told(S) \cup {x.of}
                ELSE told({x} \cup S) = told(S)
  OBVIOUS
<1>4. ASSUME NEW S
      PROVE  /\ answered(S) \subseteq answered({x} \cup S)
             /\ IF x.kind = "result" THEN x.of.task \in answered({x} \cup S)
                ELSE answered({x} \cup S) = answered(S)
  OBVIOUS
<1> HIDE DEF told, answered
<1> QED
  BY <1>1, <1>2, <1>3, <1>4

\* A call that is no report and no answer.
LEMMA LedgerTaken ==
  ASSUME NEW s, s.events # << >>, CallsOK(s.events), NEW M, Ledger(s, M, "none"),
         Head(s.events).kind \notin {"published", "failed", "result"},
         NEW r, r.events = Tail(s.events), r.db = s.db,
         SameWork(s, r), SamePlan(s, r), r.ctl.active => s.ctl.active
  PROVE  Ledger(r, M, "none")
<1>1. Told(r) = Told(s) /\ Answered(r) = Answered(s)
  BY TellsNext
<1> DEFINE T == {}
<1>2. /\ WaitingIn(r.db) = WaitingIn(s.db) \ T /\ T \subseteq Told(s) \cup Answered(s)
      /\ Told(r) \subseteq Told(s) /\ Told(s) \subseteq Told(r) \cup T
      /\ Answered(r) \subseteq Answered(s)
  BY <1>1
<1>3. Known(r.db) = Known(s.db) /\ r.db.life = s.db.life
  OBVIOUS
<1> HIDE DEF T
<1> QED
  BY <1>2, <1>3, LedgerSettles

\* A report, or an answer.
LEMMA LedgerReported ==
  ASSUME NEW s, s.events # << >>, CallsOK(s.events), NEW M, Ledger(s, M, "none"),
         NEW x, x = Head(s.events), NEW t,
         \/ x.kind \in {"published", "failed"} /\ t = x.of
         \/ x.kind = "result" /\ t = x.of.task,
         NEW r, r.events = Tail(s.events), r.pubs = s.pubs, r.ctl = s.ctl,
         Known(r.db) = Known(s.db), r.db.life = s.db.life,
         WaitingIn(r.db) = WaitingIn(s.db) \ {t}
  PROVE  Ledger(r, M, "none")
<1>1. /\ {t} \subseteq Told(s) \cup Answered(s)
      /\ Told(r) \subseteq Told(s) /\ Told(s) \subseteq Told(r) \cup {t}
      /\ Answered(r) \subseteq Answered(s)
  BY TellsNext
<1>2. SameWork(s, r) /\ SamePlan(s, r) /\ (r.ctl.active => s.ctl.active)
  BY DEF SameWork, SamePlan
<1> QED
  BY <1>1, <1>2, LedgerSettles

\* The store moves on, and nothing waits more or less.
LEMMA LedgerMoves ==
  ASSUME NEW s, NEW M, Ledger(s, M, "none"), NEW r, r.events = s.events, r.pubs = s.pubs,
         SamePlan(s, r), r.ctl.active = s.ctl.active,
         Moved(s.db, r.db), WaitingIn(r.db) = WaitingIn(s.db)
  PROVE  Ledger(r, M, "none")
<1>1. Told(r) = Told(s) /\ Answered(r) = Answered(s)
  BY DEF Told, Answered
<1> DEFINE T == {}
<1>2. /\ WaitingIn(r.db) = WaitingIn(s.db) \ T /\ T \subseteq Told(s) \cup Answered(s)
      /\ Told(r) \subseteq Told(s) /\ Told(s) \subseteq Told(r) \cup T
      /\ Answered(r) \subseteq Answered(s)
  BY <1>1
<1>3. Known(r.db) = Known(s.db) /\ r.db.life = s.db.life /\ SameWork(s, r)
  BY DEF Moved, SameWork
<1> HIDE DEF T
<1> QED
  BY <1>2, <1>3, LedgerSettles

LEMMA LedgerCycle ==
  ASSUME TwoSlots, NEW s, Shaped(s), StoreFits(s.db), ThreadsFit(s, "none"), NEW M,
         Ledger(s, M, "none"), NEW T
  PROVE  Ledger(OnPollCycle(s, T), M, "none")
<1>1. PICK q, a :
        /\ SameThreads(s, q) /\ SamePlan(s, q) /\ Shaped(q) /\ q.db = MarkRunning(s.db)
        /\ a = [Dispatch(q) EXCEPT !.db = MarkTimeouts(Dispatch(q).db, T)]
        /\ OnPollCycle(s, T) \in {a, StopPolling(a)}
  BY CycleDoes
<1>2. ThreadsFit(q, "none") /\ q.events = s.events /\ q.pubs = s.pubs /\ q.ctl.active = s.ctl.active
  BY <1>1, WiresSameThreads DEF ThreadsFit, InRun, SameThreads, SamePlan
<1>3. "SUCCESS" \in Done
  BY DEF Done
<1>4. StoreFits(q.db) /\ Moved(s.db, q.db) /\ WaitingIn(q.db) = WaitingIn(s.db)
  BY <1>1, <1>3, Marking
<1>5. Ledger(q, M, "none")
  BY <1>1, <1>2, <1>4, LedgerMoves
<1> DEFINE e == Dispatch(q)
           d == MarkTimeouts(e.db, T)
<1>6. Ledger(e, M, "none") /\ Shaped(e) /\ e.db = q.db /\ a = [e EXCEPT !.db = d]
  <2>1. SameStore(q, Dispatch(q)) /\ Shaped(Dispatch(q))
    BY <1>1, DispatchKeeps
  <2>2. Ledger(Dispatch(q), M, "none")
    BY <1>1, <1>2, <1>5, LedgerDispatch
  <2> QED
    BY <1>1, <2>1, <2>2 DEF SameStore
<1> HIDE DEF e
<1>7. /\ Moved(e.db, d) /\ WaitingIn(d) = WaitingIn(e.db)
  BY <1>3, <1>4, <1>6, Marking
<1> HIDE DEF d
<1>8. /\ SameThreads(e, a) /\ SamePlan(e, a) /\ Shaped(a) /\ a.db = d
  BY <1>6, Storing
<1>9. Ledger(a, M, "none")
  BY <1>6, <1>7, <1>8, LedgerMoves DEF SameThreads
<1>10. Ledger(StopPolling(a), M, "none")
  <2>1. SamePublishing(a, StopPolling(a)) /\ StopPolling(a).ctl = a.ctl /\ SameStore(a, StopPolling(a))
    BY <1>8, PollingRoutines
  <2> DEFINE z == StopPolling(a)
  <2>2. z.db = a.db /\ z.events = a.events /\ SameWork(a, z) /\ SamePlan(a, z)
        /\ (z.ctl.active => a.ctl.active)
    BY <2>1 DEF SamePublishing, SameStore, SameWork, SamePlan
  <2> HIDE DEF z
  <2>3. Ledger(z, M, "none")
    BY <1>9, <2>2, LedgerSame
  <2> QED
    BY <2>3 DEF z
<1> QED
  BY <1>1, <1>9, <1>10

\* The ends of the threads.
LEMMA LedgerEnds ==
  ASSUME NEW s, s.events # << >>, ThreadsFit(s, "none"), NEW M, Ledger(s, M, "none"),
         NEW q, Shaped(q), q.db = s.db, q.pubs = s.pubs, q.ctl = s.ctl, q.events = Tail(s.events)
  PROVE  LET x == Head(s.events)
         IN  /\ x.kind = "queueReady" => Ledger(OnQueueReady(q), M, "none")
             /\ x.kind = "pollFinished" => Ledger(OnPollFinished(q, x.of), M, "none")
             /\ \A known : x.kind = "pubFinished" =>
                  Ledger(OnPubFinished(q, x.of, known), M, "none")
             /\ x.kind = "pubThreadFinished" => Ledger(OnPubThreadFinished(q, x.of), M, "none")
<1> DEFINE x == Head(s.events)
<1>1. CallsOK(s.events) /\ s.pubs \in [PubSlots -> Threads] /\ x \in ToSet(s.events)
  BY FirstCall DEF ThreadsFit, Threaded
<1> HIDE DEF x
<1>2. ASSUME x.kind \notin {"published", "failed", "result"},
             NEW r, SameStore(q, r), SameWork(s, r), SamePlan(q, r), r.ctl.active => s.ctl.active
      PROVE  Ledger(r, M, "none")
  <2>1. r.events = Tail(s.events) /\ r.db = s.db /\ SamePlan(s, r)
    BY <1>2 DEF SameStore, SamePlan
  <2> QED
    BY <1>1, <1>2, <2>1, LedgerTaken DEF x
<1>3. ASSUME x.kind = "queueReady" PROVE Ledger(OnQueueReady(q), M, "none")
  <2> DEFINE r == OnQueueReady(q)
  <2>1. SamePublishing(q, r) /\ SameStore(q, r) /\ r.ctl.active = q.ctl.active
    BY PollingRoutines
  <2> HIDE DEF r
  <2>2. SameWork(s, r) /\ SamePlan(q, r)
    BY <2>1 DEF SamePublishing, SameWork, SamePlan
  <2>3. Ledger(r, M, "none")
    BY <1>2, <1>3, <2>1, <2>2
  <2> QED
    BY <2>3 DEF r
<1>4. ASSUME x.kind = "pollFinished" PROVE Ledger(OnPollFinished(q, x.of), M, "none")
  <2> DEFINE r == OnPollFinished(q, x.of)
  <2>1. PollFinishes(q, r, x.of)
    BY FinishRoutines
  <2> HIDE DEF r
  <2>2. SameStore(q, r) /\ SamePublishing(q, r) /\ (r.ctl.active => s.ctl.active)
    BY <2>1 DEF PollFinishes
  <2>3. SameWork(s, r) /\ SamePlan(q, r)
    BY <2>2 DEF SamePublishing, SameWork, SamePlan
  <2>4. Ledger(r, M, "none")
    BY <1>2, <1>4, <2>2, <2>3
  <2> QED
    BY <2>4 DEF r
<1>5. ASSUME NEW known, x.kind = "pubFinished" PROVE Ledger(OnPubFinished(q, x.of, known), M, "none")
  <2> DEFINE p == x.of
             r == OnPubFinished(q, p, known)
             told(k) == [s.pubs[k] EXCEPT !.quit = TRUE]
  <2>1. PubFinishes(q, r, p, known)
    BY FinishRoutines
  <2> HIDE DEF r
  <2>2. /\ SameStore(q, r) /\ r.pubs = [s.pubs EXCEPT ![p].quit = TRUE] /\ SamePlan(q, r)
        /\ (r.ctl.active => s.ctl.active)
    BY <2>1 DEF PubFinishes, SamePlan
  <2> HIDE DEF p
  <2>3. r.pubs = [s.pubs EXCEPT ![p] = told(p)]
    BY <2>2, Zenon
  <2>4. ASSUME NEW k \in PubSlots PROVE told(k).run = s.pubs[k].run /\ told(k).todo = s.pubs[k].todo
    BY <1>1 DEF Threads
  <2> HIDE DEF told
  <2>5. \A k \in PubSlots : r.pubs[k] = IF k = p THEN told(k) ELSE s.pubs[k]
    BY <1>1, <2>3
  <2>6. SameWork(s, r)
    BY <2>4, <2>5 DEF SameWork, Live
  <2>7. Ledger(r, M, "none")
    BY <1>2, <1>5, <2>2, <2>6
  <2> QED
    BY <2>7 DEF r, p
<1>6. ASSUME x.kind = "pubThreadFinished" PROVE Ledger(OnPubThreadFinished(q, x.of), M, "none")
  <2> DEFINE p == x.of
             r == OnPubThreadFinished(q, p)
  <2>1. PubThreadFinishes(q, r, p)
    BY FinishRoutines
  <2> HIDE DEF r
  <2>2. /\ SameStore(q, r) /\ r.pubs = [s.pubs EXCEPT ![p] = NoThread] /\ SamePlan(q, r)
        /\ (r.ctl.active => s.ctl.active)
    BY <2>1 DEF PubThreadFinishes, SamePlan
  <2>3. /\ p \in PubSlots /\ ~Live(s.pubs[p]) /\ ~Live(NoThread)
        /\ s.pubs[p].run # "sent" /\ NoThread.run # "sent"
    <3>1. p \in PubSlots /\ ~Alive(s.pubs[p])
      BY <1>1, <1>6 DEF ThreadsFit, Threaded
    <3> QED
      BY <3>1 DEF Live, Alive, NoThread
  <2> HIDE DEF p
  <2>4. \A k \in PubSlots : r.pubs[k] = IF k = p THEN NoThread ELSE s.pubs[k]
    BY <1>1, <2>2
  <2>5. SameWork(s, r)
    BY <2>3, <2>4 DEF SameWork
  <2>6. Ledger(r, M, "none")
    BY <1>2, <1>6, <2>2, <2>5
  <2> QED
    BY <2>6 DEF r, p
<1> QED
  BY <1>3, <1>4, <1>5, <1>6 DEF x

-----------------------------------------------------------------------------
(* The ledger under the steps of the threads. *)

\* One copy of each, at most.
OnceEach(B) == \A t \in BagToSet(B) : B[t] = 1
BagAdds(B, C, t) == OnceEach(C) /\ BagToSet(C) = BagToSet(B) \cup {t}
BagDrops(B, C, t) == OnceEach(C) /\ BagToSet(C) = BagToSet(B) \ {t}

LEMMA OnceMore ==
  ASSUME NEW B, OnceEach(B), NEW t
  PROVE  /\ t \notin BagToSet(B) => BagAdds(B, B (+) SetToBag({t}), t)
         /\ t \in BagToSet(B) => BagDrops(B, B (-) SetToBag({t}), t)
<1> DEFINE one == SetToBag({t})
           D == DOMAIN B
           sum(e) == (IF e \in D THEN B[e] ELSE 0) + (IF e \in DOMAIN one THEN one[e] ELSE 0)
           rest(e) == IF e \in DOMAIN one THEN B[e] - one[e] ELSE B[e]
<1>1. DOMAIN one = {t} /\ one[t] = 1
  BY DEF SetToBag
<1>2. \A e \in D : B[e] = 1
  BY DEF OnceEach, BagToSet
<1>3. B (+) one = [e \in D \cup DOMAIN one |-> sum(e)]
  BY DEF (+)
<1>4. B (-) one = [e \in {d \in D : rest(d) > 0} |-> rest(e)]
  <2> DEFINE f == [e \in D |-> rest(e)]
  <2>1. B (-) one = [e \in {d \in DOMAIN f : f[d] > 0} |-> f[e]]
    BY DEF (-)
  <2> HIDE DEF rest
  <2>2. DOMAIN f = D /\ \A e \in D : f[e] = rest(e)
    OBVIOUS
  <2> HIDE DEF f
  <2>3. {d \in DOMAIN f : f[d] > 0} = {d \in D : rest(d) > 0}
    BY <2>2
  <2>4. [e \in {d \in DOMAIN f : f[d] > 0} |-> f[e]] = [e \in {d \in D : rest(d) > 0} |-> rest(e)]
    BY <2>2, <2>3
  <2> QED
    BY <2>1, <2>4
<1>5. ASSUME t \notin D PROVE BagAdds(B, B (+) one, t)
  <2>1. sum(t) = 1 /\ \A e \in D : sum(e) = 1
    BY <1>1, <1>2, <1>5
  <2> HIDE DEF sum
  <2> QED
    BY <1>1, <1>3, <2>1 DEF BagAdds, OnceEach, BagToSet
<1>6. ASSUME t \in D PROVE BagDrops(B, B (-) one, t)
  <2>1. rest(t) = 0 /\ \A e \in D : e # t => rest(e) = 1
    BY <1>1, <1>2, <1>6
  <2> HIDE DEF rest
  <2>2. {d \in D : rest(d) > 0} = D \ {t}
    BY <2>1
  <2>3. B (-) one = [e \in D \ {t} |-> rest(e)]
    BY <1>4, <2>2
  <2> QED
    BY <2>1, <2>3 DEF BagDrops, OnceEach, BagToSet
<1> QED
  BY <1>5, <1>6 DEF BagToSet

\* The next call behind the others.
LEMMA TellsLast ==
  ASSUME NEW s, CallsOK(s.events), NEW r, NEW x, r.events = s.events \o <<x>>
  PROVE  /\ Told(r) = IF x.kind \in {"published", "failed"} THEN Told(s) \cup {x.of} ELSE Told(s)
         /\ Answered(r) = IF x.kind = "result" THEN Answered(s) \cup {x.of.task} ELSE Answered(s)
<1>1. ToSet(r.events) = ToSet(s.events) \cup {x}
  BY LastCall
<1> DEFINE told(S) == {c.of : c \in {y \in S : y.kind \in {"published", "failed"}}}
           answered(S) == {c.of.task : c \in {y \in S : y.kind = "result"}}
<1>2. /\ Told(s) = told(ToSet(s.events)) /\ Told(r) = told(ToSet(r.events))
      /\ Answered(s) = answered(ToSet(s.events)) /\ Answered(r) = answered(ToSet(r.events))
  BY DEF Told, Answered
<1>3. ASSUME NEW S
      PROVE  told(S \cup {x}) = IF x.kind \in {"published", "failed"} THEN told(S) \cup {x.of}
                                ELSE told(S)
  OBVIOUS
<1>4. ASSUME NEW S
      PROVE  answered(S \cup {x}) = IF x.kind = "result" THEN answered(S) \cup {x.of.task}
                                    ELSE answered(S)
  OBVIOUS
<1> HIDE DEF told, answered
<1> QED
  BY <1>1, <1>2, <1>3, <1>4

\* A poll thread answers what is with the broker, or nothing.
LEMMA LedgerPolls ==
  ASSUME NEW s, NEW M, NEW h, Ledger(s, M, h), NEW r, r.db = s.db, r.ctl = s.ctl, r.pubs = s.pubs,
         Told(r) = Told(s), NEW N, N \subseteq M, Answered(r) \subseteq Answered(s) \cup M
  PROVE  Ledger(r, N, h)
<1>1. Todo(r) = Todo(s) /\ Heads(r) = Heads(s) /\ Ahead(r) = Ahead(s) /\ Untaken(r) = Untaken(s)
  BY DEF Todo, Heads, Ahead, Untaken
<1>2. Books(r, N)
  BY <1>1 DEF Ledger, Books
<1>3. Separate(r, N)
  BY <1>1 DEF Ledger, Separate, Fresher
<1>4. "connectFailure" \notin Allowed /\ h = "none" => Complete(r)
  BY <1>1 DEF Ledger, Complete
<1> QED
  BY <1>2, <1>3, <1>4 DEF Ledger

\* What a step of publisher p does to the work in hand, p being the only one at work.
LEMMA WorkOfOne ==
  ASSUME NEW s, Threaded(s), NEW p \in PubSlots, Live(s.pubs[p]),
         NEW thread, NEW r, r.pubs = [s.pubs EXCEPT ![p] = thread]
  PROVE  /\ \A q \in PubSlots : q # p => ~Live(s.pubs[q]) /\ r.pubs[q] = s.pubs[q]
         /\ r.pubs[p] = thread
         /\ Todo(s) = ToSet(s.pubs[p].todo)
         /\ Todo(r) = IF Live(thread) THEN ToSet(thread.todo) ELSE {}
         /\ Heads(s) = IF s.pubs[p].run = "sent" THEN {Head(s.pubs[p].todo)} ELSE {}
         /\ Heads(r) = IF thread.run = "sent" THEN {Head(thread.todo)} ELSE {}
<1>1. \A q \in PubSlots : Live(s.pubs[q]) => s.ctl.pub = q
  BY DEF Threaded, Live, Alive
<1>2. \A q \in PubSlots : r.pubs[q] = IF q = p THEN thread ELSE s.pubs[q]
  BY DEF Threaded
<1>3. \A q \in PubSlots : q # p => ~Live(s.pubs[q]) /\ s.pubs[q].run # "sent"
  BY <1>1 DEF Live
<1>4. Todo(s) = ToSet(s.pubs[p].todo)
  BY <1>3 DEF Todo
<1>5. Todo(r) = IF Live(thread) THEN ToSet(thread.todo) ELSE {}
  BY <1>2, <1>3 DEF Todo
<1>6. Heads(s) = IF s.pubs[p].run = "sent" THEN {Head(s.pubs[p].todo)} ELSE {}
  BY <1>3 DEF Heads
<1>7. Heads(r) = IF thread.run = "sent" THEN {Head(thread.todo)} ELSE {}
  BY <1>2, <1>3 DEF Heads
<1> QED
  BY <1>2, <1>3, <1>4, <1>5, <1>6, <1>7

\* A publisher ends.
LEMMA LedgerLeaves ==
  ASSUME NEW s, Threaded(s), NEW M, NEW h, Ledger(s, M, h), NEW p \in PubSlots, Live(s.pubs[p]),
         s.pubs[p].run # "sent", NEW thread, ~Live(thread),
         NEW r, r.pubs = [s.pubs EXCEPT ![p] = thread], r.db = s.db, r.ctl = s.ctl,
         Told(r) = Told(s), Answered(r) = Answered(s),
         "connectFailure" \notin Allowed /\ h = "none" /\ s.ctl.active => s.pubs[p].todo = << >>
  PROVE  Ledger(r, M, h)
<1>1. /\ \A q \in PubSlots : ~Live(r.pubs[q])
      /\ Todo(s) = ToSet(s.pubs[p].todo) /\ Todo(r) = {} /\ Heads(s) = {} /\ Heads(r) = {}
  <2>1. thread.run # "sent"
    BY DEF Live
  <2> QED
    BY <2>1, WorkOfOne
<1>2. Ahead(r) = Ahead(s) /\ Untaken(r) = Untaken(s)
  BY DEF Ahead, Untaken
<1>3. Books(r, M)
  BY <1>1, <1>2 DEF Ledger, Books
<1>4. Separate(r, M)
  BY <1>1, <1>2 DEF Ledger, Separate
<1>5. ASSUME "connectFailure" \notin Allowed, h = "none" PROVE Complete(r)
  <2>1. s.ctl.active => Todo(s) = {}
    BY <1>1, <1>5 DEF ToSet
  <2>2. Complete(s)
    BY <1>5 DEF Ledger
  <2> QED
    BY <1>1, <1>2, <2>1, <2>2 DEF Complete
<1> QED
  BY <1>3, <1>4, <1>5 DEF Ledger

\* The first and the others of what a publisher has in hand.
LEMMA InHandFacts ==
  ASSUME NEW todo \in Seq(Requests), todo # << >>, Enumerates(todo, ToSet(todo))
  PROVE  /\ ToSet(todo) = {Head(todo)} \cup ToSet(Tail(todo)) /\ 1 \in DOMAIN todo
         /\ Head(todo) = todo[1]
         /\ \A i \in DOMAIN todo : i > 1 => todo[i] # Head(todo)
         /\ Enumerates(Tail(todo), ToSet(Tail(todo)))
         /\ \A i \in DOMAIN Tail(todo) : i + 1 \in DOMAIN todo /\ i + 1 > 1
                                         /\ Tail(todo)[i] = todo[i + 1]
<1> DEFINE t == Tail(todo)
           n == Len(todo)
<1>1. /\ n \in Nat \ {0} /\ DOMAIN todo = 1..n /\ DOMAIN t = 1..n - 1 /\ Head(todo) = todo[1]
      /\ \A i \in 1..n - 1 : t[i] = todo[i + 1]
      /\ t \in Seq(Requests)
  OBVIOUS
<1>2. \A i, j \in DOMAIN todo : todo[i] = todo[j] => i = j
  BY DEF Enumerates
<1> HIDE DEF t, n
<1>3. /\ 1 \in 1..n /\ \A i \in 1..n : i = 1 \/ (i - 1 \in 1..n - 1 /\ (i - 1) + 1 = i)
      /\ \A i \in 1..n - 1 : i + 1 \in 1..n /\ i + 1 > 1
  BY <1>1
<1>4. ToSet(todo) = {Head(todo)} \cup ToSet(t)
  <2>1. ASSUME NEW c \in ToSet(todo) PROVE c \in {Head(todo)} \cup ToSet(t)
    <3>1. PICK i \in 1..n : todo[i] = c
      BY <1>1, <2>1 DEF ToSet
    <3>2. i # 1 => c = t[i - 1] /\ i - 1 \in DOMAIN t
      BY <1>1, <1>3, <3>1
    <3> QED
      BY <1>1, <3>1, <3>2 DEF ToSet
  <2>2. \A k \in DOMAIN t : t[k] \in ToSet(todo)
    BY <1>1, <1>3 DEF ToSet
  <2>3. Head(todo) \in ToSet(todo)
    BY <1>1, <1>3 DEF ToSet
  <2> QED
    BY <2>1, <2>2, <2>3 DEF ToSet
<1>5. \A i \in DOMAIN todo : i > 1 => todo[i] # Head(todo)
  BY <1>1, <1>2, <1>3
<1>6. Enumerates(t, ToSet(t))
  <2>1. t \in Seq(ToSet(t))
    BY <1>1 DEF ToSet
  <2>2. \A i, j \in 1..n - 1 : t[i] = t[j] => i = j
    <3>1. ASSUME NEW i \in 1..n - 1, NEW j \in 1..n - 1, t[i] = t[j] PROVE i = j
      <4>1. todo[i + 1] = todo[j + 1] /\ i + 1 \in DOMAIN todo /\ j + 1 \in DOMAIN todo
        BY <1>1, <1>3, <3>1
      <4>2. i + 1 = j + 1
        BY <1>2, <4>1
      <4> QED
        BY <1>1, <4>2
    <3> QED
      BY <3>1
  <2> QED
    BY <1>1, <2>1, <2>2 DEF Enumerates, ToSet
<1> QED
  BY <1>1, <1>3, <1>4, <1>5, <1>6 DEF t

\* A request reaches the broker.
LEMMA LedgerSent ==
  ASSUME NEW s, Threaded(s), NEW M, NEW h, Ledger(s, M, h), NEW p \in PubSlots,
         s.pubs[p].run = "sending", s.pubs[p].todo # << >>,
         NEW thread, thread.run = "sent", thread.todo = s.pubs[p].todo,
         NEW r, r.pubs = [s.pubs EXCEPT ![p] = thread], r.db = s.db, r.ctl = s.ctl,
         r.events = s.events, NEW x, x = Head(s.pubs[p].todo)
  PROVE  x \notin M /\ Ledger(r, M \cup {x}, h)
<1>1. Live(s.pubs[p]) /\ Live(thread)
  BY DEF Live
<1>2. /\ \A q \in PubSlots : q # p => ~Live(s.pubs[q]) /\ r.pubs[q] = s.pubs[q]
      /\ r.pubs[p] = thread
      /\ Todo(s) = ToSet(s.pubs[p].todo) /\ Todo(r) = Todo(s)
      /\ Heads(s) = {} /\ Heads(r) = {x}
  BY <1>1, WorkOfOne
<1>3. Fresher(s.pubs[p], M)
  BY <1>1 DEF Ledger, Separate
<1> DEFINE todo == s.pubs[p].todo
<1>4. todo \in Seq(Requests) /\ Enumerates(todo, ToSet(todo))
  BY <1>3 DEF Threaded, Threads, Fresher
<1>5. /\ x \in ToSet(todo) /\ 1 \in DOMAIN todo /\ x = todo[1]
      /\ \A i \in DOMAIN todo : i > 1 => todo[i] # x
  BY <1>4, InHandFacts
<1>6. \A i \in DOMAIN todo : todo[i] \notin M
  BY <1>3 DEF Fresher
<1>7. x \notin M
  BY <1>5, <1>6
<1>8. Fresher(thread, M \cup {x})
  <2>1. \A i \in DOMAIN todo : thread.run # "sent" \/ i > 1 => todo[i] \notin M \cup {x}
    BY <1>5, <1>6
  <2> HIDE DEF todo
  <2>2. thread.todo = todo
    BY DEF todo
  <2> QED
    BY <1>4, <2>1, <2>2 DEF Fresher
<1> HIDE DEF todo
<1>9. /\ Told(r) = Told(s) /\ Answered(r) = Answered(s) /\ Ahead(r) = Ahead(s)
      /\ Untaken(r) = Untaken(s)
  BY DEF Told, Answered, Ahead, Untaken
<1>10. x \in Todo(s)
  BY <1>2, <1>5 DEF todo
<1>11. Books(r, M \cup {x})
  <2>1. Earlier(s.db, x) /\ x \notin Ahead(s)
    BY <1>10 DEF Ledger, Books
  <2> QED
    BY <1>2, <1>9, <2>1 DEF Ledger, Books
<1>12. Separate(r, M \cup {x})
  BY <1>2, <1>8, <1>9 DEF Ledger, Separate
<1>13. "connectFailure" \notin Allowed /\ h = "none" => Complete(r)
  BY <1>2, <1>9 DEF Ledger, Complete
<1> QED
  BY <1>7, <1>11, <1>12, <1>13 DEF Ledger

\* What became of it is posted: one request less in hand, one more reported.
LEMMA LedgerPosted ==
  ASSUME NEW s, Threaded(s), NEW M, NEW h, Ledger(s, M, h), NEW p \in PubSlots,
         Live(s.pubs[p]), s.pubs[p].todo # << >>,
         NEW thread, thread.run = "sending", thread.todo = Tail(s.pubs[p].todo),
         NEW r, r.pubs = [s.pubs EXCEPT ![p] = thread], r.db = s.db, r.ctl = s.ctl,
         Told(r) = Told(s) \cup {Head(s.pubs[p].todo)}, Answered(r) = Answered(s)
  PROVE  Ledger(r, M, h)
<1> DEFINE todo == s.pubs[p].todo
           x == Head(todo)
<1>1. Live(thread)
  BY DEF Live
<1>2. /\ \A q \in PubSlots : q # p => ~Live(s.pubs[q]) /\ r.pubs[q] = s.pubs[q]
      /\ r.pubs[p] = thread
      /\ Todo(s) = ToSet(todo) /\ Todo(r) = ToSet(Tail(todo))
      /\ Heads(s) \subseteq {x} /\ Heads(r) = {}
  BY <1>1, WorkOfOne
<1>3. Fresher(s.pubs[p], M)
  BY DEF Ledger, Separate
<1>4. todo \in Seq(Requests) /\ Enumerates(todo, ToSet(todo)) /\ todo # << >>
  BY <1>3 DEF Threaded, Threads, Fresher
<1>5. \A i \in DOMAIN todo : i > 1 => todo[i] \notin M
  BY <1>3 DEF Fresher
<1>6. thread.todo = Tail(todo)
  OBVIOUS
<1> HIDE DEF todo
<1>7. /\ ToSet(todo) = {x} \cup ToSet(Tail(todo))
      /\ Enumerates(Tail(todo), ToSet(Tail(todo)))
      /\ \A i \in DOMAIN Tail(todo) : i + 1 \in DOMAIN todo /\ i + 1 > 1
                                      /\ Tail(todo)[i] = todo[i + 1]
  BY <1>4, InHandFacts
<1> DEFINE rest == Tail(todo)
<1>8. Fresher(thread, M)
  <2>1. \A i \in DOMAIN rest : rest[i] \notin M
    BY <1>5, <1>7
  <2>2. thread.todo = rest /\ Enumerates(rest, ToSet(rest))
    BY <1>6, <1>7
  <2> HIDE DEF rest
  <2> QED
    BY <2>1, <2>2 DEF Fresher
<1>9. Ahead(r) = Ahead(s) /\ Untaken(r) = Untaken(s)
  BY DEF Ahead, Untaken
<1>10. Told(r) = Told(s) \cup {x}
  BY DEF todo
<1> HIDE DEF x, rest
<1>11. Told(r) \cup Todo(r) = Told(s) \cup Todo(s)
  BY <1>2, <1>7, <1>10
<1>12. Books(r, M)
  <2>1. \A t \in Told(r) \cup Todo(r) \cup Answered(r) \cup M \cup r.ctl.scheduled : Earlier(r.db, t)
    BY <1>11 DEF Ledger, Books
  <2>2. (M \cup Answered(r)) \cap WaitingIn(r.db) \subseteq Told(r) \cup Heads(r)
    BY <1>2, <1>10 DEF Ledger, Books
  <2>3. Ahead(r) \cap (Told(r) \cup Todo(r) \cup Answered(r) \cup M) = {}
    BY <1>9, <1>11 DEF Ledger, Books
  <2>4. Ahead(r) \subseteq WaitingIn(r.db)
    BY <1>9 DEF Ledger, Books
  <2>5. r.ctl.active => /\ Ahead(r) \subseteq r.ctl.scheduled
                        /\ (Told(r) \cup Todo(r)) \cap Known(r.db) \subseteq r.ctl.scheduled
    BY <1>9, <1>11 DEF Ledger, Books
  <2> QED
    BY <2>1, <2>2, <2>3, <2>4, <2>5 DEF Books
<1>13. Separate(r, M)
  BY <1>2, <1>8, <1>9 DEF Ledger, Separate
<1>14. "connectFailure" \notin Allowed /\ h = "none" => Complete(r)
  BY <1>9, <1>11 DEF Ledger, Complete
<1> QED
  BY <1>12, <1>13, <1>14 DEF Ledger

\* A call of no account.
LEMMA LedgerSignals ==
  ASSUME NEW s, NEW M, NEW h, Ledger(s, M, h), NEW r, r.db = s.db, r.ctl = s.ctl,
         SameWork(s, r), Told(r) = Told(s), Answered(r) = Answered(s)
  PROVE  Ledger(r, M, h)
<1> DEFINE T == {}
<1>1. /\ WaitingIn(r.db) = WaitingIn(s.db) \ T /\ T \subseteq Told(s) \cup Answered(s)
      /\ Told(r) \subseteq Told(s) /\ Told(s) \subseteq Told(r) \cup T
      /\ Answered(r) \subseteq Answered(s)
  OBVIOUS
<1>2. Known(r.db) = Known(s.db) /\ r.db.life = s.db.life /\ SamePlan(s, r)
      /\ (r.ctl.active => s.ctl.active)
  BY DEF SamePlan
<1> HIDE DEF T
<1> QED
  BY <1>1, <1>2, LedgerSettles

LedgerFits(s, B, h) == OnceEach(B) /\ Ledger(s, BagToSet(B), h)
LedgerInv == ThreadsInv /\ LedgerFits(Situation, mq, halt)

LEMMA LedgerBecome ==
  ASSUME NEW r, NEW B, NEW h, LedgerFits(r, B, h), Become(r), mq' = B, halt' = h
  PROVE  LedgerFits(Situation', mq', halt')
<1> DEFINE u == Situation'
<1>1. u.db = r.db /\ u.ctl = r.ctl /\ u.pubs = r.pubs /\ u.events = r.events
  BY Afterwards DEF Become
<1> HIDE DEF u
<1>2. SameWork(r, u) /\ SamePlan(r, u) /\ (u.ctl.active => r.ctl.active)
  BY <1>1 DEF SameWork, SamePlan
<1>3. Ledger(u, BagToSet(B), h)
  BY <1>1, <1>2, LedgerSame DEF LedgerFits
<1>4. LedgerFits(u, B, h)
  BY <1>3 DEF LedgerFits
<1> QED
  BY <1>4 DEF u

\* The steps of the publishing threads.
LEMMA LedgerPubSteps ==
  ASSUME LedgerInv, NEW p \in PubSlots, PubRuns(p)
  PROVE  LedgerFits(Situation', mq', halt')
<1> DEFINE s == Situation
           r == Situation'
           at(run) == PubAt(p, run)
           told == [PubAt(p, "sending") EXCEPT !.todo = Tail(@)]
           M == BagToSet(mq)
<1>1. /\ s.ctl = ctl /\ s.pubs = pubs /\ s.events = events /\ s.db = db
      /\ r.ctl = ctl' /\ r.pubs = pubs' /\ r.events = events' /\ r.db = db'
  BY Afterwards
<1>2. /\ ThreadsFit(s, halt) /\ Threaded(s) /\ CallsOK(events) /\ pubs[p] \in Threads
      /\ Ledger(s, M, halt) /\ OnceEach(mq)
  BY <1>1 DEF LedgerInv, ThreadsInv, ThreadsFit, Threaded, LedgerFits
<1>3. \A run \in PubStates : at(run).run = run /\ at(run).todo = pubs[p].todo
  BY <1>2, WiresThread DEF PubAt
<1>4. pubs[p].todo # << >> => told.run = "sending" /\ told.todo = Tail(pubs[p].todo)
  <2>1. "sending" \in PubStates
    BY DEF PubStates
  <2> QED
    BY <1>2, <2>1, WiresThread DEF PubAt
<1>5. {"sending", "sent", "done", "exited"} \subseteq PubStates
  BY DEF PubStates
<1> HIDE DEF s, r, at, told, M
<1>6. ASSUME NEW thread, NEW c, PubStep(p, thread, <<c>>)
      PROVE  /\ r.ctl = s.ctl /\ r.db = s.db /\ r.pubs = [s.pubs EXCEPT ![p] = thread]
             /\ r.events = s.events \o <<c>> /\ halt' = halt
             /\ Told(r) = IF c.kind \in {"published", "failed"} THEN Told(s) \cup {c.of} ELSE Told(s)
             /\ c.kind # "result" => Answered(r) = Answered(s)
  <2>1. /\ r.ctl = s.ctl /\ r.db = s.db /\ r.pubs = [s.pubs EXCEPT ![p] = thread]
        /\ r.events = s.events \o <<c>> /\ halt' = halt
    BY <1>1, <1>6 DEF PubStep
  <2> QED
    BY <1>1, <1>2, <2>1, TellsLast
<1>7. ASSUME Ledger(r, M, halt), halt' = halt, mq' = mq PROVE LedgerFits(r, mq', halt')
  BY <1>2, <1>7 DEF LedgerFits, M
<1>8. ASSUME NEW run \in {"sending", "exited"}, NEW c, PubStep(p, at(run), <<c>>), mq' = mq,
             c.kind \in {"queueReady", "pubThreadFinished"}, pubs[p].run # "sent",
             Live(pubs[p]) <=> run = "sending"
      PROVE  LedgerFits(r, mq', halt')
  <2> DEFINE thread == at(run)
  <2>1. thread.run = run /\ thread.todo = pubs[p].todo
    BY <1>3, <1>5, <1>8
  <2> HIDE DEF thread
  <2>2. /\ r.ctl = s.ctl /\ r.db = s.db /\ r.pubs = [s.pubs EXCEPT ![p] = thread]
        /\ Told(r) = Told(s) /\ Answered(r) = Answered(s) /\ halt' = halt
    BY <1>6, <1>8 DEF thread
  <2>3. \A q \in PubSlots : r.pubs[q] = IF q = p THEN thread ELSE s.pubs[q]
    BY <1>2, <2>2 DEF Threaded
  <2>4. SameWork(s, r)
    BY <1>1, <1>8, <2>1, <2>3 DEF SameWork, Live
  <2> QED
    BY <1>2, <1>7, <1>8, <2>2, <2>4, LedgerSignals
<1>9. ASSUME PubStep(p, at("done"), <<Call("pubFinished", p)>>), mq' = mq,
             pubs[p].run \in {"connecting", "sending"},
             "connectFailure" \notin Allowed /\ halt = "none" /\ ctl.active => pubs[p].todo = << >>
      PROVE  LedgerFits(r, mq', halt')
  <2> DEFINE thread == at("done")
             c == Call("pubFinished", p)
  <2>1. thread.run = "done" /\ c.kind = "pubFinished" /\ PubStep(p, thread, <<c>>)
    BY <1>3, <1>5, <1>9 DEF Call
  <2> HIDE DEF thread, c
  <2>2. /\ r.ctl = s.ctl /\ r.db = s.db /\ r.pubs = [s.pubs EXCEPT ![p] = thread]
        /\ Told(r) = Told(s) /\ Answered(r) = Answered(s) /\ halt' = halt
    BY <1>6, <2>1
  <2>3. Live(s.pubs[p]) /\ s.pubs[p].run # "sent" /\ ~Live(thread)
    BY <1>1, <1>9, <2>1 DEF Live
  <2>4. "connectFailure" \notin Allowed /\ halt = "none" /\ s.ctl.active => s.pubs[p].todo = << >>
    BY <1>1, <1>9
  <2>5. Ledger(r, M, halt)
    BY <1>2, <2>2, <2>3, <2>4, LedgerLeaves
  <2> QED
    BY <1>7, <1>9, <2>2, <2>5
<1>10. CASE PubConnect(p)
  <2> DEFINE c == Call("queueReady", p)
  <2>1. c.kind = "queueReady"
    BY DEF Call
  <2>2. /\ pubs[p].run = "connecting" /\ mq' = mq
        /\ \/ PubStep(p, at("sending"), <<c>>)
           \/ "connectFailure" \in Allowed /\ PubStep(p, at("done"), <<Call("pubFinished", p)>>)
    BY <1>10 DEF PubConnect, at
  <2> HIDE DEF c
  <2>3. Live(pubs[p])
    BY <2>2 DEF Live
  <2> QED
    BY <1>8, <1>9, <2>1, <2>2, <2>3 DEF r
<1>11. CASE PubSend(p)
  <2> DEFINE x == Head(pubs[p].todo)
             thread == at("sent")
  <2>1. /\ pubs[p].run = "sending" /\ pubs[p].todo # << >>
        /\ mq' = mq (+) SetToBag({x}) /\ PubStep(p, thread, << >>)
    BY <1>11 DEF PubSend, at
  <2>2. thread.run = "sent" /\ thread.todo = pubs[p].todo
    BY <1>3, <1>5
  <2> HIDE DEF thread
  <2>3. /\ r.ctl = s.ctl /\ r.db = s.db /\ r.pubs = [s.pubs EXCEPT ![p] = thread]
        /\ r.events = s.events /\ halt' = halt
    BY <1>1, <1>2, <2>1, PostedNone DEF PubStep
  <2>4. s.pubs[p] = pubs[p]
    BY <1>1
  <2>5. x = Head(s.pubs[p].todo)
    BY <2>4
  <2> HIDE DEF x
  <2>6. x \notin M /\ Ledger(r, M \cup {x}, halt)
    BY <1>2, <2>1, <2>2, <2>3, <2>4, <2>5, LedgerSent, ZenonT(60)
  <2>7. BagAdds(mq, mq', x)
    BY <1>2, <2>1, <2>6, OnceMore DEF M
  <2>8. LedgerFits(r, mq', halt')
    BY <2>3, <2>6, <2>7 DEF LedgerFits, BagAdds, M
  <2> QED
    BY <2>8 DEF r
<1>12. CASE PubReport(p)
  <2>1. PICK kind \in {"published", "failed"} :
          /\ IF kind = "published" THEN pubs[p].run = "sent"
             ELSE pubs[p].run = "sending" /\ pubs[p].todo # << >>
          /\ PubStep(p, told, <<Call(kind, Head(pubs[p].todo))>>)
    BY <1>12 DEF PubReport, told
  <2>2. Live(pubs[p]) /\ mq' = mq
    BY <1>12, <2>1 DEF Live, PubReport
  <2>3. pubs[p].todo # << >>
    BY <1>2, <2>1 DEF Threads
  <2> DEFINE c == Call(kind, Head(pubs[p].todo))
  <2>4. /\ c.kind \in {"published", "failed"} /\ c.kind # "result"
        /\ c.of = Head(pubs[p].todo) /\ PubStep(p, told, <<c>>)
    BY <2>1 DEF Call
  <2> HIDE DEF c
  <2>5. /\ r.ctl = s.ctl /\ r.db = s.db /\ r.pubs = [s.pubs EXCEPT ![p] = told]
        /\ Told(r) = Told(s) \cup {c.of} /\ Answered(r) = Answered(s) /\ halt' = halt
    BY <1>6, <2>4
  <2>6. s.pubs[p] = pubs[p] /\ Told(r) = Told(s) \cup {Head(s.pubs[p].todo)}
    BY <1>1, <2>4, <2>5
  <2>7. Ledger(r, M, halt)
    BY <1>2, <1>4, <2>2, <2>3, <2>5, <2>6, LedgerPosted
  <2> QED
    BY <1>7, <2>2, <2>5, <2>7 DEF r
<1>13. CASE PubEnd(p)
  <2>1. /\ pubs[p].run = "sending" /\ (pubs[p].todo = << >> \/ pubs[p].stop) /\ mq' = mq
        /\ PubStep(p, at("done"), <<Call("pubFinished", p)>>)
    BY <1>13 DEF PubEnd, at
  <2>2. halt = "none" /\ ctl.active => pubs[p].todo = << >>
    <3>1. Alive(s.pubs[p]) /\ s.pubs[p] = pubs[p]
      BY <1>1, <2>1 DEF Alive
    <3>2. halt = "none" /\ ctl.active => Wired(s)
      BY <1>1, <1>2 DEF ThreadsFit, InRun
    <3>3. halt = "none" /\ ctl.active => ~pubs[p].stop
      BY <3>1, <3>2 DEF Wired
    <3> QED
      BY <2>1, <3>3
  <2> QED
    BY <1>9, <2>1, <2>2 DEF r
<1>14. CASE PubExit(p)
  <2> DEFINE c == Call("pubThreadFinished", p)
  <2>1. c.kind = "pubThreadFinished"
    BY DEF Call
  <2>2. pubs[p].run = "done" /\ mq' = mq /\ PubStep(p, at("exited"), <<c>>)
    BY <1>14 DEF PubExit, at
  <2> HIDE DEF c
  <2>3. ~Live(pubs[p])
    BY <2>2 DEF Live
  <2> QED
    BY <1>8, <2>1, <2>2, <2>3 DEF r
<1> QED
  BY <1>10, <1>11, <1>12, <1>13, <1>14 DEF PubRuns, r

\* The steps of the polling threads.
LEMMA LedgerPollSteps ==
  ASSUME LedgerInv, NEW w \in PollSlots,
         \/ PollConnect(w) \/ PollTick(w) \/ PollEnd(w)
         \/ \E t \in BagToSet(mq), v \in Verdicts : PollDeliver(w, t, v)
  PROVE  LedgerFits(Situation', mq', halt')
<1> DEFINE s == Situation
           r == Situation'
           M == BagToSet(mq)
<1>1. /\ s.ctl = ctl /\ s.pubs = pubs /\ s.events = events /\ s.db = db
      /\ r.ctl = ctl' /\ r.pubs = pubs' /\ r.events = events' /\ r.db = db'
  BY Afterwards
<1>2. CallsOK(events) /\ Ledger(s, M, halt) /\ OnceEach(mq)
  BY <1>1 DEF LedgerInv, ThreadsInv, ThreadsFit, Threaded, LedgerFits
<1> HIDE DEF s, r, M
<1>3. ASSUME NEW run, NEW c, PollStep(w, run, <<c>>) \/ PollStep(w, run, << >>),
             c.kind \notin {"published", "failed"}, c.kind = "result" => c.of.task \in M,
             NEW N, N \subseteq M
      PROVE  Ledger(r, N, halt')
  <2>1. /\ r.ctl = s.ctl /\ r.db = s.db /\ r.pubs = s.pubs /\ halt' = halt
        /\ (r.events = s.events \o <<c>> \/ r.events = s.events)
    BY <1>1, <1>2, <1>3, PostedNone DEF PollStep
  <2>2. Told(r) = Told(s) /\ Answered(r) \subseteq Answered(s) \cup M
    <3>1. CASE r.events = s.events \o <<c>>
      <4>1. CallsOK(s.events)
        BY <1>1, <1>2
      <4>2. /\ Told(r) = IF c.kind \in {"published", "failed"} THEN Told(s) \cup {c.of} ELSE Told(s)
            /\ Answered(r) = IF c.kind = "result" THEN Answered(s) \cup {c.of.task}
                             ELSE Answered(s)
        BY <3>1, <4>1, TellsLast
      <4>3. Told(r) = Told(s)
        BY <1>3, <4>2
      <4>4. Answered(r) \subseteq Answered(s) \cup M
        BY <1>3, <4>2
      <4> QED
        BY <4>3, <4>4
    <3>2. CASE r.events = s.events
      BY <3>2 DEF Told, Answered
    <3> QED
      BY <2>1, <3>1, <3>2
  <2> QED
    BY <1>2, <1>3, <2>1, <2>2, LedgerPolls
<1>4. ASSUME mq' = mq, NEW kind \in {"pollFinished", "pollCycle"}, NEW run,
             PollStep(w, run, <<Call(kind, w)>>) \/ PollStep(w, run, << >>)
      PROVE  LedgerFits(r, mq', halt')
  <2> DEFINE c == Call(kind, w)
  <2>1. c.kind \notin {"published", "failed"} /\ c.kind # "result"
    BY DEF Call
  <2>2. PollStep(w, run, <<c>>) \/ PollStep(w, run, << >>)
    BY <1>4
  <2> HIDE DEF c
  <2>3. Ledger(r, M, halt')
    <3>1. M \subseteq M
      OBVIOUS
    <3> QED
      BY <1>3, <2>1, <2>2, <3>1
  <2> QED
    BY <1>2, <1>4, <2>3 DEF LedgerFits, M
<1>5. CASE PollConnect(w)
  BY <1>4, <1>5 DEF PollConnect, r
<1>6. CASE PollTick(w)
  BY <1>4, <1>6 DEF PollTick, r
<1>7. CASE PollEnd(w)
  BY <1>4, <1>7 DEF PollEnd, r
<1>8. ASSUME NEW t \in BagToSet(mq), NEW v \in Verdicts, PollDeliver(w, t, v)
      PROVE  LedgerFits(r, mq', halt')
  <2> DEFINE c == Call("result", [task |-> t, verdict |-> v])
  <2>1. PollStep(w, "consuming", <<c>>) \/ PollStep(w, "consuming", << >>)
    BY <1>8 DEF PollDeliver
  <2>2. mq' = mq (-) SetToBag({t})
    BY <1>8 DEF PollDeliver
  <2>3. c.kind = "result" /\ c.of.task = t /\ t \in M
    BY DEF Call, M
  <2> HIDE DEF c
  <2>4. BagDrops(mq, mq', t)
    BY <1>2, <2>2, OnceMore
  <2>5. BagToSet(mq') \subseteq M
    BY <2>4 DEF BagDrops, M
  <2>6. Ledger(r, BagToSet(mq'), halt')
    BY <1>3, <2>1, <2>3, <2>5
  <2> QED
    BY <2>4, <2>6 DEF BagDrops, LedgerFits
<1> QED
  BY <1>5, <1>6, <1>7, <1>8 DEF r

\* The GUI thread takes a queued call.
LEMMA LedgerCalls ==
  ASSUME TwoSlots, LedgerInv, HandleCall
  PROVE  LedgerFits(Situation', mq', halt')
<1> DEFINE s == Situation
           q == Next1
           M == BagToSet(mq)
<1>1. /\ s.ctl = ctl /\ s.pubs = pubs /\ s.events = events /\ s.db = db
      /\ q.ctl = ctl /\ q.pubs = pubs /\ q.events = Tail(events) /\ HasFields(q) /\ q.db = db
      /\ Shaped(s) /\ StoreFits(db)
  BY Afterwards DEF LedgerInv, ThreadsInv, CapInv, CapFits, ScheduleFits
<1>2. /\ Shaped(q) /\ StoreFits(q.db)
  BY <1>1 DEF Shaped
<1>3. /\ halt = "none" /\ halt' = halt /\ mq' = mq /\ events # << >>
      /\ \E r : Become(r) /\ Handles(q, r)
  BY HandlingDoes
<1>4. PICK r : Become(r) /\ Handles(q, r)
  BY <1>3
<1> HIDE DEF s, q, M
<1> DEFINE x == Head(s.events)
<1>5. /\ ThreadsFit(s, "none") /\ CallsOK(s.events) /\ s.events # << >>
      /\ Ledger(s, M, "none") /\ OnceEach(mq)
  BY <1>1, <1>3 DEF LedgerInv, ThreadsInv, ThreadsFit, Threaded, LedgerFits, s, M
<1>6. ThreadsFit(q, "none")
  BY <1>1, <1>5, WiresTaken
<1>7. Arg = x.of /\ \A kind : Called(kind) => x.kind = kind
  BY <1>1 DEF Called, Arg
<1>8. q.db = s.db /\ q.pubs = s.pubs /\ q.ctl = s.ctl /\ q.events = Tail(s.events)
  BY <1>1
<1>9. IsOutcome(x)
  BY <1>5, NextCall
<1> HIDE DEF x
<1>10. Ledger(r, M, "none")
  <2>1. CASE \/ Called("queueReady") /\ r = OnQueueReady(q)
             \/ Called("pubFinished") /\ \E known : r = OnPubFinished(q, Arg, known)
             \/ Called("pubThreadFinished") /\ r = OnPubThreadFinished(q, Arg)
             \/ Called("pollFinished") /\ r = OnPollFinished(q, Arg)
    <3>1. /\ x.kind = "queueReady" => Ledger(OnQueueReady(q), M, "none")
          /\ x.kind = "pollFinished" => Ledger(OnPollFinished(q, x.of), M, "none")
          /\ \A known : x.kind = "pubFinished" => Ledger(OnPubFinished(q, x.of, known), M, "none")
          /\ x.kind = "pubThreadFinished" => Ledger(OnPubThreadFinished(q, x.of), M, "none")
      BY <1>2, <1>5, <1>8, LedgerEnds DEF x
    <3> QED
      BY <1>7, <2>1, <3>1
  <2>2. ASSUME NEW t, NEW d, r = [q EXCEPT !.db = d],
               \/ x.kind \in {"published", "failed"} /\ t = x.of
               \/ x.kind = "result" /\ t = x.of.task,
               Moved(q.db, d), WaitingIn(d) = WaitingIn(q.db) \ {t}
        PROVE  Ledger(r, M, "none")
    <3>1. SameThreads(q, r) /\ SamePlan(q, r) /\ Shaped(r) /\ r.db = d
      BY <1>2, <2>2, Storing
    <3>2. r.ctl = q.ctl
      BY <1>1, <2>2 DEF HasFields
    <3>3. r.events = Tail(s.events) /\ r.pubs = s.pubs /\ r.ctl = s.ctl
      BY <1>8, <3>1, <3>2 DEF SameThreads
    <3>4. /\ Known(r.db) = Known(s.db) /\ r.db.life = s.db.life
          /\ WaitingIn(r.db) = WaitingIn(s.db) \ {t}
      BY <1>8, <2>2, <3>1 DEF Moved
    <3> QED
      BY <1>5, <2>2, <3>3, <3>4, LedgerReported DEF x
  <2>3. /\ OnPublished(q, Arg) = [q EXCEPT !.db = MarkSent(q.db, Arg)]
        /\ OnFailed(q, Arg) = [q EXCEPT !.db = MarkError(q.db, Arg)]
        /\ OnResult(q, Arg.task, Arg.verdict) = [q EXCEPT !.db = ApplyResult(q.db, Arg.task, Arg.verdict)]
    BY Zenon DEF OnPublished, OnFailed, OnResult
  <2>4. "ERROR" \in Done
    BY DEF Done
  <2>5. CASE Called("published") /\ r = OnPublished(q, Arg)
    <3>1. Moved(q.db, MarkSent(q.db, Arg)) /\ WaitingIn(MarkSent(q.db, Arg)) = WaitingIn(q.db) \ {Arg}
      BY <1>2, <2>4, Marking
    <3> QED
      BY <1>7, <2>2, <2>3, <2>5, <3>1
  <2>6. CASE Called("failed") /\ r = OnFailed(q, Arg)
    <3>1. Moved(q.db, MarkError(q.db, Arg)) /\ WaitingIn(MarkError(q.db, Arg)) = WaitingIn(q.db) \ {Arg}
      BY <1>2, <2>4, Marking
    <3> QED
      BY <1>7, <2>2, <2>3, <2>6, <3>1
  <2>7. CASE Called("result") /\ r = OnResult(q, Arg.task, Arg.verdict)
    <3> DEFINE t == Arg.task
               v == Arg.verdict
    <3>1. v \in Done /\ x.kind = "result" /\ t = x.of.task
      BY <1>7, <1>9, <2>7 DEF IsOutcome
    <3>2. r = [q EXCEPT !.db = ApplyResult(q.db, t, v)]
      BY <2>3, <2>7
    <3> HIDE DEF t, v
    <3>3. Moved(q.db, ApplyResult(q.db, t, v)) /\ WaitingIn(ApplyResult(q.db, t, v)) = WaitingIn(q.db) \ {t}
      <4>1. StoreFits(q.db) /\ v \in Done
        BY <1>2, <3>1
      <4> QED
        BY <4>1, Marking, SMTT(30)
    <3> QED
      BY <2>2, <3>1, <3>2, <3>3
  <2>8. CASE Called("pollCycle") /\ \E T : r = OnPollCycle(q, T)
    <3>1. Ledger(q, M, "none")
      <4>1. SameWork(s, q) /\ SamePlan(s, q) /\ (q.ctl.active => s.ctl.active)
        BY <1>8 DEF SameWork, SamePlan
      <4>2. x.kind \notin {"published", "failed", "result"}
        BY <1>7, <2>8
      <4> QED
        BY <1>5, <1>8, <4>1, <4>2, LedgerTaken DEF x
    <3>2. PICK T : r = OnPollCycle(q, T)
      BY <2>8
    <3> QED
      BY <1>2, <1>6, <3>1, <3>2, LedgerCycle
  <2> QED
    BY <1>4, <2>1, <2>5, <2>6, <2>7, <2>8 DEF Handles
<1>11. LedgerFits(r, mq, "none")
  BY <1>5, <1>10 DEF LedgerFits, M
<1> QED
  BY <1>3, <1>4, <1>11, LedgerBecome

\* The user, and the end of a stop.
LEMMA LedgerUser ==
  ASSUME TwoSlots, LedgerInv,
         \/ \E f \in Folders : \E items \in SUBSET Items[f] : AddFolder(f, items)
         \/ \E S \in SUBSET Grouped(db) \ {{}} : DeleteFolders(S)
         \/ Start \/ Stop \/ Reset \/ StopEnds
  PROVE  LedgerFits(Situation', mq', halt')
<1> DEFINE s == Situation
           M == BagToSet(mq)
<1>1. /\ s.ctl = ctl /\ s.pubs = pubs /\ s.events = events /\ s.db = db
      /\ Shaped(s) /\ StoreFits(s.db) /\ ScheduleFits(s) /\ ThreadsFit(s, halt)
      /\ Ledger(s, M, halt) /\ OnceEach(mq)
  BY Afterwards DEF LedgerInv, ThreadsInv, CapInv, CapFits, ScheduleFits, LedgerFits
<1> HIDE DEF s, M
<1>2. ASSUME NEW r, NEW h, Ledger(r, M, h), Become(r), mq' = mq, halt' = h
      PROVE  LedgerFits(Situation', mq', halt')
  <2>1. LedgerFits(r, mq, h)
    BY <1>1, <1>2 DEF LedgerFits, M
  <2> QED
    BY <1>2, <2>1, LedgerBecome
<1>3. ASSUME NEW f \in Folders, NEW items \in SUBSET Items[f], AddFolder(f, items)
      PROVE  LedgerFits(Situation', mq', halt')
  <2>1. Become(Added(s, f, items)) /\ halt = "none" /\ halt' = halt /\ mq' = mq
    BY <1>3 DEF AddFolder, UserTurn, GuiTurn, s
  <2>2. Ledger(Added(s, f, items), M, "none")
    BY <1>1, <2>1, LedgerAdded
  <2> QED
    BY <1>2, <2>1, <2>2
<1>4. ASSUME NEW S, DeleteFolders(S) PROVE LedgerFits(Situation', mq', halt')
  <2>1. Become(Removed(s, S)) /\ halt = "none" /\ halt' = halt /\ mq' = mq
    BY <1>4 DEF DeleteFolders, UserTurn, GuiTurn, s
  <2>2. Ledger(Removed(s, S), M, "none")
    BY <1>1, <2>1, LedgerRemoved
  <2> QED
    BY <1>2, <2>1, <2>2
<1>5. CASE Start
  <2>1. /\ Become(Started(s)) /\ halt = "none" /\ halt' = halt /\ mq' = mq
        /\ ~ctl.active /\ UnusedPubs(s) = PubSlots /\ (ctl.active \/ events = << >>)
    BY <1>5 DEF Start, UserTurn, GuiTurn, s
  <2>2. Ledger(Started(s), M, "none")
    BY <1>1, <2>1, LedgerStarted
  <2> QED
    BY <1>2, <2>1, <2>2
<1>6. CASE Stop \/ Reset
  <2>1. Become(StopAsked(s)) /\ halt' \in {"stop", "reset"} /\ mq' = mq
    BY <1>6 DEF Stop, Reset, StopBegins, s
  <2>2. Threaded(s) /\ halt' # "none"
    BY <1>1, <2>1 DEF ThreadsFit
  <2>3. \A k : k # "none" => Ledger(StopAsked(s), M, k)
    BY <1>1, <2>2, LedgerAsked
  <2> QED
    BY <1>2, <2>1, <2>2, <2>3
<1>7. CASE StopEnds
  <2> DEFINE r == Stopped(s)
             e == [r EXCEPT !.db = EmptyStore(s.db.life + 1)]
  <2>1. /\ halt' = "none" /\ mq' = mq /\ (Become(r) \/ Become(e))
    BY <1>1, <1>7 DEF StopEnds, s
  <2>2. /\ SameStore(s, r) /\ Shaped(r) /\ r.pubs = s.pubs
        /\ r.ctl.batches = << >> /\ r.ctl.scheduled = {} /\ r.ctl.active = FALSE
    BY <1>1, StoppingDoes
  <2> HIDE DEF r
  <2>3. SameThreads(r, e) /\ SamePlan(r, e) /\ Shaped(e) /\ e.db = EmptyStore(s.db.life + 1)
    BY <2>2, Storing
  <2> HIDE DEF e
  <2>4. Ledger(r, M, "none")
    <3>1. r.events = s.events /\ r.db = s.db /\ ~r.ctl.active
      BY <2>2 DEF SameStore
    <3> QED
      BY <1>1, <2>2, <3>1, LedgerStopped
  <2>5. Ledger(e, M, "none")
    <3>1. e.events = s.events /\ e.pubs = s.pubs /\ ~e.ctl.active /\ e.ctl.batches = << >>
          /\ e.ctl.scheduled = {}
      BY <2>2, <2>3 DEF SameStore, SameThreads, SamePlan
    <3> QED
      BY <1>1, <2>3, <3>1, LedgerStopped
  <2> QED
    BY <1>2, <2>1, <2>4, <2>5
<1> QED
  BY <1>3, <1>4, <1>5, <1>6, <1>7

LEMMA LedgerStart ==
  ASSUME Init PROVE LedgerFits(Situation, mq, halt)
<1> DEFINE s == Situation
<1>1. /\ s.pubs = [p \in PubSlots |-> NoThread] /\ s.events = << >> /\ s.ctl = FreshController
      /\ s.db = EmptyStore(0) /\ mq = EmptyBag /\ Shaped(s)
  BY CapStart, Afterwards DEF Init, CapInv, CapFits, ScheduleFits
<1> HIDE DEF s
<1>2. BagToSet(mq) = {} /\ OnceEach(mq)
  BY <1>1 DEF EmptyBag, SetToBag, BagToSet, OnceEach
<1>3. \A p \in PubSlots : ~Live(s.pubs[p]) /\ s.pubs[p].run # "sent"
  BY <1>1 DEF Live, NoThread
<1>4. Told(s) = {} /\ Answered(s) = {} /\ Todo(s) = {} /\ Heads(s) = {}
  <2>1. ToSet(s.events) = {}
    BY <1>1 DEF ToSet
  <2> QED
    BY <1>3, <2>1 DEF Told, Answered, Todo, Heads
<1>5. /\ s.ctl.active = FALSE /\ s.ctl.batches = << >> /\ s.ctl.scheduled = {} /\ s.ctl.next = 0
  <2>1. /\ FreshController.active = FALSE /\ FreshController.batches = << >>
        /\ FreshController.scheduled = {} /\ FreshController.next = 0
    BY DEF FreshController
  <2> QED
    BY <1>1, <2>1
<1>6. Untaken(s) = << >> /\ Ahead(s) = {} /\ Apart(Untaken(s))
  <2>1. Untaken(s) = << >>
    BY <1>1, <1>5, TakenFolders DEF Untaken
  <2> QED
    BY <2>1 DEF Ahead, IdsOf, Apart
<1>7. Books(s, {}) /\ Separate(s, {}) /\ Complete(s)
  BY <1>3, <1>4, <1>5, <1>6 DEF Books, Separate, Complete
<1>8. LedgerFits(s, mq, halt)
  BY <1>2, <1>7 DEF LedgerFits, Ledger
<1> QED
  BY <1>8 DEF s

LEMMA LedgerSteps ==
  ASSUME TwoSlots, LedgerInv, [Next]_vars
  PROVE  LedgerInv'
<1>1. CapInv'
  BY CapPreserved DEF LedgerInv, ThreadsInv
<1>2. CASE Next
  <2>1. ThreadsFit(Situation', halt')
    BY <1>2, WiresSteps DEF LedgerInv
  <2>2. LedgerFits(Situation', mq', halt')
    BY <1>2, LedgerUser, LedgerCalls, LedgerPubSteps, LedgerPollSteps DEF Next
  <2> QED
    BY <1>1, <2>1, <2>2 DEF LedgerInv, ThreadsInv
<1>3. CASE UNCHANGED vars
  <2> DEFINE s == Situation
             r == Situation'
  <2>1. /\ r.ctl = s.ctl /\ r.pubs = s.pubs /\ r.events = s.events /\ r.db = s.db
        /\ mq' = mq /\ halt' = halt
    BY <1>3, Afterwards DEF vars
  <2>2. ThreadsFit(s, halt) /\ LedgerFits(s, mq, halt) /\ Become(s)
    BY <1>3, Afterwards DEF LedgerInv, ThreadsInv, Become, vars
  <2>3. ThreadsFit(r, halt')
    BY <2>1, <2>2, WiresDepend
  <2>4. LedgerFits(r, mq', halt')
    BY <2>1, <2>2, LedgerBecome
  <2> QED
    BY <1>1, <2>3, <2>4 DEF LedgerInv, ThreadsInv
<1> QED
  BY <1>2, <1>3

LEMMA LedgerInvStart ==
  ASSUME Init PROVE LedgerInv
  BY CapStart, WiresStart, LedgerStart DEF LedgerInv, ThreadsInv

\* No request is sent twice, in all sequences of commands, failures and late calls.
\* The invariant is a ledger of the requests: what is in a batch to be taken is
\* PENDING, in the hands of no publisher, in no report and no answer on its way and
\* not with the broker; what a publisher has in hand is with the broker only if it is
\* just being sent; and what is with the broker or answered has left PENDING, or its
\* report is on its way. It needs one publishing thread at a time, and no report of a
\* thread behind its end (ThreadsFit).
THEOREM NothingTwiceAlways == TwoSlots => (Spec => []NothingTwice)
<1> SUFFICES ASSUME TwoSlots PROVE Spec => []NothingTwice
  OBVIOUS
<1>1. LedgerInv => NothingTwice
  <2> SUFFICES ASSUME LedgerInv PROVE NothingTwice
    OBVIOUS
  <2> DEFINE s == Situation
             M == BagToSet(mq)
  <2>1. OnceEach(mq) /\ Books(s, M) /\ s.db = db
    BY Afterwards DEF LedgerInv, LedgerFits, Ledger
  <2>2. Ahead(s) \subseteq WaitingIn(db) /\ Ahead(s) \cap M = {}
    BY <2>1 DEF Books
  <2> HIDE DEF s
  <2>3. \A t \in IdsOf(Untaken(s)) : db.status[t] = "PENDING" /\ ~BagIn(t, mq)
    BY <2>2 DEF Ahead, WaitingIn, AllIn, BagIn
  <2> QED
    BY <2>1, <2>3 DEF NothingTwice, OnceEach, s
<1>2. Init => LedgerInv
  BY LedgerInvStart
<1>3. LedgerInv /\ [Next]_vars => LedgerInv'
  BY LedgerSteps
<1> QED
  BY <1>1, <1>2, <1>3, PTL DEF Spec

\* While every publisher connects, no PENDING task of a run is forgotten: the ledger
\* is complete, and the thread that has tasks in hand has not been told to stop.
THEOREM NothingForgottenAlways ==
  TwoSlots /\ "connectFailure" \notin Allowed => (Spec => []NothingForgotten)
<1> SUFFICES ASSUME TwoSlots, "connectFailure" \notin Allowed PROVE Spec => []NothingForgotten
  OBVIOUS
<1>1. LedgerInv => NothingForgotten
  <2> SUFFICES ASSUME LedgerInv, ctl.active, halt = "none"
               PROVE  WaitingIn(db) \subseteq IdsOf(Untaken(Situation)) \cup InHand \cup Reported
    BY DEF NothingForgotten, WaitingIn
  <2> DEFINE s == Situation
  <2>1. /\ s.db = db /\ s.ctl = ctl /\ s.pubs = pubs /\ s.events = events
        /\ Complete(s) /\ Wired(s)
    BY Afterwards DEF LedgerInv, ThreadsInv, LedgerFits, Ledger, ThreadsFit, InRun
  <2> HIDE DEF s
  <2>2. WaitingIn(db) \subseteq Ahead(s) \cup Todo(s) \cup Told(s)
    BY <2>1 DEF Complete
  <2>3. Todo(s) \subseteq InHand
    <3>1. \A p \in PubSlots : Live(pubs[p]) => ~pubs[p].stop
      BY <2>1 DEF Wired, Live, Alive
    <3> QED
      BY <2>1, <3>1 DEF Todo, InHand
  <2>4. Told(s) \subseteq Reported
    BY <2>1 DEF Told, Reported, ToSet
  <2> QED
    BY <2>2, <2>3, <2>4 DEF Ahead, s
<1>2. Init => LedgerInv
  BY LedgerInvStart
<1>3. LedgerInv /\ [Next]_vars => LedgerInv'
  BY LedgerSteps
<1> QED
  BY <1>1, <1>2, <1>3, PTL DEF Spec

-----------------------------------------------------------------------------
(* The polling threads, what they track, and who still refers to them. *)

PollThreads == [run : {"none", "connecting", "consuming", "done"}, tracked : SUBSET Requests,
                stop : BOOLEAN, quit : BOOLEAN]
Working(thread) == thread.run \in {"connecting", "consuming"}
Awaited(s) == \/ \E p \in PubSlots : s.pubs[p].run = "connecting"
              \/ \E c \in ToSet(s.events) : c.kind = "queueReady"

\* At any time: one thread at most, with all tasks of the store.
Polled(s) ==
  /\ s.polls \in [PollSlots -> PollThreads]
  /\ \A w \in PollSlots : Alive(s.polls[w]) => s.ctl.poll = w
  /\ \A w \in PollSlots : Working(s.polls[w]) /\ ~s.polls[w].stop => Known(s.db) \subseteq s.polls[w].tracked
  /\ s.ctl.active => PollSlots # {}

\* In a run: whatever says that a poll thread has ended says so of the current one,
\* and is the last that is heard of it.
Announced(s) ==
  /\ \A w \in PollSlots : Alive(s.polls[w]) => ~s.polls[w].quit
  /\ \A c \in ToSet(s.events) : c.kind = "pollFinished" =>
       c.of = s.ctl.poll /\ c.of \in PollSlots /\ s.polls[c.of].run = "done"
  /\ Unfollowed(s.events, {"pollFinished"}, {"pollFinished", "pollCycle"})

\* A thread works outside of a run only while it is being stopped, and no call that
\* is still queued starts another one.
Follows(s, h) ==
  /\ Polled(s)
  /\ Awaited(s) => s.ctl.active /\ h = "none"
  /\ h # "none" => \A w \in PollSlots : Alive(s.polls[w]) => s.polls[w].stop
  /\ h = "none" /\ s.ctl.active => Announced(s)
  /\ h = "none" /\ ~s.ctl.active =>
       /\ \A w \in PollSlots : ~Alive(s.polls[w])
       /\ s.ctl.batches # << >> => \A c \in ToSet(s.events) : c.kind # "pollCycle"

\* The same threads, told to end or to track something else.
AlikePolls(s, r) ==
  /\ r.polls \in [PollSlots -> PollThreads]
  /\ \A w \in PollSlots : /\ r.polls[w].run = s.polls[w].run /\ r.polls[w].quit = s.polls[w].quit
                          /\ s.polls[w].stop => r.polls[w].stop
  /\ \A w \in PollSlots : Working(r.polls[w]) /\ ~r.polls[w].stop => Known(r.db) \subseteq r.polls[w].tracked
FewerCalls(s, r) ==
  /\ ToSet(r.events) \subseteq ToSet(s.events)
  /\ Unfollowed(s.events, {"pollFinished"}, {"pollFinished", "pollCycle"}) =>
       Unfollowed(r.events, {"pollFinished"}, {"pollFinished", "pollCycle"})

LEMMA FollowsLike ==
  ASSUME NEW s, NEW h, Follows(s, h), NEW r, AlikePolls(s, r), FewerCalls(s, r),
         r.ctl.poll = s.ctl.poll, r.ctl.active = s.ctl.active,
         Awaited(r) => Awaited(s) \/ (s.ctl.active /\ h = "none"),
         h = "none" /\ ~s.ctl.active /\ r.ctl.batches # << >> => s.ctl.batches # << >>
  PROVE  Follows(r, h)
<1>1. \A w \in PollSlots : Alive(r.polls[w]) <=> Alive(s.polls[w])
  BY DEF Alive, AlikePolls
<1>2. Polled(r)
  BY <1>1 DEF Polled, Follows, AlikePolls
<1>3. Awaited(r) => r.ctl.active /\ h = "none"
  BY DEF Follows
<1>4. h # "none" => \A w \in PollSlots : Alive(r.polls[w]) => r.polls[w].stop
  BY <1>1 DEF Follows, AlikePolls
<1>5. h = "none" /\ r.ctl.active => Announced(r)
  <2>1. ASSUME h = "none", r.ctl.active PROVE Announced(r)
    <3>1. Announced(s)
      BY <2>1 DEF Follows
    <3>2. \A w \in PollSlots : Alive(r.polls[w]) => ~r.polls[w].quit
      BY <1>1, <3>1 DEF Announced, AlikePolls
    <3>3. \A c \in ToSet(r.events) : c.kind = "pollFinished" =>
            c.of = r.ctl.poll /\ c.of \in PollSlots /\ r.polls[c.of].run = "done"
      BY <3>1 DEF Announced, AlikePolls, FewerCalls
    <3> QED
      BY <3>1, <3>2, <3>3 DEF Announced, FewerCalls
  <2> QED
    BY <2>1
<1>6. h = "none" /\ ~r.ctl.active =>
        /\ \A w \in PollSlots : ~Alive(r.polls[w])
        /\ r.ctl.batches # << >> => \A c \in ToSet(r.events) : c.kind # "pollCycle"
  BY <1>1 DEF Follows, FewerCalls
<1> QED
  BY <1>2, <1>3, <1>4, <1>5, <1>6 DEF Follows

\* Nothing changes for the poll threads, but that tasks may be gone.
LEMMA FollowsSame ==
  ASSUME NEW s, NEW h, Follows(s, h), NEW r, r.polls = s.polls, FewerCalls(s, r),
         Known(r.db) \subseteq Known(s.db),
         r.ctl.poll = s.ctl.poll, r.ctl.active = s.ctl.active,
         Awaited(r) => Awaited(s) \/ (s.ctl.active /\ h = "none"),
         h = "none" /\ ~s.ctl.active /\ r.ctl.batches # << >> => s.ctl.batches # << >>
  PROVE  Follows(r, h)
<1>1. AlikePolls(s, r)
  BY DEF AlikePolls, Follows, Polled
<1> QED
  BY <1>1, FollowsLike

LEMMA SameCalls ==
  ASSUME NEW s, NEW r, r.events = s.events
  PROVE  FewerCalls(s, r)
  BY DEF FewerCalls

\* The decision of the dispatcher, in a run, or with nothing to decide.
LEMMA FollowsDispatch ==
  ASSUME NEW s, Shaped(s), Follows(s, "none"), s.ctl.active \/ s.ctl.batches = << >>
  PROVE  Follows(Dispatch(s), "none")
<1> DEFINE r == Dispatch(s)
<1>1. /\ SameStore(s, r) /\ r.polls = s.polls /\ r.ctl.batches = s.ctl.batches
      /\ r.ctl.active = s.ctl.active /\ r.ctl.poll = s.ctl.poll
  BY DispatchKeeps
<1>2. Rested(s, r) \/ \E n : n \in 1..Remaining(s)
  BY DispatchDoes
<1> HIDE DEF r
<1>3. Awaited(r) => Awaited(s) \/ s.ctl.active
  <2>1. CASE Rested(s, r)
    BY <2>1 DEF Rested, SameStore, Awaited
  <2>2. CASE \E n : n \in 1..Remaining(s)
    <3>1. Remaining(s) = Len(s.ctl.batches) - s.ctl.next /\ s.ctl.next \in Nat
      BY TakenFolders DEF Shaped
    <3>2. s.ctl.batches = << >> => Remaining(s) = 0 - s.ctl.next
      BY <3>1
    <3>3. s.ctl.batches # << >>
      BY <2>2, <3>1, <3>2
    <3> QED
      BY <3>3
  <2> QED
    BY <1>2, <2>1, <2>2
<1>4. r.events = s.events /\ r.db = s.db
  BY <1>1 DEF SameStore
<1>5. FewerCalls(s, r)
  BY <1>4, SameCalls
<1> QED
  BY <1>1, <1>3, <1>4, <1>5, FollowsSame DEF r

\* What a change of the tracked tasks does.
LEMMA TrackedAlike ==
  ASSUME NEW s, s.polls \in [PollSlots -> PollThreads], NEW q, NEW T, T \subseteq Requests, NEW U,
         Tracked(s, q, T, U)
  PROVE  /\ q.polls \in [PollSlots -> PollThreads]
         /\ \A w \in PollSlots : /\ q.polls[w].run = s.polls[w].run /\ q.polls[w].quit = s.polls[w].quit
                                 /\ q.polls[w].stop = s.polls[w].stop
         /\ \A w \in PollSlots : q.polls[w].tracked =
              IF w = s.ctl.poll /\ s.ctl.poll # NoSlot THEN (s.polls[w].tracked \cup T) \ U
              ELSE s.polls[w].tracked
<1> DEFINE k == s.ctl.poll
           ps == s.polls
<1>1. CASE k = NoSlot
  BY <1>1 DEF Tracked
<1>2. CASE k # NoSlot
  <2>1. q.polls = [ps EXCEPT ![k].tracked = (@ \cup T) \ U]
    BY <1>2 DEF Tracked
  <2> HIDE DEF ps
  <2>2. \A w \in PollSlots : q.polls[w] = IF w = k THEN [ps[w] EXCEPT !.tracked = (@ \cup T) \ U] ELSE ps[w]
    BY <2>1 DEF ps
  <2>3. DOMAIN q.polls = PollSlots /\ q.polls = [w \in PollSlots |-> q.polls[w]]
    BY <2>1 DEF ps
  <2>4. ASSUME NEW w \in PollSlots
        PROVE  /\ q.polls[w] \in PollThreads
               /\ q.polls[w].run = ps[w].run /\ q.polls[w].quit = ps[w].quit
               /\ q.polls[w].stop = ps[w].stop
               /\ q.polls[w].tracked = IF w = k THEN (ps[w].tracked \cup T) \ U ELSE ps[w].tracked
    <3>1. ps[w] \in PollThreads
      BY DEF ps
    <3>2. [ps[w] EXCEPT !.tracked = (@ \cup T) \ U] \in PollThreads
      BY <3>1 DEF PollThreads
    <3> QED
      BY <2>2, <3>1, <3>2 DEF PollThreads
  <2> QED
    BY <1>2, <2>3, <2>4 DEF ps
<1> QED
  BY <1>1, <1>2

LEMMA PollFacts ==
  ASSUME NEW s, Polled(s), NEW w \in PollSlots
  PROVE  /\ Working(s.polls[w]) => Alive(s.polls[w])
         /\ Alive(s.polls[w]) => w = s.ctl.poll /\ s.ctl.poll # NoSlot /\ PollRunning(s)
<1>1. w # NoSlot
  BY EagerAssumption DEF NoSlot
<1> QED
  BY <1>1 DEF Polled, Working, Alive, PollRunning

\* A registration: what is new is scheduled, so that the poll thread is told of it.
LEMMA FollowsAdded ==
  ASSUME NEW s, Shaped(s), StoreFits(s.db), NEW M, Ledger(s, M, "none"), Follows(s, "none"),
         NEW f \in Folders, NEW items \in SUBSET Items[f]
  PROVE  Follows(Added(s, f, items), "none")
<1> DEFINE d == RegisterFolder(s.db, f, items)
           ids == PendingIds(d, f, s.ctl.scheduled)
           r == [s EXCEPT !.db = d]
           u == Added(s, f, items)
<1>1. \/ /\ ~s.ctl.active \/ d = s.db \/ ids = << >>
         /\ u = r
      \/ /\ s.ctl.active
         /\ \E q : Joining(s, q, d, f, ids) /\ u = Dispatch(q)
  BY AddingDoes
<1>2. StoreFits(d) /\ \E new : Extended(s.db, d, f, items, new)
  BY RegisteringFits
<1>3. PICK new : Extended(s.db, d, f, items, new)
  BY <1>2
<1>4. ids \in Seq(Requests) /\ ToSet(ids) = (OfFolder(d, f) \cap WaitingIn(d)) \ s.ctl.scheduled
  BY <1>2, PendingFacts
<1>5. SameThreads(s, r) /\ SamePlan(s, r) /\ Shaped(r) /\ r.db = d /\ r.polls = s.polls
  BY Storing
<1> HIDE DEF d, ids, u, r
<1>6. s.ctl.active => new \subseteq ToSet(ids)
  <2>1. s.db.life \in Nat
    BY DEF StoreFits, StoreOK
  <2>2. Extended(s.db, r.db, f, items, new)
    BY <1>3, <1>5
  <2>3. SamePlan(s, r) /\ r.events = s.events /\ r.pubs = s.pubs /\ r.ctl.active = s.ctl.active
    BY <1>5 DEF SameThreads
  <2>4. StillKept(s, r, M, "none", new)
    BY <2>1, <2>2, <2>3, LedgerExtends
  <2>5. new \subseteq OfFolder(d, f) /\ new \subseteq WaitingIn(d)
    BY <1>3 DEF Extended, OfFolder, WaitingIn, AllIn
  <2> QED
    BY <1>4, <2>4, <2>5 DEF StillKept
<1>7. Known(d) = Known(s.db) \cup new
  BY <1>3 DEF Extended
<1>8. CASE u = r /\ (~s.ctl.active \/ d = s.db \/ ids = << >>)
  <2>1. /\ FewerCalls(s, r) /\ r.ctl.poll = s.ctl.poll /\ r.ctl.active = s.ctl.active
        /\ r.ctl.batches = s.ctl.batches
        /\ Awaited(r) => Awaited(s)
    BY <1>5, SameCalls DEF SameThreads, SamePlan, Awaited
  <2>2. ToSet(<< >>) = {}
    BY DEF ToSet
  <2>3. s.ctl.active => Known(r.db) \subseteq Known(s.db)
    BY <1>5, <1>6, <1>7, <1>8, <2>2
  <2>4. \A w \in PollSlots : ~s.ctl.active => ~Working(s.polls[w])
    BY PollFacts DEF Follows
  <2>5. AlikePolls(s, r)
    BY <1>5, <2>3, <2>4 DEF AlikePolls, Follows, Polled
  <2>6. Follows(r, "none")
    BY <2>1, <2>5, FollowsLike
  <2> QED
    BY <1>8, <2>6 DEF u
<1>9. ASSUME s.ctl.active, NEW q, Joining(s, q, d, f, ids), u = Dispatch(q)
      PROVE  Follows(u, "none")
  <2>1. /\ SameThreads(s, q) /\ Shaped(q) /\ q.db = d /\ Tracked(s, q, ToSet(ids), {})
    BY <1>9 DEF Joining
  <2>2. ToSet(ids) \subseteq Requests
    BY <1>4 DEF ToSet
  <2>3. s.polls \in [PollSlots -> PollThreads]
    BY DEF Follows, Polled
  <2>4. /\ q.polls \in [PollSlots -> PollThreads]
        /\ \A w \in PollSlots : /\ q.polls[w].run = s.polls[w].run /\ q.polls[w].quit = s.polls[w].quit
                                /\ q.polls[w].stop = s.polls[w].stop
        /\ \A w \in PollSlots : q.polls[w].tracked =
             IF w = s.ctl.poll /\ s.ctl.poll # NoSlot THEN (s.polls[w].tracked \cup ToSet(ids)) \ {}
             ELSE s.polls[w].tracked
    BY <2>1, <2>2, <2>3, TrackedAlike
  <2>5. ASSUME NEW w \in PollSlots, Working(q.polls[w]), ~q.polls[w].stop
        PROVE  Known(q.db) \subseteq q.polls[w].tracked
    <3>1. Working(s.polls[w]) /\ ~s.polls[w].stop
      BY <2>4, <2>5 DEF Working
    <3>2. w = s.ctl.poll /\ s.ctl.poll # NoSlot /\ Known(s.db) \subseteq s.polls[w].tracked
      BY <3>1, PollFacts DEF Follows, Polled
    <3> QED
      BY <1>6, <1>7, <1>9, <2>1, <2>4, <3>2
  <2>6. AlikePolls(s, q)
    BY <2>4, <2>5 DEF AlikePolls
  <2>7. /\ FewerCalls(s, q) /\ q.ctl.poll = s.ctl.poll /\ q.ctl.active = s.ctl.active
        /\ Awaited(q) => Awaited(s)
    BY <2>1, SameCalls DEF SameThreads, Awaited
  <2>8. Follows(q, "none")
    BY <1>9, <2>6, <2>7, FollowsLike
  <2> QED
    BY <1>9, <2>1, <2>7, <2>8, FollowsDispatch
<1> QED
  BY <1>1, <1>8, <1>9 DEF u

\* A deletion takes the tasks from the store and from what is tracked.
LEMMA FollowsRemoved ==
  ASSUME NEW s, Shaped(s), StoreFits(s.db), Follows(s, "none"), NEW S
  PROVE  Follows(Removed(s, S), "none")
<1> DEFINE R == Removable(s.db, S)
           gone == {t \in Known(s.db) : t.folder \in R}
           d == RemoveFolders(s.db, S)
           u == Removed(s, S)
<1>1. \/ R = {} /\ u = s
      \/ /\ R # {}
         /\ \E q : /\ Leaving(s, q, R, d, gone)
                   /\ u = IF s.ctl.active THEN Dispatch(q) ELSE q
  BY RemovingDoes
<1>2. R # {} => Known(d) = {t \in Known(s.db) : t.folder \notin R}
  BY RemovingFits DEF Reduced
<1>3. R # {} => Known(d) \cap gone = {} /\ Known(d) \subseteq Known(s.db)
  BY <1>2
<1> HIDE DEF R, gone, d, u
<1>4. ASSUME R # {}, NEW q, Leaving(s, q, R, d, gone)
      PROVE  /\ Follows(q, "none") /\ Shaped(q) /\ q.ctl.active = s.ctl.active
  <2>1. /\ SameThreads(s, q) /\ Shaped(q) /\ q.db = d /\ Tracked(s, q, {}, gone)
        /\ q.ctl.batches = Kept(Taken(s), R) \o Kept(Untaken(s), R)
    BY <1>4 DEF Leaving
  <2>2. s.polls \in [PollSlots -> PollThreads] /\ {} \subseteq Requests
    BY DEF Follows, Polled
  <2>3. /\ q.polls \in [PollSlots -> PollThreads]
        /\ \A w \in PollSlots : /\ q.polls[w].run = s.polls[w].run /\ q.polls[w].quit = s.polls[w].quit
                                /\ q.polls[w].stop = s.polls[w].stop
        /\ \A w \in PollSlots : q.polls[w].tracked =
             IF w = s.ctl.poll /\ s.ctl.poll # NoSlot THEN (s.polls[w].tracked \cup {}) \ gone
             ELSE s.polls[w].tracked
    BY <2>1, <2>2, TrackedAlike
  <2>4. ASSUME NEW w \in PollSlots, Working(q.polls[w]), ~q.polls[w].stop
        PROVE  Known(q.db) \subseteq q.polls[w].tracked
    <3>1. Working(s.polls[w]) /\ ~s.polls[w].stop
      BY <2>3, <2>4 DEF Working
    <3>2. Known(s.db) \subseteq s.polls[w].tracked
      BY <3>1 DEF Follows, Polled
    <3> QED
      BY <1>3, <1>4, <2>1, <2>3, <3>2
  <2>5. AlikePolls(s, q)
    BY <2>3, <2>4 DEF AlikePolls
  <2>6. /\ FewerCalls(s, q) /\ q.ctl.poll = s.ctl.poll /\ q.ctl.active = s.ctl.active
        /\ Awaited(q) => Awaited(s)
    BY <2>1, SameCalls DEF SameThreads, Awaited
  <2>7. q.ctl.batches # << >> => s.ctl.batches # << >>
    BY <2>1, KeptOfNone
  <2>8. Follows(q, "none")
    BY <2>5, <2>6, <2>7, FollowsLike
  <2> QED
    BY <2>1, <2>6, <2>8
<1>5. CASE R # {} /\ \E q : Leaving(s, q, R, d, gone) /\ u = IF s.ctl.active THEN Dispatch(q) ELSE q
  <2>1. PICK q : Leaving(s, q, R, d, gone) /\ u = IF s.ctl.active THEN Dispatch(q) ELSE q
    BY <1>5
  <2>2. Follows(q, "none") /\ Shaped(q) /\ q.ctl.active = s.ctl.active
    BY <1>4, <1>5, <2>1
  <2>3. s.ctl.active => Follows(Dispatch(q), "none")
    BY <2>2, FollowsDispatch
  <2> QED
    BY <2>1, <2>2, <2>3 DEF u
<1> QED
  BY <1>1, <1>5 DEF u

\* A new poll thread, when no other is alive or said to have ended.
LEMMA FollowsPoller ==
  ASSUME NEW q, Known(q.db) \subseteq Requests, q.ctl.active,
         q.polls \in [PollSlots -> PollThreads], \A w \in PollSlots : ~Alive(q.polls[w]),
         \A c \in ToSet(q.events) : c.kind # "pollFinished",
         UnusedPolls(q) # {}, NEW r, StartedPolling(q, r)
  PROVE  Follows(r, "none")
<1> DEFINE w == Min(UnusedPolls(q))
           t == [NoPoll EXCEPT !.run = "connecting", !.tracked = Known(q.db)]
<1>1. w \in PollSlots
  <2>1. UnusedPolls(q) \subseteq PollSlots
    BY DEF UnusedPolls, Unused
  <2>2. UnusedPolls(q) \in SUBSET Nat
    BY <2>1, EagerAssumption
  <2> QED
    BY <2>1, <2>2, MinFacts
<1>2. /\ t \in PollThreads /\ t.run = "connecting" /\ t.tracked = Known(q.db) /\ t.quit = FALSE
  BY DEF NoPoll, PollThreads
<1>3. /\ r.db = q.db /\ r.events = q.events /\ r.pubs = q.pubs /\ r.ctl.active = q.ctl.active
      /\ r.ctl.poll = w /\ r.polls = [q.polls EXCEPT ![w] = t]
  BY DEF StartedPolling, SameStore
<1> HIDE DEF w, t
<1>4. r.polls \in [PollSlots -> PollThreads] /\ \A v \in PollSlots : r.polls[v] = IF v = w THEN t ELSE q.polls[v]
  BY <1>1, <1>2, <1>3
<1>5. Polled(r)
  BY <1>1, <1>2, <1>3, <1>4 DEF Polled, Working, Alive
<1>6. Announced(r)
  <2>1. \A v \in PollSlots : Alive(r.polls[v]) => ~r.polls[v].quit
    BY <1>2, <1>4
  <2>2. \A i \in DOMAIN q.events : q.events[i].kind # "pollFinished"
    BY DEF ToSet
  <2> QED
    BY <1>3, <2>1, <2>2 DEF Announced, Unfollowed
<1> QED
  BY <1>3, <1>5, <1>6 DEF Follows

\* A start finds no thread and no call.
LEMMA FollowsStarted ==
  ASSUME NEW s, Shaped(s), StoreFits(s.db), Follows(s, "none"), ~s.ctl.active, s.events = << >>,
         UnusedPolls(s) # {}
  PROVE  Follows(Started(s), "none")
<1> DEFINE u == Started(s)
<1>1. \/ u = s
      \/ \E q, n : Fresh(s, q) /\ OpenedFrom(q, u, n)
      \/ \E q : Fresh(s, q) /\ StartedPolling(q, u)
  BY StartingDoes
<1> HIDE DEF u
<1>2. /\ s.polls \in [PollSlots -> PollThreads] /\ \A w \in PollSlots : ~Alive(s.polls[w])
  BY DEF Follows, Polled
<1>3. PollSlots # {}
  BY <1>2 DEF UnusedPolls, Unused
<1>4. ToSet(s.events) = {} /\ DOMAIN s.events = {}
  BY DEF ToSet
<1>5. CASE \E q, n : Fresh(s, q) /\ OpenedFrom(q, u, n)
  <2>1. PICK q, n : Fresh(s, q) /\ OpenedFrom(q, u, n)
    BY <1>5
  <2>2. u.polls = s.polls /\ u.events = s.events /\ u.ctl.active
    BY <2>1 DEF Fresh, OpenedFrom, SameStore
  <2>3. Polled(u)
    BY <1>2, <1>3, <2>2 DEF Polled, Working, Alive
  <2>4. Announced(u)
    BY <1>2, <1>4, <2>2 DEF Announced, Unfollowed
  <2> QED
    BY <2>2, <2>3, <2>4 DEF Follows, u
<1>6. CASE \E q : Fresh(s, q) /\ StartedPolling(q, u)
  <2>1. PICK q : Fresh(s, q) /\ StartedPolling(q, u)
    BY <1>6
  <2>2. /\ q.polls = s.polls /\ q.events = s.events /\ q.ctl.active /\ q.ctl.poll = s.ctl.poll
        /\ q.db = s.db
    BY <2>1 DEF Fresh, SameStore
  <2>3. UnusedPolls(q) = UnusedPolls(s)
    BY <2>2 DEF UnusedPolls, Unused
  <2>5. Known(q.db) \subseteq Requests
    BY <2>2 DEF StoreFits, StoreOK
  <2>6. /\ q.polls \in [PollSlots -> PollThreads] /\ \A w \in PollSlots : ~Alive(q.polls[w])
        /\ \A c \in ToSet(q.events) : c.kind # "pollFinished"
    BY <1>2, <1>4, <2>2
  <2> QED
    BY <2>1, <2>2, <2>3, <2>5, <2>6, FollowsPoller DEF u
<1> QED
  BY <1>1, <1>5, <1>6 DEF u

\* What a thread told to quit becomes.
LEMMA QuitFacts ==
  ASSUME NEW t \in PollThreads
  PROVE  /\ Quit(t) \in PollThreads
         /\ Alive(Quit(t)) => Alive(t)
         /\ t.run # "done" => Quit(t).run = t.run /\ Quit(t).stop = t.stop /\ Quit(t).tracked = t.tracked
         /\ t.run = "done" => Quit(t).run = "none"
         /\ Working(Quit(t)) => Quit(t).stop = t.stop
         /\ Alive(Quit(t)) => Quit(t).stop = t.stop
         /\ [t EXCEPT !.stop = TRUE] \in PollThreads
<1>1. CASE t.run = "done"
  <2>1. Quit(t) = NoPoll
    BY <1>1 DEF Quit
  <2>2. NoPoll \in PollThreads /\ NoPoll.run = "none" /\ [t EXCEPT !.stop = TRUE] \in PollThreads
    BY DEF NoPoll, PollThreads
  <2> QED
    BY <1>1, <2>1, <2>2 DEF Alive, Working
<1>2. CASE t.run # "done"
  <2>1. Quit(t) = [t EXCEPT !.quit = TRUE]
    BY <1>2 DEF Quit
  <2> QED
    BY <1>2, <2>1 DEF PollThreads, Alive, Working
<1> QED
  BY <1>1, <1>2

\* A stop: the poll thread is told to end, and no other will start.
LEMMA FollowsAsked ==
  ASSUME NEW s, Shaped(s), Threaded(s), Follows(s, "none"), ~Awaited(s), NEW k, k # "none"
  PROVE  Follows(StopAsked(s), k)
<1> DEFINE r == StopAsked(s)
           n == s.ctl.poll
<1>1. /\ SameStore(s, r) /\ r.ctl = s.ctl
      /\ r.pubs = [p \in DOMAIN s.pubs |-> IF p = s.ctl.pub
              THEN [s.pubs[p] EXCEPT !.stop = TRUE, !.quit = TRUE] ELSE s.pubs[p]]
      /\ r.polls = [w \in DOMAIN s.polls |-> IF w = n
              THEN Quit([s.polls[w] EXCEPT !.stop = TRUE]) ELSE s.polls[w]]
  BY StoppingDoes
<1> HIDE DEF r, n
<1>2. s.polls \in [PollSlots -> PollThreads]
  BY DEF Follows, Polled
<1>3. ASSUME NEW w \in PollSlots
      PROVE  /\ r.polls[w] \in PollThreads
             /\ Alive(r.polls[w]) => w = n /\ r.polls[w].stop
  <2>1. CASE w = n
    <3> DEFINE t == [s.polls[w] EXCEPT !.stop = TRUE]
    <3>1. t \in PollThreads /\ t.stop = TRUE
      BY <1>2, QuitFacts DEF PollThreads
    <3>2. r.polls[w] = Quit(t)
      BY <1>1, <1>2, <2>1
    <3> HIDE DEF t
    <3> QED
      <4>1. /\ Quit(t) \in PollThreads
            /\ Alive(Quit(t)) => Quit(t).stop = t.stop
        BY <3>1, QuitFacts
      <4> QED
        BY <2>1, <3>1, <3>2, <4>1
  <2>2. CASE w # n
    <3>1. r.polls[w] = s.polls[w]
      BY <1>1, <1>2, <2>2
    <3>2. ~Alive(s.polls[w])
      BY <2>2 DEF Follows, Polled, n
    <3> QED
      BY <1>2, <3>1, <3>2
  <2> QED
    BY <2>1, <2>2
<1>4. r.polls \in [PollSlots -> PollThreads]
  BY <1>1, <1>2, <1>3
<1>5. \A w \in PollSlots : Working(r.polls[w]) => Alive(r.polls[w])
  BY DEF Working, Alive
<1>6. Polled(r)
  BY <1>1, <1>3, <1>4, <1>5 DEF Polled, Follows, n
<1>7. ~Awaited(r)
  <2>1. \A p \in PubSlots : r.pubs[p].run = s.pubs[p].run
    BY <1>1 DEF Threaded, Threads
  <2> QED
    BY <1>1, <2>1 DEF Awaited, SameStore
<1> QED
  BY <1>3, <1>6, <1>7 DEF Follows, r

\* When the stop is over, no poll thread is left.
LEMMA FollowsStopped ==
  ASSUME NEW s, NEW h, h # "none", Follows(s, h), ~PollRunning(s),
         NEW r, r.polls = s.polls, r.pubs = s.pubs, r.events = s.events,
         r.ctl.batches = << >>, ~r.ctl.active
  PROVE  Follows(r, "none")
<1>1. \A w \in PollSlots : ~Alive(s.polls[w])
  BY PollFacts DEF Follows
<1>2. Polled(r)
  BY <1>1 DEF Polled, Follows, Working, Alive
<1>3. ~Awaited(r)
  BY DEF Follows, Awaited
<1> QED
  BY <1>1, <1>2, <1>3 DEF Follows

\* The calls behind the next one.
LEMMA CallsBehind ==
  ASSUME NEW s, s.events # << >>, CallsOK(s.events), NEW r, r.events = Tail(s.events)
  PROVE  /\ FewerCalls(s, r)
         /\ (r.pubs = s.pubs /\ Awaited(r)) => Awaited(s)
<1>1. /\ ToSet(s.events) = {Head(s.events)} \cup ToSet(Tail(s.events))
      /\ \A A, K : Unfollowed(s.events, A, K) => Unfollowed(Tail(s.events), A, K)
  BY FirstCall
<1> QED
  BY <1>1 DEF FewerCalls, Awaited

LEMMA FollowsTaken ==
  ASSUME NEW s, s.events # << >>, CallsOK(s.events), Follows(s, "none"),
         NEW q, q.db = s.db, q.pubs = s.pubs, q.polls = s.polls, q.ctl = s.ctl,
         q.events = Tail(s.events)
  PROVE  Follows(q, "none")
<1>1. FewerCalls(s, q) /\ (Awaited(q) => Awaited(s))
  BY CallsBehind
<1> QED
  BY <1>1, FollowsSame

\* The store moves on, and has no more tasks than before.
LEMMA FollowsStored ==
  ASSUME NEW s, Shaped(s), Follows(s, "none"), NEW d, Known(d) \subseteq Known(s.db)
  PROVE  Follows([s EXCEPT !.db = d], "none")
<1> DEFINE r == [s EXCEPT !.db = d]
<1>1. SameThreads(s, r) /\ SamePlan(s, r) /\ r.db = d /\ r.polls = s.polls
  BY Storing
<1> HIDE DEF r
<1>2. FewerCalls(s, r) /\ (Awaited(r) => Awaited(s))
  BY <1>1, SameCalls DEF SameThreads, Awaited
<1>3. /\ r.ctl.poll = s.ctl.poll /\ r.ctl.active = s.ctl.active /\ r.ctl.batches = s.ctl.batches
  BY <1>1 DEF SameThreads, SamePlan
<1>4. Follows(r, "none")
  BY <1>1, <1>2, <1>3, FollowsSame
<1> QED
  BY <1>4 DEF r

LEMMA FollowsReports ==
  ASSUME NEW s, Shaped(s), StoreFits(s.db), Follows(s, "none"), NEW t, NEW v \in Done
  PROVE  /\ Follows(OnPublished(s, t), "none") /\ Follows(OnFailed(s, t), "none")
         /\ Follows(OnResult(s, t, v), "none")
<1>1. /\ Moved(s.db, MarkSent(s.db, t)) /\ Moved(s.db, MarkError(s.db, t))
      /\ Moved(s.db, ApplyResult(s.db, t, v))
  BY Marking
<1>2. /\ Known(MarkSent(s.db, t)) \subseteq Known(s.db)
      /\ Known(MarkError(s.db, t)) \subseteq Known(s.db)
      /\ Known(ApplyResult(s.db, t, v)) \subseteq Known(s.db)
  BY <1>1 DEF Moved
<1>3. /\ Follows([s EXCEPT !.db = MarkSent(s.db, t)], "none")
      /\ Follows([s EXCEPT !.db = MarkError(s.db, t)], "none")
      /\ Follows([s EXCEPT !.db = ApplyResult(s.db, t, v)], "none")
  BY <1>2, FollowsStored
<1>4. /\ OnPublished(s, t) = [s EXCEPT !.db = MarkSent(s.db, t)]
      /\ OnFailed(s, t) = [s EXCEPT !.db = MarkError(s.db, t)]
      /\ OnResult(s, t, v) = [s EXCEPT !.db = ApplyResult(s.db, t, v)]
  BY Zenon DEF OnPublished, OnFailed, OnResult
<1> QED
  BY <1>3, <1>4

\* The poll thread is told to end.
LEMMA StopPollingDoes ==
  ASSUME NEW s, Shaped(s)
  PROVE  StopPolling(s).polls = IF s.ctl.poll = NoSlot THEN s.polls
                                ELSE [s.polls EXCEPT ![s.ctl.poll].stop = TRUE]
<1> DEFINE qs == [s.polls EXCEPT ![s.ctl.poll].stop = TRUE]
<1>1. StopPolling(s) = IF s.ctl.poll = NoSlot THEN s ELSE [s EXCEPT !.polls = qs]
  BY Zenon DEF StopPolling, Shaped, HasFields
<1> HIDE DEF qs
<1>2. StopPolling(s).polls = IF s.ctl.poll = NoSlot THEN s.polls ELSE qs
  BY <1>1 DEF Shaped, HasFields
<1> QED
  BY <1>2 DEF qs

LEMMA StoppedAlike ==
  ASSUME NEW s, Shaped(s), NEW h, Follows(s, h), NEW r, r.db = s.db,
         r.polls = s.polls \/ r.polls = StopPolling(s).polls
  PROVE  AlikePolls(s, r)
<1>1. s.polls \in [PollSlots -> PollThreads]
  BY DEF Follows, Polled
<1>2. CASE r.polls = s.polls
  BY <1>1, <1>2 DEF AlikePolls, Follows, Polled
<1>3. CASE r.polls # s.polls
  <2>1. r.polls = [s.polls EXCEPT ![s.ctl.poll].stop = TRUE]
    BY <1>3, StopPollingDoes
  <2> DEFINE k == s.ctl.poll
  <2> HIDE DEF k
  <2>2. r.polls = [s.polls EXCEPT ![k].stop = TRUE]
    BY <2>1 DEF k
  <2>3. \A w \in PollSlots : r.polls[w] = IF w = k THEN [s.polls[w] EXCEPT !.stop = TRUE] ELSE s.polls[w]
    BY <1>1, <2>2
  <2>4. ASSUME NEW w \in PollSlots
        PROVE  /\ r.polls[w] \in PollThreads
               /\ r.polls[w].run = s.polls[w].run /\ r.polls[w].quit = s.polls[w].quit
               /\ s.polls[w].stop => r.polls[w].stop
               /\ r.polls[w].tracked = s.polls[w].tracked
    BY <1>1, <2>3 DEF PollThreads
  <2>5. r.polls \in [PollSlots -> PollThreads]
    BY <1>1, <2>2, <2>4
  <2>6. ASSUME NEW w \in PollSlots, Working(r.polls[w]), ~r.polls[w].stop
        PROVE  Known(r.db) \subseteq r.polls[w].tracked
    BY <2>4, <2>6 DEF Follows, Polled, Working
  <2> QED
    BY <2>4, <2>5, <2>6 DEF AlikePolls
<1> QED
  BY <1>2, <1>3

LEMMA FollowsStopping ==
  ASSUME NEW s, Shaped(s), Follows(s, "none")
  PROVE  Follows(StopPolling(s), "none")
<1> DEFINE r == StopPolling(s)
<1>1. SamePublishing(s, r) /\ SameStore(s, r) /\ r.ctl = s.ctl
  BY PollingRoutines
<1> HIDE DEF r
<1>2. AlikePolls(s, r)
  BY <1>1, StoppedAlike DEF SameStore, r
<1>3. FewerCalls(s, r) /\ (Awaited(r) => Awaited(s))
  BY <1>1, SameCalls DEF SamePublishing, Awaited
<1>4. Follows(r, "none")
  BY <1>1, <1>2, <1>3, FollowsLike
<1> QED
  BY <1>4 DEF r

\* A poll cycle, in a run or after one that was stopped.
LEMMA FollowsCycle ==
  ASSUME NEW s, Shaped(s), StoreFits(s.db), Follows(s, "none"),
         s.ctl.active \/ s.ctl.batches = << >>, NEW T
  PROVE  Follows(OnPollCycle(s, T), "none")
<1>1. PICK q, a :
           /\ SameThreads(s, q) /\ SamePlan(s, q) /\ Shaped(q) /\ q.polls = s.polls
           /\ q.db = MarkRunning(s.db)
           /\ a = [Dispatch(q) EXCEPT !.db = MarkTimeouts(Dispatch(q).db, T)]
           /\ OnPollCycle(s, T) \in {a, StopPolling(a)}
  BY CycleDoes
<1>2. StoreFits(q.db) /\ Moved(s.db, q.db)
  BY <1>1, Marking DEF Done
<1>3. Follows(q, "none")
  <2>1. FewerCalls(s, q) /\ (Awaited(q) => Awaited(s))
    BY <1>1, SameCalls DEF SameThreads, Awaited
  <2>2. /\ q.ctl.poll = s.ctl.poll /\ q.ctl.active = s.ctl.active /\ q.ctl.batches = s.ctl.batches
        /\ q.polls = s.polls
    BY <1>1 DEF SameThreads, SamePlan
  <2>3. Known(q.db) \subseteq Known(s.db)
    BY <1>2 DEF Moved
  <2> QED
    BY <2>1, <2>2, <2>3, FollowsSame
<1>4. Follows(Dispatch(q), "none")
  <2>1. q.ctl.active \/ q.ctl.batches = << >>
    BY <1>1 DEF SameThreads, SamePlan
  <2> QED
    BY <1>1, <1>3, <2>1, FollowsDispatch
<1> DEFINE r == Dispatch(q)
<1>5. Shaped(r) /\ r.db = q.db
  BY <1>1, DispatchKeeps DEF SameStore
<1> HIDE DEF r
<1>6. Known(MarkTimeouts(r.db, T)) \subseteq Known(r.db)
  <2>1. "ERROR" \in Done
    BY DEF Done
  <2>2. Moved(r.db, MarkTimeouts(r.db, T))
    BY <1>2, <1>5, <2>1, Marking
  <2> QED
    BY <2>2 DEF Moved
<1>7. a = [r EXCEPT !.db = MarkTimeouts(r.db, T)] /\ Follows(r, "none")
  BY <1>1, <1>4 DEF r
<1>8. Follows(a, "none")
  BY <1>5, <1>6, <1>7, FollowsStored
<1>9. Shaped(a)
  BY <1>5, <1>7, Storing
<1>10. Follows(StopPolling(a), "none")
  BY <1>8, <1>9, FollowsStopping
<1> QED
  BY <1>1, <1>8, <1>10

\* The announcement of the result queue: a poll thread starts unless one is alive.
LEMMA FollowsReady ==
  ASSUME NEW s, Shaped(s), StoreFits(s.db), Follows(s, "none"), s.ctl.active
  PROVE  Follows(OnQueueReady(s), "none")
<1>1. CASE PollRunning(s)
  <2>1. OnQueueReady(s) = s
    BY <1>1 DEF OnQueueReady, PollChecked
  <2> QED
    BY <2>1
<1>2. CASE ~PollRunning(s)
  <2> DEFINE c == [s.ctl EXCEPT !.poll = NoSlot]
             q == [s EXCEPT !.ctl = c]
  <2>1. PollChecked(s) = q
    BY <1>2, Zenon DEF PollChecked
  <2>2. /\ DOMAIN c = CtlFields /\ c.batches = s.ctl.batches /\ c.next = s.ctl.next
        /\ c.active = s.ctl.active /\ c.poll = NoSlot
    BY CtlNames DEF Shaped
  <2> HIDE DEF c
  <2>3. /\ HasFields(q) /\ q.ctl = c /\ q.db = s.db /\ q.events = s.events /\ q.polls = s.polls
        /\ q.pubs = s.pubs
    BY DEF Shaped, HasFields
  <2> HIDE DEF q
  <2>4. Shaped(q)
    BY <2>2, <2>3 DEF Shaped
  <2>5. ~PollRunning(q)
    BY <2>2, <2>3 DEF PollRunning
  <2>6. OnQueueReady(s) = StartPoller(q)
    BY <2>1, <2>5 DEF OnQueueReady
  <2>7. StartedPolling(q, StartPoller(q))
    BY <2>4, PollerStarts
  <2>8. /\ s.polls \in [PollSlots -> PollThreads] /\ PollSlots # {}
        /\ \A w \in PollSlots : ~Alive(s.polls[w])
    BY <1>2, PollFacts DEF Follows, Polled
  <2>9. \A e \in ToSet(s.events) : e.kind # "pollFinished"
    BY <2>8 DEF Follows, Announced, Alive
  <2>10. UnusedPolls(q) # {}
    <3>1. PICK w \in PollSlots : TRUE
      BY <2>8
    <3>2. w # NoSlot
      BY EagerAssumption DEF NoSlot
    <3>3. w \in UnusedPolls(q)
      BY <2>2, <2>3, <2>8, <2>9, <3>2 DEF UnusedPolls, Unused, ToSet
    <3> QED
      BY <3>3
  <2>11. Known(q.db) \subseteq Requests /\ q.ctl.active
    BY <2>2, <2>3 DEF StoreFits, StoreOK
  <2>12. /\ q.polls \in [PollSlots -> PollThreads] /\ \A w \in PollSlots : ~Alive(q.polls[w])
         /\ \A e \in ToSet(q.events) : e.kind # "pollFinished"
    BY <2>3, <2>8, <2>9
  <2> QED
    BY <2>6, <2>7, <2>10, <2>11, <2>12, FollowsPoller
<1> QED
  BY <1>1, <1>2

\* While a result queue is to be announced, the run is still publishing.
LEMMA AwaitedUnfinished ==
  ASSUME NEW s, Threaded(s), Wired(s), Awaited(s)
  PROVE  ~s.ctl.finished
<1>1. CASE \E p \in PubSlots : s.pubs[p].run = "connecting"
  <2>1. PICK p \in PubSlots : s.pubs[p].run = "connecting"
    BY <1>1
  <2>2. Live(s.pubs[p]) /\ Alive(s.pubs[p])
    BY <2>1 DEF Live, Alive
  <2>3. Busy(s)
    BY <2>2 DEF Busy, Threaded, Wired
  <2> QED
    BY <2>3 DEF Wired
<1>2. CASE \E c \in ToSet(s.events) : c.kind = "queueReady"
  BY <1>2 DEF Wired, AtWork
<1> QED
  BY <1>1, <1>2 DEF Awaited

\* The end of a poll thread is taken: by then it is gone, and it was the last call of its.
LEMMA FollowsPollEnd ==
  ASSUME NEW s, Shaped(s), ThreadsFit(s, "none"), Follows(s, "none"), s.events # << >>,
         Head(s.events).kind = "pollFinished",
         NEW q, Shaped(q), q.db = s.db, q.pubs = s.pubs, q.polls = s.polls, q.ctl = s.ctl,
         q.events = Tail(s.events)
  PROVE  Follows(OnPollFinished(q, Head(s.events).of), "none")
<1> DEFINE k == Head(s.events).of
           r == OnPollFinished(q, k)
           qs == [q.polls EXCEPT ![k] = Quit(@)]
<1>1. /\ SameStore(q, r) /\ SamePublishing(q, r)
      /\ r.ctl.active = (q.ctl.active /\ ~q.ctl.finished)
      /\ r.ctl.poll = NoSlot /\ r.polls = qs
  <2>1. PollFinishes(q, OnPollFinished(q, k), k)
    BY FinishRoutines
  <2> QED
    BY <2>1, Zenon DEF PollFinishes
<1> HIDE DEF r
<1>2. CallsOK(s.events) /\ s.polls \in [PollSlots -> PollThreads]
  BY DEF ThreadsFit, Threaded, Follows, Polled
<1>3. /\ ToSet(s.events) = {Head(s.events)} \cup ToSet(Tail(s.events))
      /\ \A A, K : Unfollowed(s.events, A, K) =>
           /\ Unfollowed(Tail(s.events), A, K)
           /\ Head(s.events).kind \in A => \A c \in ToSet(Tail(s.events)) : c.kind \notin K
  BY <1>2, FirstCall
<1>4. r.events = Tail(s.events) /\ r.pubs = s.pubs /\ r.db = s.db /\ r.ctl.batches = s.ctl.batches
  BY <1>1 DEF SameStore, SamePublishing
<1>5. ASSUME NEW w \in PollSlots
      PROVE  /\ qs[w] \in PollThreads
             /\ qs[w] = IF w = k THEN Quit(s.polls[w]) ELSE s.polls[w]
  <2>1. qs[w] = IF w = k THEN Quit(s.polls[w]) ELSE s.polls[w]
    BY <1>2
  <2> QED
    BY <1>2, <2>1, QuitFacts
<1>6. qs \in [PollSlots -> PollThreads]
  BY <1>2, <1>5
<1>7. s.ctl.active => k = s.ctl.poll /\ k \in PollSlots /\ s.polls[k].run = "done"
  <2>1. s.ctl.active => Announced(s)
    BY DEF Follows
  <2> QED
    BY <1>3, <2>1 DEF Announced
<1> HIDE DEF k, qs
<1>8. ASSUME NEW w \in PollSlots PROVE ~Alive(r.polls[w])
  <2>1. CASE s.ctl.active /\ w = k
    <3>1. Quit(s.polls[w]).run = "none"
      BY <1>2, <1>7, <2>1, QuitFacts
    <3> QED
      BY <1>1, <1>5, <2>1, <3>1 DEF Alive
  <2>2. CASE s.ctl.active /\ w # k
    <3>1. ~Alive(s.polls[w])
      BY <1>7, <2>2 DEF Follows, Polled
    <3> QED
      BY <1>1, <1>5, <2>2, <3>1
  <2>3. CASE ~s.ctl.active
    <3>1. ~Alive(s.polls[w])
      BY <2>3 DEF Follows
    <3>2. ~Alive(Quit(s.polls[w]))
      BY <1>2, <3>1, QuitFacts
    <3> QED
      BY <1>1, <1>5, <3>1, <3>2
  <2> QED
    BY <2>1, <2>2, <2>3
<1>9. Polled(r)
  <2>1. r.ctl.active => PollSlots # {}
    BY <1>1 DEF Follows, Polled
  <2> QED
    BY <1>1, <1>6, <1>8, <2>1 DEF Polled, Working, Alive
<1>10. Awaited(r) => r.ctl.active
  <2>1. Awaited(r) => Awaited(s)
    BY <1>3, <1>4 DEF Awaited
  <2>2. Awaited(s) => s.ctl.active /\ Wired(s) /\ Threaded(s)
    BY DEF Follows, ThreadsFit, InRun
  <2>3. Awaited(s) => ~s.ctl.finished
    BY <2>2, AwaitedUnfinished
  <2> QED
    BY <1>1, <2>1, <2>2, <2>3
<1>11. r.ctl.active => Announced(r)
  <2>1. ASSUME r.ctl.active PROVE Announced(r)
    <3>1. Announced(s)
      BY <1>1, <2>1 DEF Follows
    <3>2. /\ Unfollowed(r.events, {"pollFinished"}, {"pollFinished", "pollCycle"})
          /\ \A c \in ToSet(r.events) : c.kind # "pollFinished"
      BY <1>3, <1>4, <3>1 DEF Announced
    <3> QED
      BY <1>8, <3>2 DEF Announced
  <2> QED
    BY <2>1
<1>12. ~r.ctl.active /\ r.ctl.batches # << >> => \A c \in ToSet(r.events) : c.kind # "pollCycle"
  <2>1. ASSUME ~r.ctl.active, r.ctl.batches # << >>, NEW c \in ToSet(r.events)
        PROVE  c.kind # "pollCycle"
    <3>1. CASE s.ctl.active
      <4>1. Announced(s)
        BY <3>1 DEF Follows
      <4> QED
        BY <1>3, <1>4, <4>1 DEF Announced
    <3>2. CASE ~s.ctl.active
      BY <1>3, <1>4, <2>1, <3>2 DEF Follows
    <3> QED
      BY <3>1, <3>2
  <2> QED
    BY <2>1
<1> QED
  BY <1>8, <1>9, <1>10, <1>11, <1>12 DEF Follows, r, k

\* The end of a publisher, and of its thread.
LEMMA FollowsPubEnd ==
  ASSUME NEW q, Shaped(q), Threaded(q), Follows(q, "none"), NEW p, NEW known
  PROVE  /\ Follows(OnPubFinished(q, p, known), "none")
         /\ Follows(OnPubThreadFinished(q, p), "none")
<1> DEFINE r == OnPubFinished(q, p, known)
           e == OnPubThreadFinished(q, p)
<1>1. /\ SameStore(q, r) /\ r.ctl.batches = q.ctl.batches /\ r.ctl.active = q.ctl.active
      /\ r.ctl.poll = q.ctl.poll /\ r.pubs = [q.pubs EXCEPT ![p].quit = TRUE]
      /\ r.polls = q.polls \/ r.polls = StopPolling(q).polls
  <2>1. PubFinishes(q, OnPubFinished(q, p, known), p, known)
    BY FinishRoutines
  <2> QED
    BY <2>1 DEF PubFinishes
<1>2. /\ SameStore(q, e) /\ e.ctl.batches = q.ctl.batches /\ e.ctl.active = q.ctl.active
      /\ e.ctl.poll = q.ctl.poll /\ e.pubs = [q.pubs EXCEPT ![p] = NoThread] /\ e.polls = q.polls
  <2>1. PubThreadFinishes(q, OnPubThreadFinished(q, p), p)
    BY FinishRoutines
  <2> QED
    BY <2>1 DEF PubThreadFinishes
<1> HIDE DEF r, e
<1>3. q.pubs \in [PubSlots -> Threads]
  BY DEF Threaded
<1>4. \A n \in PubSlots : r.pubs[n].run = q.pubs[n].run
  <2> DEFINE ps == q.pubs
  <2>1. r.pubs = [ps EXCEPT ![p].quit = TRUE] /\ ps \in [PubSlots -> Threads]
    BY <1>1, <1>3
  <2> HIDE DEF ps
  <2>2. \A n \in PubSlots : r.pubs[n] = IF n = p THEN [ps[n] EXCEPT !.quit = TRUE] ELSE ps[n]
    BY <2>1
  <2>3. \A n \in PubSlots : r.pubs[n].run = ps[n].run
    BY <2>1, <2>2 DEF Threads
  <2> QED
    BY <2>3 DEF ps
<1>5. \A n \in PubSlots : e.pubs[n].run = "connecting" => q.pubs[n].run = "connecting"
  <2>1. NoThread.run = "none"
    BY DEF NoThread
  <2>2. \A n \in PubSlots : e.pubs[n] = IF n = p THEN NoThread ELSE q.pubs[n]
    BY <1>2, <1>3
  <2> QED
    BY <2>1, <2>2
<1>6. /\ r.db = q.db /\ r.events = q.events /\ e.db = q.db /\ e.events = q.events
  BY <1>1, <1>2 DEF SameStore
<1>7. (Awaited(r) => Awaited(q)) /\ (Awaited(e) => Awaited(q))
  BY <1>4, <1>5, <1>6 DEF Awaited
<1>8. FewerCalls(q, r) /\ FewerCalls(q, e)
  BY <1>6, SameCalls
<1>9. AlikePolls(q, r)
  BY <1>1, <1>6, StoppedAlike
<1>10. Follows(r, "none")
  BY <1>1, <1>7, <1>8, <1>9, FollowsLike
<1>11. Follows(e, "none")
  BY <1>2, <1>6, <1>7, <1>8, FollowsSame
<1> QED
  BY <1>10, <1>11 DEF r, e

\* What is said of the threads and the calls depends on nothing else.
LEMMA FollowsBecome ==
  ASSUME NEW r, NEW h, Follows(r, h), Become(r), halt' = h
  PROVE  Follows(Situation', halt')
<1> DEFINE u == Situation'
<1>1. u.db = r.db /\ u.ctl = r.ctl /\ u.pubs = r.pubs /\ u.polls = r.polls /\ u.events = r.events
  BY Afterwards DEF Become
<1> HIDE DEF u
<1>2. FewerCalls(r, u) /\ (Awaited(u) => Awaited(r))
  BY <1>1, SameCalls DEF Awaited
<1>3. Follows(u, h)
  BY <1>1, <1>2, FollowsSame
<1> QED
  BY <1>3 DEF u

\* A call that says nothing of a poll thread.
LEMMA FollowsTold ==
  ASSUME NEW s, CallsOK(s.events), NEW h, Follows(s, h),
         NEW r, r.db = s.db, r.ctl = s.ctl, r.polls = s.polls,
         NEW c, c.kind \notin {"pollFinished", "pollCycle"},
         r.events = s.events \o <<c>> \/ r.events = s.events,
         Awaited(r) => Awaited(s)
  PROVE  Follows(r, h)
<1>1. CASE r.events = s.events
  BY <1>1, SameCalls, FollowsSame
<1>2. CASE r.events = s.events \o <<c>>
  <2>1. /\ ToSet(r.events) = ToSet(s.events) \cup {c}
        /\ Unfollowed(s.events, {"pollFinished"}, {"pollFinished", "pollCycle"}) =>
             Unfollowed(r.events, {"pollFinished"}, {"pollFinished", "pollCycle"})
    BY <1>2, LastCall
  <2>2. Polled(r)
    BY DEF Follows, Polled
  <2>3. Announced(s) => Announced(r)
    BY <2>1 DEF Announced
  <2> QED
    BY <2>1, <2>2, <2>3 DEF Follows
<1> QED
  BY <1>1, <1>2

\* The steps of the publishing threads.
LEMMA FollowsPubSteps ==
  ASSUME LedgerInv, Follows(Situation, halt), NEW p \in PubSlots, PubRuns(p)
  PROVE  Follows(Situation', halt')
<1> DEFINE s == Situation
           r == Situation'
           at(run) == PubAt(p, run)
<1>1. /\ s.ctl = ctl /\ s.pubs = pubs /\ s.events = events /\ s.db = db /\ s.polls = polls
      /\ r.ctl = ctl' /\ r.pubs = pubs' /\ r.events = events' /\ r.db = db' /\ r.polls = polls'
  BY Afterwards
<1>2. CallsOK(s.events) /\ pubs \in [PubSlots -> Threads]
  BY <1>1 DEF LedgerInv, ThreadsInv, ThreadsFit, Threaded
<1> HIDE DEF s, r
<1>3. ASSUME NEW thread, thread.run # "connecting", NEW c, NEW calls \in {<<c>>, << >>},
             PubStep(p, thread, calls),
             c.kind \notin {"pollFinished", "pollCycle"},
             c.kind = "queueReady" => pubs[p].run = "connecting"
      PROVE  Follows(r, halt')
  <2>1. /\ r.db = s.db /\ r.ctl = s.ctl /\ r.polls = s.polls /\ halt' = halt
        /\ r.pubs = [pubs EXCEPT ![p] = thread] /\ r.events = s.events \o calls
    BY <1>1, <1>3 DEF PubStep
  <2>2. r.events = s.events \o <<c>> \/ r.events = s.events
    BY <1>1, <1>2, <1>3, <2>1, PostedNone
  <2>3. ToSet(r.events) \subseteq ToSet(s.events) \cup {c}
    <3>1. ToSet(s.events \o <<c>>) = ToSet(s.events) \cup {c}
      BY <1>2, LastCall
    <3> QED
      BY <2>2, <3>1
  <2>4. \A n \in PubSlots : r.pubs[n].run = "connecting" => pubs[n].run = "connecting"
    BY <1>2, <1>3, <2>1
  <2>5. Awaited(r) => Awaited(s)
    BY <1>1, <1>3, <2>3, <2>4 DEF Awaited
  <2>6. Follows(s, halt)
    BY DEF s
  <2> QED
    BY <1>2, <1>3, <2>1, <2>2, <2>5, <2>6, FollowsTold
<1>4. pubs[p] \in Threads
  BY <1>2
<1>5. /\ \A run \in PubStates : at(run).run = run
      /\ [at("sending") EXCEPT !.todo = Tail(@)].run = "sending"
  BY <1>4 DEF PubAt, PubStates, Threads
<1>6. {"sending", "sent", "done", "exited"} \subseteq PubStates
  BY DEF PubStates
<1> DEFINE told == [at("sending") EXCEPT !.todo = Tail(@)]
<1>7. /\ at("sending").run = "sending" /\ at("sent").run = "sent" /\ at("done").run = "done"
      /\ at("exited").run = "exited" /\ told.run = "sending"
  BY <1>5, <1>6
<1>8. \A kind, of : Call(kind, of).kind = kind
  BY DEF Call
<1>9. \E run, kind, of :
        /\ run \in {"sending", "sent", "done", "exited"}
        /\ \/ PubStep(p, at(run), <<Call(kind, of)>>) \/ PubStep(p, at(run), << >>)
           \/ PubStep(p, told, <<Call(kind, of)>>)
        /\ kind \in {"queueReady", "published", "failed", "pubFinished", "pubThreadFinished"}
        /\ kind = "queueReady" => pubs[p].run = "connecting"
  <2>1. CASE PubConnect(p)
    BY <2>1 DEF PubConnect
  <2>2. CASE PubSend(p)
    BY <2>2 DEF PubSend
  <2>3. CASE PubReport(p)
    <3>1. \E kind \in {"published", "failed"} : PubStep(p, told, <<Call(kind, Head(pubs[p].todo))>>)
      BY <2>3 DEF PubReport
    <3> QED
      BY <3>1
  <2>4. CASE PubEnd(p)
    BY <2>4 DEF PubEnd
  <2>5. CASE PubExit(p)
    BY <2>5 DEF PubExit
  <2> QED
    BY <2>1, <2>2, <2>3, <2>4, <2>5 DEF PubRuns
<1> HIDE DEF at, told
<1> QED
  <2>1. PICK run, kind, of :
        /\ run \in {"sending", "sent", "done", "exited"}
        /\ \/ PubStep(p, at(run), <<Call(kind, of)>>) \/ PubStep(p, at(run), << >>)
           \/ PubStep(p, told, <<Call(kind, of)>>)
        /\ kind \in {"queueReady", "published", "failed", "pubFinished", "pubThreadFinished"}
        /\ kind = "queueReady" => pubs[p].run = "connecting"
    BY <1>9
  <2>2. at(run).run # "connecting" /\ told.run # "connecting"
    BY <1>7, <2>1
  <2> DEFINE c == Call(kind, of)
  <2>3. c.kind = kind
    BY <1>8
  <2>4. PubStep(p, at(run), <<c>>) \/ PubStep(p, at(run), << >>) \/ PubStep(p, told, <<c>>)
    BY <2>1
  <2> HIDE DEF c
  <2>5. /\ c.kind \notin {"pollFinished", "pollCycle"}
        /\ c.kind = "queueReady" => pubs[p].run = "connecting"
    BY <2>1, <2>3
  <2>6. Follows(r, halt')
    BY <1>3, <2>2, <2>4, <2>5
  <2> QED
    BY <2>6 DEF r

\* What becomes of a poll thread that goes on or ends.
Onward(x, run) == LET t == [x EXCEPT !.run = run] IN IF t.quit THEN Quit(t) ELSE t

LEMMA PollGoesOn ==
  ASSUME NEW x \in PollThreads, NEW run \in {"consuming", "done"}, NEW y, y = Onward(x, run)
  PROVE  /\ y \in PollThreads
         /\ Alive(y) => y.stop = x.stop
         /\ Working(y) => y.tracked = x.tracked /\ y.stop = x.stop
         /\ ~x.quit => y.run = run /\ ~y.quit
<1> DEFINE t == [x EXCEPT !.run = run]
<1>1. t \in PollThreads /\ t.run = run /\ t.stop = x.stop /\ t.tracked = x.tracked /\ t.quit = x.quit
  BY DEF PollThreads
<1>2. y = IF t.quit THEN Quit(t) ELSE t
  BY DEF Onward
<1> HIDE DEF t
<1>3. CASE t.quit
  <2>1. y = Quit(t)
    BY <1>2, <1>3
  <2>2. /\ Quit(t) \in PollThreads
        /\ Alive(Quit(t)) => Quit(t).stop = t.stop
        /\ t.run # "done" => Quit(t).tracked = t.tracked
        /\ t.run = "done" => Quit(t).run = "none"
    BY <1>1, QuitFacts
  <2>3. Working(Quit(t)) => Alive(Quit(t)) /\ t.run # "done"
    BY <2>2 DEF Working, Alive
  <2> QED
    BY <1>1, <1>3, <2>1, <2>2, <2>3
<1>4. CASE ~t.quit
  BY <1>1, <1>2, <1>4
<1> QED
  BY <1>3, <1>4

\* It goes on or ends, with at most one call.
PollMoves(s, r, w, run, c) ==
  /\ Working(s.polls[w]) /\ run \in {"consuming", "done"}
  /\ r.db = s.db /\ r.ctl = s.ctl /\ r.pubs = s.pubs
  /\ r.polls = [s.polls EXCEPT ![w] = Onward(@, run)]
  /\ c.kind # "queueReady"
  /\ c.kind = "pollFinished" => run = "done" /\ c.of = w
  /\ r.events = s.events \o <<c>> \/ r.events = s.events

LEMMA FollowsPollStep ==
  ASSUME NEW s, CallsOK(s.events), NEW h, Follows(s, h), NEW w \in PollSlots,
         NEW r, NEW run, NEW c, PollMoves(s, r, w, run, c)
  PROVE  Follows(r, h)
<1>0. /\ Working(s.polls[w]) /\ run \in {"consuming", "done"}
      /\ r.db = s.db /\ r.ctl = s.ctl /\ r.pubs = s.pubs
      /\ r.polls = [s.polls EXCEPT ![w] = Onward(@, run)]
      /\ c.kind # "queueReady"
      /\ c.kind = "pollFinished" => run = "done" /\ c.of = w
      /\ r.events = s.events \o <<c>> \/ r.events = s.events
  BY DEF PollMoves
<1>1. s.polls \in [PollSlots -> PollThreads] /\ s.polls[w] \in PollThreads
  BY DEF Follows, Polled
<1> DEFINE y == Onward(s.polls[w], run)
<1>2. /\ y \in PollThreads
      /\ Alive(y) => y.stop = s.polls[w].stop
      /\ Working(y) => y.tracked = s.polls[w].tracked /\ y.stop = s.polls[w].stop
      /\ ~s.polls[w].quit => y.run = run /\ ~y.quit
  BY <1>0, <1>1, PollGoesOn
<1>3. r.polls = [s.polls EXCEPT ![w] = y]
  BY <1>0
<1> HIDE DEF y
<1>4. /\ r.polls \in [PollSlots -> PollThreads]
      /\ \A n \in PollSlots : r.polls[n] = IF n = w THEN y ELSE s.polls[n]
  BY <1>1, <1>2, <1>3
<1>5. w = s.ctl.poll /\ Alive(s.polls[w])
  BY <1>0, PollFacts DEF Follows
<1>6. Polled(r)
  <2>1. \A n \in PollSlots : Alive(r.polls[n]) => r.ctl.poll = n
    BY <1>0, <1>4, <1>5 DEF Follows, Polled
  <2>2. \A n \in PollSlots : Working(r.polls[n]) /\ ~r.polls[n].stop =>
          Known(r.db) \subseteq r.polls[n].tracked
    BY <1>0, <1>2, <1>4 DEF Follows, Polled
  <2> QED
    BY <1>0, <1>4, <2>1, <2>2 DEF Follows, Polled
<1>7. /\ ToSet(r.events) \subseteq ToSet(s.events) \cup {c}
      /\ (\A x \in ToSet(s.events) : x.kind # "pollFinished") =>
           (Unfollowed(s.events, {"pollFinished"}, {"pollFinished", "pollCycle"}) =>
              Unfollowed(r.events, {"pollFinished"}, {"pollFinished", "pollCycle"}))
  <2>1. CASE r.events = s.events
    BY <2>1
  <2>2. CASE r.events = s.events \o <<c>>
    <3>1. /\ ToSet(s.events \o <<c>>) = ToSet(s.events) \cup {c}
          /\ \A A, K : (/\ Unfollowed(s.events, A, K)
                        /\ c.kind \in K => \A x \in ToSet(s.events) : x.kind \notin A)
                       => Unfollowed(s.events \o <<c>>, A, K)
      BY LastCall
    <3> QED
      BY <2>2, <3>1
  <2> QED
    BY <1>0, <2>1, <2>2
<1>8. Awaited(r) => Awaited(s)
  BY <1>0, <1>7 DEF Awaited
<1>9. h # "none" => \A n \in PollSlots : Alive(r.polls[n]) => r.polls[n].stop
  BY <1>2, <1>4, <1>5 DEF Follows
<1>10. h = "none" => s.ctl.active
  BY <1>5 DEF Follows
<1>11. h = "none" => Announced(r)
  <2>1. ASSUME h = "none" PROVE Announced(r)
    <3>1. Announced(s)
      BY <1>10, <2>1 DEF Follows
    <3>2. \A x \in ToSet(s.events) : x.kind # "pollFinished"
      BY <1>0, <1>5, <3>1 DEF Announced, Working
    <3>3. ~s.polls[w].quit
      BY <1>5, <3>1 DEF Announced
    <3>4. Unfollowed(r.events, {"pollFinished"}, {"pollFinished", "pollCycle"})
      BY <1>7, <3>1, <3>2 DEF Announced
    <3>5. \A n \in PollSlots : Alive(r.polls[n]) => ~r.polls[n].quit
      BY <1>2, <1>4, <3>1, <3>3 DEF Announced
    <3>6. \A x \in ToSet(r.events) : x.kind = "pollFinished" =>
            x.of = r.ctl.poll /\ x.of \in PollSlots /\ r.polls[x.of].run = "done"
      BY <1>0, <1>2, <1>4, <1>5, <1>7, <3>2, <3>3
    <3> QED
      BY <3>4, <3>5, <3>6 DEF Announced
  <2> QED
    BY <2>1
<1> QED
  BY <1>0, <1>6, <1>8, <1>9, <1>10, <1>11 DEF Follows

\* A poll thread that goes on or ends, with at most one call.
WorksOn(w, run, kind, of) ==
  /\ polls[w].run \in {"connecting", "consuming"} /\ run \in {"consuming", "done"}
  /\ PollStep(w, run, <<Call(kind, of)>>) \/ PollStep(w, run, << >>)
  /\ kind # "queueReady" /\ (kind = "pollFinished" => run = "done" /\ of = w)

LEMMA FollowsPollSteps ==
  ASSUME LedgerInv, Follows(Situation, halt), NEW w \in PollSlots,
         \/ PollConnect(w) \/ PollTick(w) \/ PollEnd(w)
         \/ \E t \in BagToSet(mq), v \in Verdicts : PollDeliver(w, t, v)
  PROVE  Follows(Situation', halt')
<1> DEFINE s == Situation
           r == Situation'
<1>1. /\ s.ctl = ctl /\ s.pubs = pubs /\ s.events = events /\ s.db = db /\ s.polls = polls
      /\ r.ctl = ctl' /\ r.pubs = pubs' /\ r.events = events' /\ r.db = db' /\ r.polls = polls'
  BY Afterwards
<1>2. CallsOK(s.events) /\ Follows(s, halt)
  BY <1>1 DEF LedgerInv, ThreadsInv, ThreadsFit, Threaded
<1> HIDE DEF s, r
<1>3. ASSUME polls[w].run \in {"connecting", "consuming"}, NEW run \in {"consuming", "done"},
             NEW c, NEW calls \in {<<c>>, << >>}, PollStep(w, run, calls),
             c.kind # "queueReady", c.kind = "pollFinished" => run = "done" /\ c.of = w
      PROVE  Follows(r, halt')
  <2>1. /\ r.db = s.db /\ r.ctl = s.ctl /\ r.pubs = s.pubs /\ halt' = halt
        /\ r.polls = [s.polls EXCEPT ![w] = Onward(@, run)] /\ r.events = s.events \o calls
    <3>1. polls' = [polls EXCEPT ![w] = Onward(@, run)]
      BY <1>3, Zenon DEF PollStep, Onward
    <3>2. events' = events \o calls /\ UNCHANGED <<db, ctl, pubs, halt>>
      BY <1>3, Zenon DEF PollStep
    <3> QED
      BY <1>1, <3>1, <3>2
  <2>2. r.events = s.events \o <<c>> \/ r.events = s.events
    BY <1>1, <1>2, <1>3, <2>1, PostedNone
  <2>3. Working(s.polls[w])
    BY <1>1, <1>3 DEF Working
  <2>4. c.kind # "queueReady" /\ (c.kind = "pollFinished" => run = "done" /\ c.of = w)
    BY <1>3
  <2>5. /\ r.db = s.db /\ r.ctl = s.ctl /\ r.pubs = s.pubs
        /\ r.polls = [s.polls EXCEPT ![w] = Onward(@, run)]
    BY <2>1
  <2>6. PollMoves(s, r, w, run, c)
    BY <2>2, <2>3, <2>4, <2>5 DEF PollMoves
  <2>7. Follows(r, halt)
    BY <1>2, <2>6, FollowsPollStep
  <2> QED
    BY <2>1, <2>7
<1>4. \A kind, of : Call(kind, of).kind = kind /\ Call(kind, of).of = of
  BY DEF Call
<1>5. ASSUME NEW run, NEW kind, NEW of, WorksOn(w, run, kind, of) PROVE Follows(r, halt')
  <2> DEFINE c == Call(kind, of)
  <2>1. c.kind = kind /\ c.of = of
    BY <1>4
  <2>2. PollStep(w, run, <<c>>) \/ PollStep(w, run, << >>)
    BY <1>5 DEF WorksOn
  <2> HIDE DEF c
  <2> QED
    <3>1. polls[w].run \in {"connecting", "consuming"}
      BY <1>5 DEF WorksOn
    <3>2. c.kind # "queueReady" /\ (c.kind = "pollFinished" => run = "done" /\ c.of = w)
      BY <1>5, <2>1 DEF WorksOn
    <3>3. run \in {"consuming", "done"}
      BY <1>5 DEF WorksOn
    <3> QED
      BY <1>3, <2>2, <3>1, <3>2, <3>3
<1>6. CASE PollConnect(w)
  <2>1. /\ polls[w].run = "connecting"
        /\ PollStep(w, "consuming", << >>) \/ PollStep(w, "done", <<Call("pollFinished", w)>>)
    BY <1>6 DEF PollConnect
  <2>2. WorksOn(w, "consuming", "none", w) \/ WorksOn(w, "done", "pollFinished", w)
    BY <2>1 DEF WorksOn
  <2> QED
    BY <1>5, <2>2 DEF r
<1>7. CASE PollTick(w)
  <2>1. polls[w].run = "consuming" /\ PollStep(w, "consuming", <<Call("pollCycle", w)>>)
    BY <1>7 DEF PollTick
  <2>2. WorksOn(w, "consuming", "pollCycle", w)
    BY <2>1 DEF WorksOn
  <2> QED
    BY <1>5, <2>2 DEF r
<1>8. CASE PollEnd(w)
  <2>1. polls[w].run = "consuming" /\ PollStep(w, "done", <<Call("pollFinished", w)>>)
    BY <1>8 DEF PollEnd
  <2>2. WorksOn(w, "done", "pollFinished", w)
    BY <2>1 DEF WorksOn
  <2> QED
    BY <1>5, <2>2 DEF r
<1>9. ASSUME NEW t, NEW v, PollDeliver(w, t, v) PROVE Follows(r, halt')
  <2> DEFINE answer == [task |-> t, verdict |-> v]
  <2>1. /\ polls[w].run = "consuming"
        /\ PollStep(w, "consuming", <<Call("result", answer)>>) \/ PollStep(w, "consuming", << >>)
    BY <1>9 DEF PollDeliver
  <2> HIDE DEF answer
  <2>2. WorksOn(w, "consuming", "result", answer)
    BY <2>1 DEF WorksOn
  <2> QED
    BY <1>5, <2>2
<1> QED
  BY <1>6, <1>7, <1>8, <1>9 DEF r

\* The GUI thread takes a queued call.
LEMMA FollowsCalls ==
  ASSUME LedgerInv, Follows(Situation, halt), HandleCall
  PROVE  Follows(Situation', halt')
<1> DEFINE s == Situation
           q == Next1
           x == Head(s.events)
<1>1. /\ s.events = events /\ q.events = Tail(s.events) /\ q.db = s.db /\ q.pubs = s.pubs
      /\ q.polls = s.polls /\ q.ctl = s.ctl /\ HasFields(q) /\ s.db = db
      /\ Shaped(s) /\ StoreFits(db)
  BY Afterwards DEF LedgerInv, ThreadsInv, CapInv, CapFits, ScheduleFits
<1>2. Shaped(q) /\ StoreFits(q.db)
  BY <1>1 DEF Shaped
<1>3. /\ halt = "none" /\ halt' = halt /\ events # << >>
      /\ \E r : Become(r) /\ Handles(q, r)
  BY HandlingDoes
<1>4. PICK r : Become(r) /\ Handles(q, r)
  BY <1>3
<1> HIDE DEF s, q
<1>5. /\ ThreadsFit(s, "none") /\ CallsOK(s.events) /\ s.events # << >> /\ Follows(s, "none")
  BY <1>1, <1>3 DEF LedgerInv, ThreadsInv, ThreadsFit, Threaded, s
<1>6. Follows(q, "none") /\ Threaded(q)
  <2>1. Follows(q, "none")
    BY <1>1, <1>5, FollowsTaken
  <2>2. ThreadsFit(q, "none")
    BY <1>1, <1>5, WiresTaken
  <2> QED
    BY <2>1, <2>2 DEF ThreadsFit
<1>7. Arg = x.of /\ \A kind : Called(kind) => x.kind = kind
  BY <1>1 DEF Called, Arg
<1>8. IsOutcome(x) /\ x \in ToSet(s.events)
  <2>1. IsOutcome(x)
    BY <1>5, NextCall
  <2>2. x \in ToSet(s.events)
    BY <1>5, FirstCall
  <2> QED
    BY <2>1, <2>2
<1> HIDE DEF x
<1>9. Follows(r, "none")
  <2>1. CASE Called("queueReady") /\ r = OnQueueReady(q)
    <3>1. Awaited(s)
      BY <1>7, <1>8, <2>1 DEF Awaited
    <3>2. q.ctl.active
      BY <1>1, <1>5, <3>1 DEF Follows
    <3> QED
      BY <1>2, <1>6, <2>1, <3>2, FollowsReady
  <2>2. CASE \/ Called("published") /\ r = OnPublished(q, Arg)
             \/ Called("failed") /\ r = OnFailed(q, Arg)
    <3>1. "ERROR" \in Done
      BY DEF Done
    <3>2. Follows(OnPublished(q, Arg), "none") /\ Follows(OnFailed(q, Arg), "none")
      BY <1>2, <1>6, <3>1, FollowsReports
    <3> QED
      BY <2>2, <3>2
  <2>3. CASE Called("result") /\ r = OnResult(q, Arg.task, Arg.verdict)
    <3> DEFINE t == Arg.task
               v == Arg.verdict
    <3>1. v \in Done
      BY <1>7, <1>8, <2>3 DEF IsOutcome
    <3>2. r = OnResult(q, t, v)
      BY <2>3
    <3> HIDE DEF t, v
    <3>3. Follows(OnResult(q, t, v), "none")
      BY <1>2, <1>6, <3>1, FollowsReports
    <3> QED
      BY <3>2, <3>3
  <2>4. CASE Called("pollCycle") /\ \E T : r = OnPollCycle(q, T)
    <3>1. x.kind = "pollCycle"
      BY <1>7, <2>4
    <3>2. q.ctl.active \/ q.ctl.batches = << >>
      BY <1>1, <1>5, <1>8, <3>1 DEF Follows
    <3>3. \A T : Follows(OnPollCycle(q, T), "none")
      BY <1>2, <1>6, <3>2, FollowsCycle
    <3> QED
      BY <2>4, <3>3
  <2>5. CASE \/ Called("pubFinished") /\ \E known : r = OnPubFinished(q, Arg, known)
             \/ Called("pubThreadFinished") /\ r = OnPubThreadFinished(q, Arg)
    <3>1. \A known : /\ Follows(OnPubFinished(q, Arg, known), "none")
                     /\ Follows(OnPubThreadFinished(q, Arg), "none")
      BY <1>2, <1>6, FollowsPubEnd
    <3> QED
      BY <2>5, <3>1
  <2>6. CASE Called("pollFinished") /\ r = OnPollFinished(q, Arg)
    <3>1. x.kind = "pollFinished"
      BY <1>7, <2>6
    <3>2. Follows(OnPollFinished(q, x.of), "none")
      BY <1>1, <1>2, <1>5, <3>1, FollowsPollEnd DEF x
    <3> QED
      BY <1>7, <2>6, <3>2
  <2> QED
    BY <1>4, <2>1, <2>2, <2>3, <2>4, <2>5, <2>6 DEF Handles
<1> QED
  BY <1>3, <1>4, <1>9, FollowsBecome

\* The user, and the end of a stop.
LEMMA FollowsUser ==
  ASSUME "early" \notin Allowed, LedgerInv, Follows(Situation, halt),
         \/ \E f \in Folders : \E items \in SUBSET Items[f] : AddFolder(f, items)
         \/ \E S \in SUBSET Grouped(db) \ {{}} : DeleteFolders(S)
         \/ Start \/ Stop \/ Reset \/ StopEnds
  PROVE  Follows(Situation', halt')
<1> DEFINE s == Situation
           M == BagToSet(mq)
<1>1. /\ s.ctl = ctl /\ s.pubs = pubs /\ s.events = events /\ s.db = db
      /\ Shaped(s) /\ StoreFits(s.db) /\ ThreadsFit(s, halt) /\ Ledger(s, M, halt)
      /\ Follows(s, halt)
  BY Afterwards DEF LedgerInv, ThreadsInv, CapInv, CapFits, ScheduleFits, LedgerFits
<1> HIDE DEF s, M
<1>2. ASSUME NEW f \in Folders, NEW items \in SUBSET Items[f], AddFolder(f, items)
      PROVE  Follows(Situation', halt')
  <2>1. Become(Added(s, f, items)) /\ halt = "none" /\ halt' = "none"
    BY <1>2 DEF AddFolder, UserTurn, GuiTurn, s
  <2>2. Follows(Added(s, f, items), "none")
    BY <1>1, <2>1, FollowsAdded
  <2> QED
    BY <2>1, <2>2, FollowsBecome
<1>3. ASSUME NEW S, DeleteFolders(S) PROVE Follows(Situation', halt')
  <2>1. Become(Removed(s, S)) /\ halt = "none" /\ halt' = "none"
    BY <1>3 DEF DeleteFolders, UserTurn, GuiTurn, s
  <2>2. Follows(Removed(s, S), "none")
    BY <1>1, <2>1, FollowsRemoved
  <2> QED
    BY <2>1, <2>2, FollowsBecome
<1>4. CASE Start
  <2>1. /\ Become(Started(s)) /\ halt = "none" /\ halt' = "none"
        /\ ~s.ctl.active /\ UnusedPolls(s) # {} /\ s.events = << >>
    BY <1>1, <1>4 DEF Start, UserTurn, GuiTurn, s
  <2>2. Follows(Started(s), "none")
    BY <1>1, <2>1, FollowsStarted
  <2> QED
    BY <2>1, <2>2, FollowsBecome
<1>5. CASE Stop \/ Reset
  <2>1. Become(StopAsked(s)) /\ halt = "none" /\ halt' # "none" /\ ~QueueAwaited
    BY <1>5 DEF Stop, Reset, StopBegins, s
  <2>2. ~Awaited(s)
    BY <1>1, <2>1 DEF QueueAwaited, Awaited, ToSet
  <2>3. Threaded(s) /\ Follows(s, "none")
    BY <1>1, <2>1 DEF ThreadsFit
  <2>4. Follows(StopAsked(s), halt')
    BY <1>1, <2>1, <2>2, <2>3, FollowsAsked
  <2> QED
    BY <2>1, <2>4, FollowsBecome
<1>6. CASE StopEnds
  <2> DEFINE r == Stopped(s)
             e == [r EXCEPT !.db = EmptyStore(s.db.life + 1)]
  <2>1. /\ halt # "none" /\ halt' = "none" /\ ~PollRunning(s) /\ (Become(r) \/ Become(e))
    BY <1>1, <1>6 DEF StopEnds, s
  <2>2. /\ SameStore(s, r) /\ Shaped(r) /\ r.pubs = s.pubs /\ r.polls = s.polls
        /\ r.ctl.batches = << >> /\ r.ctl.active = FALSE
    BY <1>1, StoppingDoes
  <2> HIDE DEF r
  <2>3. SameThreads(r, e) /\ SamePlan(r, e) /\ e.polls = r.polls
    BY <2>2, Storing
  <2> HIDE DEF e
  <2>4. Follows(r, "none")
    <3>1. r.events = s.events /\ ~r.ctl.active
      BY <2>2 DEF SameStore
    <3> QED
      BY <1>1, <2>1, <2>2, <3>1, FollowsStopped
  <2>5. Follows(e, "none")
    <3>1. /\ e.polls = s.polls /\ e.events = s.events /\ e.pubs = s.pubs
          /\ ~e.ctl.active /\ e.ctl.batches = << >>
      BY <2>2, <2>3 DEF SameStore, SameThreads, SamePlan
    <3> QED
      BY <1>1, <2>1, <3>1, FollowsStopped
  <2> QED
    BY <2>1, <2>4, <2>5, FollowsBecome
<1> QED
  BY <1>2, <1>3, <1>4, <1>5, <1>6

LEMMA FollowsStart ==
  ASSUME Init PROVE Follows(Situation, halt)
<1> DEFINE s == Situation
<1>1. /\ s.pubs = [p \in PubSlots |-> NoThread] /\ s.polls = [w \in PollSlots |-> NoPoll]
      /\ s.events = << >> /\ s.ctl = FreshController /\ halt = "none"
  BY Afterwards DEF Init
<1> HIDE DEF s
<1>2. NoPoll \in PollThreads /\ NoPoll.run = "none" /\ NoThread.run = "none"
  BY DEF NoPoll, PollThreads, NoThread
<1>3. /\ s.polls \in [PollSlots -> PollThreads]
      /\ \A w \in PollSlots : ~Alive(s.polls[w]) /\ ~Working(s.polls[w])
  BY <1>1, <1>2 DEF Alive, Working
<1>4. ~Awaited(s)
  BY <1>1, <1>2 DEF Awaited, ToSet
<1>5. s.ctl.active = FALSE /\ s.ctl.batches = << >>
  BY <1>1 DEF FreshController
<1>6. Follows(s, halt)
  BY <1>1, <1>3, <1>4, <1>5 DEF Follows, Polled
<1> QED
  BY <1>6 DEF s

FollowInv == LedgerInv /\ Follows(Situation, halt)

LEMMA FollowsSteps ==
  ASSUME TwoSlots, "early" \notin Allowed, FollowInv, [Next]_vars
  PROVE  FollowInv'
<1>1. LedgerInv'
  BY LedgerSteps DEF FollowInv
<1>2. CASE Next
  <2>1. Follows(Situation', halt')
    BY <1>2, FollowsUser, FollowsCalls, FollowsPubSteps, FollowsPollSteps DEF Next, FollowInv
  <2> QED
    BY <1>1, <2>1 DEF FollowInv
<1>3. CASE UNCHANGED vars
  <2> DEFINE s == Situation
  <2>1. Become(s) /\ halt' = halt /\ Follows(s, halt)
    BY <1>3, Afterwards DEF FollowInv, Become, vars
  <2>2. Follows(Situation', halt')
    BY <2>1, FollowsBecome
  <2> QED
    BY <1>1, <2>2 DEF FollowInv
<1> QED
  BY <1>2, <1>3

\* Every poll thread that consumes tracks all tasks of the store, whatever is added
\* and deleted while it does, so that no answer is acknowledged and dropped. Without
\* "early": a stop before the result queue is announced leaves the announcement
\* behind, and what it starts is tracked by nobody. One thread polls at a time; in a
\* run each is told of every new task, and the call of its end is the last of its
\* calls (Announced), so that a thread that works is the one the controller knows.
THEOREM PollersTrackAll ==
  TwoSlots /\ "early" \notin Allowed => (Spec => []TrackedCoversKnown)
<1> SUFFICES ASSUME TwoSlots, "early" \notin Allowed PROVE Spec => []TrackedCoversKnown
  OBVIOUS
<1>1. FollowInv => TrackedCoversKnown
  <2> SUFFICES ASSUME FollowInv, NEW w \in PollSlots,
                      polls[w].run \in {"connecting", "consuming"}, ~polls[w].stop
               PROVE  Known(db) \subseteq polls[w].tracked
    BY DEF TrackedCoversKnown
  <2> DEFINE s == Situation
  <2>1. s.db = db /\ s.polls = polls /\ Follows(s, halt)
    BY Afterwards DEF FollowInv
  <2> HIDE DEF s
  <2> QED
    BY <2>1 DEF Follows, Polled, Working
<1>2. Init => FollowInv
  BY LedgerInvStart, FollowsStart DEF FollowInv
<1>3. FollowInv /\ [Next]_vars => FollowInv'
  BY FollowsSteps
<1> QED
  BY <1>1, <1>2, <1>3, PTL DEF Spec
=============================================================================
