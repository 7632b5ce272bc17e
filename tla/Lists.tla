------------------------------- MODULE Lists -------------------------------
(***************************************************************************)
(* Lists by rank: the part of a list that a WHERE clause or a              *)
(* comprehension keeps, and the list of a set that an ORDER BY gives.      *)
(* Closed forms, so that the proofs can reason about them.                 *)
(***************************************************************************)
EXTENDS Naturals, Sequences, FiniteSets

\* The members of S one by one; rank[x] is the number of members before x.
ByRank(S, rank) == [k \in 1..Cardinality(S) |-> CHOOSE x \in S : rank[x] = k - 1]

\* The numbers of S, smallest first.
Ascending(S) == ByRank(S, [i \in S |-> Cardinality({j \in S : j < i})])

\* The entries of list that are in C, in the order of the list.
Only(list, C) ==
  LET slots == Ascending({i \in DOMAIN list : list[i] \in C})
  IN  [k \in DOMAIN slots |-> list[slots[k]]]

\* Every member of C is in the list once, and nothing else is.
Enumerates(list, C) ==
  /\ list \in Seq(C)
  /\ \A i, j \in DOMAIN list : list[i] = list[j] => i = j
  /\ \A x \in C : \E i \in DOMAIN list : list[i] = x
=============================================================================
