---------------------------- MODULE FolderOrder ----------------------------
(***************************************************************************)
(* The reordering of folder queues: TaskRepository.reorder_folders in      *)
(* src/state/task_repository.py.  Queues that have entered publish or      *)
(* result processing are pinned to their slots; the others are permuted    *)
(* among the slots they occupy together.                                   *)
(***************************************************************************)
EXTENDS Lists, Integers, SequencesExt

Operations == {"top", "up", "down", "bottom"}

ToTop(list, S) == Only(list, S) \o Only(list, ToSet(list) \ S)
ToBottom(list, S) == Only(list, ToSet(list) \ S) \o Only(list, S)

Swap(list, i, j) == [list EXCEPT ![i] = list[j], ![j] = list[i]]

\* A selected queue in slot i and an unselected one in slot j trade places.
Trade(list, S, i, j) == IF list[i] \in S /\ list[j] \notin S THEN Swap(list, i, j) ELSE list

\* Mutant: no look at what stands in the place above.
StepUpBlind(list, S) ==
  LET after[i \in 0..Len(list)] ==
        IF i <= 1 THEN list
        ELSE IF after[i-1][i] \in S THEN Swap(after[i-1], i-1, i) ELSE after[i-1]
  IN  after[Len(list)]

\* Mutant: the downward pass starts at the front.
StepDownFromFront(list, S) ==
  LET after[i \in 0..Len(list)] ==
        IF i <= 1 THEN list ELSE Trade(after[i-1], S, i-1, i)
  IN  after[Len(list)]

\* One pass from the front: each slot with the one just before it.
StepUp(list, S) ==
  LET after[i \in 0..Len(list)] ==
        IF i <= 1 THEN list ELSE Trade(after[i-1], S, i, i-1)
  IN  after[Len(list)]

\* One pass from the back: each slot with the one just after it.
StepDown(list, S) ==
  LET after[i \in 0..Len(list)] ==
        IF i <= 1 THEN list ELSE Trade(after[i-1], S, Len(list)+1-i, Len(list)+2-i)
  IN  after[Len(list)]

Permuted(list, S, op) ==
  CASE op = "top"    -> ToTop(list, S)
    [] op = "up"     -> StepUp(list, S)
    [] op = "down"   -> StepDown(list, S)
    [] op = "bottom" -> ToBottom(list, S)

\* How many of the first i slots of order hold a member of C.
RankIn(order, C, i) == Cardinality({j \in 1..i : order[j] \in C})

\* Mutant: pinned queues take part in the permutation.
ReorderedUnpinned(order, C, S, op) == Permuted(order, S \cap C, op)

\* The order after operation op on the queues of S, of which only those in C
\* are controllable.
Reordered(order, C, S, op) ==
  LET list == Permuted(Only(order, C), S \cap C, op)
  IN  [i \in DOMAIN order |->
        IF order[i] \in C THEN list[RankIn(order, C, i)] ELSE order[i]]
=============================================================================
