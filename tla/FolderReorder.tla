--------------------------- MODULE FolderReorder ---------------------------
(***************************************************************************)
(* The queue list while the user moves queues about and queues enter and   *)
(* leave processing: the "top", "up", "down" and "bottom" buttons against  *)
(* a definition of what each must do that does not mention swaps.          *)
(***************************************************************************)
EXTENDS FolderOrder

CONSTANT Shown \* the queues in the list

ASSUME FolderReorderAssumption == IsFiniteSet(Shown)

VARIABLES queueOrder, \* the queues by position
          underWay,   \* the queues that are not controllable
          lastMove    \* the last request: operation, selection, controllable queues

moveVars == <<queueOrder, underWay, lastMove>>

NoMove == [op |-> "top", selected |-> {}, free |-> {}, from |-> << >>]

MoveInit == queueOrder \in SetToSeqs(Shown) /\ underWay = {} /\ lastMove = NoMove

\* A queue is claimed from, or its only claims are released.
PinQueue(q) == underWay' = underWay \cup {q} /\ lastMove' = NoMove /\ UNCHANGED queueOrder
FreeQueue(q) == underWay' = underWay \ {q} /\ lastMove' = NoMove /\ UNCHANGED queueOrder

MoveQueues(S, op) ==
  /\ queueOrder' = Reordered(queueOrder, Shown \ underWay, S, op)
  /\ lastMove' = [op |-> op, selected |-> S \ underWay, free |-> Shown \ underWay,
                from |-> queueOrder]
  /\ UNCHANGED underWay

MoveNext ==
  \/ \E q \in Shown : PinQueue(q) \/ FreeQueue(q)
  \/ \E S \in SUBSET Shown, op \in Operations : MoveQueues(S, op)

MoveSpec == MoveInit /\ [][MoveNext]_moveVars

-----------------------------------------------------------------------------
At(o, q) == CHOOSE i \in DOMAIN o : o[i] = q

\* How many of the queues of C come before q.
Ahead(o, q, C) == Cardinality({c \in C : At(o, c) < At(o, q)})

\* The list holds every queue once, and a queue under way never changes its
\* position, whatever is moved around it.
PinnedStay ==
  /\ queueOrder \in SetToSeqs(Shown)
  /\ lastMove.from # << >> =>
       \A q \in Shown \ lastMove.free : At(queueOrder, q) = At(lastMove.from, q)

\* "Move controllable folders while preserving relative order."
\* (task_repository.py:445): selected queues among themselves, and unselected
\* ones among themselves, stay in the order they were in.
RelativeOrderKept ==
  lastMove.from # << >> =>
    \A p, q \in lastMove.free :
      (p \in lastMove.selected <=> q \in lastMove.selected) =>
        (At(queueOrder, p) < At(queueOrder, q) <=> At(lastMove.from, p) < At(lastMove.from, q))

\* Among the queues that may move, a selected queue ends where the button says:
\* "up" is one place up unless only selected queues are ahead of it, "down" one
\* place down unless only selected queues are behind it, "top" and "bottom"
\* gather the selection at that end.
MovesAsAsked ==
  lastMove.from # << >> =>
    \A q \in lastMove.selected :
      LET ahead  == Ahead(lastMove.from, q, lastMove.free)
          mine   == Ahead(lastMove.from, q, lastMove.selected)
          others == Cardinality(lastMove.free \ lastMove.selected)
          behind == others - (ahead - mine)
      IN  Ahead(queueOrder, q, lastMove.free) =
            CASE lastMove.op = "up"     -> IF ahead = mine THEN ahead ELSE ahead - 1
              [] lastMove.op = "down"   -> IF behind = 0 THEN ahead ELSE ahead + 1
              [] lastMove.op = "top"    -> mine
              [] lastMove.op = "bottom" -> others + mine
=============================================================================
