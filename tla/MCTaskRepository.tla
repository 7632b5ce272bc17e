-------------------------- MODULE MCTaskRepository --------------------------
(* Two recipes of one source folder with one image. *)
EXTENDS TaskRepository

CONSTANTS ra, rb

MCQueues == {ra, rb}
MCSourceOf == [q \in {ra, rb} |-> "r"]
Recipes == Permutations({ra, rb})
MCDisk == [f \in {"r"} |-> {1}]
=============================================================================
