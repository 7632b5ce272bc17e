--------------------------- MODULE MCLazySession ---------------------------
(* Every queue has a source folder of its own, or all are recipes of one; a
   folder has all the images. The latter is for an instance of README section 7. *)
EXTENDS LazySession

CONSTANTS qa, qb

MCSourceOf == [q \in Queues |-> q]
MCDisk == [q \in Queues |-> Images]
MCSharedSourceOf == [q \in Queues |-> "f"]
MCSharedDisk == [f \in {"f"} |-> Images]
Folders == Permutations(Queues)

NoReadings == {<<Unknown, Unknown>>}
OneWorker == {<<1, 0>>}
=============================================================================
