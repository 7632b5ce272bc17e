--------------------------- MODULE MCEagerSession ---------------------------
(* One folder of two images, the others of one. *)
EXTENDS EagerSession

CONSTANTS fa, fb, fc

Uneven == [f \in Folders |-> IF f = fa THEN {1, 2} ELSE {1}]
Single == [f \in Folders |-> {1}]
Others == Permutations(Folders \ {fa})
=============================================================================
