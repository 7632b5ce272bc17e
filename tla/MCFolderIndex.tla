--------------------------- MODULE MCFolderIndex ---------------------------
(* Small trees: a folder below the root, and one below that. *)
EXTENDS FolderIndex, TLC

CONSTANTS r, s
Swaps == Permutations(Roots)

MCChain == {<< >>, <<"a">>, <<"a", "c">>}
MCFlat == {<< >>, <<"a">>}
MCWhole == [x \in Roots |-> Folders]

MCBudget(gestures, edits, errors, links) ==
  [gesture |-> gestures, edit |-> edits, error |-> errors, link |-> links]
AnyBudget == MCBudget(3, 0, 1, 1)
CoverBudget == MCBudget(2, 5, 0, 0)
\* For instances of README section 7.
ForgetsBudget == MCBudget(1, 2, 1, 0)
BatchBudget == MCBudget(1, 5, 0, 0)
MCBare == [x \in Roots |-> {<< >>, <<"a">>}]
=============================================================================
