SPECIFICATION Spec
CONSTANTS
  r = r
  NoRoot = NoRoot
  s = s
  Roots = {r, s}
  Folders <- MCFlat
  DefaultDepth = 1
  MaxTries = 1
  InitialDisk <- MCWhole
  BatchSize = 1
  PeriodicLimit = 1
  Allowed = {"add", "remove", "rescope", "rescopeBusy", "pause", "pauseAll", "open", "move"}
  Budget <- AnyBudget
SYMMETRY Swaps
CHECK_DEADLOCK FALSE
INVARIANTS ReadyIsClean ClaimedIsHeld CountsAgree
