SPECIFICATION FairSpec
CONSTANTS
  r = r
  NoRoot = NoRoot
  s = s
  Roots = {r}
  Folders <- MCChain
  DefaultDepth = 2
  MaxTries = 1
  InitialDisk <- MCWhole
  BatchSize = 3
  PeriodicLimit = 3
  Allowed = {"add", "rescope", "refull", "refresh", "pause", "pauseAll", "close", "kill"}
  Budget <- CoverBudget
CHECK_DEADLOCK FALSE
INVARIANTS IndexingHasWorker ReadyIsCovered
PROPERTY IndexSettles
