SPECIFICATION Spec
CONSTANTS
  fa = fa
  fb = fb
  fc = fc
  Folders = {fa}
  Items <- Uneven
  MaxInitial = 1
  MaxActive = 2
  PubSlots = {1, 2}
  PollSlots = {1}
  Verdicts = {"SUCCESS"}
  Allowed = {"add", "extend", "late", "delete", "stop", "reset", "connectFailure", "publishFailure", "pollFailure"}
  MaxLife = 1
CHECK_DEADLOCK FALSE
INVARIANT NothingTwice
PROPERTY KeepsPromise
