SPECIFICATION FairSpec
CONSTANTS
  fa = fa
  fb = fb
  fc = fc
  Folders = {fa, fb}
  Items <- Single
  MaxInitial = 1
  MaxActive = 1
  PubSlots = {1, 2}
  PollSlots = {1}
  Verdicts = {"SUCCESS"}
  Allowed = {"add", "delete"}
  MaxLife = 1
CHECK_DEADLOCK FALSE
INVARIANTS WithinCap NothingForgotten TrackedCoversKnown
PROPERTY RunEnds
