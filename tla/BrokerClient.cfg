SPECIFICATION FairSpec
CONSTANTS
  ta = ta
  tb = tb
  Tasks = {ta, tb}
  Batch <- MCBatch
  Nothing = Nothing
  MaxTries = 2
  Prefetch = 1
  MaxBreaks = 2
CHECK_DEADLOCK FALSE
INVARIANTS AnswerKept OnceOverGoodLinks
PROPERTIES StopEnds AnswersArrive
