SPECIFICATION Spec
CONSTANTS
  qa = qa
  qb = qb
  Queues = {qa}
  Images = {1}
  SourceOf <- MCSourceOf
  Disk <- MCDisk
  Chunk = 1
  Fallback = 2
  MaxInitial = 1
  MaxActive = 1
  PubSlots = {1, 2}
  PollSlots = {1, 2, 3}
  ScanSlots = {1, 2}
  Verdicts = {"SUCCESS"}
  Readings <- OneWorker
  Allowed = {"connectFailure", "publishFailure", "pollFailure", "scanFailure", "missedFinish", "timeout", "waitTimeout", "reset", "delete"}
  MaxGen = 1
CHECK_DEADLOCK FALSE
INVARIANTS CompletedMeansDone NothingStalls
