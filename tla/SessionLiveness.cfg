SPECIFICATION FairSpec
CONSTANTS
  qa = qa
  qb = qb
  Queues = {qa, qb}
  Images = {1}
  SourceOf <- MCSourceOf
  Disk <- MCDisk
  Chunk = 1
  Fallback = 1
  MaxInitial = 2
  MaxActive = 2
  PubSlots = {1, 2}
  PollSlots = {1, 2, 3}
  ScanSlots = {1, 2}
  Verdicts = {"SUCCESS"}
  Readings <- OneWorker
  Allowed = {"publishFailure", "missedFinish", "timeout"}
  MaxGen = 0
CHECK_DEADLOCK FALSE
INVARIANTS WithinLimit
PROPERTY RunEnds
