SPECIFICATION Spec
CONSTANTS
  qa = qa
  qb = qb
  Queues = {qa, qb}
  Images = {1}
  SourceOf <- MCSourceOf
  Disk <- MCDisk
  Chunk = 1
  Fallback = 2
  MaxInitial = 1
  MaxActive = 1
  PubSlots = {1, 2}
  PollSlots = {1, 2, 3}
  ScanSlots = {1, 2}
  Verdicts = {"SUCCESS"}
  Readings <- NoReadings
  Allowed = {"stop", "add", "hold", "move", "decline"}
  MaxGen = 0
CHECK_DEADLOCK FALSE
SYMMETRY Folders
INVARIANTS TypeOK OnePublisher PausedIsQuiet HeldIsQuiet PublishedOnce
