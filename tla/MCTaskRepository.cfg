SPECIFICATION Spec
CONSTANTS
  ra = ra
  rb = rb
  Queues <- MCQueues
  Images = {1}
  SourceOf <- MCSourceOf
  Disk <- MCDisk
  MaxGen = 1
  MaxRows = 2
  ClaimSizes = {1}
  ScanTargets = {"SCANNING", "SCANNED"}
  Verdicts = {"SUCCESS"}
SYMMETRY Recipes
INVARIANTS TypeOK OrderIsComplete RowsAreOwned
PROPERTIES CountersAreHonest KeepsPromise
CHECK_DEADLOCK FALSE
