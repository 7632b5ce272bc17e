SPECIFICATION FairSpec
CONSTANTS
  Files <- TwoFiles
  MaxVersion = 2
  MaxDeeds = 2
  MaxCrash = 2
  Allowed = {}
CHECK_DEADLOCK FALSE
INVARIANTS EditsSurvive StampMeansWhole
PROPERTY SettingsArrive
