\* A log of three sizes, one kill of each process, one failure of each kind.
CONSTANTS
  MaxLog = 3
  HasWindows <- Windows
  Torn = Torn
  MaxKills = 1
  MaxFailures = 1
  None = None
  Failed = Failed
  MaxCrashes = 1
  MaxErrors = 1
SPECIFICATION FairSpec
CHECK_DEADLOCK FALSE
INVARIANTS AlertsWhole ScoredByOwnModel
PROPERTIES PageShowsLog SummaryFollows
