SPECIFICATION Spec
CONSTANTS
  NoRow = NoRow
  NoRun = NoRun
  NoJob = NoJob
  MaxSchedules = 2
  MaxRuns = 2
  Slugs = {1}
  MaxOverride = 2
  Definitions <- CronAndAt
  Edits <- NoEdits
  ManualSlugs = {1}
  MaxConcurrentRuns = 1
  RetryMaxAttempts = 1
  KeepRuns = 1
  Categories = {"network", "validation"}
  Transient = {"network"}
  RetryOn = {"network"}
CHECK_DEADLOCK FALSE
INVARIANTS LedgerMatchesFire
PROPERTY HistorySpec
