SPECIFICATION Spec
CONSTANTS
  NoRow = NoRow
  NoRun = NoRun
  NoJob = NoJob
  MaxSchedules = 1
  MaxRuns = 4
  Slugs = {1}
  MaxOverride = 0
  Definitions <- CronOnly
  Edits <- NoEdits
  ManualSlugs = {1}
  MaxConcurrentRuns = 1
  RetryMaxAttempts = 1
  KeepRuns = 0
  Categories = {"network"}
  Transient = {"network"}
  RetryOn = {"network"}
CHECK_DEADLOCK FALSE
INVARIANT GateBound
