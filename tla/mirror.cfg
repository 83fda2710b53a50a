SPECIFICATION Spec
CONSTANTS
  NoRow = NoRow
  NoRun = NoRun
  NoJob = NoJob
  MaxSchedules = 2
  MaxRuns = 1
  Slugs = {1, 2}
  MaxOverride = 0
  Definitions <- MirrorDefs
  Edits <- AllEdits
  ManualSlugs = {1}
  MaxConcurrentRuns = 1
  RetryMaxAttempts = 1
  KeepRuns = 1
  Categories = {}
  Transient = {}
  RetryOn = {}
CHECK_DEADLOCK FALSE
INVARIANTS CronMirror
