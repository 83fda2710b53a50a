SPECIFICATION WorkersSpec
CONSTANTS
  \* CodingLoop
  Commands = {unit, lint}
  Required = {unit}
  Preflight = {lint}
  MaxTurns = 9
  MaxReplans = 1
  MaxCalls = 2
  \* WebResearch: two runs that share the caches
  ResearchRuns = {n1, n2}
  Queries <- PlannedQueries
  DeepQueries = {"q2", "q3"}
  Sources = {"a", "b"}
  PageSizes = {2}
  Results <- BothSources
  Settings <- FreshAndDeep
  SearchTtl = 2
  PageTtl = 1
  MaxTime = 2
SYMMETRY Perms
CHECK_DEADLOCK FALSE
INVARIANTS CompletedIsVerified GuardOnlyIfShort ResearchIsBounded AsFreshAsAsked
