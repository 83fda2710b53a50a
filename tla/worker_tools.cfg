SPECIFICATION ToolsSpec
CONSTANTS
  LspCalls = {c1, c2}
  Documents = {d1, d2}
  LanguageOf <- OneLanguage
  MaxServers = 3
  NoCall = NoCall
  Originals <- SomeOriginals
  Transactions <- SomeTransactions
  Patches <- SomePatches
  Missing = Missing
  Binary = Binary
  Calls = {c1, c2}
  Slugs = {s1, s2}
  Managed = TRUE
  Nobody = Nobody
  GithubCalls = {c1, c2}
  Pulls = {p1, p2}
  NoReview = NoReview
  Ratatui = {r1}
  Ink = {i1}
  MaxProbes = 2
CHECK_DEADLOCK FALSE
INVARIANTS AllOrNothing RegistryKeepsAll ReviewsSettled
INVARIANT ServersAreHeld
PROPERTIES CallsEnd LaunchEnds
