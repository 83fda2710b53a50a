SPECIFICATION ServicesSpec
CONSTANTS
  \* StructuredMemory: two calls at a time, of three in all, on two records; a text may be empty
  Ids = {r1, r2}
  Items = {i1, i2}
  ChecklistSlugs = {s1, s2}
  Texts = {x1}
  Blank = Blank
  Scopes <- OneProject
  MemoryCalls = {c1, c2}
  Top = Top
  MaxDepth = 2
  MaxStarts = 3
  \* SessionRouting: two actors in one group
  Senders = {a1, a2}
  Chats = {g}
  Private = {}
  Configured = {}
  Names = {n}
  MaxSessions = 2
  MaxMessages = 2
  NoSession = NoSession
  NoName = NoName
  NoGroup = NoGroup
  \* DocumentIndex: two runs and an addition, a file at a time, one fault or change of a file
  IndexRuns = {w1, w2}
  Additions = {k1}
  Files = {f1, f2}
  FileVersions = {1, 2}
  BatchSize = 1
  MaxFaults = 1
  Gone = Gone
  \* CapabilityHandoff: one call at a time beside the edits; a content is that of the scaffold
  HandoffCalls = {h1}
  Contents = {"v1", "v2"}
  Template = "v1"
  Directives = {"d1"}
  \* ScheduleTools: two actors, a project and the operator
  Slugs = {s1, s2}
  Actors = {a1, a2}
  Projects = {j1}
  NoProject = NoProject
  Admin = Admin
  MaxFired = 1
  \* ContextBudget: a window of four texts
  Models = {m1}
  Window = 8
  MaxOutput = 4
  KeepRecent = 2
  Sizes = {2}
  Overhead = 1
  MaxEntries = 4
  \* RunTelemetry: two of three runs are kept, and two events of each
  Runs = {o1, o2, o3}
  NoRun = NoRun
  Kinds = {"delegation", "error", "delta"}
  MaxRuns = 2
  MaxEvents = 2
  MaxUnscoped = 1
  MaxMutations = 1
  MaxTotal = 4
SYMMETRY Perms
CHECK_DEADLOCK FALSE
INVARIANTS StoresAgree ItemsRooted VectorsFollowNotes RoutedToOwner IndexIsExact InstalledIsTested WrittenByOwner
INVARIANTS ReportFollowsContext SummariesAreTails
