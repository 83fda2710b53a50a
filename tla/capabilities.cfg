SPECIFICATION CapabilitiesSpec
CONSTANTS
  \* CapabilityLifecycle: a gateway and a command, three operations
  Agents = {gateway}
  Commands = {cli}
  Kinds = {"skill", "tool"}
  Contents = {c1, c2}
  MaxOperations = 3
  \* ProtocolStore: a gateway and a CLI of two releases, one operator
  ProtocolIds = {"first", "coding"}
  LookedUp = {"chat", "task"}
  BaseTexts = {"v1", "v2"}
  UserTexts = {"own"}
  NoSeed = NoSeed
  Releases = {"old", "new"}
  SeedsOf <- TwoReleases
  ScriptSeeds <- OldSeeds
  Providers = {p1, p2}
  Admins = {a1}
SYMMETRY Perms
CHECK_DEADLOCK FALSE
INVARIANTS OnlyEnabledLoads AnswersAreTrue SeedsInForce
PROPERTY UserProtocolsKept
