SPECIFICATION ApprovalsSpec
CONSTANTS
  \* CodingApprovals
  Agents = {git, shared}
  SharedGate = {shared}
  Operators = {op1, op2}
  Lifetime = 1
  MaxClock = 2
  \* RuntimeConfiguration: a number with a deprecated name, and a secret
  ConfigKeys = {"count", "secret"}
  Aliases = {"old count"}
  CanonicalOf <- CountIsCanonical
  Strangers = {"PATH"}
  Words = {"5", "8", "b"}
  Strict = {"count"}
  Unfit = {}
  ExampleTexts <- ExampleOfCount
  HandFiles <- SomeFiles
  LegacyFiles <- SomeLegacyFiles
  Shells <- InheritsAll
  ConfigCalls = {c1}
  AskedTexts <- AskFive
  MaxSlashes = 2
  MaxRewrites = 2
SYMMETRY Perms
CHECK_DEADLOCK FALSE
INVARIANTS EffectsGranted StatusMatchesDecision RunsAsAsked
