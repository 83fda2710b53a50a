SPECIFICATION MCSpec
CONSTANTS
  MaxSessions = 2
  MaxRequests = 2
  MaxCommands = 1
  PageLimit = 1
  MaxFaults = 1
  Plans <- SomePlans
  Characters <- SomeCharacters
  Backslash <- ABackslash
  Newline = "newline"
  Blank = " "
  Commands <- SomeCommands
  NoSelection = NoSelection
  MaxText = 2
CONSTRAINT OneDisturbance
CHECK_DEADLOCK FALSE
INVARIANTS OneExchangeEach PromptLostToPage RowsOfActiveSession AnsweredIsFinal
INVARIANT SelectionIsCurrent
