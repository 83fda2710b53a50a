SPECIFICATION Spec
CONSTANTS
  Keys = {a, b}
  Entries = {e1}
  Deleters = {d1}
  Nobody = Nobody
  MaxClock = 2
  MaxSaves = 2
CHECK_DEADLOCK FALSE
INVARIANT IndexedIsSearchable
