SPECIFICATION Spec
CONSTANTS
  Keys = {a, b}
  Entries = {e1}
  Deleters = {d1, d2}
  Nobody = Nobody
  MaxClock = 2
  MaxSaves = 2
SYMMETRY Perms
CHECK_DEADLOCK FALSE
INVARIANTS IndexFollowsStore NoForgottenVectors PointerIsNewest
