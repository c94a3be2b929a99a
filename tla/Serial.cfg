SPECIFICATION Spec
CONSTANTS
  SnMod = 8
  Wnd = 3
  Lifetime = 4
  Total = 10
  NetSize = 3
INVARIANTS TypeOK MovedInOrder FreedWereReceived OldestIsUnderstood NextIsNotHeldBack
CHECK_DEADLOCK FALSE
