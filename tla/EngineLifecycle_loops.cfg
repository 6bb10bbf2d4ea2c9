CONSTANTS
  Caller = {c1, c2}
  MaxStarts = 3
  MaxEvents = 0
SPECIFICATION Spec
INVARIANT OneLoop
CHECK_DEADLOCK FALSE
