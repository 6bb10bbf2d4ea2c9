CONSTANTS
  NodeId <- MCNodeId
  Descending <- MCDescending
  Caller = {c1}
  MaxStarts = 2
  MaxEvents = 2

SPECIFICATION PartSpec

INVARIANTS
  MarksExactlyDownstream
  CleanStartsAndStops
  HandledInOrder

PROPERTIES
  CallReturns
  StopReturns
  HandledWhileRunning

CHECK_DEADLOCK FALSE
