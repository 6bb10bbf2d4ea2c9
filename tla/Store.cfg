CONSTANTS
  Curve = {usd, eur}
  Snapshot = {s1, s2}
  Writer = {w1, w2}
  Reader = {r1}
  Limit = 1
  MaxRows = 3
  Conn = {c1, c2}
  Place = {p1}
  Date = {d1}
  NULL = NULL
  Value = {v1, v2}
  MaxOverrides = 5
  Id = {1, 2}
  AsOf = {0, 1}
  NoDate = 0
  Label = {a, b}
  Absent = Absent
  PageSize = 1
  MaxEdits = 3

SPECIFICATION PartSpec

INVARIANTS
  ReturnedStays
  PagesMissNothing

PROPERTIES
  KeepsLog
  KeepsAuditedMap

CHECK_DEADLOCK FALSE
