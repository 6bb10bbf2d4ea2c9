CONSTANTS
  Instrument = {i1, i2}  i1 = i1  i2 = i2
  FixingKey = {f1, f2}  f1 = f1  f2 = f2
  Pair = {p1}  p1 = p1
  BaseQuotes = {i1}
  BaseFixings = {f1}
  MaxUpdates = 4
SPECIFICATION Spec
INVARIANTS
  StoreIsMerged
CHECK_DEADLOCK FALSE
