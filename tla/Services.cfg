CONSTANTS
  Node = {n1, n2, n3}
  Partition = {p1}
  None = None
  MaxVersion = 3
  Instrument = {i1, i2}
  FixingKey = {f1, f2}
  Pair = {usdeur}
  BaseQuotes = {i1}
  BaseFixings = {f1}
  MaxUpdates = 4
  Id = {a, b}
  NoId = NoId
  BadId = BadId
  MaxRequests = 3
  Batches <- MCBatches

SPECIFICATION PartSpec

INVARIANTS
  VersionsTell
  ReadsAreNewest
  BatchAnswers

CHECK_DEADLOCK FALSE
