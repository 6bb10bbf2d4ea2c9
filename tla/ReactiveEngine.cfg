CONSTANTS
  quote = quote   fixing = fixing   first = first   second = second   eod = eod
  NoValue = NoValue
  NodeId <- MCNodeId
  QuoteNode = {quote}
  FixingNode = {fixing}
  PricingId = {first, second}
  Rank <- MCRank
  Registration <- MCRegistration
  SchedulerNode = {eod}
  BaseQuote = {}
  BaseReference = {quote}
  ReferenceMayRaise = {quote}
  PublisherMayRaise = TRUE
  Subscriber = {c1}  c1 = c1
  MaxVersion = 2
  MaxEmitted = 1
SPECIFICATION MCSpec
INVARIANTS
  Fresh
  AppliedInOrder
  ViewsFollowGraph
  OutputsPublished
PROPERTIES
  KeepsPricesFresh
  BatchCompletes
CHECK_DEADLOCK FALSE
