CONSTANTS
  quote = quote   fixing = fixing   first = first   second = second   eod = eod
  NoValue = NoValue
  NodeId <- LiveNodeId
  QuoteNode = {quote}
  FixingNode = {}
  PricingId = {first, second}
  Rank <- LiveRank
  Registration <- LiveRegistration
  SchedulerNode = {first}
  BaseQuote = {quote}
  BaseReference = {}
  ReferenceMayRaise = {}
  PublisherMayRaise = FALSE
  Subscriber = {}
  MaxVersion = 2
  MaxEmitted = 1
SPECIFICATION MCLiveSpec
PROPERTIES
  EventuallyRepriced
CHECK_DEADLOCK FALSE
