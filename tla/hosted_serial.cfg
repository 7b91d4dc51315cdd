SPECIFICATION ServerSpec
CONSTANTS
  Calls = {c1, c2}
  MayOverlap <- OneAtATime
  Tokens = {ann, key}
  ApiKeys = {key}
  TokenOf <- WithKey
  Workspaces = {wa, wb}
  NoWs = NoWs
  HomeOf <- AllHome
  Tools <- Mixed
  MaxEntries = 1
  Skew = 1
  Life = 2
  Echoes = FALSE
  Faults = TRUE
  MaxClock = 2
  MaxRevocations = 1
  NoIdentity = NoIdentity
  c1 = c1
  c2 = c2
  c3 = c3
  ann = ann
  bob = bob
  key = key
  wa = wa
  wb = wb
  Peers = {p1, p2}
  Paths <- TwoPaths
  Limit <- Limits
  Window <- Windows
  GlobalLimit = 2
  GlobalWindow = 3
  TrustProxy = FALSE
  Second = 2
  MaxInstant = 4
  Everyone = Everyone
  NoHeader = NoHeader
  NoBucket = NoBucket
  NoAnswer = NoAnswer
  p1 = p1
  p2 = p2
  Callers = {c1, c2}
  Keys = {k1}
  NotKeys = {oauth}
  Ttl = 2
  Flight = 2
  Horizon = 7
  NoEntry = NoEntry
  NoKey = NoKey
INVARIANT FreshAfterReject
INVARIANT LineNamesTarget
INVARIANT SlidingBudget
INVARIANT PeerBudget
INVARIANT RetrySuffices
INVARIANT BoundedStaleness
