SPECIFICATION HSpec
CONSTANTS
  Calls = {c1, c2}
  MayOverlap <- AnyOverlap
  Tokens = {ann}
  ApiKeys = {}
  TokenOf <- SameCaller
  Workspaces = {wa, wb}
  NoWs = NoWs
  HomeOf <- AllHome
  Tools <- Mixed
  MaxEntries = 1
  Skew = 1
  Life = 2
  Echoes = FALSE
  Faults = FALSE
  MaxClock = 3
  MaxRevocations = 1
  NoIdentity = NoIdentity
  c1 = c1
  c2 = c2
  c3 = c3
  ann = ann
  bob = bob
  key = key
  wa = wa
  wb = wb
INVARIANT FreshAfterReject
