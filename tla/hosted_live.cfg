SPECIFICATION HFairSpec
CONSTANTS
  Calls = {c1, c2}
  MayOverlap <- AnyOverlap
  Tokens = {ann}
  ApiKeys = {}
  TokenOf <- SameCaller
  Workspaces = {wa}
  NoWs = NoWs
  HomeOf <- AllHome
  Tools <- Writes
  MaxEntries = 1
  Skew = 1
  Life = 2
  Echoes = TRUE
  Faults = FALSE
  MaxClock = 2
  MaxRevocations = 1
  NoIdentity = NoIdentity
  c1 = c1
  c2 = c2
  c3 = c3
  ann = ann
  bob = bob
  key = key
  wa = wa
  wb = wb
INVARIANT SkewSuffices
PROPERTY ServedAgain
