SPECIFICATION Spec
CONSTANTS
  Calls = {c1, c2, c3}
  MayOverlap <- AnyOverlap
  Tokens = {ann, bob}
  ApiKeys = {}
  TokenOf <- TwoCallers
  Workspaces = {wa}
  NoWs = NoWs
  HomeOf <- AllHome
  Tools <- OneSwitches
  MaxEntries = 1
  Skew = 1
  Life = 2
  Echoes = FALSE
  Faults = FALSE
  MaxClock = 1
  MaxRevocations = 1
  NoIdentity = NoIdentity
  c1 = c1
  c2 = c2
  c3 = c3
  ann = ann
  bob = bob
  key = key
  wa = wa
  wb = wb
INVARIANT TypeOK
INVARIANT OwnIdentity
INVARIANT WithinBudget
SYMMETRY SameClient
