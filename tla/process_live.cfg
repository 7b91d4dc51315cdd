SPECIFICATION FairSpec
CONSTANTS
  Migrators = {m1}
  Switchers = {s1}
  Writers = {w1}
  MayOverlap <- AnyOverlap
  Workspaces = {wa}
  LocalName = default
  NoWs = NoWs
  EnvWs = NoWs
  EnvTeam = NoWs
  EnvMode = "none"
  Free = Free
  Unbuilt = Unbuilt
  InitModes = {"local", "remote"}
  InitTeams = {wa}
  Packages = {"absent", "current"}
  ConfigOutcomes = {"ok", "unreadable"}
  SaveMayFail = TRUE
  KeyMayBeMissing = TRUE
PROPERTY EveryCallEnds
