SPECIFICATION HSpec
CONSTANTS
  Migrators = {m1, m2}
  Switchers = {s1}
  Writers = {w1}
  MayOverlap <- OneMigration
  Workspaces = {wa}
  LocalName = default
  NoWs = NoWs
  EnvWs = NoWs
  EnvTeam = NoWs
  EnvMode = "none"
  Free = Free
  Unbuilt = Unbuilt
  InitModes = {"remote"}
  InitTeams = {NoWs}
  Packages = {"absent", "current"}
  ConfigOutcomes = {"ok", "unreadable"}
  SaveMayFail = TRUE
  KeyMayBeMissing = FALSE
INVARIANT TypeOK
INVARIANT CachesAgree
INVARIANT NoSelfImport
INVARIANT WriteLandsInSession
PROPERTY RefinesSession
