SPECIFICATION Spec
CONSTANTS
  Migrators = {m1}
  Switchers = {s1}
  Writers = {}
  MayOverlap <- OneMigration
  Workspaces = {wa}
  LocalName = default
  NoWs = NoWs
  EnvWs = NoWs
  EnvTeam = NoWs
  EnvMode = "none"
  Free = Free
  Unbuilt = Unbuilt
  InitModes = {"local", "remote"}
  InitTeams = {NoWs}
  Packages = {"current"}
  ConfigOutcomes = {"ok", "unreadable"}
  SaveMayFail = FALSE
  KeyMayBeMissing = FALSE
INVARIANT SavedDefaultKept
