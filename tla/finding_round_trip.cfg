SPECIFICATION Spec
CONSTANTS
  Migrators = {m1, m2}
  Switchers = {s1}
  Writers = {}
  MayOverlap <- OneMigration
  Workspaces = {wa, wb}
  LocalName = default
  NoWs = NoWs
  EnvWs = NoWs
  EnvTeam = NoWs
  EnvMode = "none"
  Free = Free
  Unbuilt = Unbuilt
  InitModes = {"local", "remote"}
  InitTeams = {wa}
  Packages = {"current"}
  ConfigOutcomes = {"ok", "unreadable"}
  SaveMayFail = FALSE
  KeyMayBeMissing = FALSE
INVARIANT RoundTrip
