SPECIFICATION Spec
CONSTANTS
  Migrators = {m1, m2, m3}
  Switchers = {s1}
  Writers = {}
  MayOverlap <- OneAtATime
  Workspaces = {wa, wb}
  LocalName = default
  NoWs = NoWs
  EnvWs = wa
  EnvTeam = wa
  EnvMode = "local"
  Free = Free
  Unbuilt = Unbuilt
  InitModes = {"local", "remote"}
  InitTeams = {NoWs}
  Packages = {"older", "current"}
  ConfigOutcomes = {"ok", "unreadable"}
  SaveMayFail = FALSE
  KeyMayBeMissing = FALSE
INVARIANT RoundTrip
INVARIANT ArrivalNamed
INVARIANT SavedDefaultKept
