SPECIFICATION FilesSpec
CONSTANTS
  Procs = {p1, p2}
  Keys = {k1, k2}
  NoKey = NoKey
  LegacyOverlaps = FALSE
  MaxWrites = 4
  NoProc = NoProc
  NoFile = NoFile
  ApiKeys = {k1, k2}
  Nothing = Nothing
  NotBuilt = NotBuilt
  NotDue = NotDue
  Autos = {a1, a2}
  Hooked = {"h1", "h2"}
  NoSettings = NoSettings
  NoTemp = NoTemp
  Absent = Absent
  Corrupt = Corrupt
  p1 = p1
  p2 = p2
  k1 = k1
  k2 = k2
  a1 = a1
  a2 = a2
SYMMETRY Alike
INVARIANT TypeOK
INVARIANT NeverExposed
INVARIANT ReadsStored
INVARIANT MissesOnlyAcross
PROPERTY KeyPreserved
PROPERTY LoginTakesEffect
PROPERTY SessionFileIsTrue
