SPECIFICATION PartsSpec
CONSTANTS
  Tools <- Heeding
  Occurring <- Plain
  Picks = {wa, wb}
  Default = wd
  NoWs = NoWs
  wa = wa
  wb = wb
  LocalTools <- LocalHeeding
  CoreOccurring <- CorePlain
  Threads = {t1, t2, t3}
  MaxSearches = 3
  NoThread = NoThread
  NoReply = NoReply
  t1 = t1
  t2 = t2
  t3 = t3
  Overfetch = 2
  OverfetchMax = 3
  MaxTopK = 2
  MaxSessions = 4
  NoStore = NoStore
  Sorted <- ThreePaths
  Sources <- TwoSources
  Tested <- NamedFor
  Unparsable = Unparsable
  NoFile = NoFile
  Prior = Prior
SYMMETRY Alike
INVARIANT OutageIsTold
INVARIANT AcknowledgedWasDone
INVARIANT HeldIsTold
INVARIANT LostAddIsUnconfirmed
PROPERTY PicksHonoured
INVARIANT AcknowledgedIsNamed
INVARIANT LineNamesTarget
INVARIANT LocalReplyIsTrue
INVARIANT BothBackendsAgree
INVARIANT OneMemory
INVARIANT OwnOrOverlapping
INVARIANT AbsenceIsTold
INVARIANT IndexIsTrue
