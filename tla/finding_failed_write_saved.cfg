SPECIFICATION Spec
CONSTANTS
  Tools <- SessionSavers
  Occurring <- Plain
  Picks = {wa}
  Default = wd
  NoWs = NoWs
INVARIANT AcknowledgedWasDone
