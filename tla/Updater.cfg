SPECIFICATION FairSpec
CONSTANTS
  Updaters = {u1}
  Versions = {1, 2, 3}
  Faulty = {2}
  None = None
  MaxAttempts = 4
  MaxCommands = 4
  MaxCrashes = 2
INVARIANTS
  TypeOK
  LinksAreInstalled
  FailureRestoresLinks
PROPERTY FailedApplyRecovers
CHECK_DEADLOCK FALSE
