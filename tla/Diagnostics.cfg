SPECIFICATION FairSpec
CONSTANTS
  Tasks = {probe}
  Loop = Loop
  NoTask = NoTask
  Targets = {t}
  Server = Server
  NoTime = NoTime
  EmailReports = TRUE
  After = 1
  Cooldown = 2
  Stale = 1
  Gap = 1
  OomEvery = 2
  Sustained = 1
  MaxReports = 2
  Retention = 1
  PendingLimit = 1
  MaxTime = 2
  MaxFaults = 1
INVARIANTS
  TypeOK
  ReportBooks
PROPERTIES
  EveryReportCompletes
  GapReachesOwner
  OomIsMailed
CHECK_DEADLOCK FALSE
