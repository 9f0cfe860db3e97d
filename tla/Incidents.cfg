SPECIFICATION Spec
CONSTANTS
  NoKey = NoKey
  NoTime = NoTime
  Keys <- MCKeys
  QQKeys = {}
  CriticalKeys <- MCCriticalKeys
  Policies = {"all"}
  Holds = {0, 1}
  BatchLimit = 2
  RetryInitial = 1
  RetryMax = 1
  MaxExponent = 0
  MaxRestarts = 1
  MaxLostReplies = 0
  Monitors = {"probe"}
  Hooks = {"hook"}
  Reconcilers = {}
  Threshold = 2
  EmailDelay = 1
  Notify = TRUE
  MaxJobs = 3
  MaxTime = 2
  MaxAborts = 1
INVARIANTS
  TypeOK
  OneAtATime
  NoSilentIncident
  WithdrawnIsNeverDelivered
PROPERTY UsesOutbox
CHECK_DEADLOCK FALSE
