SPECIFICATION Spec
CONSTANTS
  NoKey = NoKey
  NoTime = NoTime
  Keys <- MCKeys
  QQKeys = {}
  CriticalKeys <- MCCriticalKeys
  Policies = {"all"}
  Holds = {0, 1}
  BatchLimit = 2
  RetryInitial = 1
  RetryMax = 1
  MaxExponent = 0
  MaxRestarts = 0
  MaxLostReplies = 0
  Monitors = {"probe"}
  Hooks = {"hook"}
  Reconcilers = {}
  Threshold = 1
  EmailDelay = 1
  Notify = TRUE
  MaxJobs = 3
  MaxTime = 2
  MaxAborts = 0
INVARIANT RecoveryFollowsFailure
CHECK_DEADLOCK FALSE
