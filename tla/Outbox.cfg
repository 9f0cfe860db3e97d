SPECIFICATION TimedFairSpec
CONSTANTS
  NoKey = NoKey
  qq = qq
  alarm = alarm
  Keys <- MCKeys
  QQKeys <- MCQQKeys
  CriticalKeys <- MCCriticalKeys
  Policies = {"all", "critical_only"}
  Holds = {0}
  BatchLimit = 1
  RetryInitial = 1
  RetryMax = 2
  MaxExponent = 1
  MaxRestarts = 1
  MaxLostReplies = 1
INVARIANTS
  OutboxBooks
  DuplicatesAreExcused
PROPERTIES
  KeepsPromise
  EveryMailSettles
  QQNoticeReachesOwner
