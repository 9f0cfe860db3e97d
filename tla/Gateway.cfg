SPECIFICATION FairSpec
CONSTANTS
  Accounts = {qq1, qq2}
  Nobody = Nobody
  Sessions = {s1, s2}
  NoOne = NoOne
  MaxPrepares = 3
  MaxRestarts = 1
INVARIANTS
  MemoryIsSound
  CachedCodeIsOfClient
PROPERTIES
  EveryPrepareAnswers
