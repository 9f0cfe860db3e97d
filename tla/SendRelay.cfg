SPECIFICATION FairSpec
CONSTANTS
  Echoes = {e1, e2, e3}
  NoEcho = NoEcho
  Maximum = 2
  Timeout = 2
  QueueSize = 1
  MaxRequests = 3
INVARIANTS
  VerdictsAreSound
  EvidenceAddsUp
PROPERTY EveryRequestIsJudged
