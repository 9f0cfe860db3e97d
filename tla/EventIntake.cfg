SPECIFICATION FairSpec
CONSTANTS
  Users = {u}
  Invitations = {}
  Groups = {g}
  Handlers = {h1, h2}
  NoOne = NoOne
  MaxPushes = 2
  MaxMoves = 2
  MaxFaults = 1
INVARIANTS
  EventBooks
  GroupBooks
PROPERTY UnseenRequestIsAnnounced
