SPECIFICATION LinkSpec
CONSTANTS
  Connections = {c1}
  General = general
  Callbacks = TRUE
  Threshold = 3
  Window = 2
  MaxTime = 4
  MaxLines = 4
  MaxLinkFaults = 1
INVARIANTS
  LinkTypeOK
  AlarmIsSound
  BurstRaisesAlarm
