SPECIFICATION FairSpec
CONSTANTS
  Requests = {r1}
  LastHalf = 5
  Limit = 1
  Chunk = 2
  MaxBytes = 3
  MaxRecords = 2
  MaxFaults = 1
  MaxStarts = 1
INVARIANTS
  UsageBooks
  NoDayIsSkipped
  ShortRecordsAreHandedOn
PROPERTIES
  DueReportIsMailed
CHECK_DEADLOCK FALSE
