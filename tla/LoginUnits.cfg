SPECIFICATION Spec
CONSTANTS
  Accounts = {qq1, qq2}
  Main = qq1
  Nobody = Nobody
  MaxChanges = 1
  MaxPrepares = 1
  MaxCutovers = 2
INVARIANTS
  UnitsInv
PROPERTIES
  UnitsNeverDouble
  KeepsContract
