SPECIFICATION Spec
CONSTANTS
  Updaters = {u1, u2}
  Versions = {1, 2}
  Faulty = {2}
  None = None
  MaxAttempts = 4
  MaxCommands = 2
  MaxCrashes = 0
INVARIANT SwitchedOnlyWhenChecked
CHECK_DEADLOCK FALSE
