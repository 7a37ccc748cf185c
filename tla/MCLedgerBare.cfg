CONSTANTS
  MaxRecords = 3
  MaxCrashes = 1
  MaxCuts = 0
SPECIFICATION Spec
INVARIANTS CrashIsTolerated
CHECK_DEADLOCK FALSE
