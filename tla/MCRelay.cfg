SPECIFICATION FairSpec
CONSTANTS
  CutParts = {"torn", "bare"}
  MaxRecords = 3
  MaxHostCrashes = 1
  MaxRelayCrashes = 2
  MaxFaults = 2
INVARIANTS
  TypeOK
  PoisonHasCause
  StoppedIsDrained
PROPERTIES
  ImplementsMirror
  Mirrored
CHECK_DEADLOCK FALSE
