CONSTANTS
  MaxRecords = 5
  MaxCrashes = 3
  MaxCuts = 1
SPECIFICATION FairSpec
INVARIANTS TypeOK
PROPERTIES ImplementsDurableLog OpensAgain
CHECK_DEADLOCK FALSE
