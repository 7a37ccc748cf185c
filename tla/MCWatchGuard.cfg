CONSTANTS
  Idle = 2
  CloseTicks = 3
  Respawns = FALSE
  MaxHosts = 2
  MaxSpawns = 2
  MaxHangs = 1
  MaxBreaks = 2
  MaxGuardDeaths = 1
  MaxKills = 1
SPECIFICATION FairSpec
INVARIANTS TypeOK NoFalseKill
PROPERTIES GuardHoldsWorker HungWorkerIsKilled LostGuardSuspends
