CONSTANTS
  Idle = 3
  CloseTicks = 3
  Respawns = TRUE
  MaxHosts = 1
  MaxSpawns = 2
  MaxHangs = 0
  MaxBreaks = 0
  MaxGuardDeaths = 0
  MaxKills = 0
SPECIFICATION FairSpec
PROPERTIES GuardHoldsWorker
