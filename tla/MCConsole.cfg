CONSTANTS
  Flows = {f1, f2}
  NoFlow = NoFlow
  MaxClients = 2
  MaxSessions = 2
  MaxDeaths = 1
  MaxTyped = 1
SPECIFICATION FairSpec
INVARIANTS TypeOK NoFrameSkipped DeniedIsFinal
PROPERTIES Decides
CHECK_DEADLOCK FALSE
