CONSTANTS
  r1 = r1
  r2 = r2
  f1 = f1
  f2 = f2
  c1 = c1
  c2 = c2
  Requests = {r1}
  Flows = {f1}
  Caps = {c1}
  NoReq = NoReq
  NoFlow = NoFlow
  NoCap = NoCap
  MaxCrashes = 1
  WalCanFail = TRUE
  AuditCanFail = FALSE
SPECIFICATION Spec
INVARIANTS DeniedNeverRuns
CHECK_DEADLOCK FALSE
