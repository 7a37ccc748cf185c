CONSTANTS
  r1 = r1
  r2 = r2
  f1 = f1
  f2 = f2
  c1 = c1
  c2 = c2
  Requests = {r1}
  Flows = {f1, f2}
  Caps = {c1, c2}
  NoReq = NoReq
  NoFlow = NoFlow
  NoCap = NoCap
  MaxCrashes = 1
  WalCanFail = TRUE
  AuditCanFail = TRUE
SPECIFICATION Spec
SYMMETRY Symmetry
CONSTRAINT OneTroubleAtATime
INVARIANTS
  TypeOK AtMostOnce EffectHasConsent DenialOnRecordIsFinal OneGrantPerFlow
  ClaimInv MemoryIsReplay
PROPERTIES NoEffectAfterKill ImplementsPromise
CHECK_DEADLOCK FALSE
