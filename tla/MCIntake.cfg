CONSTANTS
  Threads = {t1, t2}
  Worker = worker
  Other = other
  Ours = session
  Principal = worker
  Session = session
  Unparsed = unparsed
  Nothing = nothing
  AnyPrincipal <- Everyone
  Root <- WorkspaceRoot
  Files <- ExistingFiles
  Folders <- ExistingFolders
  Identifiers <- Ids
  MockAddresses <- Addresses
  Inputs <- Envelopes
  Packages <- Bundles
  MinWindow = 4
  MaxCalls = 3
  MaxRestarts = 1
SYMMETRY Symmetric
SPECIFICATION Spec
INVARIANTS TypeOK ScoreIsActedOn UnavailableIsClosed EffectIsPermitted
CHECK_DEADLOCK FALSE
