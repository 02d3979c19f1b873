SPECIFICATION Spec
CONSTANTS
  c1 = c1
  c2 = c2
  d1 = d1
  D1 = D1
  d2 = d2
  t1 = t1
  none = none
  noCall = noCall
  Calls = {c1}
  Inputs <- AllInputs
  Names <- MCNames
  NoName = none
  Fold <- MCFold
  PinnedDB = d1
  DSNDefault = none
  UsedDBs <- MCUsed
  GrantedAtStart = {}
  PolicyTables <- MCRows
  PolicyFlags = {"delete"}
  NoCall = noCall
  EventCap = 1
  MaxTurns = 1
  MaxClicks = 2
  StoreMayFail = TRUE
  MayCrash = TRUE
INVARIANTS TypeOK NothingRunsUnapproved AuditTruthful
PROPERTIES RevokedNeverRuns ImplementsApproval
