SPECIFICATION FairSpec
CONSTANTS
  c1 = c1
  c2 = c2
  d1 = d1
  D1 = D1
  d2 = d2
  t1 = t1
  none = none
  noCall = noCall
  Calls = {c1}
  Inputs <- OneInput
  Names <- MCNames
  NoName = none
  Fold <- MCFold
  PinnedDB = d1
  DSNDefault = none
  UsedDBs <- MCUsed
  GrantedAtStart = {}
  PolicyTables <- OneRow
  PolicyFlags = {"delete"}
  NoCall = noCall
  EventCap = 1
  MaxTurns = 1
  MaxClicks = 1
  StoreMayFail = FALSE
  MayCrash = FALSE
PROPERTY DisconnectCancels
