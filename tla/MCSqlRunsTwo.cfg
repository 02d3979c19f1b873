SPECIFICATION Spec
CONSTANTS
  r1 = r1
  r2 = r2
  None = None
  Runs = {r1, r2}
  ViaAgent = {r2}
  Statements <- WriteOrTwo
  RowLimit = 1
  BatchSize = 1
  HistoryMax = 1
  MaxFaults = 0
INVARIANTS
  ResultWhole
  HistoryRecent
