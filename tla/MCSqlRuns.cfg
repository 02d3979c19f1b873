SPECIFICATION FairSpec
CONSTANTS
  r1 = r1
  r2 = r2
  None = None
  Runs = {r1}
  ViaAgent = {}
  Statements <- EverySize
  RowLimit = 3
  BatchSize = 2
  HistoryMax = 1
  MaxFaults = 4
INVARIANTS
  ResultWhole
  ActiveListed
  HistoryTruthful
  TwiceOnlyAfterTimeout
  EditorIsAnswered
PROPERTIES
  RunsEnd
