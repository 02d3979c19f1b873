CONSTANTS
  Engines = {"mysql"}
  Tables <- MCTables
  FilterLists <- MCFilterLists
  Limits = {1}
  Estimates <- MCEstimates
  Letters <- MCLetters
  MaxRows = 2
  DefaultRows = 2
  Steps = 0
  Ids = {1, 2, 3}
  Keys = {1, 2}
  Vals = {0, 1}
  Drafts = {"blank"}
  Others = 0
  Staged = 3
  Commits = 1
SPECIFICATION MCSpec
INVARIANT CountedIsMeant
CHECK_DEADLOCK FALSE
