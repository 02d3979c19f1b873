CONSTANTS
  Engines = {"mysql"}
  Tables <- MCTables
  FilterLists <- MCFilterLists
  Limits = {1}
  Estimates <- MCEstimates
  Letters <- MCLetters
  MaxRows = 2
  DefaultRows = 2
  Steps = 0
  Ids = {1, 2, 3}
  Keys = {1, 2, 3}
  Vals = {0, 1}
  Drafts = {"d1", "blank"}
  Others = 1
  Staged = 2
  Commits = 1
SPECIFICATION MCSpec
INVARIANT DeletesTheMarked
CHECK_DEADLOCK FALSE
