CONSTANTS
  Engines = {"mysql", "pg", "mssql", "oracle", "sqlite", "duckdb", "snowflake", "clickhouse", "bytehouse", "agent", "agent_mssql"}
  Tables <- MCTables
  FilterLists <- MCFilterLists
  Limits = {1}
  Estimates <- MCEstimates
  Letters <- MCLetters
  MaxRows = 2
  DefaultRows = 2
  Steps = 2
  Ids = {1, 2, 3}
  Keys = {1, 2, 3}
  Vals = {0, 1}
  Drafts = {"d1", "blank"}
  Others = 1
  Staged = 2
  Commits = 1
SPECIFICATION MCSpec
INVARIANTS ShownIsAsked PageIsRight PagerReaches OnlyThatRow DraftsKept 
CHECK_DEADLOCK FALSE
