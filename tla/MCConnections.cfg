CONSTANTS
  Requests = {r1, r2}
  Idle = 2
  Conns = {c1, c2}
  Calls = {q1, q2}
  Engines = {"mysql", "cockroachdb", "mssql", "sqlite", "snowflake", "bytehouse"}
  Sessions = {s1, s2}
  Databases = {"d1", "d2"}
  Default = "d1"
  Statements <- MCStatements
  Sizes = {2}
  MaxRows = 1
  Changes = 1
SPECIFICATION MCSpec
INVARIANTS NothingLeaks Undisturbed Fresh  
PROPERTIES DeletedIsClosed CloserEndsAll RunsEnd
CHECK_DEADLOCK FALSE
