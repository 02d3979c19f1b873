SPECIFICATION MCSpec
CONSTANTS
  a1 = a1
  c1 = c1
  c2 = c2
  r1 = r1
  r2 = r2
  Agents <- OneAgent
  Conns = {c1, c2}
  AgentOf <- MCAgentOf
  Requests = {r1, r2}
  TargetOf <- MCTargetOf
  Batches = 1
  BufCap = 3
  NetCap = 1
  NoConn = NoConn
CHECK_DEADLOCK FALSE
INVARIANTS OneLiveConnection 
PROPERTIES KeepsPromise CallsEnd NoZombies
