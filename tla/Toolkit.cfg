SPECIFICATION ToolkitSpec
CONSTANTS
  c1 = c1  c2 = c2  c3 = c3  s1 = s1  g1 = g1  g2 = g2
  k1 = k1  k2 = k2  v1 = v1  v2 = v2  r1 = r1  r2 = r2
  Caller = {c1, c2, c3}
  Threshold = 2
  Timeout = 2
  MaxFailures = 5
  Service = {s1}
  PoolCaller = {g1, g2}
  MaxConnections = 1
  Prefill = 1
  MaxPools = 2
  MaxConns = 3
  Cleanup = TRUE
  Key = {k1}
  Setting = {v1, v2}
  Absent = Absent
  Bad = Bad
  MaxFileWrites = 3
  Subject = {"a", "a:q"}
  Group = {"q"}
  Plain = Plain
  MaxSubs = 2
  MaxMsgs = 2
  Reader = {r1, r2}
  CacheKey = {k1}
  ConfiguredTTL = 0
  Hour = 2
  MaxWrites = 2
  Size = {1, 2, 3}
  MaxSize = 2
  MaxLines = 4
  MaxTime = 1
  Version <- MCVersion
  Current <- MCCurrent
  Invalid = Invalid
INVARIANTS
  HalfOpenAfterTimeout
  ListedConnectionsOpen
  CallbacksCaughtUp
  HandledOnceThenAcked
  RotationKeepsLines
PROPERTIES
  ReportingCallersRecover
  ConfigFollowsFile
  StaleCopiesExpire
  VersionsHonoured
CHECK_DEADLOCK FALSE
