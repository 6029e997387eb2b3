SPECIFICATION FairSpec
CONSTANTS
  d1 = d1  d2 = d2  s1 = s1  s2 = s2  a1 = a1  a2 = a2  None = None
  Dialer = {d1, d2}
  Service = {s1}
  Addr = {a1, a2}
  Listing <- MCStableListing
  MaxConns = 2
  TTL = 1
  Threshold = 2
  Timeout = 1
  MaxFailures = 3
  MaxCreated = 4
PROPERTY BreakerRecovers
CHECK_DEADLOCK FALSE
