SPECIFICATION GatewaySpec
CONSTANTS
  s1 = s1  s2 = s2  p1 = p1  p2 = p2  q1 = q1  q2 = q2
  None = None
  Service = {s1, s2}
  MaxLeases = 3
  Services <- UserOnly
  MaxInstances = 3
  MaxConns = 7
  MaxCalls = 4
  Peer = {p1, p2}
  Limit = 2
  Window = 2
  Request = {q1, q2}
PROPERTY OnlyListsTakeDown
CHECK_DEADLOCK FALSE
