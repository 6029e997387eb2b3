SPECIFICATION ClientSpec
CONSTANTS
  d1 = d1  d2 = d2  s1 = s1  s2 = s2  a1 = a1  a2 = a2  None = None  Nil = Nil
  k1 = k1  k2 = k2  k3 = k3  g1 = g1  g2 = g2  p1 = p1  p2 = p2  p3 = p3
  Dialer = {d1, d2}
  Service = {s1, s2}
  Addr = {a1, a2}
  Listing <- MCListing
  MaxConns = 1
  TTL = 1
  Threshold = 2
  Timeout = 1
  MaxFailures = 3
  MaxCreated = 3
  Key = {k1, k2, k3}
  Goroutine = {g1, g2}
  Cap = 2
  ItemTTL = 2
  MaxSets = 4
  MaxTime = 4
  Peer = {p1, p2, p3}
  PeerListing <- MCPeerListing
  MaxServed = 3
SYMMETRY MCSymmetry
INVARIANTS
  PoolOwnsConnections
  CachedConnectionUsable
  ShardWithinCapacity
  SharesLoad
PROPERTY QuietEvictionIsLRU
CHECK_DEADLOCK FALSE
