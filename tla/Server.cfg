SPECIFICATION ServerSpec
CONSTANTS
  t1 = t1  t2 = t2  t3 = t3  a = a  b = b  w1 = w1  w2 = w2
  u1 = u1  u2 = u2  b1 = b1  b2 = b2  b3 = b3
  q1 = q1  q2 = q2  svc = svc  k1 = k1  k2 = k2
  Task = {t1, t2, t3}
  Type = {a, b}
  TypeOf <- MCTypeOf
  Worker = {w1, w2}
  QueueSize = 2
  NoTask = NoTask
  NoType = NoType
  Limit = 2
  Grain = 3
  User = {u1, u2}
  Buffer = {b1, b2, b3}
  SizeArgs = {3, 5, 70}
  NoBuffer = NoBuffer
  Call = {q1}
  Service = {svc}
  Check = {k1, k2}
  MaxStarts = 2
  MaxStops = 2
INVARIANTS
  NoSendOnClosed
  RegisteredHandlerRuns
  RateBounded
  BuffersCleanAndAlone
  EndsOnlyByCallers
PROPERTIES
  ImplementsLedger
  DrainsAndEnds
  AskersAdmitted
  ChecksRunUntilStop
CHECK_DEADLOCK FALSE
