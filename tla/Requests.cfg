SPECIFICATION Spec
CONSTANTS
  r1 = r1  r2 = r2  r3 = r3  n1 = n1  n2 = n2  c1 = c1  c2 = c2
  Req = {r1, r2, r3}
  Name = {n1, n2}
  MaxId = 1
  Limit = 16
  MaxSize = 4
  DefaultSize = 2
  PageArgs <- MCPages
  Customer = {c1, c2}
  Pending = Pending
  Done = Done
  Status = {Pending, Done}
  BadStatus = BadStatus
  Blank = Blank
  None = None
SYMMETRY Symmetry
INVARIANTS
  UniqueUnlessRenamed
  AnswersFresh
  ObjectsStayValid
  OverflowAloneCrashes
PROPERTY DeletedStaysDeleted
CHECK_DEADLOCK FALSE
