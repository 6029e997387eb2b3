SPECIFICATION FairSpec
CONSTANTS
  Watcher = {w1, w2}
  Name = {n1}
  MaxChanges = 1
  None = None
PROPERTIES
  ViewsMoveForward
  LaterChangesSeen
  CancelledWatchEnds
CHECK_DEADLOCK FALSE
