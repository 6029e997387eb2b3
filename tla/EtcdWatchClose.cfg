SPECIFICATION FairSpec
CONSTANTS
  Watcher = {w1, w2}
  Name = {n1}
  MaxChanges = 1
  None = None
PROPERTY CloseEndsWatches
CHECK_DEADLOCK FALSE
