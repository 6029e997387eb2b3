SPECIFICATION FairSpec
CONSTANTS
  Service = {s1, s2}
  MaxLeases = 3
  None = None
PROPERTY DeregisteredDisappears
CHECK_DEADLOCK FALSE
