SPECIFICATION Spec
CONSTANTS
  Absent = Absent
  Zero = Zero
  Good = Good
  Wrong = Wrong
  Garbled = Garbled
  ToFile = ToFile
  Default = Default
  Unreadable = Unreadable
  Files <- MCFiles
  Environments <- MCEnvironments
PROPERTY ServicesRegister
CHECK_DEADLOCK FALSE
