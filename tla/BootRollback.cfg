SPECIFICATION Spec
CONSTANTS
  Credentials = {c1}
  LongPress = 1
  Warn = 2
  Commit = 3
  MaxFailures = 3
INVARIANT RollsBack
