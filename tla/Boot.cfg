SPECIFICATION Spec
CONSTANTS
  Credentials = {c1, c2}
  LongPress = 1
  Warn = 2
  Commit = 3
  MaxFailures = 2
SYMMETRY Symmetry
INVARIANTS TypeOK SavedIsLoaded BootsWhole
PROPERTIES SwapKeepsCredentials ResetNeedsHold
