SPECIFICATION SteadySpec
CONSTANTS
  MaxSent = 3
  MaxUp = 2
  MaxFaults = 0
  MaxFailures = 2
INVARIANT DormantNeverLost
CHECK_DEADLOCK FALSE
