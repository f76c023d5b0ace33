SPECIFICATION FairSpec
CONSTANTS
  MaxSent = 3
  MaxUp = 2
  MaxFaults = 1
  MaxFailures = 2
INVARIANTS TypeOK QueueOnlyWhileDormant
PROPERTIES FifoRefined AwakeIsReachable
CHECK_DEADLOCK FALSE
