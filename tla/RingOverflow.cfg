SPECIFICATION Spec
CONSTANTS
  QueueSize = 4
  MaxSent = 8
INVARIANT NewestKept
CHECK_DEADLOCK FALSE
