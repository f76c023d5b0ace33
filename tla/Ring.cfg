SPECIFICATION Spec
CONSTANTS
  QueueSize = 4
  MaxSent = 8
INVARIANTS TypeOK NothingLostWithinCapacity
PROPERTY FifoRefined
CHECK_DEADLOCK FALSE
