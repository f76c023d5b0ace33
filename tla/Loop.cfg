SPECIFICATION FairSpec
CONSTANTS
  Schedules <- MCSchedules
  CaptureIds = {4}
  BaseIds = {5}
  SequenceLength = 2
  QueueSize = 1
  MaxAttempts = 2
  MaxCommands = 4
INVARIANTS TypeOK PendingIntact UploadsItsFrame
PROPERTIES CycleMeansAllTasks AbortStops PendingResolved
