SPECIFICATION FairSpec
CONSTANTS
  Day = 8
  Window = 1
  MaxTasks = 2
  MaxAway = 3
  MaxAttempts = 1
INVARIANTS TypeOK NoOversleep
PROPERTIES AwakeRunsOnce AwakeKeepsRunning WakesAndRuns
