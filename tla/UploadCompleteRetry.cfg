SPECIFICATION Spec
CONSTANTS
  p = p
  q = q
  Payloads <- MCPayloads
  PayloadLen <- MCPayloadLen
  RealTasks = {1}
  MaxId = 2
  MaxRetries = 1
  s1 = s1
  Slots = {s1}
  MaxCalls = 1
  MaxFaults = 0
  NoFile = NoFile
  Hole = Hole
INVARIANT CompleteRetryRevalidates
CHECK_DEADLOCK FALSE
