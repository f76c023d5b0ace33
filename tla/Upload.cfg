SPECIFICATION FairSpec
CONSTANTS
  p = p
  q = q
  Payloads <- MCPayloads
  PayloadLen <- MCPayloadLen
  RealTasks = {1}
  MaxId = 2
  MaxRetries = 1
  s1 = s1
  Slots = {s1}
  MaxCalls = 2
  MaxFaults = 1
  NoFile = NoFile
  Hole = Hole
INVARIANTS TypeOK OffsetIsContiguous CleanCallSucceeds
PROPERTIES TransferRefined CallReturns
CHECK_DEADLOCK FALSE
