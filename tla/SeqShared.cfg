SPECIFICATION FairSpec
CONSTANTS
  c1 = c1
  c2 = c2
  p1 = p1
  Caller = {c1, c2}
  ProcOf <- TwoCallers
  Ops = {"Next", "Current", "SetCurrent"}
  Values <- WideValues
  Faults = {"find", "update", "updateReply", "insert", "insertReply", "crash"}
  MaxInt32 = 2
  MaxCalls = 3
  None = none
INVARIANTS OneObject
PROPERTIES EveryCallEnds
CHECK_DEADLOCK FALSE
