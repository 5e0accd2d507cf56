SPECIFICATION Spec
CONSTANTS
  c1 = c1
  c2 = c2
  p1 = p1
  Caller = {c1, c2}
  ProcOf <- TwoCallers
  Ops = {"Next"}
  Values = {0}
  Faults = {}
  MaxInt32 = 9
  MaxCalls = 3
  None = none
INVARIANTS NoNumberTwice
CHECK_DEADLOCK FALSE
