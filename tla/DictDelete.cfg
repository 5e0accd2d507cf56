SPECIFICATION Spec
CONSTANTS
  w1 = w1
  w2 = w2
  w3 = w3
  q1 = q1
  q2 = q2
  Worker = {w1, w2}
  Id = {1, 2}
  Qual = {q1}
  Ops = {"Get", "Delete"}
  Faults = {}
  SoftDelete = FALSE
  MaxCalls = 3
  None = none
  Gone = gone
CHECK_DEADLOCK FALSE
INVARIANTS NotFoundMeansAbsent
