SPECIFICATION Spec
CONSTANTS
  h1 = h1
  h2 = h2
  a1 = a1
  a2 = a2
  q1 = q1
  Handler = {h1, h2}
  Admin = {a1, a2}
  Query = {q1}
  NoQuery = noQuery
  Cap = 1
  Switches = {TRUE, FALSE}
  Counts = {2}
  DefaultCount = 1
  LogLonger = {TRUE, FALSE}
  MaxOn = 2
  MaxRequests = 2
  None = none
  Leaked = leaked
CHECK_DEADLOCK FALSE
INVARIANTS KeepsServing CountedOnce SnapshotsAddUp

SYMMETRY Symmetry
