SPECIFICATION StoredSpec
CONSTANTS
  w1 = w1
  w2 = w2
  w3 = w3
  q1 = q1
  q2 = q2
  Worker = {w1, w2, w3}
  Id = {1, 2}
  Qual = {q1, q2}
  Ops = {"Get", "GetAll", "Set", "Change", "New", "Delete"}
  Faults = {"list", "save", "saveReply", "create", "createReply", "remove", "removeReply", "parse", "check", "crash"}
  SoftDelete = TRUE
  MaxCalls = 3
  None = none
  Gone = gone
  v1 = v1
  v2 = v2
  Client = {w1, w2}
  Val = {v1, v2}
  Null = null
  Keep = keep
  NoDoc = nodoc
  Settings <- AllSettings
  Batches <- SomeBatches
  MaxEntityId = 3
  MaxRequests = 2
  MaxFaults = 1
CHECK_DEADLOCK FALSE
INVARIANTS CacheAgrees MissesExplained HistoryConsistent StoredAsAnswered
PROPERTIES BrokenIsFinal OverwritesExplained VersionsExplained
SYMMETRY Symmetry
