SPECIFICATION NumbersSpec
CONSTANTS
  s1 = s1
  p1 = p1
  k1 = k1
  k2 = k2
  r1 = r1
  r2 = r2
  Caller = {s1}
  Server = s1
  ProcOf <- OneServer
  Remote = {k1, k2}
  Ops = {"Next", "Current"}
  Values = {0}
  Faults = {"find", "insertReply", "update", "updateReply", "crash"}
  MaxInt32 = 2
  MaxCalls = 3
  Topics = {"whole", "dotted", "bare"}
  WireFaults = {"publish"}
  None = none
  MaxId = 3
  Kinds = {"initer", "ensurer"}
  Releases <- ThreeReleases
  Deletions = {"delete", "mark"}
  Run = {r1, r2}
  Creator = {k1}
  SeedFaults = {"insert", "insertReply", "sequence", "crash"}
  NoCache = noCache
CHECK_DEADLOCK FALSE
INVARIANTS NoNumberTwice NumbersKept TakenIdExplained EnsuredArePresent
SYMMETRY Symmetry
