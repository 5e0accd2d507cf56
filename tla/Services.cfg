SPECIFICATION ServicesSpec
CONSTANTS
  Key = {k1, k2}
  Value = {1, 2, 3}
  Zero = 0
  Item = {i1, i2}
  Nil = nil
  Size = 1
  MaxClock = 4
  Locker = {g1, g2}
  Job = {j1, j2}
  Run = {r1, r2, r3}
  Canceller = {x1}
  NoRun = noRun
  Provider = {p1, p2, p3}
  Priority = {1, 2}
  ReadOnly = {p1}
  Setting = {v1, v2}
  Unset = unset
  Callback = {c1, c2}
  MaxChanges = 2
  Request = {q1, q2, q3}
  MaxEdits = 3
  Services <- AllServices
  Engines = {e1, e2}
  Client = {1, 2}
  Opener = {o1, o2}
  Alias = {"a"}
  Faulty = {e1, "gql"}
  Wrapped = TRUE
  From = {0, 30, 330, 395}
  To = {430}
  Durations = {0, 7}
  DateSteps <- Steps
  Fields = 2
  FieldValue = {w1, w2}
  Default = default
  Caller = {a1, a2}
  MaxOperations = 2
  MaxFailures = 1
  Actor = {u1, u2}
  Reference = {d1}
  Unknown = unknown
  NoReference = noReference
  NoThing = noThing
  Declarations <- FourDeclarations
  BulkInputs <- TwoBulks
  MaxId = 2
  MaxMethodCalls = 2
  MaxMethodFaults = 1
  Starter = {b1, b2}
  Resources = 2
  Parents <- AnyParents
  MaxStarts = 3
  MaxResourceFaults = 1
INVARIANTS LocksKept JobsExplained ConfigExplained ConfigKept OldProgramExplained StartsRight MethodsExplained ResourcesExplained
PROPERTIES NothingSkipped
CHECK_DEADLOCK FALSE
