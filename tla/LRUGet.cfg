SPECIFICATION Spec
CONSTANTS
  Key = {k1, k2, k3}
  Value = {v1, v2}
  Zero = zero
  Item = {i1, i2}
  Nil = nil
  Size = 2
  MaxClock = 3
INVARIANTS GetReturnsStored
CHECK_DEADLOCK FALSE
