SPECIFICATION Spec
CONSTANTS
  Key = {k1, k2, k3, k4}
  Value = {v1, v2}
  Zero = zero
  Item = {i1, i2, i3}
  Nil = nil
  Size = 3
  MaxClock = 5
SYMMETRY Symmetry
INVARIANTS NoPanic WellFormed
PROPERTIES ImplementsLRU
