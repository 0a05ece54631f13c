SPECIFICATION Spec
SYMMETRY MCSymmetry
CONSTANTS
  Client = {c1, c2}
  Id = {k1, k2, k3, k4}
  NoId = NoId
  MaxSize = 2
  InitMax = 1
  Sizes = {1, 2}
  MayShrink = FALSE
  Race = FALSE
  Late = FALSE
  Slow = FALSE
  Faults = {"crash", "clone", "destroy", "ip"}
  MaxFaults = 1
INVARIANT TypeOK
INVARIANT UniqueNames
INVARIANT LeaseBacked
INVARIANT LiveLeaseHoldsVm
INVARIANT ExclusiveLease
INVARIANT ReadyIsPristine
INVARIANT Order
INVARIANT History
PROPERTY KeepsContract
