SPECIFICATION Spec
SYMMETRY MCSymmetry
CONSTANTS
  Client = {c1, c2}
  Id = {k1, k2, k3, k4}
  NoId = NoId
  MaxSize = 2
  InitMax = 1
  Sizes = {}
  MayShrink = FALSE
  Race = FALSE
  Late = FALSE
  Slow = FALSE
  Faults = {"state"}
  MaxFaults = 1
INVARIANT LiveLeaseHoldsVm
