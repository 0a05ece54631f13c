SPECIFICATION Spec
SYMMETRY MCSymmetry
CONSTANTS
  Client = {c1}
  Id = {k1, k2, k3, k4}
  NoId = NoId
  MaxSize = 2
  InitMax = 2
  Sizes = {1}
  MayShrink = TRUE
  Race = FALSE
  Late = FALSE
  Slow = FALSE
  Faults = {"state"}
  MaxFaults = 1
INVARIANT VmTracked
INVARIANT Tracking
