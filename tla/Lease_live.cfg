SPECIFICATION FairSpec
CONSTANTS
  Client = {c1}
  Id = {k1, k2, k3}
  NoId = NoId
  MaxSize = 2
  InitMax = 2
  Sizes = {}
  MayShrink = FALSE
  Race = FALSE
  Late = FALSE
  Slow = FALSE
  Faults = {"crash", "clone", "destroy", "ip"}
  MaxFaults = 1
PROPERTY Reclaimed
PROPERTY Refilled
