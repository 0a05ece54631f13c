SPECIFICATION Spec
CONSTANTS
  Name = {p, q}
  Key = {k1, k2}
  NoKey = NoKey
  Id = {i1, i2, i3}
  NoId = NoId
  Operator = {o1}
  Daemon = Daemon
  MaxSize = 1
  SameTemplate = TRUE
  Commands = {"add"}
  Patient = TRUE
  MaxEvents = 2
  Faults = {}
  MaxFaults = 0
INVARIANT LeaseKeepsVm
CHECK_DEADLOCK FALSE
