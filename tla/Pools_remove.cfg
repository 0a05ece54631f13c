SPECIFICATION FairSpec
CONSTANTS
  Name = {p}
  Key = {k1, k2}
  NoKey = NoKey
  Id = {i1, i2, i3}
  NoId = NoId
  Operator = {o1}
  Daemon = Daemon
  MaxSize = 1
  SameTemplate = FALSE
  Commands = {"add", "remove"}
  Patient = TRUE
  MaxEvents = 2
  Faults = {}
  MaxFaults = 0
PROPERTY RemovedPoolGoes
CHECK_DEADLOCK FALSE
