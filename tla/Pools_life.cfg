SPECIFICATION FairSpec
CONSTANTS
  Name = {p}
  Key = {k1, k2}
  NoKey = NoKey
  Id = {i1, i2, i3, i4}
  NoId = NoId
  Operator = {o1}
  Daemon = Daemon
  MaxSize = 1
  SameTemplate = FALSE
  Commands = {"add", "add unknown", "remove", "purge", "decr", "release"}
  Patient = TRUE
  MaxEvents = 3
  Faults = {"crash", "host", "state"}
  MaxFaults = 1
INVARIANT TypeOK
INVARIANT AddedPoolStays
INVARIANT GoneMeansEmpty
INVARIANT Bookkeeping
INVARIANT Traced
PROPERTY Removed
PROPERTY DanglingGoes
PROPERTY ComesUp
CHECK_DEADLOCK FALSE
