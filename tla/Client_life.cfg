SPECIFICATION FairSpec
CONSTANTS
  Slot = {s1}
  Client = {h1, h2}
  NoSlot = NoSlot
  Blocking = {h1}
  Expiration = 2
  MaxTimers <- Timers
  MaxFaults = 1
INVARIANT TypeOK
INVARIANT Believed
PROPERTY Freed
PROPERTY Acquires
CHECK_DEADLOCK FALSE
