SPECIFICATION Spec
CONSTANTS
  Slot = {s1}
  Client = {h1}
  NoSlot = NoSlot
  Blocking = {h1}
  Expiration = 4
  MaxTimers <- Timers
  MaxFaults = 0
INVARIANT HeldIsReserved
CHECK_DEADLOCK FALSE
