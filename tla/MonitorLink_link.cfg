CONSTANTS
  Sockets = {s1, s2}
  NoSocket = none
  MaxAttempts = 3
  QueueCap = 1
  MaxInputs = 2
  MaxFaults = 3
  MaxUser = 3
SPECIFICATION FairSpec
INVARIANT LinkSound
PROPERTIES InputKept LinkRestored
CHECK_DEADLOCK FALSE
