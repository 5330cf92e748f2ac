SPECIFICATION FairSpec
CONSTANTS
  RingCap = 3
  ChanCap = 3
  MaxBytes = 6
  MaxChunk = 2
  OthersFill = FALSE
  WeakMemory = TRUE
INVARIANTS
  TypeOK
  OutputExact
  NoBacklogHeld
  ExitReported
PROPERTIES
  StreamServed
