CONSTANTS
  Pages = {1, 2}
  MaxOps = 3
  MaxFaults = 2
SPECIFICATION FairSpec
INVARIANT PumpSound
PROPERTIES ImplementsOrder EveryOpAnswered
