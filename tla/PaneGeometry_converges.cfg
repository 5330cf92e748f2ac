CONSTANTS
  Size = {a, b}
  NoSize = none
  Call = {c1, c2}
  MaxMismatch = 3
  Moves = 5
SPECIFICATION FairSpec
INVARIANT TypeOK
PROPERTY Converges
CHECK_DEADLOCK FALSE
