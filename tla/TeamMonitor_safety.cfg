CONSTANTS
  Agent = {c, w}
  Coordinator = c
  Architect = w
  EarlyRoles = {}
  Finishers = {w}
  Slot = {s1, s2}
  Echo = TRUE
  NoOne = none
SYMMETRY Symmetry
CONSTRAINT OverlapBound
SPECIFICATION TeamSpec
INVARIANTS VerifiedSound VerdictStands 
CHECK_DEADLOCK FALSE
