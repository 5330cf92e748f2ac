CONSTANTS
  Process = {1, 2}
  NoProcess = 0
  Run = {r1, r2}
  Chunks = 1
  Cap = 1
  Restored = {2}
  MaxGeneration = 2
  MaxEra = 1
SYMMETRY Symmetry
SPECIFICATION Spec
INVARIANTS EntrySound Exact
CHECK_DEADLOCK FALSE
