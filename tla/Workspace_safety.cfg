CONSTANTS
  Tab = {t1, t2}
  NoTab = NoTab
  Saves = {"none", "keyless"}
  MaxIds = 6
SYMMETRY Symmetry
SPECIFICATION Spec
INVARIANTS EachTerminalOnce SettledView NoOrphan SeededOnce
CHECK_DEADLOCK FALSE
