CONSTANTS
  Term = {t1, t2, t3}
  Addon = {a1, a2, a3, a4}
  Ceiling = 3
  MaxGpu = 2
  CacheCap = 2
  NoAddon = none
SYMMETRY Symmetry
SPECIFICATION Spec
INVARIANTS ContextsSound PassSound
PROPERTY BudgetKept
CHECK_DEADLOCK FALSE
