SPECIFICATION FairSpec
CONSTANTS
  Tabs = {t1, t2}
  Children = {c1, c2}
  NoChild = NoChild
  Holders = {h1, h2}
  NoHolder = NoHolder
  HoldTicks = 2
  GenMod = 2
  ClockMayFail = TRUE
  KillMayWedge = FALSE
INVARIANTS TypeOK LastWordKept HoldSound TornDownChildrenDie
PROPERTIES EndsSound ImplementsContract HoldsEnd HostExitsOnceLeaving
