SPECIFICATION TableSpec
CONSTANTS
  Channels = {c1}
  Ops = {o1, o2}
  Closers = {q1, q2}
  Cancellable = {q1, q2}
  Drainers = {d1, d2}
  Conns = {k1, k2}
  Tickers = {t1, t2}
  None = None
  Adopting = Adopting
  Arming = Arming
  MaxEpoch = 2
  MaxHolder = 3
SYMMETRY Symmetry
INVARIANTS TypeOK HoldOwned HostOwned
PROPERTY NoWayBack
CHECK_DEADLOCK FALSE
