SPECIFICATION Spec
CONSTANTS
  Hosts = {h1, h2}
  Primary = h1
  Offloads = {own}
  Relaunches = {re}
  Siblings = {s1, s2}
  Disarms = {r1}
  Adopters = {a1}
  Exit = x
  Ops = {own,re,s1,s2,r1,a1}
  Closers = {own,re,s1,s2,x}
  Cancellable = {s1, s2}
  Channels = {}
  Drainers = {}
  Conns = {}
  Tickers = {}
  None = None
  Adopting = Adopting
  Arming = Arming
  MaxEpoch = 0
  MaxHolder = 4
SYMMETRY Symmetry
INVARIANT ArmsEnd
CHECK_DEADLOCK FALSE
