SPECIFICATION FairSpec
CONSTANTS
  Hosts = {h1, h2}
  Primary = h1
  Offloads = {own}
  Relaunches = {re}
  Siblings = {s1, s2}
  Disarms = {}
  Adopters = {a1}
  Exit = x
  Ops = {own,re,s1,s2,a1}
  Closers = {own,re,s1,s2,x}
  Cancellable = {}
  Channels = {}
  Drainers = {}
  Conns = {}
  Tickers = {}
  None = None
  Adopting = Adopting
  Arming = Arming
  MaxEpoch = 0
  MaxHolder = 3
INVARIANT ArmStands
PROPERTY AdmissionReturns
CHECK_DEADLOCK FALSE
