SPECIFICATION FairSpec
CONSTANTS
  i1 = i1  m1 = m1  h1 = h1  h2 = h2  w1 = w1  w2 = w2
  t1 = t1  c1 = c1  None = None
  Intents = {i1}
  Mandates = {m1}
  MandateOf <- OneMandate
  Executors = {h1}
  Hooks = {w1, w2}
  Ticks = {t1}
  Compensators = {}
  RecentWindow = 1
  MaxCalls = 1
  MaxCrashes = 1
PROPERTIES
  HoldSpec
  OrderResolves
CHECK_DEADLOCK FALSE
