SPECIFICATION Spec
CONSTANTS
  i1 = i1  m1 = m1  h1 = h1  h2 = h2  w1 = w1  w2 = w2
  t1 = t1  c1 = c1  None = None
  Intents = {i1}
  Mandates = {m1}
  MandateOf <- OneMandate
  Executors = {h1, h2}
  Hooks = {}
  Ticks = {}
  Compensators = {}
  RecentWindow = 2
  MaxCalls = 2
  MaxCrashes = 0
INVARIANT PaidOnce
CHECK_DEADLOCK FALSE
