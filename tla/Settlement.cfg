SPECIFICATION Spec
CONSTANTS
  i1 = i1  m1 = m1  h1 = h1  h2 = h2  w1 = w1  w2 = w2
  t1 = t1  c1 = c1  None = None
  Intents = {i1}
  Mandates = {m1}
  MandateOf <- OneMandate
  Executors = {h1, h2}
  Hooks = {w1, w2}
  Ticks = {}
  Compensators = {c1}
  RecentWindow = 2
  MaxCalls = 2
  MaxCrashes = 1
INVARIANTS
  IInv
  CapturedMeansPaid
  ToldMeansPaid
  RefundBacked
SYMMETRY RunSymmetry
CHECK_DEADLOCK FALSE
