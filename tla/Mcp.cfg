SPECIFICATION McpSpec
CONSTANTS
  s1 = s1  a1 = a1  a2 = a2  n1 = n1  n2 = n2  q1 = q1  q2 = q2  i1 = i1  i2 = i2
  c1 = c1  c2 = c2  None = None
  Merchants = {s1}
  Merchant = s1
  Kinds = {"session", "quote", "mandate"}
  Subjects = {"unattributed", a1, a2}
  Charged <- AllCharged
  BUCKETS <- Buckets
  Callers = {c1, c2}
  Sessions = {a1, a2}
  Instances = {n1, n2}
  Quotes = {q1}
  Intents = {i1, i2}
  MaxEntries = 4
  MaxTime = 1
INVARIANTS
  McpInv
  AdmittedWithin
  EffectsAreCharged
  BoughtOnceByItsSession
PROPERTY RefusedOnlyWhenSpent
SYMMETRY Symmetric
CHECK_DEADLOCK FALSE
