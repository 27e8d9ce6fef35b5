SPECIFICATION Spec
CONSTANTS
  m1 = m1  m2 = m2  i1 = i1  i2 = i2  i3 = i3
  q1 = q1  q2 = q2  q3 = q3  n1 = n1  n2 = n2  n3 = n3
  None = None
  Mandates = {m1}
  Intents = {i1, i2, i3}
  Quotes = {q1, q2, q3}
  Nonces = {n1, n2, n3}
  Handlers = {h1, h2}
  Requests <- RaceRequests
  Terms <- RaceTerms
  QuoteTerms <- RaceQuotes
  Registered = {"a1"}
  Answers = {}
  Verifiers = {"PROCEED"}
  Past <- RacePast
  Hour = 1
  ChallengeTtl = 1
  ReservationTtl = 1
  RetryAttempts = 2
  MaxInFlight = 1
  LastArrival = 1
  MaxClock = 2
INVARIANTS
  IInv
  CumulativeCap
  VelocityCap
SYMMETRY HandlerSymmetry
