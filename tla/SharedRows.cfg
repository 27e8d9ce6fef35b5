SPECIFICATION Spec
CONSTANTS
  m1 = m1  m2 = m2  i1 = i1  i2 = i2  i3 = i3
  q1 = q1  q2 = q2  q3 = q3  n1 = n1  n2 = n2  n3 = n3
  None = None
  Mandates = {m1, m2}
  Intents = {i1, i2}
  Quotes = {q1, q2}
  Nonces = {n1, n2}
  Handlers = {h1, h2}
  Requests <- SharedRequests
  Terms <- SharedTerms
  QuoteTerms <- SharedQuotes
  Registered = {"a1"}
  Answers = {TRUE}
  Verifiers = {"PROCEED", "UNAVAILABLE"}
  Past <- RacePast
  Hour = 2
  ChallengeTtl = 1
  ReservationTtl = 9
  RetryAttempts = 1
  MaxInFlight = 1
  LastArrival = 1
  MaxClock = 2
INVARIANTS
  HoldIsBacked
SYMMETRY HandlerSymmetry
