SPECIFICATION FairSpec
CONSTANTS
  m1 = m1  m2 = m2  i1 = i1  i2 = i2  i3 = i3
  q1 = q1  q2 = q2  q3 = q3  n1 = n1  n2 = n2  n3 = n3
  None = None
  Mandates = {m1}
  Intents = {i1}
  Quotes = {q1}
  Nonces = {n1}
  Handlers = {h1}
  Requests <- OneRequest
  Terms <- RaceTerms
  QuoteTerms <- StepUpQuotes
  Registered = {"a1"}
  Answers = {TRUE}
  Verifiers = {"PROCEED"}
  Past <- FirstPurchase
  Hour = 2
  ChallengeTtl = 1
  ReservationTtl = 1
  RetryAttempts = 2
  MaxInFlight = 1
  LastArrival = 1
  MaxClock = 4
PROPERTY UnexecutedResolved
