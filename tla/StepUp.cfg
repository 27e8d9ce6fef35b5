SPECIFICATION Spec
CONSTANTS
  m1 = m1  m2 = m2  i1 = i1  i2 = i2  i3 = i3
  q1 = q1  q2 = q2  q3 = q3  n1 = n1  n2 = n2  n3 = n3
  None = None
  Mandates = {m1}
  Intents = {i1}
  Quotes = {q1, q2}
  Nonces = {n1, n2}
  Handlers = {h1, h2}
  Requests <- StepUpRequests
  Terms <- StepUpTerms
  QuoteTerms <- StepUpQuotes
  Registered = {"a1"}
  Answers = {TRUE, FALSE}
  Verifiers = {"PROCEED"}
  Past <- RacePast
  Hour = 2
  ChallengeTtl = 2
  ReservationTtl = 2
  RetryAttempts = 1
  MaxInFlight = 1
  LastArrival = 3
  MaxClock = 5
INVARIANTS
  GrantsStayValid
  ReapedNeverExecuted
PROPERTIES
  AllowIsCounted
  NoSpendAfterRevoke
  AllowNearValidity
  HoldSpec
SYMMETRY HandlerSymmetry
