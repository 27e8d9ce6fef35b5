SPECIFICATION Spec
CONSTANTS
  s1 = s1  s2 = s2  v1 = v1  v2 = v2  v3 = v3  p1 = p1  a1 = a1  a2 = a2
  None = None
  Requests = {"r1"}
  Submissions = {s1, s2}
  Begins = {v1, v2}
  Completes = {v3}
  Refs = {p1, a1, a2}
  Bindings <- MCBindings
  Referrals <- MCReferrals
  MaxAttempts = 1
  MaxSends = 2
  MaxSetups = 2
INVARIANTS
  IInv
  GuessesBounded
  NeverRedirected
  AttachedIsConfirmed
PROPERTY ClosedForGood
SYMMETRY Interchangeable
