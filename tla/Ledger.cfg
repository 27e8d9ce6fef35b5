SPECIFICATION FairSpec
CONSTANTS
  m1 = m1  s1 = s1  t1 = t1  t2 = t2  t3 = t3  None = None
  Mandates = {m1}
  Merchants = {s1}
  Txns = {t1, t2}
  Running <- Shapes
  MaxBegun = 4
  MaxAnchors = 1
INVARIANTS
  IInv
  ChainsVerify
  AnchorsHold
  EditsDetected
  HolderLosesOnlyToUnlocked
PROPERTIES
  LogSpec
  EveryAppendEnds
CHECK_DEADLOCK FALSE
