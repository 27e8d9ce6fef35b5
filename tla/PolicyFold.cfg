SPECIFICATION Spec
CONSTANT FactSet <- MCFacts
INVARIANTS
  FoldIsReason
  PermissionOnlyShrinks
CHECK_DEADLOCK FALSE
