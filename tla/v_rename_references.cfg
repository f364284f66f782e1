\* A rename of one entity that fails, with its references rewritten.
CONSTANTS
  Uids = {u1, u2}
  EntityIds = {a, b, c}
  MaxItems = 1
  MaxOutside = 0
SPECIFICATION EntitySpec
INVARIANTS
  ReferencesResolve
CHECK_DEADLOCK FALSE
