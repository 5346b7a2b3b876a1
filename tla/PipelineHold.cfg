\* A response held after its request was forwarded with edits.
SPECIFICATION Spec
CONSTANTS
  t1 = t1
  None = None
  Tx = {t1}
  Paths = {"http"}
  MaxRuleSets = 0
INVARIANT HeldForItsOwnSake
CHECK_DEADLOCK FALSE
