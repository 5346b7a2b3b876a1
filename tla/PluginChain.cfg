\* Two registrations of one name and one of another, two removals by one
\* caller and one by another, two passes.
SPECIFICATION FairSpec
CONSTANTS
  n1 = n1 n2 = n2 g1 = g1 g2 = g2 g3 = g3 u1 = u1 u2 = u2 u3 = u3 c1 = c1 c2 = c2
  None = None
  Name = {n1, n2}
  Reg = {g1, g2, g3}
  nameOf <- MCnameOf
  Unreg = {u1, u2, u3}
  target <- MCtarget
  After <- TwoCallers
  Run = {c1, c2}
INVARIANTS DrainExact
PROPERTY UnregisterReturns
CHECK_DEADLOCK FALSE
