\* A file-backed database: a reused ID, a connection that the pool replaces by
\* one without foreign keys, an import dated before or after everything else,
\* a clear, two pruners that overlap, a stream that may end and need not read.
SPECIFICATION FairSpec
CONSTANTS
  t1 = t1 t2 = t2 t3 = t3 m1 = m1 i1 = i1 i2 = i2 i3 = i3 i4 = i4 p1 = p1 p2 = p2
  None = None c1 = c1 c2 = c2 s1 = s1 s2 = s2
  Tx = {t1, t2}
  Upgrade = {t1}
  Imp = {m1}
  Id = {i1, i4}
  idOf <- SharedIds
  Dates = {0, 9}
  Conn = {c1}
  Opener = c1
  Recycles = TRUE
  Pruner = {p1, p2}
  MaxAge = TRUE
  MaxRows <- OneRow
  Sub = {s1}
  Leavers = {s1}
  ChanCap = 1
  MaxClears = 1
INVARIANTS PairsMatch EnforcedKeepsWhole
PROPERTIES StoreReturns PruneStopsAtLimit
CHECK_DEADLOCK FALSE
