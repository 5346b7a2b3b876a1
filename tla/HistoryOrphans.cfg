\* A file-backed database: connections the pool opened later.
SPECIFICATION Spec
CONSTANTS
  t1 = t1 t2 = t2 t3 = t3 m1 = m1 i1 = i1 i2 = i2 i3 = i3 i4 = i4 p1 = p1 p2 = p2
  None = None c1 = c1 c2 = c2 s1 = s1 s2 = s2
  Tx = {t1, t2, t3}
  Upgrade = {t1}
  Imp = {}
  Id = {i1, i2, i3, i4}
  idOf <- DistinctIds
  Dates = {0, 9}
  Conn = {c1, c2}
  Opener = c1
  Recycles = FALSE
  Pruner = {}
  MaxAge = TRUE
  MaxRows <- OneRow
  Sub = {}
  Leavers = {}
  ChanCap = 1
  MaxClears = 1
INVARIANT NoOrphanResponse
CHECK_DEADLOCK FALSE
