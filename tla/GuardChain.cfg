\* Three transactions in the whole chain.
SPECIFICATION Spec
CONSTANTS
  t1 = t1 t2 = t2 t3 = t3 k1 = k1 k2 = k2 k3 = k3 h1 = h1
  None = None
  Tx = {t1, t2, t3}
  Key = {k1, k2, k3}
  Cached = {k1, k2, k3}
  Host = {h1}
  hostOf <- OneHost
  chain <- FullChain
  Capacity = 2
  MaxConcurrent = 2
  Configs <- MCConfigs
SYMMETRY MCSymmetry
INVARIANTS CacheCoherent HitIsTrue ConcurrencyLimited
PROPERTY TripsOnEvidence
CHECK_DEADLOCK FALSE
