\* Two connections and a tunnelled request of one client, reloads at any moment.
SPECIFICATION FairSpec
CONSTANTS
  a1 = a1 a2 = a2 t1 = t1 ipA = ipA
  ipOf <- Clients
  Conn = {a1, a2, t1}
  Tunnelled = {t1}
  IP = {ipA}
  Rates = {0, 1}
  Limits = {0, 1}
  MaxUpdates = 2
  MaxRefill = 1
INVARIANTS NoGhostConnections ConcurrencyCapped RateHolds
PROPERTY NeverWaits
CHECK_DEADLOCK FALSE
