\* A request on each of the five paths, the rules changing under it.
SPECIFICATION FairSpec
CONSTANTS
  t1 = t1
  None = None
  Tx = {t1}
  Paths = {"http", "tunnel", "h2c", "tls", "h2"}
  MaxRuleSets = 1
INVARIANTS AnsweredOnce HistoryIsTrue ForwardedAsDecided HooksSeeResponses
PROPERTIES EveryRequestEnds DisconnectUnblocks
CHECK_DEADLOCK FALSE
