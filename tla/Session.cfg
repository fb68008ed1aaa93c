SPECIFICATION FairSpec
CONSTANTS
  MaxSession = 4
  WaitLimit = 2
INVARIANTS TypeOK StaleIsOlder PlayersMatchPeers WaitHasSession LeakBounded
PROPERTIES SilentLossIsStale Paired CloseReachesClient PendingResolves OrphanEnds
CHECK_DEADLOCK FALSE
