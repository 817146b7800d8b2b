SPECIFICATION FairSpec
CONSTANTS
  Takers = {t1, t2, t3}
  Sizes = {1, 3}
  Capacities = {0, 2}
INVARIANTS TypeOK NoLostWakeup NothingLost
PROPERTY CancelledReturns
