CONSTANTS
  Deployments = {d1}
  Workers = {w1, w2}
  NoWorker = NoWorker
  NoLease = NoLease
  MaxCandle = 3
  LeaseTicks = 2
  MaxUpsets = 3
SPECIFICATION FairSpec
INVARIANTS LeaseTypeOK DecidedOnce HolderViewIsFresh
PROPERTIES ReleaseOnlyOwnLease ImplementsCandleLog EveryCandleDecided
CHECK_DEADLOCK FALSE
