CONSTANTS
  Deployments = {d1}
  Workers = {w1}
  Bound = {"market_data", "risk"}
  NoJob = NoJob
  NoRound = NoRound
  NoCycle = NoCycle
  NoWorker = NoWorker
  MaxAttempts = 2
  MaxCandle = 2
  MaxUpsets = 1
SPECIFICATION FairSpec
PROPERTY EveryJobFinishes
CHECK_DEADLOCK FALSE
