CONSTANTS
  Deployments = {d1, d2}
  Workers = {w1}
  Bound = {"risk"}
  NoJob = NoJob
  NoRound = NoRound
  NoCycle = NoCycle
  NoWorker = NoWorker
  MaxAttempts = 2
  MaxCandle = 1
  MaxUpsets = 1
SPECIFICATION FairSpec
PROPERTY EveryJobFinishes
CHECK_DEADLOCK FALSE
