CONSTANTS
  Deployments = {d1, d2}
  Workers = {w1, w2}
  Bound = {"market_data", "risk"}
  NoJob = NoJob
  NoRound = NoRound
  NoCycle = NoCycle
  NoWorker = NoWorker
  MaxAttempts = 1
  MaxCandle = 2
  MaxUpsets = 1
SPECIFICATION Spec
INVARIANT EventShowsItsJob
PROPERTY FinishedStaysFinished
CHECK_DEADLOCK FALSE
