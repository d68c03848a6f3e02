CONSTANTS
  Deployments = {d1}
  Workers = {w1}
  Bound = {"market_data", "risk"}
  NoJob = NoJob
  NoRound = NoRound
  NoCycle = NoCycle
  NoWorker = NoWorker
  MaxAttempts = 1
  MaxCandle = 1
  MaxUpsets = 0
SPECIFICATION Spec
INVARIANT ExplanationsNeverBlock
CHECK_DEADLOCK FALSE
