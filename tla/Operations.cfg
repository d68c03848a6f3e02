CONSTANTS
  Deliveries = {d1}
  Senders = {w1, w2}
  MaxAttempts = 3
  EventTimes = {1, 2}
  NoSender = NoSender
  NoDelivery = NoDelivery
  DemoIntents = {i1, i2}
  Sells = {i2}
  Executors = {x1, x2}
  MaxErrors = 2
  MaxTokens = 4
  NoIntent = NoIntent
  Versions = {v1, v2}
  Editors = {e1, e2}
  Worker = Worker
  MaxTime = 2
  MaxActivations = 3
  NoVersion = NoVersion
  NoEditor = NoEditor
  CommandKeys = {k1, k2}
  External = {k2}
  Callers = {c1, c2}
  NoKey = NoKey
  MaxCrashes = 3
  MaxRequests = 2
  Candidates = {r1, r2}
  NoCandidate = NoCandidate
  MaxGeneration = 3
SPECIFICATION OperationsSpec
INVARIANTS OperationsTypeOK PurgedIsNeverQueued OneTrackedOrder ConfigurationInForce
  CommandRunsOnce StopFencesCutover
  ReleasesInTurn StatusTellsTheOutcome
PROPERTY OutboxKeepsTrying
CHECK_DEADLOCK FALSE
