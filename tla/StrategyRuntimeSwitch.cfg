CONSTANTS
  paper = paper
  other = other
  shadow = shadow
  btc = btc
  eth = eth
  Deployments = {paper, other, shadow}
  Modes <- MCModes
  Symbols = {btc, eth}
  SymbolOf <- MCSymbolOf
  Workers = {w1, w2}
  NoWorker = NoWorker
  NoLease = NoLease
  MaxCandle = 2
  LeaseTicks = 1
  MaxUpsets = 2
  Timings = {"next_candle_open"}
  Principal = 92
  Quote = 30
  Fee = 1
  Prices = {15}
  AssetLimit = 60
  TotalLimit = 90
  MaxAssets = 2
  MaxEntries = 2
  CandlesPerDay = 2
  MaxIntents = 3
SPECIFICATION Spec
SYMMETRY WorkersAreAlike
CHECK_DEADLOCK FALSE
INVARIANT PositionIsManaged
