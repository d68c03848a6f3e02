CONSTANTS
  d1 = d1
  d2 = d2
  btc = btc
  eth = eth
  Deployments = {d1, d2}
  Symbols = {btc, eth}
  SymbolOf <- MCSymbolOf
  Modes <- MCModes
  Prices <- MCPrices
  Timings = {"next_candle_open"}
  Principal = 92
  Quote = 30
  Fee = 1
  AssetLimit = 60
  TotalLimit = 90
  MaxAssets = 2
  MaxEntries = 2
  CandlesPerDay = 2
  MaxCandle = 2
  MaxIntents = 3
SPECIFICATION BookSpec
SYMMETRY SymbolsAreAlike
INVARIANTS BookTypeOK BooksBalance LedgerRuns FilledOnce StopDropsEntries
PROPERTIES NoEntryWhileRestricted ExitNeverRefused
