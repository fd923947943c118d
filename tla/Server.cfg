\* Boots on every database an earlier release left behind, interrupted, restarted and shut down.
SPECIFICATION Spec
CONSTANTS
  t1 = t1
  Targets = {t1}
  LegacyTarget = legacy
  MarketProviders = {binance, cmc}
  Binance = binance
  binance = binance
  cmc = cmc
  Null = null
  MaxCopies = 2
  Crons = {"round", "sweep"}
  r1 = r1
  Requests = {r1}
  MaxMishaps = 3
INVARIANTS TypeOK RoundsFindHistory RequestsKeepDatabase
PROPERTIES ImplementsHistory MainNeverSticks
