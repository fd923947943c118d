\* Two goroutines execute the same period for two targets that share a symbol.
SPECIFICATION Spec
CONSTANTS
  t1 = t1  t2 = t2  legacy = legacy
  p1 = p1  p2 = p2
  s1 = s1  s2 = s2
  hourly = hourly  quarterly = quarterly
  h0 = h0  q0 = q0
  telegram = telegram  slack = slack
  Targets = {t1, t2}
  LegacyTarget = legacy
  Providers = {p1}
  Symbols = {s1}
  Slots = {h0}
  Runs = {r1, r2}
  Boundaries <- MCBoundaries
  Intervals = {hourly}
  IntervalOf <- MCIntervalOf
  EnabledProviders = {p1}
  Supported <- AllSupported
  DefaultProvider = p1
  LegacySymbols = {s1}
  Notifiers = {telegram, slack}
  Reaches <- TwoChannels
  NoRun = NoRun  NoTarget = NoTarget  NoSlot = NoSlot  NoConfig = NoConfig
  MaxSaves = 1
  MaxCrashes = 1
INVARIANTS IInv SentMeansAccepted PauseHonouredByNextRound
PROPERTIES SentIsFinal ImplementsLedger
SYMMETRY RunSymmetry
