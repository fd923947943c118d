\* A duplicate tick after a status update failed.
SPECIFICATION Spec
CONSTANTS
  t1 = t1  t2 = t2  legacy = legacy
  p1 = p1  p2 = p2
  s1 = s1  s2 = s2
  hourly = hourly  quarterly = quarterly
  h0 = h0  q0 = q0
  telegram = telegram  slack = slack
  Targets = {t1}
  LegacyTarget = legacy
  Providers = {p1}
  Symbols = {s1}
  Slots = {h0}
  Runs = {r1, r2}
  Boundaries <- MCBoundaries
  Intervals = {hourly}
  IntervalOf <- MCIntervalOf
  EnabledProviders = {p1}
  Supported <- AllSupported
  DefaultProvider = p1
  LegacySymbols = {s1}
  Notifiers = {telegram}
  Reaches <- OneChannel
  NoRun = NoRun  NoTarget = NoTarget  NoSlot = NoSlot  NoConfig = NoConfig
  MaxSaves = 0
  MaxCrashes = 0
INVARIANTS DuplicateTickOneNotification
