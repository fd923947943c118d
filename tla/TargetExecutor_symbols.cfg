\* Two symbols on two providers, one of which does not carry both, and job rows that a failing mark leaves half done.
SPECIFICATION Spec
CONSTANTS
  t1 = t1  t2 = t2  legacy = legacy
  p1 = p1  p2 = p2
  s1 = s1  s2 = s2
  hourly = hourly  quarterly = quarterly
  h0 = h0  q0 = q0
  telegram = telegram  slack = slack
  Targets = {t1}
  LegacyTarget = legacy
  Providers = {p1, p2}
  Symbols = {s1, s2}
  Slots = {h0}
  Runs = {r1, r2}
  Boundaries <- MCBoundaries
  Intervals = {hourly}
  IntervalOf <- MCIntervalOf
  EnabledProviders = {p1, p2}
  Supported <- PartlySupported
  DefaultProvider = p1
  LegacySymbols = {s1, s2}
  Notifiers = {telegram}
  Reaches <- OneChannel
  NoRun = NoRun  NoTarget = NoTarget  NoSlot = NoSlot  NoConfig = NoConfig
  MaxSaves = 1
  MaxCrashes = 1
INVARIANTS ItemsFetched
SYMMETRY RunSymmetry
