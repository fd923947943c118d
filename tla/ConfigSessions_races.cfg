\* Requests of one chat that overlap: configure, buttons, save, pause; a session that is filled while another one is saved.
SPECIFICATION Spec
CONSTANTS
  p1 = p1  p2 = p2  s1 = s1  s2 = s2  l1 = l1  i1 = i1
  Requests = {q1, q2}
  SessionIds = {c1, c2}
  Providers = {p1, p2}
  Symbols = {s1, s2, l1}
  Intervals = {i1}
  EnabledProviders = {p1}
  DefaultProvider = p1
  DefaultSymbol = s1
  DefaultInterval = i1
  Supported <- MCSupported
  Listing <- MCListing
  Earlier <- MCEarlier
  MaxSymbols = 2
  NoRow = NoRow  NoSession = NoSession
  MaxRequests = 5
  MaxCrashes = 1
INVARIANTS TypeOK SavedOnce ConfigureSurvivesRace
PROPERTIES ImplementsVersioned UntouchedSaveKeepsConfig
SYMMETRY RequestSymmetry
