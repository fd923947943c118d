\* Two processes clean up three rows in batches of two.
SPECIFICATION FairSpec
CONSTANTS
  x1 = x1  x2 = x2  x3 = x3  a = a  b = b
  Rows = {x1, x2, x3}
  Cleaners = {a, b}
  BatchSize = 2
  Retention = 1
  WriteDelay = 1
  Horizon = 3
INVARIANTS TypeOK QuietRunSweepsAll
PROPERTIES OnlyStaleDeleted RunEnds
