\* Delays, waits and a restart around the end of the active hours and local midnight.
SPECIFICATION Spec
CONSTANTS
  Offset <- MCOffset
  ActiveFrom <- MCActiveFrom
  ActiveUntil <- MCActiveUntil
  TickInterval = 5
  Intervals <- MCIntervals
  Begin <- MCBegin
  Horizon <- MCHorizon
  MaxLagging = 6
  MaxStops = 1
INVARIANTS TypeOK PromptMissesNothing OnlyAnnounced
