\* Two rounds, two workers, the scheduler, one fault of any kind.
CONSTANTS
  Rounds = 2
  Workers = {w1, w2}
  NoOne = none
  Attempts = 2
  MaxFaults = 1
SPECIFICATION LiveSpec
INVARIANTS
  TypeOK
  RoundsInOrder
  GraphIsWhole
PROPERTIES
  FollowsAnalysis
  AnalyzedStays
  RoundsAreAnalyzed
CHECK_DEADLOCK FALSE
