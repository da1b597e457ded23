\* Two workers, the Analyzer and the scheduler; one fault of any kind.
CONSTANTS
  Workers = {w1, w2}
  Analyzer = analyzer
  Recovery = recovery
  NoOne = none
  Attempts = 2
  MaxFaults = 1
SPECIFICATION LiveSpec
INVARIANTS
  StagesAgree
PROPERTIES
  FollowsBatch
  BatchIsDecided
  FailedBatchSettles
CHECK_DEADLOCK FALSE
