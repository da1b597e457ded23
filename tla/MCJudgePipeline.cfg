\* Two workers, a request and the scheduler; attempts may outlive the stale limit.
CONSTANTS
  Workers = {w1, w2}
  Requests = {r1}
  Recovery = recovery
  NoOne = none
  Attempts = 2
  MayOutlive = TRUE
  MaxFaults = 1
SPECIFICATION Spec
SYMMETRY JudgeSymmetry
INVARIANTS
  TypeOK
  TaskAgrees
  PaidOnce
PROPERTIES
  FollowsOutcome
