\* A manual retry between the read and the reset of a stale task.
CONSTANTS
  Workers = {w1, w2}
  Requests = {r1}
  Recovery = recovery
  NoOne = none
  Attempts = 2
  MayOutlive = TRUE
  MaxFaults = 0
SPECIFICATION Spec
SYMMETRY JudgeSymmetry
PROPERTIES
  RetryResetsOnlyStale
