\* One worker; no live attempt is stale; one crash, failed call or stall.
CONSTANTS
  Workers = {w1}
  Requests = {r1}
  Recovery = recovery
  NoOne = none
  Attempts = 2
  MayOutlive = FALSE
  MaxFaults = 1
SPECIFICATION LiveSpec
PROPERTIES
  ReadyDebateIsDecided
  FailedDebateSettles
