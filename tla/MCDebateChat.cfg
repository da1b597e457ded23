\* A whole debate of two rebuttal rounds: a client and the scheduler finalize, locks may
\* expire at any time.  Senders never touch the rows or the locks: left out.
CONSTANTS
  Rounds = 2
  Messages = {m1}
  Anonymous = {}
  Length <- UnitLength
  MaxLength = 1
  Senders = {}
  Clients = {c1}
  CommandIds = {k1}
  Scheduler = sched
  NoOne = none
  LockMayExpire = TRUE
  ChatSlots <- SecondSlot
  MaxFaults = 1
SPECIFICATION LiveSpec
INVARIANTS
  ProtocolOrder
  CurrentTurnFollows
  FinalizedIsComplete
  FinalizedTurnsAreQueued
PROPERTIES
  FollowsLifecycle
  LivePhaseEnds
\* A debate that is over stops.
CHECK_DEADLOCK FALSE
