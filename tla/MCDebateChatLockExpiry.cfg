\* A finalization slower than the TTL of its lock.
CONSTANTS
  Rounds = 1
  Messages = {m1}
  Anonymous = {}
  Length <- UnitLength
  MaxLength = 1
  Senders = {p1}
  Clients = {c1}
  CommandIds = {k1}
  Scheduler = sched
  NoOne = none
  LockMayExpire = TRUE
  ChatSlots <- OneSlot
  MaxFaults = 0
SPECIFICATION Spec
SYMMETRY ChatSymmetry
PROPERTIES
  AppendBlockedWhileFinalizing
\* A debate that is over stops.
CHECK_DEADLOCK FALSE
