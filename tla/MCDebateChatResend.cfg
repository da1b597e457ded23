\* A message sent twice while its turn is finalized; locks never expire under their holder.
CONSTANTS
  Rounds = 1
  Messages = {m1}
  Anonymous = {}
  Length <- UnitLength
  MaxLength = 1
  Senders = {p1, p2}
  Clients = {c1}
  CommandIds = {k1}
  Scheduler = sched
  NoOne = none
  LockMayExpire = FALSE
  ChatSlots <- OneSlot
  MaxFaults = 0
SPECIFICATION Spec
SYMMETRY ChatSymmetry
PROPERTIES
  ResendNotAppended
\* A debate that is over stops.
CHECK_DEADLOCK FALSE
