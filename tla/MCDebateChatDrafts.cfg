\* The draft buffers of the opening: a sender, and two clients that finalize it
\* under one command id or under two; m2 is sent without a clientMessageId.
CONSTANTS
  Rounds = 1
  Messages = {m1, m2}
  Anonymous = {m2}
  Length <- UnitLength
  MaxLength = 2
  Senders = {p1}
  Clients = {c1, c2}
  CommandIds = {k1, k2}
  Scheduler = sched
  NoOne = none
  LockMayExpire = TRUE
  ChatSlots <- OneSlot
  MaxFaults = 1
SPECIFICATION Spec
SYMMETRY ChatSymmetry
CONSTRAINT OpeningOnly
INVARIANTS
  TypeOK
  DraftKeysAgree
  SavedTurnsAreSound
  AckedSurvive
\* A debate that is over stops.
CHECK_DEADLOCK FALSE
