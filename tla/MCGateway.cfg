CONSTANTS
  alice = alice
  bob = bob
  a1 = a1
  b1 = b1
  h1 = h1
  h2 = h2
  msg1 = msg1
  msg2 = msg2
  Members = {alice, bob}
  Sockets = {a1, b1}
  Owner <- MCOwner
  Messages = {msg1, msg2}
  Author <- MCAuthor
  CreatedAt <- MCCreatedAt
  ListLimit = 1
  Versions <- MCVersions
  Drafts = {draft1, draft2}
  Turn = turn
  CommandIds = {k1}
  Handlers = {h1, h2}
  Nothing = nothing
  MaxFaults = 1
  Calls = {h1, h2}
  MaxTokens = 4
SPECIFICATION GatewaySpec
CONSTRAINT BobComesLater
SYMMETRY HandlerSymmetry
INVARIANTS FamilyIsAChain NothingMissed SnapshotCovers
PROPERTIES EndedStaysEnded
\* Every socket is used once: the clients may all have left.
CHECK_DEADLOCK FALSE
