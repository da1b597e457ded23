---------------------------- MODULE MCDebateChat ----------------------------
(* Small instances of DebateChat for TLC.                                   *)
EXTENDS DebateChat

Opening == Slot("OPENING", 1, "SIDE_A")
Reply == Slot("OPENING", 1, "SIDE_B")

OneSlot == {Opening}

\* Client requests for this turn can come before it is the current one.
SecondSlot == {Reply}

UnitLength(m) == 1

\* Bound: no turn reaches its time limit, so that the scheduler stays out of it,
\* and side B's opening is not finalized.
OpeningOnly == Len(turns) <= 1 /\ clock # "LIMIT"

\* Messages, append handlers, clients and command ids are interchangeable.
ChatSymmetry ==
  Permutations(Messages \ Anonymous) \cup Permutations(Anonymous) \cup Permutations(Senders) \cup Permutations(Clients)
  \cup Permutations(CommandIds)
=============================================================================
