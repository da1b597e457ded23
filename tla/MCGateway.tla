----------------------------- MODULE MCGateway -----------------------------
(* A small instance of Gateway for TLC.                                     *)
EXTENDS Gateway, TLC

CONSTANTS alice, bob, a1, b1, h1, h2, msg1, msg2

\* alice writes messages and her opinion, bob reads; each has one socket.
MCOwner(s) == IF s = a1 THEN alice ELSE bob
MCAuthor(m) == alice
\* Of two messages only the newest is listed, and msg2 is the older one.
MCCreatedAt(x) == IF x = msg1 THEN 2 ELSE 1
MCVersions(m) == IF m = alice THEN 1 ELSE 0

\* Bob connects when alice has been sent what is stored, or cannot be, and
\* sends no drafts.
Settled(socket) == socket[b1].pc # "new" => socket[a1].pc \in {"ready", "failed"}

BobComesLater ==
  /\ Settled(communitySocket) /\ Settled(debateSocket)
  /\ \A h \in Handlers : debateHandler[h].by # b1

HandlerSymmetry == Permutations(Handlers)
=============================================================================
