------------------------------ MODULE Gateway ------------------------------
(***************************************************************************)
(* The three parts that face a client: its sessions and the chat rooms of  *)
(* a community and of a debate.  They share no state, so that the states   *)
(* of each are explored with the other two at rest.                        *)
(***************************************************************************)
EXTENDS Sessions

CONSTANTS
  Members, Sockets,
  Owner(_),        \* the member of a socket's access token
  Messages,        \* of the community
  Author(_),       \* the member of a message
  CreatedAt(_),    \* when a message of the community is created
  ListLimit,       \* how many of them a connection reads
  Versions(_),     \* bound: how often a member writes an opinion
  Drafts,          \* messages of the debate's current turn
  Turn,            \* that turn once it is saved
  CommandIds,      \* of the commands that finalize it
  Handlers,        \* concurrent executions of a message handler
  Nothing,         \* what no handler handles
  MaxFaults        \* bound: failed calls and restarts of a room

VARIABLES
  joined, opinion, stored, communitySocket, communityOpen, communityRoom,
  communityGot, communityHandler, written, communityUntold, communityFaults,
  drafts, turns, turnLock, debateSocket, debateOpen, debateRoom, debateGot, debateHandler,
  debateUntold, debateFaults

C == INSTANCE CommunityRoom WITH
       socket <- communitySocket, open <- communityOpen, room <- communityRoom,
       got <- communityGot, handler <- communityHandler,
       unannounced <- communityUntold, faults <- communityFaults

D == INSTANCE DebateRoom WITH
       Messages <- Drafts, lock <- turnLock,
       socket <- debateSocket, open <- debateOpen, room <- debateRoom,
       got <- debateGot, handler <- debateHandler,
       unannounced <- debateUntold, faults <- debateFaults

ASSUME RoomsAssumption == C!RoomAssumption /\ D!DebateRoomAssumption

communityVars == <<joined, opinion, stored, communitySocket, communityOpen, communityRoom,
                   communityGot, communityHandler, written, communityUntold, communityFaults>>
debateVars == <<drafts, turns, turnLock, debateSocket, debateOpen, debateRoom, debateGot, debateHandler,
                debateUntold, debateFaults>>

GatewayInit == Init /\ C!Init /\ D!Init

GatewayNext ==
  \/ C!Init /\ D!Init /\ Next /\ UNCHANGED <<communityVars, debateVars>>
  \/ Init /\ D!Init /\ C!Next /\ UNCHANGED <<vars, debateVars>>
  \/ Init /\ C!Init /\ D!Next /\ UNCHANGED <<vars, communityVars>>

GatewaySpec == GatewayInit /\ [][GatewayNext]_<<vars, communityVars, debateVars>>

\* See NothingMissed of CommunityRoom: who has connected knows the opinions
\* and the newest messages.
NothingMissed == C!NothingMissed

\* See SnapshotCovers of DebateRoom: who has connected knows the drafts and
\* the turn.
SnapshotCovers == D!SnapshotCovers
=============================================================================
