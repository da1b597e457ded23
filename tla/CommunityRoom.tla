--------------------------- MODULE CommunityRoom ---------------------------
(***************************************************************************)
(* The chat room of one community.  DebateChatWebSocketServer lets a       *)
(* socket in, puts it into the room and then sends it what is stored;      *)
(* CommunityChatService stores messages and opinions, which the server     *)
(* acknowledges to their sender and announces to the other sockets of the  *)
(* room.  Handlers of one process overlap at their awaits; a step is one   *)
(* statement, or the stretch between two awaits.  Members here have not    *)
(* spoken in a debate, so that the database lets them leave.               *)
(***************************************************************************)
EXTENDS Naturals, FiniteSets

CONSTANTS
  Members, Sockets, Messages,
  Owner(_),      \* the member of a socket's access token
  Author(_),     \* the member of a message: it is known by its author and
                 \* its clientMessageId
  CreatedAt(_),  \* when a message is created, were it stored: two messages
                 \* may be committed in the other order
  ListLimit,     \* how many messages listMessages reads (50)
  Handlers,      \* concurrent executions of handleCommunityMessage
  Nothing,       \* the item of no handler
  Versions(_),   \* bound: how often a member writes an opinion
  MaxFaults      \* bound: failed statements and restarts

RoomAssumption ==
  /\ \A s \in Sockets : Owner(s) \in Members
  /\ \A x \in Messages : Author(x) \in Members
  /\ Messages \cap [author : Members, version : Nat] = {}
  /\ \A x \in Messages : CreatedAt(x) \in Nat
  /\ (\A m \in Members : Versions(m) \in Nat) /\ {ListLimit, MaxFaults} \subseteq Nat

VARIABLES
  joined,      \* community_member rows
  opinion,     \* community_opinion rows: the version each holds, 0 without one
  stored,      \* community_message rows
  socket,      \* how far handleCommunityConnection is, and what it has read
  open,        \* sockets whose readyState is OPEN
  room,        \* communityRooms
  got,         \* what each socket has been sent: messages, opinions
  handler,     \* the executions of handleCommunityMessage
  written,     \* history: opinions each member has written, over all memberships
  unannounced, \* history: messages and opinions whose handler failed or died
               \* after it had stored them
  faults

rowVars == <<joined, opinion, stored>>
roomVars == <<socket, open, room, got>>
historyVars == <<written, unannounced>>
vars == <<rowVars, roomVars, handler, historyVars, faults>>

-----------------------------------------------------------------------------
Opinions == [author : Members, version : Nat \ {0}]
OpinionOf(m) == [author |-> m, version |-> opinion[m]]
OpinionRows == {OpinionOf(m) : m \in {w \in Members : opinion[w] # 0}}

IdleHandler == [pc |-> "idle", by |-> Nothing, item |-> Nothing, created |-> FALSE]
NewSocket == [pc |-> "new", read |-> {}]

Init ==
  /\ joined = {} /\ opinion = [m \in Members |-> 0] /\ stored = {}
  /\ socket = [s \in Sockets |-> NewSocket]
  /\ open = {} /\ room = {} /\ got = [s \in Sockets |-> {}]
  /\ handler = [h \in Handlers |-> IdleHandler]
  /\ written = opinion /\ unannounced = {}
  /\ faults = 0

\* sendEvent to each socket of S: those that are not open are skipped.
SendTo(S, items) == got' = [s \in Sockets |-> IF s \in S \cap open THEN got[s] \cup items ELSE got[s]]

-----------------------------------------------------------------------------
(* handleConnection, handleCommunityConnection.                             *)

Goto(s, pc, read) == socket' = [socket EXCEPT ![s] = [pc |-> pc, read |-> read]]

\* The token has been verified.
Connect(s) ==
  /\ socket[s].pc = "new"
  /\ Goto(s, "join", {}) /\ open' = open \cup {s}
  /\ UNCHANGED <<rowVars, room, got, handler, historyVars, faults>>

\* Mutant: the socket enters its room when it has been sent what is stored.
M_EntersAt == "ready"

EntersAt == "messages"

Enter(s, pc) == room' = IF pc = EntersAt THEN room \cup {s} ELSE room

\* The member joins, and the socket is put into the room even if it has been
\* closed by now.
JoinAndEnter(s) ==
  /\ socket[s].pc = "join"
  /\ joined' = joined \cup {Owner(s)}
  /\ Goto(s, "messages", {}) /\ Enter(s, "messages")
  /\ UNCHANGED <<opinion, stored, open, got, handler, historyVars, faults>>

\* The newest messages, as many as listMessages takes: those it is sure to
\* take when several were created in the same instant.
Newest ==
  {x \in stored :
     Cardinality({y \in stored \ {x} : CreatedAt(y) >= CreatedAt(x)}) < ListLimit}

\* It takes some of the others only if there is room left.
ListMessages(s) ==
  /\ socket[s].pc = "messages"
  /\ \E others \in SUBSET (stored \ Newest) :
       /\ Cardinality(Newest \cup others) <= ListLimit
       /\ Goto(s, "opinions", Newest \cup others)
  /\ UNCHANGED <<rowVars, open, room, got, handler, historyVars, faults>>

\* The messages are sent, and the opinions read.
SendMessages(s) ==
  /\ socket[s].pc = "opinions"
  /\ SendTo({s}, socket[s].read)
  /\ Goto(s, "finish", OpinionRows)
  /\ UNCHANGED <<rowVars, open, room, handler, historyVars, faults>>

SendOpinions(s) ==
  /\ socket[s].pc = "finish"
  /\ SendTo({s}, socket[s].read)
  /\ Goto(s, "ready", {}) /\ Enter(s, "ready")
  /\ UNCHANGED <<rowVars, open, handler, historyVars, faults>>

\* A statement fails: before the room the socket is closed, in the room it
\* stays and is told of an error.
ConnectionFails(s) ==
  /\ faults < MaxFaults /\ faults' = faults + 1
  /\ \/ socket[s].pc = "join" /\ open' = open \ {s}
     \/ socket[s].pc \in {"messages", "opinions"} /\ UNCHANGED open
  /\ Goto(s, "failed", {})
  /\ UNCHANGED <<rowVars, room, got, handler, historyVars>>

\* removeFromCommunityRoom is registered with the entry into the room.  What
\* a closed socket was sent is of no more interest.
CloseSocket(s) ==
  /\ s \in open
  /\ open' = open \ {s}
  /\ room' = IF socket[s].pc = "join" THEN room ELSE room \ {s}
  /\ got' = [got EXCEPT ![s] = {}]
  /\ UNCHANGED <<rowVars, socket, handler, historyVars, faults>>

-----------------------------------------------------------------------------
(* handleCommunityMessage: sendMessage and saveOpinion begin with a join.   *)

Step(h, pc) == handler' = [handler EXCEPT ![h].pc = pc]
Ends(h) == handler' = [handler EXCEPT ![h] = IdleHandler]

\* What came before the entry is handled after it, of a closed socket too.
Receives(h, s, pc, item) ==
  /\ handler[h] = IdleHandler /\ s \in room
  /\ joined' = joined \cup {Owner(s)}
  /\ handler' = [handler EXCEPT ![h] = [IdleHandler EXCEPT !.pc = pc, !.by = s, !.item = item]]
  /\ UNCHANGED <<opinion, stored, roomVars, historyVars, faults>>

ReceiveMessage(h, s) == \E x \in Messages : Author(x) = Owner(s) /\ Receives(h, s, "check", x)

ReceiveOpinion(h, s) == written[Owner(s)] < Versions(Owner(s)) /\ Receives(h, s, "upsert", Nothing)

CheckOpinion(h) ==
  /\ handler[h].pc = "check"
  /\ IF opinion[Owner(handler[h].by)] > 0 THEN Step(h, "insert") ELSE Ends(h)
  /\ UNCHANGED <<rowVars, roomVars, historyVars, faults>>

\* INSERT ... ON CONFLICT DO NOTHING: created unless the row was there.
InsertMessage(h) ==
  LET x == handler[h].item IN
  /\ handler[h].pc = "insert"
  /\ stored' = stored \cup {x}
  /\ handler' = [handler EXCEPT ![h] = [@ EXCEPT !.pc = "reread", !.created = x \notin stored]]
  /\ UNCHANGED <<joined, opinion, roomVars, historyVars, faults>>

\* The foreign key to the membership refuses who has left since the join.
UpsertOpinion(h) ==
  LET m == Owner(handler[h].by) IN
  /\ handler[h].pc = "upsert"
  /\ IF m \in joined /\ written[m] < Versions(m)
     THEN /\ written' = [written EXCEPT ![m] = @ + 1]
          /\ opinion' = [opinion EXCEPT ![m] = written[m] + 1]
          /\ Step(h, "find")
     ELSE UNCHANGED <<written, opinion>> /\ Ends(h)
  /\ UNCHANGED <<joined, stored, roomVars, unannounced, faults>>

\* The row is read again, and is gone if the member has left.
FindOpinion(h) ==
  LET m == Owner(handler[h].by) IN
  /\ handler[h].pc = "find"
  /\ IF opinion[m] = 0 THEN Ends(h)
     ELSE handler' = [handler EXCEPT ![h] = [@ EXCEPT !.pc = "tell", !.item = OpinionOf(m)]]
  /\ UNCHANGED <<rowVars, roomVars, historyVars, faults>>

TellOpinion(h) ==
  /\ handler[h].pc = "tell"
  /\ SendTo(room \cup {handler[h].by}, {handler[h].item})
  /\ Ends(h)
  /\ UNCHANGED <<rowVars, socket, open, room, historyVars, faults>>

\* The sender is told in any case, the room of a new message only.
TellMessage(h) ==
  /\ handler[h].pc = "reread"
  /\ SendTo({handler[h].by} \cup (IF handler[h].created THEN room ELSE {}), {handler[h].item})
  /\ Ends(h)
  /\ UNCHANGED <<rowVars, socket, open, room, historyVars, faults>>

\* What a handler has stored and the room will not be told.
Untold(h) ==
  IF handler[h].pc = "reread" /\ handler[h].created THEN {handler[h].item}
  ELSE IF handler[h].pc = "find" THEN OpinionRows \cap {OpinionOf(Owner(handler[h].by))}
  ELSE {}

HandlerFails(h) ==
  /\ faults < MaxFaults /\ faults' = faults + 1
  /\ handler[h].pc \notin {"idle", "tell"}
  /\ unannounced' = unannounced \cup Untold(h)
  /\ Ends(h)
  /\ UNCHANGED <<rowVars, roomVars, written>>

-----------------------------------------------------------------------------
\* leaveCommunity: the opinion goes with the membership, the sockets stay.
LeaveCommunity(m) ==
  /\ m \in joined
  /\ joined' = joined \ {m}
  /\ opinion' = [opinion EXCEPT ![m] = 0]
  /\ UNCHANGED <<stored, roomVars, handler, historyVars, faults>>

\* The process is restarted: every socket is closed, every handler gone.
Restart ==
  /\ faults < MaxFaults /\ faults' = faults + 1
  /\ open' = {} /\ room' = {} /\ got' = [s \in Sockets |-> {}]
  /\ socket' = [s \in Sockets |-> IF socket[s].pc = "new" THEN NewSocket
                                  ELSE [pc |-> "failed", read |-> {}]]
  /\ handler' = [h \in Handlers |-> IdleHandler]
  /\ UNCHANGED <<rowVars, historyVars>>

ConnectionStep(s) ==
  \/ Connect(s) \/ JoinAndEnter(s) \/ ListMessages(s) \/ SendMessages(s) \/ SendOpinions(s)
  \/ ConnectionFails(s) \/ CloseSocket(s)

HandlerStep(h) ==
  \/ \E s \in Sockets : ReceiveMessage(h, s) \/ ReceiveOpinion(h, s)
  \/ CheckOpinion(h) \/ InsertMessage(h) \/ TellMessage(h)
  \/ UpsertOpinion(h) \/ FindOpinion(h) \/ TellOpinion(h)
  \/ HandlerFails(h)

Next ==
  \/ \E s \in Sockets : ConnectionStep(s)
  \/ \E h \in Handlers : HandlerStep(h)
  \/ \E m \in Members : LeaveCommunity(m)
  \/ Restart

Spec == Init /\ [][Next]_vars

-----------------------------------------------------------------------------
Items == Messages \cup Opinions

HandlerRecords ==
  [pc : {"idle", "check", "insert", "reread", "upsert", "find", "tell"},
   by : Sockets \cup {Nothing}, item : Items \cup {Nothing}, created : BOOLEAN]

\* What a handler at work works for, and on.
Holds(r) ==
  /\ r.pc # "idle" => r.by \in Sockets
  /\ r.pc \in {"check", "insert", "reread"} => r.item \in Messages
  /\ r.pc = "tell" => r.item \in Opinions

\* Every variable holds what its column, set or handler may hold.
TypeOK ==
  /\ joined \subseteq Members /\ stored \subseteq Messages
  /\ opinion \in [Members -> Nat] /\ written \in [Members -> Nat]
  /\ \A m \in Members : opinion[m] \in {0, written[m]} /\ written[m] <= Versions(m)
  /\ socket \in [Sockets -> [pc : {"new", "join", "messages", "opinions",
                                   "finish", "ready", "failed"}, read : SUBSET Items]]
  /\ open \subseteq Sockets /\ room \subseteq Sockets
  /\ got \in [Sockets -> SUBSET Items]
  /\ handler \in [Handlers -> HandlerRecords] /\ \A h \in Handlers : Holds(handler[h])
  /\ unannounced \subseteq Items /\ faults \in 0..MaxFaults

\* A handler is about to tell the room.
Telling(i) ==
  \E h \in Handlers : \/ handler[h].pc = "reread" /\ handler[h].created /\ handler[h].item = i
                      \/ handler[h].pc = "find" /\ i = OpinionOf(Owner(handler[h].by))
                      \/ handler[h].pc = "tell" /\ i = handler[h].item

\* A socket that has been sent what is stored knows every opinion, and every
\* one of the newest messages (those a connection now would be sent), stored
\* before, during or after its connection, unless their handler is still to
\* tell the room or has failed.
NothingMissed ==
  \A s \in open : socket[s].pc = "ready" =>
    \A i \in Newest \cup OpinionRows : i \in got[s] \/ Telling(i) \/ i \in unannounced
=============================================================================
