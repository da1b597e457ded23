----------------------------- MODULE DebateRoom -----------------------------
(***************************************************************************)
(* The chat room of one debate during one of its turns: who connects gets  *)
(* a snapshot put together from reads that run side by side, while other   *)
(* sockets send drafts and handlers finalize the turn.  A step of a        *)
(* handler is one call it awaits.  What the calls do to the data is in     *)
(* DebateChat; here a draft is its identity, and what counts is who is     *)
(* told of it.                                                             *)
(***************************************************************************)
EXTENDS Naturals, FiniteSets

CONSTANTS
  Sockets,
  Messages,     \* drafts; one without a clientMessageId is another draft each
                \* time it is sent
  Turn,         \* the turn once it is saved
  Handlers,     \* concurrent executions of handleMessage, or of the scheduler
  CommandIds,   \* ids of finalize commands, which the clients choose
  Nothing,      \* no draft, no socket, no command
  MaxFaults     \* bound: failed calls and restarts

DebateRoomAssumption ==
  /\ Turn \notin Messages /\ Nothing \notin Messages \cup Sockets \cup CommandIds \cup {Turn}
  /\ MaxFaults \in Nat

VARIABLES
  drafts,       \* the draft buffer of the turn in Redis
  turns,        \* debate_turn rows: {} or {Turn}
  lock,         \* the finalize lock of the turn: a command id, or Nothing
  socket,       \* how far handleConnection is: what it has still to read,
                \* and what it has read
  open,         \* sockets whose readyState is OPEN
  room,         \* rooms
  got,          \* what each socket has been sent: drafts, the turn
  handler,      \* how far each handler is, for whom, with what, its command
  unannounced,  \* history: what was stored by who failed before telling it
  faults

dataVars == <<drafts, turns, lock>>
roomVars == <<socket, open, room, got>>
vars == <<dataVars, roomVars, handler, unannounced, faults>>

-----------------------------------------------------------------------------
Reads == {"turns", "drafts"}
Idle == [pc |-> "idle", by |-> Nothing, item |-> Nothing, id |-> Nothing]
NewSocket == [pc |-> "new", reads |-> Reads, read |-> {}]

Init ==
  /\ drafts = {} /\ turns = {} /\ lock = Nothing
  /\ socket = [s \in Sockets |-> NewSocket]
  /\ open = {} /\ room = {} /\ got = [s \in Sockets |-> {}]
  /\ handler = [h \in Handlers |-> Idle]
  /\ unannounced = {} /\ faults = 0

\* sendEvent skips the sockets that are not open.
SendTo(S, items) == got' = [s \in Sockets |-> IF s \in S \cap open THEN got[s] \cup items ELSE got[s]]

-----------------------------------------------------------------------------
(* handleConnection.                                                        *)

Connect(s) ==
  /\ socket[s].pc = "new"
  /\ socket' = [socket EXCEPT ![s].pc = "verify"]
  /\ open' = open \cup {s}
  /\ UNCHANGED <<dataVars, room, got, handler, unannounced, faults>>

\* Mutant: the socket enters its room when it has been sent the snapshot.
M_EntersAt == "ready"

EntersAt == "snapshot"

Enter(s, pc) == room' = IF pc = EntersAt THEN room \cup {s} ELSE room

\* The token is verified; the socket is put into the room even if it has been
\* closed by now.
EnterRoom(s) ==
  /\ socket[s].pc = "verify"
  /\ socket' = [socket EXCEPT ![s].pc = "snapshot"]
  /\ Enter(s, "snapshot")
  /\ UNCHANGED <<dataVars, open, got, handler, unannounced, faults>>

Stored(what) == IF what = "turns" THEN turns ELSE drafts

\* getConnectionSnapshot: Promise.all, in any order.
Read(s, what) ==
  /\ socket[s].pc = "snapshot" /\ what \in socket[s].reads
  /\ socket' = [socket EXCEPT ![s] = [pc |-> "snapshot", reads |-> @.reads \ {what},
                                      read |-> @.read \cup Stored(what)]]
  /\ UNCHANGED <<dataVars, open, room, got, handler, unannounced, faults>>

SendSnapshot(s) ==
  /\ socket[s].pc = "snapshot" /\ socket[s].reads = {}
  /\ SendTo({s}, socket[s].read)
  /\ socket' = [socket EXCEPT ![s] = [pc |-> "ready", reads |-> {}, read |-> {}]]
  /\ Enter(s, "ready")
  /\ UNCHANGED <<dataVars, open, handler, unannounced, faults>>

\* The client is sent an error, and stays in the room without a snapshot.
SnapshotFails(s) ==
  /\ faults < MaxFaults /\ faults' = faults + 1
  /\ socket[s].pc = "snapshot" /\ socket[s].reads # {}
  /\ socket' = [socket EXCEPT ![s] = [pc |-> "failed", reads |-> {}, read |-> {}]]
  /\ UNCHANGED <<dataVars, open, room, got, handler, unannounced>>

\* removeFromRoom is registered with the entry into the room.
CloseSocket(s) ==
  /\ s \in open
  /\ open' = open \ {s}
  /\ room' = IF socket[s].pc = "verify" THEN room ELSE room \ {s}
  /\ got' = [got EXCEPT ![s] = {}]
  /\ UNCHANGED <<dataVars, socket, handler, unannounced, faults>>

-----------------------------------------------------------------------------
(* handleMessage, and finalizeExpiredTurn of the scheduler.                 *)

Step(h, pc) == handler' = [handler EXCEPT ![h].pc = pc]
Ends(h) == handler' = [handler EXCEPT ![h] = Idle]

\* appendDraftMessage reads the debate, and accepts drafts of a turn that is
\* not saved.  What came before the entry is handled after it, of a closed
\* socket too.
ReceiveDraft(h, s, x) ==
  /\ handler[h] = Idle /\ s \in room
  /\ turns = {}
  /\ handler' = [handler EXCEPT ![h] = [Idle EXCEPT !.pc = "append", !.by = s, !.item = x]]
  /\ UNCHANGED <<dataVars, roomVars, unannounced, faults>>

\* finalizeTurn sets the lock before it validates anything.
LockTurn(h, id) ==
  /\ handler[h] = Idle /\ lock = Nothing
  /\ lock' = id
  /\ handler' = [handler EXCEPT ![h] = [Idle EXCEPT !.pc = "save", !.id = id]]
  /\ UNCHANGED <<drafts, turns, roomVars, unannounced, faults>>

\* What the awaited call does.  The script looks at the lock and not at the
\* turn, which may have been saved since; the lock may have expired.
AppendScript(h) ==
  /\ handler[h].pc = "append" /\ lock = Nothing
  /\ drafts' = drafts \cup {handler[h].item}
  /\ UNCHANGED <<turns, lock>>

SaveTurn(h) ==
  /\ handler[h].pc = "save" /\ turns = {}
  /\ turns' = {Turn}
  /\ UNCHANGED <<drafts, lock>>

DeleteDrafts(h) ==
  /\ handler[h].pc = "delete"
  /\ drafts' = {}
  /\ UNCHANGED <<turns, lock>>

ReleaseLock(h) ==
  /\ handler[h].pc = "release"
  /\ lock' = IF lock = handler[h].id THEN Nothing ELSE lock
  /\ UNCHANGED <<drafts, turns>>

\* The call is answered, and the handler goes on.  A draft that is in the
\* buffer already is only acknowledged.
CallReturns(h) ==
  LET x == handler[h].item IN
  /\ \/ AppendScript(h) /\ Step(h, IF x \in drafts THEN "ack" ELSE "tell")
     \/ SaveTurn(h) /\ handler' = [handler EXCEPT ![h] = [@ EXCEPT !.pc = "delete", !.item = Turn]]
     \/ DeleteDrafts(h) /\ Step(h, "enqueue")
     \/ handler[h].pc = "enqueue" /\ Step(h, "release") /\ UNCHANGED dataVars
     \/ ReleaseLock(h) /\ (IF x = Turn THEN Step(h, "tell") ELSE Ends(h))
  /\ UNCHANGED <<roomVars, unannounced, faults>>

\* The draft meets the lock or the limit; the finalization meets a turn that
\* is not the current one, or a debate that is over.
CallRefused(h) ==
  /\ handler[h].pc \in {"append", "save"}
  /\ IF handler[h].pc = "append" THEN Ends(h) ELSE Step(h, "release")
  /\ UNCHANGED <<dataVars, roomVars, unannounced, faults>>

\* The call fails, or does what it does and its answer is lost: nobody tells
\* the room what it stored.  finalizeTurn still releases its lock.
CallFails(h) ==
  /\ faults < MaxFaults /\ faults' = faults + 1
  /\ handler[h].pc \in {"append", "save", "delete", "enqueue", "release"}
  /\ \/ UNCHANGED dataVars
     \/ AppendScript(h) \/ SaveTurn(h) \/ DeleteDrafts(h) \/ ReleaseLock(h)
  /\ unannounced' = unannounced \cup (drafts' \ drafts) \cup (turns' \ turns)
                                \cup ({handler[h].item} \cap turns)
  /\ IF handler[h].pc \in {"append", "release"} THEN Ends(h)
     ELSE handler' = [handler EXCEPT ![h] = [@ EXCEPT !.pc = "release", !.item = Nothing]]
  /\ UNCHANGED roomVars

\* A new draft is acknowledged to its sender and sent to the others, an old
\* one only acknowledged; the turn is published to the whole room.
Tell(h) ==
  /\ handler[h].pc \in {"ack", "tell"}
  /\ SendTo({handler[h].by} \cup (IF handler[h].pc = "tell" THEN room ELSE {}), {handler[h].item})
  /\ Ends(h)
  /\ UNCHANGED <<dataVars, socket, open, room, unannounced, faults>>

\* The lock has a time to live.
LockExpires ==
  /\ lock # Nothing
  /\ lock' = Nothing
  /\ UNCHANGED <<drafts, turns, roomVars, handler, unannounced, faults>>

\* The debate ends, and its drafts and locks are deleted (clearDebateDrafts).
ClearDrafts ==
  /\ drafts' = {} /\ lock' = Nothing
  /\ UNCHANGED <<turns, roomVars, handler, unannounced, faults>>

\* The process is restarted.
Restart ==
  /\ faults < MaxFaults /\ faults' = faults + 1
  /\ open' = {} /\ room' = {} /\ got' = [s \in Sockets |-> {}]
  /\ socket' = [s \in Sockets |-> IF socket[s].pc = "new" THEN NewSocket
                                  ELSE [pc |-> "failed", reads |-> {}, read |-> {}]]
  /\ handler' = [h \in Handlers |-> Idle]
  /\ UNCHANGED <<dataVars, unannounced>>

ConnectionStep(s) ==
  \/ Connect(s) \/ EnterRoom(s) \/ (\E what \in Reads : Read(s, what))
  \/ SendSnapshot(s) \/ SnapshotFails(s) \/ CloseSocket(s)

HandlerStep(h) ==
  \/ \E s \in Sockets, x \in Messages : ReceiveDraft(h, s, x)
  \/ \E id \in CommandIds : LockTurn(h, id)
  \/ CallReturns(h) \/ CallRefused(h) \/ CallFails(h) \/ Tell(h)

Next ==
  \/ \E s \in Sockets : ConnectionStep(s)
  \/ \E h \in Handlers : HandlerStep(h)
  \/ LockExpires \/ ClearDrafts \/ Restart

Spec == Init /\ [][Next]_vars

-----------------------------------------------------------------------------
Items == Messages \cup {Turn}

HandlerRecords ==
  [pc : {"idle", "append", "save", "delete", "enqueue", "release", "ack", "tell"},
   by : Sockets \cup {Nothing}, item : Items \cup {Nothing}, id : CommandIds \cup {Nothing}]

\* What a handler at work works on.
Holds(r) ==
  /\ r.pc \in {"append", "ack"} => r.item \in Messages
  /\ r.pc = "save" => r.item = Nothing
  /\ r.pc \in {"delete", "enqueue"} => r.item = Turn
  /\ r.pc = "release" => r.item \in {Turn, Nothing}
  /\ r.pc = "tell" => r.item \in Items

\* Every variable holds what its buffer, row, set or handler may hold.
TypeOK ==
  /\ drafts \subseteq Messages /\ turns \subseteq {Turn} /\ lock \in CommandIds \cup {Nothing}
  /\ socket \in [Sockets -> [pc : {"new", "verify", "snapshot", "ready", "failed"},
                             reads : SUBSET Reads, read : SUBSET Items]]
  /\ open \subseteq Sockets /\ room \subseteq Sockets
  /\ got \in [Sockets -> SUBSET Items]
  /\ handler \in [Handlers -> HandlerRecords] /\ \A h \in Handlers : Holds(handler[h])
  /\ unannounced \subseteq Items /\ faults \in 0..MaxFaults

\* A handler is about to tell the room.
Telling(i) ==
  \E h \in Handlers : /\ handler[h].pc \in {"delete", "enqueue", "release", "tell"}
                      /\ handler[h].item = i

\* A socket that has been sent its snapshot knows the turn if it is saved and
\* every draft in the buffer, those that came after the turn was saved too,
\* in whatever order the snapshot was read while drafts were added and
\* deleted; only who failed has not told it.
SnapshotCovers ==
  \A s \in open : socket[s].pc = "ready" =>
    \A i \in turns \cup drafts : i \in got[s] \/ Telling(i) \/ i \in unannounced
=============================================================================
