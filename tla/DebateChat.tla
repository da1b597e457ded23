----------------------------- MODULE DebateChat -----------------------------
(***************************************************************************)
(* One debate as DebateChatService, DebateTurnTimeoutScheduler and         *)
(* DebateTimeoutService drive it: messages are appended to a draft buffer  *)
(* in Redis, a turn is finalized from the buffer into the database under a *)
(* Redis lock, and the debate may be forfeited or run out of time at any   *)
(* moment.  A step is one Redis script or command, or one database         *)
(* transaction: between two steps of a handler, every other handler runs.  *)
(***************************************************************************)
EXTENDS TurnProtocol, FiniteSets, SequencesExt

CONSTANTS
  Messages,       \* the messages clients send, by clientMessageId or, without
                  \* one, by their content
  Anonymous,      \* those sent without a clientMessageId, which is optional
  Length(_),      \* content.length of a message, trimmed when it is received
  MaxLength,      \* DEBATE_TURN_MAX_CONTENT_LENGTH
  Senders,        \* handlers of turn.message.send that run concurrently
  Clients,        \* handlers of turn.finalize that run concurrently
  CommandIds,     \* the ids clients give to their turn.finalize commands
  Scheduler,      \* the timeout scheduler (its poll never overlaps itself),
                  \* and the id of its command: timeout-<uuid>
  NoOne,          \* an absent lock key
  LockMayExpire,  \* may a finalization outlive the lock's 30 seconds?
  ChatSlots,      \* bound: turns clients chat in or finalize out of turn
  MaxFaults       \* bound: crashed handlers and failed Redis/DB calls

Finalizers == Clients \cup {Scheduler}
Ids == CommandIds \cup {Scheduler}

ASSUME ChatAssumption ==
  /\ MaxLength \in Nat
  /\ Anonymous \subseteq Messages
  /\ \A m \in Messages : Length(m) \in Nat \ {0}
  /\ NoOne \notin Finalizers \cup Ids /\ Scheduler \notin Clients \cup CommandIds
  /\ LockMayExpire \in BOOLEAN
  /\ ChatSlots \subseteq Slots
  /\ MaxFaults \in Nat

VARIABLES
  \* PostgreSQL
  status, turn,   \* the debate row: status and current* columns
  turns,          \* the debate_turn rows by sequence: [slot, content]
  \* time, as far as the code compares with it
  clock,          \* of the current turn: PREPARING, OPEN or LIMIT
  overdue,        \* the debate's total time limit has passed
  \* Redis
  drafts,         \* draft:<slot>, the list of messages
  chars,          \* draft-char-count:<slot>, -1 when absent
  dedup,          \* draft-dedup:<slot>, the clientMessageIds
  draftKeys,      \* draft-keys, the set of slots with a draft list
  lock,           \* finalize-lock:<slot>, the id of a command
  jobs,           \* turns handed to the Analyzer queue, by sequence
  \* handlers in flight
  sender, finalizer, terminator,
  acked,          \* history: <<message, slot>> acknowledged to the sender
  lapsed,         \* history: handlers that have lost their lock
  torn,           \* history: chat slots whose drafts such a handler deleted
  faults

dbVars == <<status, turn, turns>>
timeVars == <<clock, overdue>>
redisVars == <<drafts, chars, dedup, draftKeys, lock, jobs>>
history == <<acked, lapsed, torn>>
vars == <<dbVars, timeVars, redisVars, sender, finalizer, terminator, history, faults>>

-----------------------------------------------------------------------------
Absent == -1

IdleSender == [pc |-> "idle", msg |-> NoOne, slot |-> NoTurn]
IdleFinalizer == [pc |-> "idle", slot |-> NoTurn, id |-> NoOne, content |-> <<>>]
IdleTerminator == [pc |-> "idle", keys |-> {}]

Init ==
  /\ status = "IN_PROGRESS" /\ turn = FirstTurn /\ turns = <<>>
  /\ clock = "PREPARING" /\ overdue = FALSE
  /\ drafts = [s \in Slots |-> <<>>]
  /\ chars = [s \in Slots |-> Absent]
  /\ dedup = [s \in Slots |-> {}]
  /\ draftKeys = {}
  /\ lock = [s \in Slots |-> NoOne]
  /\ jobs = {}
  /\ sender = [p \in Senders |-> IdleSender]
  /\ finalizer = [f \in Finalizers |-> IdleFinalizer]
  /\ terminator = IdleTerminator
  /\ acked = {}
  /\ lapsed = {} /\ torn = {}
  /\ faults = 0

-----------------------------------------------------------------------------
(* appendDraftMessage: the debate row is read and validated, without a      *)
(* lock, before the Lua script runs.                                        *)

\* validateDebateCanReceiveTurn
CanReceiveTurn == status = "IN_PROGRESS" /\ ~overdue

AppendCheck(p, m, s) ==
  /\ sender[p].pc = "idle"
  /\ CanReceiveTurn
  /\ turn = s
  /\ clock = "OPEN"
  /\ sender' = [sender EXCEPT ![p] = [pc |-> "checked", msg |-> m, slot |-> s]]
  /\ UNCHANGED <<dbVars, timeVars, redisVars, finalizer, terminator, history, faults>>

CharsOf(s) == IF chars[s] = Absent THEN 0 ELSE chars[s]

\* Mutant: a resent message is not recognised.
M_OutcomeNoDedup(m, s) ==
  IF lock[s] # NoOne THEN "LOCKED"
  ELSE IF CharsOf(s) + Length(m) > MaxLength THEN "TOO_LONG" ELSE "APPENDED"

\* What APPEND_DRAFT_MESSAGE_SCRIPT answers, in the order of its checks.
AppendOutcome(m, s) ==
  IF lock[s] # NoOne THEN "LOCKED"
  ELSE IF m \notin Anonymous /\ m \in dedup[s] THEN "DUPLICATE"
  ELSE IF chars[s] = Absent /\ drafts[s] # <<>> THEN "COUNT_MISSING"
  ELSE IF CharsOf(s) + Length(m) > MaxLength THEN "TOO_LONG"
  ELSE "APPENDED"

\* Any answer but APPENDED and DUPLICATE reaches the client as an error.
AppendScript(p) ==
  LET m == sender[p].msg
      s == sender[p].slot
      outcome == AppendOutcome(m, s)
  IN
  /\ sender[p].pc = "checked"
  /\ IF outcome = "APPENDED"
     THEN /\ drafts' = [drafts EXCEPT ![s] = Append(@, m)]
          /\ chars' = [chars EXCEPT ![s] = CharsOf(s) + Length(m)]
          /\ dedup' = [dedup EXCEPT ![s] = @ \cup ({m} \ Anonymous)]
          /\ draftKeys' = draftKeys \cup {s}
     ELSE UNCHANGED <<drafts, chars, dedup, draftKeys>>
  /\ acked' = IF outcome \in {"APPENDED", "DUPLICATE"}
              THEN acked \cup {<<m, s>>} ELSE acked
  /\ sender' = [sender EXCEPT ![p] = IdleSender]
  /\ UNCHANGED <<dbVars, timeVars, lock, jobs, finalizer, terminator, lapsed, torn, faults>>

-----------------------------------------------------------------------------
(* finalizeTurn.  A client names the turn it finalizes and the lock is      *)
(* taken on that turn's key before anything is validated; the scheduler     *)
(* first reads the row (finalizeExpiredTurn).                               *)

At(f, pc) == finalizer[f].pc = pc

Goto(f, pc) == finalizer' = [finalizer EXCEPT ![f].pc = pc]

Start(f, pc, s, id) ==
  finalizer' = [finalizer EXCEPT ![f] = [pc |-> pc, slot |-> s, id |-> id, content |-> <<>>]]

\* SET finalize-lock NX EX, to the id of the command.
TakeLock(f, s, id) ==
  /\ lock[s] = NoOne
  /\ lock' = [lock EXCEPT ![s] = id]
  /\ Start(f, "locked", s, id)

\* The id is the client's: a command sent again has the id it had.
ClientFinalize(c, s) ==
  /\ At(c, "idle")
  /\ \E id \in CommandIds : TakeLock(c, s, id)
  /\ UNCHANGED <<dbVars, timeVars, drafts, chars, dedup, draftKeys, jobs,
                 sender, terminator, history, faults>>

SchedulerFindsTurn ==
  /\ At(Scheduler, "idle")
  /\ status = "IN_PROGRESS" /\ clock = "LIMIT"
  /\ Start(Scheduler, "due", turn, Scheduler)
  /\ UNCHANGED <<dbVars, timeVars, redisVars, sender, terminator, history, faults>>

\* A lock held by someone else is a DebateChatStateError, which
\* finalizeExpiredTurn swallows until the next poll.
SchedulerLock ==
  /\ At(Scheduler, "due")
  /\ \/ TakeLock(Scheduler, finalizer[Scheduler].slot, Scheduler)
     \/ /\ lock[finalizer[Scheduler].slot] # NoOne
        /\ finalizer' = [finalizer EXCEPT ![Scheduler] = IdleFinalizer]
        /\ UNCHANGED lock
  /\ UNCHANGED <<dbVars, timeVars, drafts, chars, dedup, draftKeys, jobs,
                 sender, terminator, history, faults>>

\* LRANGE of the drafts, to be joined into one text (see TextLength); an empty
\* list becomes the empty-turn placeholder, here the empty content.
ReadDrafts(f) ==
  /\ At(f, "locked")
  /\ finalizer' = [finalizer EXCEPT ![f].pc = "read",
                                    ![f].content = drafts[finalizer[f].slot]]
  /\ UNCHANGED <<dbVars, timeVars, redisVars, sender, terminator, history, faults>>

\* Mutant: the transaction trusts the command's turn.
M_TurnIsCurrent(f) == CanReceiveTurn

\* What the transaction validates on the locked debate row.
TurnIsCurrent(f) == CanReceiveTurn /\ turn = finalizer[f].slot

\* The transaction: row lock on the debate, validation, the turn with
\* sequence MAX + 1, the next turn state.
CommitTurn(f) ==
  /\ At(f, "read")
  /\ TurnIsCurrent(f)
  /\ turns' = Append(turns, [slot |-> finalizer[f].slot,
                             content |-> finalizer[f].content])
  /\ turn' = NextTurn(finalizer[f].slot)
  /\ status' = StatusAfter(finalizer[f].slot)
  /\ clock' = "OPEN"
  /\ Goto(f, "committed")
  /\ UNCHANGED <<overdue, redisVars, sender, terminator, history, faults>>

RejectTurn(f) ==
  /\ At(f, "read")
  /\ ~TurnIsCurrent(f)
  /\ Goto(f, "releasing")
  /\ UNCHANGED <<dbVars, timeVars, redisVars, sender, terminator, history, faults>>

DeleteDrafts(S) ==
  /\ drafts' = [s \in Slots |-> IF s \in S THEN <<>> ELSE drafts[s]]
  /\ chars' = [s \in Slots |-> IF s \in S THEN Absent ELSE chars[s]]
  /\ dedup' = [s \in Slots |-> IF s \in S THEN {} ELSE dedup[s]]

\* Mutant: the counter is forgotten.
M_CleanKeepsChars(f) ==
  LET s == finalizer[f].slot IN
  /\ At(f, "committed")
  /\ drafts' = [drafts EXCEPT ![s] = <<>>]
  /\ dedup' = [dedup EXCEPT ![s] = {}]
  /\ draftKeys' = draftKeys \ {s}
  /\ Goto(f, "cleaned")
  /\ UNCHANGED <<dbVars, timeVars, chars, lock, jobs, sender, terminator, history, faults>>

\* MULTI: list, counter, dedup map and set member go together.
CleanDrafts(f) ==
  LET s == finalizer[f].slot IN
  /\ At(f, "committed")
  /\ DeleteDrafts({s})
  /\ draftKeys' = draftKeys \ {s}
  /\ Goto(f, "cleaned")
  /\ torn' = IF f \in lapsed /\ s \in ChatSlots THEN torn \cup {s} ELSE torn
  /\ UNCHANGED <<dbVars, timeVars, lock, jobs, sender, terminator, acked, lapsed, faults>>

\* Mutant: only a running debate hands its turns to the Analyzer.
M_EnqueueWhileRunning(f) ==
  /\ At(f, "cleaned")
  /\ jobs' = IF status = "IN_PROGRESS"
             THEN jobs \cup {i \in 1..Len(turns) : turns[i].slot = finalizer[f].slot}
             ELSE jobs
  /\ Goto(f, "releasing")
  /\ UNCHANGED <<dbVars, timeVars, drafts, chars, dedup, draftKeys, lock,
                 sender, terminator, history, faults>>

\* enqueueAnalyzeTurn of the turn this handler inserted.
EnqueueTurn(f) ==
  /\ At(f, "cleaned")
  /\ jobs' = jobs \cup {i \in 1..Len(turns) : turns[i].slot = finalizer[f].slot}
  /\ Goto(f, "releasing")
  /\ UNCHANGED <<dbVars, timeVars, drafts, chars, dedup, draftKeys, lock,
                 sender, terminator, history, faults>>

\* f runs under the lock of s, or believes it does.
Finalizing(f, s) ==
  /\ finalizer[f].slot = s
  /\ finalizer[f].pc \in {"locked", "read", "committed", "cleaned", "releasing"}

\* History: whose lock the key of s is.
Holders(s) == {f \in Finalizers : Finalizing(f, s) /\ f \notin lapsed /\ finalizer[f].id = lock[s]}

\* Mutant: DEL without comparing the owner.
M_Released(f, s) == NoOne

\* RELEASE_FINALIZE_LOCK_SCRIPT deletes the key only for its owner.  The owner
\* is a command id: a handler that has lost its lock deletes the lock of a
\* later handler of the same command.
Released(f, s) == IF lock[s] = finalizer[f].id THEN NoOne ELSE lock[s]

SameCommand(f) == {g \in Holders(finalizer[f].slot) : finalizer[g].id = finalizer[f].id}

ReleaseLock(f) ==
  LET s == finalizer[f].slot IN
  /\ At(f, "releasing")
  /\ lock' = [lock EXCEPT ![s] = Released(f, s)]
  /\ finalizer' = [finalizer EXCEPT ![f] = IdleFinalizer]
  /\ lapsed' = (lapsed \cup SameCommand(f)) \ {f}
  /\ UNCHANGED <<dbVars, timeVars, drafts, chars, dedup, draftKeys, jobs,
                 sender, terminator, acked, torn, faults>>

\* A Redis or database call throws: the finally block still runs.
FinalizeStepFails(f) ==
  /\ faults < MaxFaults
  /\ finalizer[f].pc \in {"locked", "read", "committed", "cleaned"}
  /\ Goto(f, "releasing")
  /\ faults' = faults + 1
  /\ UNCHANGED <<dbVars, timeVars, redisVars, sender, terminator, history>>

\* The process dies, or the release itself throws: the lock key stays.
FinalizerCrashes(f) ==
  /\ faults < MaxFaults
  /\ finalizer[f].pc # "idle"
  /\ finalizer' = [finalizer EXCEPT ![f] = IdleFinalizer]
  /\ lapsed' = lapsed \ {f}
  /\ faults' = faults + 1
  /\ UNCHANGED <<dbVars, timeVars, redisVars, sender, terminator, acked, torn>>

\* Mutant: SET NX without EX.
M_LockStays(s) == FALSE /\ UNCHANGED vars

\* The key's TTL of 30 seconds runs out: always possible once nobody works
\* under it, and also under a slow holder if LockMayExpire.
LockExpires(s) ==
  /\ lock[s] # NoOne
  /\ LockMayExpire \/ Holders(s) = {}
  /\ lock' = [lock EXCEPT ![s] = NoOne]
  /\ lapsed' = lapsed \cup Holders(s)
  /\ UNCHANGED <<dbVars, timeVars, drafts, chars, dedup, draftKeys, jobs,
                 sender, finalizer, terminator, acked, torn, faults>>

-----------------------------------------------------------------------------
(* Time, and the end of the debate by forfeit or by the total limit.        *)

PreparationEnds ==
  /\ clock = "PREPARING"
  /\ clock' = "OPEN"
  /\ UNCHANGED <<dbVars, overdue, redisVars, sender, finalizer, terminator, history, faults>>

TurnTimeRunsOut ==
  /\ status = "IN_PROGRESS" /\ clock = "OPEN"
  /\ clock' = "LIMIT"
  /\ UNCHANGED <<dbVars, overdue, redisVars, sender, finalizer, terminator, history, faults>>

TotalTimeRunsOut ==
  /\ ~overdue /\ clock # "PREPARING"
  /\ overdue' = TRUE
  /\ UNCHANGED <<dbVars, clock, redisVars, sender, finalizer, terminator, history, faults>>

\* Mutant: the current* columns survive the termination.
M_EndKeepsTurn == status' = "FAILED" /\ UNCHANGED turn

\* The transaction of terminateDebate, as far as the debate row goes.
EndDebate ==
  /\ status' = "FAILED"
  /\ turn' = NoTurn

Forfeit ==
  /\ status = "IN_PROGRESS"
  /\ EndDebate
  /\ terminator' = [pc |-> "ended", keys |-> {}]
  /\ UNCHANGED <<turns, timeVars, redisVars, sender, finalizer, history, faults>>

ExpireDebate ==
  /\ status \in TimeoutEligible /\ overdue
  /\ EndDebate
  /\ terminator' = [pc |-> "ended", keys |-> {}]
  /\ UNCHANGED <<turns, timeVars, redisVars, sender, finalizer, history, faults>>

\* clearDebateDrafts: SMEMBERS, then one DEL of all the keys it names.
ListDraftKeys ==
  /\ terminator.pc = "ended"
  /\ terminator' = [pc |-> "listed", keys |-> draftKeys]
  /\ UNCHANGED <<dbVars, timeVars, redisVars, sender, finalizer, history, faults>>

ClearDrafts ==
  /\ terminator.pc = "listed"
  /\ DeleteDrafts(terminator.keys)
  /\ lock' = [s \in Slots |-> IF s \in terminator.keys THEN NoOne ELSE lock[s]]
  /\ draftKeys' = {}
  /\ terminator' = IdleTerminator
  /\ UNCHANGED <<dbVars, timeVars, jobs, sender, finalizer, history, faults>>

\* Promise.allSettled: a failed clean-up is not retried.
ClearDraftsFails ==
  /\ faults < MaxFaults
  /\ terminator.pc # "idle"
  /\ terminator' = IdleTerminator
  /\ faults' = faults + 1
  /\ UNCHANGED <<dbVars, timeVars, redisVars, sender, finalizer, history>>

-----------------------------------------------------------------------------
SchedulerStep == SchedulerFindsTurn \/ SchedulerLock

FinalizeStep(f) ==
  \/ ReadDrafts(f)
  \/ CommitTurn(f)
  \/ RejectTurn(f)
  \/ CleanDrafts(f)
  \/ EnqueueTurn(f)
  \/ ReleaseLock(f)

Next ==
  \/ \E p \in Senders : \/ \E m \in Messages, s \in ChatSlots : AppendCheck(p, m, s)
                        \/ AppendScript(p)
  \/ \E c \in Clients, s \in ChatSlots : ClientFinalize(c, s)
  \/ SchedulerStep
  \/ \E f \in Finalizers : \/ FinalizeStep(f)
                           \/ FinalizeStepFails(f)
                           \/ FinalizerCrashes(f)
  \/ \E s \in Slots : LockExpires(s)
  \/ PreparationEnds \/ TurnTimeRunsOut \/ TotalTimeRunsOut
  \/ Forfeit \/ ExpireDebate
  \/ ListDraftKeys \/ ClearDrafts \/ ClearDraftsFails

Spec == Init /\ [][Next]_vars

\* Both schedulers poll, a handler that has started goes on, time passes and
\* Redis drops keys whose TTL has run out.  Users owe nothing.
Fairness ==
  /\ WF_vars(SchedulerStep)
  /\ \A f \in Finalizers : WF_vars(FinalizeStep(f))
  /\ \A s \in Slots : WF_vars(LockExpires(s))
  /\ WF_vars(PreparationEnds)
  /\ WF_vars(TurnTimeRunsOut)
  /\ WF_vars(ExpireDebate)

LiveSpec == Spec /\ Fairness

-----------------------------------------------------------------------------
Contents == {turns[i].content : i \in 1..Len(turns)}

\* The running totals of the lengths of a list that respects the limit: one
\* function, or none when the total exceeds the limit.
RunningTotals(list) ==
  {total \in [0..Len(list) -> 0..MaxLength] :
     /\ total[0] = 0
     /\ \A i \in 1..Len(list) : total[i] = total[i - 1] + Length(list[i])}

\* content.length of the saved row: the messages of a list, trimmed since they
\* were received, joined by newlines.
TextLength(list) ==
  LET upTo[i \in 0..Len(list)] ==
        IF i = 0 THEN 0 ELSE upTo[i - 1] + Length(list[i]) + (IF i = 1 THEN 0 ELSE 1)
  IN upTo[Len(list)]

SavedTurns == [slot : Slots, content : Seq(Messages)]
SenderRecords == [pc : {"idle", "checked"}, msg : Messages \cup {NoOne},
                  slot : Slots \cup {NoTurn}]
FinalizerRecords ==
  [pc : {"idle", "due", "locked", "read", "committed", "cleaned", "releasing"},
   slot : Slots \cup {NoTurn}, id : Ids \cup {NoOne}, content : Seq(Messages)]

\* A handler that has left "idle" knows its turn.
SendersTyped ==
  /\ sender \in [Senders -> SenderRecords]
  /\ \A p \in Senders : sender[p].pc = "checked" =>
       sender[p].msg \in Messages /\ sender[p].slot \in Slots

FinalizersTyped ==
  /\ finalizer \in [Finalizers -> FinalizerRecords]
  /\ \A f \in Finalizers : finalizer[f].pc # "idle" =>
       finalizer[f].slot \in Slots /\ finalizer[f].id \in Ids

BuffersTyped ==
  /\ drafts \in [Slots -> Seq(Messages)]
  /\ chars \in [Slots -> Nat \cup {Absent}]
  /\ dedup \in [Slots -> SUBSET (Messages \ Anonymous)]
  /\ draftKeys \subseteq Slots

\* Every variable holds what its column, key or handler may hold.
TypeOK ==
  /\ status \in Statuses
  /\ IF status = "IN_PROGRESS" THEN turn \in Slots ELSE turn = NoTurn
  /\ turns \in Seq(SavedTurns)
  /\ clock \in {"PREPARING", "OPEN", "LIMIT"}
  /\ overdue \in BOOLEAN
  /\ BuffersTyped
  /\ lock \in [Slots -> Ids \cup {NoOne}]
  /\ jobs \subseteq 1..Len(turns)
  /\ SendersTyped
  /\ FinalizersTyped
  /\ terminator \in [pc : {"idle", "ended", "listed"}, keys : SUBSET Slots]
  /\ acked \subseteq Messages \X Slots
  /\ lapsed \subseteq Finalizers /\ torn \subseteq ChatSlots
  /\ faults \in 0..MaxFaults

\* The database side of every interleaving is the debate lifecycle: each turn
\* of the protocol is finalized exactly once and in order, whoever finalizes
\* it, and even if the Redis lock expires under a slow finalization.
Lifecycle == INSTANCE DebateLifecycle
             WITH turns <- [i \in 1..Len(turns) |-> turns[i].slot]

FollowsLifecycle == Lifecycle!Spec

\* DebateLifecycle's own invariants, of the rows this module writes: finalized
\* turns follow the protocol, each once; the current turn is the one after
\* them; a debate that has left the live phase has them all.
ProtocolOrder == Lifecycle!ProtocolOrder
CurrentTurnFollows == Lifecycle!CurrentTurnFollows
FinalizedIsComplete == Lifecycle!FinalizedIsComplete

\* The three Redis keys of a turn never drift apart: the counter is the total
\* length of the list, the dedup map knows exactly the listed messages that
\* have a clientMessageId, and the total respects the limit, whatever appends,
\* deletions and clean-ups interleave.
DraftKeysAgree ==
  \A s \in Slots :
    /\ IF drafts[s] = <<>> THEN chars[s] = Absent
       ELSE \E total \in RunningTotals(drafts[s]) : chars[s] = total[Len(drafts[s])]
    /\ dedup[s] = ToSet(drafts[s]) \ Anonymous

IdentifiedOnce(list) ==
  \A i, j \in 1..Len(list) : list[i] = list[j] /\ list[i] \notin Anonymous => i = j

\* A client that resends a message under its clientMessageId never sees it
\* twice in the turn that is saved (one without an id is there as often as it
\* was sent).  The messages of the turn respect the limit; the text they are
\* joined into has a newline more for each but the first, which nothing counts.
SavedTurnsAreSound ==
  \A content \in Contents :
    /\ IdentifiedOnce(content)
    /\ RunningTotals(content) # {}
    /\ content # <<>> => TextLength(content) < MaxLength + Len(content)

\* An acknowledged message is not destroyed: it is in the saved content of its
\* turn or still in that turn's drafts, unless the whole debate has failed or
\* the handler that deleted the drafts had lost its lock before: the key had
\* expired, or a handler of a command with the same id, that had lost its own,
\* had released it.  A handler that lost its lock but did not commit does no
\* harm to the next holder.
AckedSurvive ==
  status # "FAILED" =>
    \A m \in Messages, s \in Slots : <<m, s>> \in acked =>
      \/ s \in torn
      \/ m \in ToSet(drafts[s])
      \/ \E i \in 1..Len(turns) : turns[i].slot = s /\ m \in ToSet(turns[i].content)

\* Without a crash or a failed call, a finalized turn that no handler is still
\* working on has been handed to the Analyzer, the last turn included.
FinalizedTurnsAreQueued ==
  faults = 0 =>
    \A i \in 1..Len(turns) :
      i \in jobs \/ \E f \in Finalizers : Finalizing(f, turns[i].slot)

Appended(m, s) == drafts'[s] = Append(drafts[s], m)

\* README.md:37: the finalize lock keeps appends out while a turn is being
\* finalized, from the moment its drafts are read to their deletion.
AppendBlockedWhileFinalizing ==
  [][\A s \in Slots, m \in Messages : Appended(m, s) =>
       ~\E f \in Finalizers : finalizer[f].slot = s /\ finalizer[f].pc \in {"read", "committed"}
    ]_vars

\* README.md:32: a resent message is recognised by its clientMessageId, so it
\* is not stored and broadcast again once it has been acknowledged.
ResendNotAppended ==
  [][\A s \in Slots, m \in Messages \ Anonymous :
       Appended(m, s) /\ status # "FAILED" => <<m, s>> \notin acked]_vars

\* No turn lasts forever: with the scheduler polling, whatever users do, the
\* turns, none of which returns (FollowsLifecycle), are finalized one after the
\* other or the debate is ended.
LivePhaseEnds == status = "IN_PROGRESS" ~> status # "IN_PROGRESS"
=============================================================================
