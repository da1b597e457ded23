------------------------- MODULE DebateChat_proofs -------------------------
(***************************************************************************)
(* Theorems about DebateChat, for any number of rounds, messages, senders  *)
(* and clients, and whether or not locks expire under their holders.       *)
(*                                                                         *)
(* The rows of the database are safe whatever the lock does: the           *)
(* transaction validates the locked debate row, so the refinement needs    *)
(* the types only.  The drafts are kept by the lock: AckedInv follows who  *)
(* holds it, what it has read, and whether it has outlived it.             *)
(***************************************************************************)
EXTENDS DebateChat, TLAPS

-----------------------------------------------------------------------------
\* The first turn is one the columns can hold: there is at least one round.
LEMMA FirstTurnIsASlot == FirstTurn \in Slots
BY RoundsAssumption DEF FirstTurn, Slot, Slots, Phases, Sides

\* calculateNextTurnState stays within the columns' ranges.
LEMMA NextTurnTyped ==
  ASSUME NEW s \in Slots
  PROVE  NextTurn(s) \in Slots \cup {NoTurn}
<1>1. s.round \in 1..Rounds /\ s.side \in Sides /\ s.phase \in Phases
  BY DEF Slots
<1>2. CASE s.side = "SIDE_A"
  BY <1>1, <1>2 DEF NextTurn, AfterSideA, Slots, Sides
<1>3. CASE s.side = "SIDE_B" /\ s.phase = "OPENING"
  BY <1>1, <1>3, RoundsAssumption DEF NextTurn, Slot, Slots, Sides, Phases
<1>4. CASE s.side = "SIDE_B" /\ s.phase = "REBUTTAL_QUESTION"
  BY <1>1, <1>4, RoundsAssumption DEF NextTurn, MoreRebuttals, Slot, Slots, Sides, Phases
<1>5. CASE s.side = "SIDE_B" /\ s.phase = "CLOSING"
  BY <1>1, <1>5 DEF NextTurn
<1>6. QED
  BY <1>1, <1>2, <1>3, <1>4, <1>5 DEF Sides, Phases

\* A finalizer at rest has a well-typed record.
LEMMA IdleFinalizerTyped ==
  IdleFinalizer \in FinalizerRecords /\ IdleFinalizer.pc = "idle"
<1>1. <<>> \in Seq(Messages)
  OBVIOUS
<1>2. QED
  BY <1>1 DEF IdleFinalizer, FinalizerRecords

\* The initial states are well typed.
LEMMA TypeInit == Init => TypeOK
<1> SUFFICES ASSUME Init PROVE TypeOK
  OBVIOUS
<1> USE DEF Init
<1>1. status \in Statuses /\ turn \in Slots /\ turns \in Seq(SavedTurns) /\ jobs \subseteq 1..Len(turns)
  BY FirstTurnIsASlot DEF Statuses
<1>2. SendersTyped
  BY DEF SendersTyped, SenderRecords, IdleSender
<1>3. FinalizersTyped
  BY IdleFinalizerTyped DEF FinalizersTyped
<1>4. BuffersTyped
  BY DEF BuffersTyped, Absent
<1>5. lock \in [Slots -> Ids \cup {NoOne}]
  OBVIOUS
<1>6. terminator \in [pc : {"idle", "ended", "listed"}, keys : SUBSET Slots]
  BY DEF IdleTerminator
<1>7. faults \in 0..MaxFaults
  BY ChatAssumption
<1>8. QED
  BY <1>1, <1>2, <1>3, <1>4, <1>5, <1>6, <1>7 DEF TypeOK

-----------------------------------------------------------------------------
(* Typing, handler by handler.                                              *)

\* A finalizer that moves on, returns or stays keeps its record well typed.
LEMMA FinalizerMoves ==
  ASSUME FinalizersTyped, NEW f \in Finalizers,
         \/ finalizer[f].pc # "idle" /\
              \E pc \in {"locked", "read", "committed", "cleaned", "releasing"} : Goto(f, pc)
         \/ finalizer' = [finalizer EXCEPT ![f] = IdleFinalizer]
         \/ UNCHANGED finalizer
  PROVE  FinalizersTyped'
<1>1. CASE \E pc \in {"locked", "read", "committed", "cleaned", "releasing"} :
             finalizer[f].pc # "idle" /\ Goto(f, pc)
  <2>1. PICK pc \in {"locked", "read", "committed", "cleaned", "releasing"} :
          finalizer[f].pc # "idle" /\ finalizer' = [finalizer EXCEPT ![f].pc = pc]
    BY <1>1 DEF Goto
  <2>2. finalizer[f] \in FinalizerRecords /\ finalizer[f].slot \in Slots /\ finalizer[f].id \in Ids
    BY <2>1 DEF FinalizersTyped
  <2>3. /\ [finalizer[f] EXCEPT !.pc = pc] \in FinalizerRecords
        /\ [finalizer[f] EXCEPT !.pc = pc].slot \in Slots
        /\ [finalizer[f] EXCEPT !.pc = pc].id \in Ids
    BY <2>2 DEF FinalizerRecords
  <2>4. QED BY <2>1, <2>3 DEF FinalizersTyped
<1>2. CASE finalizer' = [finalizer EXCEPT ![f] = IdleFinalizer]
  BY <1>2, IdleFinalizerTyped DEF FinalizersTyped
<1>3. QED
  BY <1>1, <1>2 DEF FinalizersTyped

\* So does one that starts on a turn.
LEMMA Started ==
  ASSUME FinalizersTyped, NEW f \in Finalizers, NEW s \in Slots, NEW id \in Ids,
         NEW pc \in {"due", "locked"}, Start(f, pc, s, id)
  PROVE  FinalizersTyped'
<1>1. <<>> \in Seq(Messages)
  OBVIOUS
<1>2. [pc |-> pc, slot |-> s, id |-> id, content |-> <<>>] \in FinalizerRecords
  BY <1>1 DEF FinalizerRecords
<1>3. QED
  BY <1>2 DEF Start, FinalizersTyped

\* Taking a lock keeps the locks and the finalizers well typed.
LEMMA LockTaken ==
  ASSUME TypeOK, NEW f \in Finalizers, NEW s \in Slots, NEW id \in Ids, TakeLock(f, s, id)
  PROVE  FinalizersTyped' /\ lock' \in [Slots -> Ids \cup {NoOne}]
<1>1. FinalizersTyped'
  BY Started DEF TakeLock, TypeOK
<1>2. lock' \in [Slots -> Ids \cup {NoOne}]
  BY DEF TakeLock, TypeOK
<1>3. QED
  BY <1>1, <1>2

\* The turn of a handler at work.
LEMMA WorksOnASlot ==
  ASSUME TypeOK, NEW f \in Finalizers, finalizer[f].pc # "idle"
  PROVE  finalizer[f].slot \in Slots /\ finalizer[f].content \in Seq(Messages)
BY DEF TypeOK, FinalizersTyped, FinalizerRecords

\* Deleting the drafts of any turns keeps the buffers well typed.
LEMMA DeletedTyped ==
  ASSUME BuffersTyped, NEW S \in SUBSET Slots, DeleteDrafts(S),
         draftKeys' \subseteq Slots
  PROVE  BuffersTyped'
BY DEF BuffersTyped, DeleteDrafts, Absent

\* Both steps of appendDraftMessage preserve the types.
LEMMA AppendTyped ==
  ASSUME TypeOK, NEW p \in Senders,
         (\E m \in Messages, s \in ChatSlots : AppendCheck(p, m, s)) \/ AppendScript(p)
  PROVE  TypeOK'
<1>1. ASSUME NEW m \in Messages, NEW s \in ChatSlots, AppendCheck(p, m, s)
      PROVE  TypeOK'
  <2>1. s \in Slots
    BY ChatAssumption
  <2>2. SendersTyped'
    BY <1>1, <2>1 DEF AppendCheck, TypeOK, SendersTyped, SenderRecords
  <2>3. QED
    BY <1>1, <2>2 DEF AppendCheck, TypeOK, dbVars, timeVars, redisVars, history,
       BuffersTyped, FinalizersTyped
<1>2. CASE AppendScript(p)
  <2> DEFINE m == sender[p].msg
             s == sender[p].slot
  <2>1. m \in Messages /\ s \in Slots
    BY <1>2 DEF AppendScript, TypeOK, SendersTyped
  <2>2. SendersTyped'
    BY <1>2 DEF AppendScript, TypeOK, SendersTyped, SenderRecords, IdleSender
  <2>3. CharsOf(s) + Length(m) \in Nat
    BY <2>1, ChatAssumption DEF CharsOf, TypeOK, BuffersTyped, Absent
  <2>4. BuffersTyped'
    <3>1. CASE AppendOutcome(m, s) = "APPENDED"
      <4>1. Append(drafts[s], m) \in Seq(Messages)
        BY <2>1 DEF TypeOK, BuffersTyped
      <4>2. drafts' = [drafts EXCEPT ![s] = Append(drafts[s], m)]
        BY <1>2, <3>1 DEF AppendScript
      <4>3. /\ chars' = [chars EXCEPT ![s] = CharsOf(s) + Length(m)]
            /\ dedup' = [dedup EXCEPT ![s] = dedup[s] \cup ({m} \ Anonymous)]
            /\ draftKeys' = draftKeys \cup {s}
        BY <1>2, <3>1 DEF AppendScript
      <4>4. QED
        BY <2>1, <2>3, <4>1, <4>2, <4>3 DEF TypeOK, BuffersTyped
    <3>2. CASE AppendOutcome(m, s) # "APPENDED"
      BY <1>2, <3>2 DEF AppendScript, TypeOK, BuffersTyped
    <3>3. QED
      BY <3>1, <3>2
  <2>5. acked' \subseteq Messages \X Slots
    BY <1>2, <2>1 DEF AppendScript, TypeOK
  <2>6. QED
    BY <1>2, <2>2, <2>4, <2>5 DEF AppendScript, TypeOK, dbVars, timeVars, FinalizersTyped
<1>3. QED
  BY <1>1, <1>2

\* Every step of finalizeTurn after the lock preserves the types.
LEMMA FinalizeStepTyped ==
  ASSUME TypeOK, NEW f \in Finalizers, FinalizeStep(f)
  PROVE  TypeOK'
<1>0. finalizer[f].pc # "idle"
  BY DEF FinalizeStep, ReadDrafts, CommitTurn, RejectTurn, CleanDrafts, EnqueueTurn, ReleaseLock, At
<1>s. finalizer[f].slot \in Slots /\ finalizer[f].content \in Seq(Messages)
  BY <1>0, WorksOnASlot
<1>f. FinalizersTyped /\ BuffersTyped
  BY DEF TypeOK
<1>1. CASE ReadDrafts(f)
  <2>1. drafts[finalizer[f].slot] \in Seq(Messages)
    BY <1>s, <1>f DEF BuffersTyped
  <2>2. FinalizersTyped'
    BY <1>0, <1>1, <2>1, <1>f DEF ReadDrafts, FinalizersTyped, FinalizerRecords
  <2>3. QED
    BY <1>1, <2>2 DEF ReadDrafts, TypeOK, dbVars, timeVars, redisVars, history, BuffersTyped, SendersTyped
<1>2. CASE CommitTurn(f)
  <2>1. turns' \in Seq(SavedTurns) /\ Len(turns') = Len(turns) + 1
    <3>1. [slot |-> finalizer[f].slot, content |-> finalizer[f].content] \in SavedTurns
      BY <1>s DEF SavedTurns
    <3>2. QED
      BY <1>2, <3>1 DEF CommitTurn, TypeOK
  <2>2. IF status' = "IN_PROGRESS" THEN turn' \in Slots ELSE turn' = NoTurn
    BY <1>2, <1>s, NextTurnTyped DEF CommitTurn, StatusAfter
  <2>3. status' \in Statuses
    BY <1>2 DEF CommitTurn, StatusAfter, Statuses
  <2>4. FinalizersTyped'
    BY <1>0, <1>2, <1>f, FinalizerMoves DEF CommitTurn
  <2>5. jobs' \subseteq 1..Len(turns')
    <3>1. Len(turns) \in Nat
      BY DEF TypeOK
    <3>2. QED
      BY <1>2, <2>1, <3>1 DEF CommitTurn, redisVars, TypeOK
  <2>6. QED
    BY <1>2, <2>1, <2>2, <2>3, <2>4, <2>5 DEF CommitTurn, TypeOK, redisVars, history, BuffersTyped, SendersTyped
<1>3. CASE RejectTurn(f)
  <2>1. FinalizersTyped'
    BY <1>0, <1>3, <1>f, FinalizerMoves DEF RejectTurn
  <2>2. QED
    BY <1>3, <2>1 DEF RejectTurn, TypeOK, dbVars, timeVars, redisVars, history, BuffersTyped, SendersTyped
<1>4. CASE CleanDrafts(f)
  <2>1. FinalizersTyped'
    BY <1>0, <1>4, <1>f, FinalizerMoves DEF CleanDrafts
  <2>2. BuffersTyped'
    <3>1. draftKeys' \subseteq Slots
      BY <1>4, <1>f DEF CleanDrafts, BuffersTyped
    <3>2. QED
      BY <1>4, <1>s, <1>f, <3>1, DeletedTyped DEF CleanDrafts
  <2>3. torn' \subseteq ChatSlots
    BY <1>4 DEF CleanDrafts, TypeOK
  <2>4. QED
    BY <1>4, <2>1, <2>2, <2>3 DEF CleanDrafts, TypeOK, dbVars, timeVars, SendersTyped
<1>5. CASE EnqueueTurn(f)
  <2>1. FinalizersTyped'
    BY <1>0, <1>5, <1>f, FinalizerMoves DEF EnqueueTurn
  <2>2. jobs' \subseteq 1..Len(turns)
    BY <1>5 DEF EnqueueTurn, TypeOK
  <2>3. QED
    BY <1>5, <2>1, <2>2 DEF EnqueueTurn, TypeOK, dbVars, timeVars, history, BuffersTyped, SendersTyped
<1>6. CASE ReleaseLock(f)
  <2>1. FinalizersTyped'
    BY <1>6, <1>f, FinalizerMoves DEF ReleaseLock
  <2>2. lock' \in [Slots -> Ids \cup {NoOne}] /\ lapsed' \subseteq Finalizers
    BY <1>6, <1>s DEF ReleaseLock, Released, SameCommand, Holders, TypeOK
  <2>3. QED
    BY <1>6, <2>1, <2>2 DEF ReleaseLock, TypeOK, dbVars, timeVars, BuffersTyped, SendersTyped
<1>7. QED
  BY <1>1, <1>2, <1>3, <1>4, <1>5, <1>6 DEF FinalizeStep

\* The steps that lead to the lock, of a client or of the scheduler.
LEMMA TakeLockStepTyped ==
  ASSUME TypeOK,
         \/ \E c \in Clients, s \in ChatSlots : ClientFinalize(c, s)
         \/ SchedulerStep
  PROVE  TypeOK'
<1>f. Scheduler \in Finalizers /\ Scheduler \in Ids /\ FinalizersTyped
  BY DEF Finalizers, Ids, TypeOK
<1>1. ASSUME NEW c \in Clients, NEW s \in ChatSlots, ClientFinalize(c, s)
      PROVE  TypeOK'
  <2>1. c \in Finalizers /\ s \in Slots /\ CommandIds \subseteq Ids
    BY ChatAssumption DEF Finalizers, Ids
  <2>2. FinalizersTyped' /\ lock' \in [Slots -> Ids \cup {NoOne}]
    BY <1>1, <2>1, LockTaken DEF ClientFinalize
  <2>3. QED
    BY <1>1, <2>2 DEF ClientFinalize, TypeOK, dbVars, timeVars, history, BuffersTyped, SendersTyped
<1>2. CASE SchedulerFindsTurn
  <2>1. turn \in Slots
    BY <1>2 DEF SchedulerFindsTurn, TypeOK
  <2>2. FinalizersTyped'
    BY <1>2, <2>1, <1>f, Started DEF SchedulerFindsTurn
  <2>3. QED
    BY <1>2, <2>2 DEF SchedulerFindsTurn, TypeOK, dbVars, timeVars, redisVars, history, BuffersTyped, SendersTyped
<1>3. CASE SchedulerLock
  <2>1. finalizer[Scheduler].slot \in Slots
    BY <1>3, <1>f, WorksOnASlot DEF SchedulerLock, At
  <2>2. FinalizersTyped' /\ lock' \in [Slots -> Ids \cup {NoOne}]
    <3>1. CASE TakeLock(Scheduler, finalizer[Scheduler].slot, Scheduler)
      BY <3>1, <2>1, <1>f, LockTaken
    <3>2. CASE finalizer' = [finalizer EXCEPT ![Scheduler] = IdleFinalizer] /\ UNCHANGED lock
      BY <3>2, <1>f, FinalizerMoves DEF TypeOK
    <3>3. QED
      BY <1>3, <3>1, <3>2 DEF SchedulerLock
  <2>3. QED
    BY <1>3, <2>2 DEF SchedulerLock, TypeOK, dbVars, timeVars, history, BuffersTyped, SendersTyped
<1>4. QED
  BY <1>1, <1>2, <1>3 DEF SchedulerStep

\* Crashes, failed calls and lock expiry.
LEMMA FaultTyped ==
  ASSUME TypeOK,
         \/ \E f \in Finalizers : FinalizeStepFails(f) \/ FinalizerCrashes(f)
         \/ \E s \in Slots : LockExpires(s)
         \/ ClearDraftsFails
  PROVE  TypeOK'
<1>f. FinalizersTyped /\ faults \in 0..MaxFaults /\ MaxFaults \in Nat
  BY ChatAssumption DEF TypeOK
<1>1. ASSUME NEW f \in Finalizers, FinalizeStepFails(f)
      PROVE  TypeOK'
  <2>1. FinalizersTyped'
    BY <1>1, <1>f, FinalizerMoves DEF FinalizeStepFails
  <2>2. faults' \in 0..MaxFaults
    BY <1>1, <1>f DEF FinalizeStepFails
  <2>3. QED
    BY <1>1, <2>1, <2>2 DEF FinalizeStepFails, TypeOK, dbVars, timeVars, redisVars, history, BuffersTyped, SendersTyped
<1>2. ASSUME NEW f \in Finalizers, FinalizerCrashes(f)
      PROVE  TypeOK'
  <2>1. FinalizersTyped'
    BY <1>2, <1>f, FinalizerMoves DEF FinalizerCrashes
  <2>2. faults' \in 0..MaxFaults
    BY <1>2, <1>f DEF FinalizerCrashes
  <2>3. QED
    BY <1>2, <2>1, <2>2 DEF FinalizerCrashes, TypeOK, dbVars, timeVars, redisVars, BuffersTyped, SendersTyped
<1>3. ASSUME NEW s \in Slots, LockExpires(s)
      PROVE  TypeOK'
  <2>1. lock' \in [Slots -> Ids \cup {NoOne}]
    BY <1>3 DEF LockExpires, TypeOK
  <2>2. lapsed' \subseteq Finalizers
    BY <1>3 DEF LockExpires, Holders, TypeOK
  <2>3. QED
    BY <1>3, <2>1, <2>2 DEF LockExpires, TypeOK, dbVars, timeVars, BuffersTyped, SendersTyped, FinalizersTyped
<1>4. CASE ClearDraftsFails
  <2>1. faults' \in 0..MaxFaults
    BY <1>4, <1>f DEF ClearDraftsFails
  <2>2. QED
    BY <1>4, <2>1 DEF ClearDraftsFails, IdleTerminator, TypeOK, dbVars, timeVars, redisVars, history, BuffersTyped, SendersTyped, FinalizersTyped
<1>5. QED
  BY <1>1, <1>2, <1>3, <1>4

\* Time, and the end of the debate.
LEMMA EndTyped ==
  ASSUME TypeOK,
         \/ PreparationEnds \/ TurnTimeRunsOut \/ TotalTimeRunsOut
         \/ Forfeit \/ ExpireDebate \/ ListDraftKeys \/ ClearDrafts
  PROVE  TypeOK'
<1>1. CASE PreparationEnds \/ TurnTimeRunsOut \/ TotalTimeRunsOut
  BY <1>1 DEF PreparationEnds, TurnTimeRunsOut, TotalTimeRunsOut, TypeOK, dbVars,
     redisVars, history, BuffersTyped, SendersTyped, FinalizersTyped
<1>2. CASE Forfeit \/ ExpireDebate
  BY <1>2 DEF Forfeit, ExpireDebate, EndDebate, Statuses, TypeOK, timeVars,
     redisVars, history, BuffersTyped, SendersTyped, FinalizersTyped
<1>3. CASE ListDraftKeys
  BY <1>3 DEF ListDraftKeys, TypeOK, dbVars, timeVars,
     redisVars, history, BuffersTyped, SendersTyped, FinalizersTyped
<1>4. CASE ClearDrafts
  <2>1. terminator.keys \in SUBSET Slots /\ BuffersTyped
    BY DEF TypeOK
  <2>2. BuffersTyped'
    BY <1>4, <2>1, DeletedTyped DEF ClearDrafts
  <2>3. lock' \in [Slots -> Ids \cup {NoOne}]
    BY <1>4 DEF ClearDrafts, TypeOK
  <2>4. QED
    BY <1>4, <2>2, <2>3 DEF ClearDrafts, IdleTerminator, TypeOK, dbVars, timeVars,
       history, SendersTyped, FinalizersTyped
<1>5. QED
  BY <1>1, <1>2, <1>3, <1>4

\* Every step preserves the types.
LEMMA TypeStep == TypeOK /\ [Next]_vars => TypeOK'
<1> SUFFICES ASSUME TypeOK, [Next]_vars PROVE TypeOK'
  OBVIOUS
<1>1. CASE UNCHANGED vars
  BY <1>1 DEF vars, TypeOK, dbVars, timeVars, redisVars, history, BuffersTyped, SendersTyped, FinalizersTyped
<1>2. CASE Next
  BY <1>2, AppendTyped, FinalizeStepTyped, TakeLockStepTyped, FaultTyped, EndTyped DEF Next
<1>3. QED
  BY <1>1, <1>2

\* Every reachable state is well typed; in particular a running debate always
\* has a current turn and no other debate has one.
THEOREM ChatTypeCorrect == Spec => []TypeOK
BY TypeInit, TypeStep, PTL DEF Spec

-----------------------------------------------------------------------------
(* Every step is a step of DebateLifecycle on the rows, or leaves them      *)
(* alone: only CommitTurn, Forfeit and ExpireDebate write them.             *)

\* A step outside the database is a stutter of the lifecycle.
LEMMA RowsUntouched ==
  ASSUME UNCHANGED dbVars
  PROVE  UNCHANGED Lifecycle!vars
BY DEF dbVars, Lifecycle!vars

\* The instance brings its own copy of TurnProtocol's operators.
LEMMA SameProtocol ==
  ASSUME NEW s
  PROVE  /\ Lifecycle!NextTurn(s) = NextTurn(s)
         /\ Lifecycle!StatusAfter(s) = StatusAfter(s)
         /\ Lifecycle!NoTurn = NoTurn
         /\ Lifecycle!FirstTurn = FirstTurn
         /\ Lifecycle!TimeoutEligible = TimeoutEligible
<1>1. Lifecycle!NextTurn(s) = NextTurn(s) /\ Lifecycle!NoTurn = NoTurn
  BY Zenon DEF Lifecycle!NextTurn, NextTurn, Lifecycle!AfterSideA, AfterSideA, Lifecycle!Slot, Slot,
     Lifecycle!MoreRebuttals, MoreRebuttals, Lifecycle!NoTurn, NoTurn
<1>2. QED
  BY <1>1 DEF Lifecycle!StatusAfter, StatusAfter, Lifecycle!FirstTurn, FirstTurn,
     Lifecycle!Slot, Slot, Lifecycle!TimeoutEligible, TimeoutEligible

\* The transaction of finalizeTurn is the lifecycle's FinalizeTurn.
LEMMA CommitIsFinalize ==
  ASSUME TypeOK, NEW f \in Finalizers, CommitTurn(f)
  PROVE  Lifecycle!FinalizeTurn
<1> DEFINE slots == [i \in 1..Len(turns) |-> turns[i].slot]
           saved == [slot |-> finalizer[f].slot, content |-> finalizer[f].content]
<1>1. turns \in Seq(SavedTurns) /\ Len(turns) \in Nat
  BY DEF TypeOK
<1>2. turn = finalizer[f].slot /\ status = "IN_PROGRESS" /\ turn \in Slots
  BY DEF CommitTurn, TurnIsCurrent, CanReceiveTurn, TypeOK
<1>3. saved \in SavedTurns /\ saved.slot = turn
  <2>1. finalizer[f].pc # "idle"
    BY DEF CommitTurn, At
  <2>2. finalizer[f].slot \in Slots /\ finalizer[f].content \in Seq(Messages)
    BY <2>1, WorksOnASlot
  <2>3. QED
    BY <1>2, <2>2 DEF SavedTurns
<1>4. turns' = Append(turns, saved)
  BY DEF CommitTurn
<1>5. /\ Len(turns') = Len(turns) + 1
      /\ \A i \in 1..Len(turns) : turns'[i] = turns[i]
      /\ turns'[Len(turns) + 1] = saved
  BY <1>1, <1>3, <1>4
<1>6. slots \in Seq(Slots) /\ Len(slots) = Len(turns)
  <2>1. \A i \in 1..Len(turns) : turns[i] \in SavedTurns
    BY <1>1
  <2>2. \A i \in 1..Len(turns) : turns[i].slot \in Slots
    BY <2>1 DEF SavedTurns
  <2>3. QED
    BY <1>1, <2>2
<1>7. [i \in 1..Len(turns') |-> turns'[i].slot] = Append(slots, turn)
  <2>1. Append(slots, turn) = [i \in 1..(Len(turns) + 1) |->
                                 IF i <= Len(turns) THEN slots[i] ELSE turn]
    BY <1>1, <1>2, <1>6
  <2>2. \A i \in 1..(Len(turns) + 1) :
          turns'[i].slot = IF i <= Len(turns) THEN slots[i] ELSE turn
    BY <1>1, <1>3, <1>5
  <2>3. QED
    BY <1>5, <2>1, <2>2
<1>8. turn' = NextTurn(turn) /\ status' = StatusAfter(turn)
  BY <1>2 DEF CommitTurn
<1>9. turn' = Lifecycle!NextTurn(turn) /\ status' = Lifecycle!StatusAfter(turn)
  BY <1>8, SameProtocol
<1>10. QED
  BY <1>2, <1>7, <1>9 DEF Lifecycle!FinalizeTurn

\* The transaction of terminateDebate is the lifecycle's TerminateDebate.
LEMMA EndIsTerminate ==
  ASSUME Forfeit \/ ExpireDebate
  PROVE  Lifecycle!TerminateDebate
<1>1. status \in TimeoutEligible /\ status' = "FAILED" /\ turn' = NoTurn /\ UNCHANGED turns
  BY DEF Forfeit, ExpireDebate, EndDebate, TimeoutEligible
<1>2. status \in Lifecycle!TimeoutEligible /\ turn' = Lifecycle!NoTurn
  BY <1>1, SameProtocol
<1>3. QED
  BY <1>1, <1>2 DEF Lifecycle!TerminateDebate

\* Every step is a step of the lifecycle or leaves its rows alone.
LEMMA LifecycleStep == TypeOK /\ [Next]_vars => [Lifecycle!Next]_(Lifecycle!vars)
<1> SUFFICES ASSUME TypeOK, [Next]_vars PROVE [Lifecycle!Next]_(Lifecycle!vars)
  OBVIOUS
<1>1. ASSUME NEW f \in Finalizers, FinalizeStep(f)
      PROVE  [Lifecycle!Next]_(Lifecycle!vars)
  <2>1. CASE CommitTurn(f)
    BY <2>1, CommitIsFinalize DEF Lifecycle!Next
  <2>2. CASE ReadDrafts(f) \/ RejectTurn(f) \/ CleanDrafts(f) \/ EnqueueTurn(f) \/ ReleaseLock(f)
    BY <2>2, RowsUntouched DEF ReadDrafts, RejectTurn, CleanDrafts, EnqueueTurn, ReleaseLock
  <2>3. QED
    BY <1>1, <2>1, <2>2 DEF FinalizeStep
<1>2. CASE Forfeit \/ ExpireDebate
  BY <1>2, EndIsTerminate DEF Lifecycle!Next
<1>3. ASSUME NEW p \in Senders,
             (\E m \in Messages, s \in ChatSlots : AppendCheck(p, m, s)) \/ AppendScript(p)
      PROVE  [Lifecycle!Next]_(Lifecycle!vars)
  BY <1>3, RowsUntouched DEF AppendCheck, AppendScript
<1>4. CASE (\E c \in Clients, s \in ChatSlots : ClientFinalize(c, s)) \/ SchedulerStep
  BY <1>4, RowsUntouched DEF ClientFinalize, SchedulerStep, SchedulerFindsTurn, SchedulerLock
<1>5. ASSUME NEW f \in Finalizers, FinalizeStepFails(f) \/ FinalizerCrashes(f)
      PROVE  [Lifecycle!Next]_(Lifecycle!vars)
  BY <1>5, RowsUntouched DEF FinalizeStepFails, FinalizerCrashes
<1>6. CASE \E s \in Slots : LockExpires(s)
  BY <1>6, RowsUntouched DEF LockExpires
<1>7. CASE PreparationEnds \/ TurnTimeRunsOut \/ TotalTimeRunsOut
  BY <1>7, RowsUntouched DEF PreparationEnds, TurnTimeRunsOut, TotalTimeRunsOut
<1>8. CASE ListDraftKeys \/ ClearDrafts \/ ClearDraftsFails
  BY <1>8, RowsUntouched DEF ListDraftKeys, ClearDrafts, ClearDraftsFails
<1>9. CASE UNCHANGED vars
  BY <1>9, RowsUntouched DEF vars
<1>10. QED
  BY <1>1, <1>2, <1>3, <1>4, <1>5, <1>6, <1>7, <1>8, <1>9 DEF Next

\* The debate starts as the lifecycle does.
LEMMA LifecycleInit == Init => Lifecycle!Init
<1> SUFFICES ASSUME Init PROVE Lifecycle!Init
  OBVIOUS
<1>2. [i \in 1..Len(turns) |-> turns[i].slot] = <<>>
  <2> DEFINE g == [i \in 1..0 |-> turns[i].slot]
  <2>1. g \in Seq(Slots) /\ Len(g) = 0
    OBVIOUS
  <2>2. g = <<>>
    <3>1. \A q \in Seq(Slots) : Len(q) = 0 => q = <<>>
      OBVIOUS
    <3> HIDE DEF g
    <3>2. QED
      BY <2>1, <3>1
  <2>3. Len(turns) = 0
    BY DEF Init
  <2>4. QED
    BY <2>2, <2>3, Zenon
<1>3. Lifecycle!FirstTurn = FirstTurn
  BY SameProtocol
<1>4. status = "IN_PROGRESS" /\ turn = FirstTurn
  BY DEF Init
<1>5. QED
  BY <1>2, <1>3, <1>4, Zenon DEF Lifecycle!Init

\* Draft buffers, locks, crashes and timers implement the debate lifecycle:
\* each turn of the protocol is saved once and in order, whoever finalizes it.
THEOREM ChatImplementsLifecycle == Spec => FollowsLifecycle
BY LifecycleInit, TypeInit, TypeStep, LifecycleStep, PTL DEF Spec, FollowsLifecycle, Lifecycle!Spec

-----------------------------------------------------------------------------
(* What the lifecycle guarantees holds of the rows that the handlers write. *)

Turns == INSTANCE DebateLifecycle_proofs WITH turns <- [i \in 1..Len(turns) |-> turns[i].slot]

LEMMA RowsInit == Init => Turns!LifecycleInv
<1>1. Lifecycle!Init => Turns!Init
  BY DEF Lifecycle!Init, Turns!Init, Lifecycle!NoTurn, Turns!NoTurn, Lifecycle!FirstTurn, Turns!FirstTurn, Lifecycle!Slot, Turns!Slot
<1>2. Turns!Init => Turns!LifecycleInv
  BY Turns!LifecycleInit, RoundsAssumption
<1>3. QED BY <1>1, <1>2, LifecycleInit

\* The lifecycle of DebateLifecycle_proofs is the one of the refinement.
LEMMA SameLifecycle == [Lifecycle!Next]_(Lifecycle!vars) => [Turns!Next]_(Turns!vars)
<1>1. \A s : Turns!NextTurn(s) = Lifecycle!NextTurn(s) /\ Turns!StatusAfter(s) = Lifecycle!StatusAfter(s)
  BY DEF Turns!NextTurn, Lifecycle!NextTurn, Turns!StatusAfter, Lifecycle!StatusAfter,
     Turns!AfterSideA, Lifecycle!AfterSideA, Turns!MoreRebuttals, Lifecycle!MoreRebuttals,
     Turns!Slot, Lifecycle!Slot, Turns!NoTurn, Lifecycle!NoTurn
<1>2. /\ Turns!FirstTurn = Lifecycle!FirstTurn /\ Turns!NoTurn = Lifecycle!NoTurn
      /\ Turns!TurnCount = Lifecycle!TurnCount /\ Turns!TimeoutEligible = Lifecycle!TimeoutEligible
  BY DEF Turns!FirstTurn, Lifecycle!FirstTurn, Turns!NoTurn, Lifecycle!NoTurn, Turns!Slot, Lifecycle!Slot,
     Turns!TurnCount, Lifecycle!TurnCount, Turns!TimeoutEligible, Lifecycle!TimeoutEligible
<1>3. QED
  BY <1>1, <1>2 DEF Turns!vars, Lifecycle!vars, Turns!Next, Lifecycle!Next, Turns!StartDebate,
     Lifecycle!StartDebate, Turns!FinalizeTurn, Lifecycle!FinalizeTurn, Turns!StartJudge,
     Lifecycle!StartJudge, Turns!CompleteDebate, Lifecycle!CompleteDebate, Turns!TerminateDebate,
     Lifecycle!TerminateDebate

LEMMA RowsStep == TypeOK /\ Turns!LifecycleInv /\ [Next]_vars => Turns!LifecycleInv'
<1>1. Turns!LifecycleInv /\ [Turns!Next]_(Turns!vars) => Turns!LifecycleInv'
  BY Turns!LifecycleStep, RoundsAssumption
<1>2. QED BY <1>1, LifecycleStep, SameLifecycle

LEMMA RowsInvariant == Spec => []Turns!LifecycleInv
BY RowsInit, RowsStep, TypeInit, TypeStep, PTL DEF Spec

\* Both instances mean the same by a slot.
LEMMA SameSlots ==
  /\ \A i : Turns!SlotAt(i) = Lifecycle!SlotAt(i)
  /\ Turns!TurnCount = Lifecycle!TurnCount /\ Turns!NoTurn = Lifecycle!NoTurn
BY DEF Turns!SlotAt, Lifecycle!SlotAt, Turns!SideAt, Lifecycle!SideAt, Turns!Slot, Lifecycle!Slot,
   Turns!TurnCount, Lifecycle!TurnCount, Turns!NoTurn, Lifecycle!NoTurn

\* Whoever finalizes, whatever lock expires and whoever crashes: the saved
\* turns are the first positions of the protocol, in order, each once.
THEOREM ChatFollowsProtocol == Spec => []ProtocolOrder
<1>1. Turns!LifecycleInv => ProtocolOrder
  BY SameSlots DEF Turns!LifecycleInv, Turns!ProtocolOrder, ProtocolOrder, Lifecycle!ProtocolOrder
<1>2. QED BY <1>1, RowsInvariant, PTL

\* The current_* columns name the turn after the saved ones, and none once the
\* debate no longer runs.
THEOREM ChatKnowsTheTurn == Spec => []CurrentTurnFollows
<1>1. Turns!LifecycleInv => CurrentTurnFollows
  BY SameSlots DEF Turns!LifecycleInv, Turns!CurrentTurnFollows, CurrentTurnFollows,
     Lifecycle!CurrentTurnFollows
<1>2. QED BY <1>1, RowsInvariant, PTL

\* A debate that has left the live phase without failing has 4 + 2 * Rounds
\* turns: the number tryStartJudge expects.
THEOREM ChatIsComplete == Spec => []FinalizedIsComplete
<1>1. Turns!LifecycleInv => FinalizedIsComplete
  BY SameSlots DEF Turns!LifecycleInv, Turns!FinalizedIsComplete, FinalizedIsComplete,
     Lifecycle!FinalizedIsComplete
<1>2. QED BY <1>1, RowsInvariant, PTL

-----------------------------------------------------------------------------
(* The draft buffers.  An append runs as one script, a clean-up as one      *)
(* transaction, so that list, counter and dedup map stay in step.           *)

LEMMA EmptyListFits == RunningTotals(<<>>) # {} /\ IdentifiedOnce(<<>>)
<1>1. [i \in 0..0 |-> 0] \in RunningTotals(<<>>)
  BY ChatAssumption DEF RunningTotals
<1>2. QED BY <1>1 DEF IdentifiedOnce

LEMMA AppendTotals ==
  ASSUME NEW list \in Seq(Messages), NEW m \in Messages, NEW total \in RunningTotals(list),
         total[Len(list)] + Length(m) <= MaxLength
  PROVE  \E longer \in RunningTotals(Append(list, m)) :
           longer[Len(list) + 1] = total[Len(list)] + Length(m)
<1> DEFINE n == Len(list)
           sum == total[n] + Length(m)
           longer == [i \in 0..(n + 1) |-> IF i = n + 1 THEN sum ELSE total[i]]
<1>1. n \in Nat /\ Len(Append(list, m)) = n + 1
  OBVIOUS
<1>2. total \in [0..n -> 0..MaxLength] /\ total[0] = 0
      /\ \A i \in 1..n : total[i] = total[i - 1] + Length(list[i])
  BY DEF RunningTotals
<1>3. sum \in 0..MaxLength
  BY <1>1, <1>2, ChatAssumption
<1>4. longer \in [0..(n + 1) -> 0..MaxLength] /\ longer[0] = 0
  BY <1>1, <1>2, <1>3
<1>5. ASSUME NEW i \in 1..(n + 1)
      PROVE  longer[i] = longer[i - 1] + Length(Append(list, m)[i])
  <2>1. CASE i = n + 1
    BY <1>1, <2>1
  <2>2. CASE i \in 1..n
    BY <1>1, <1>2, <2>2
  <2>3. QED BY <1>1, <2>1, <2>2
<1>6. longer \in RunningTotals(Append(list, m))
  BY <1>1, <1>4, <1>5 DEF RunningTotals
<1>7. QED BY <1>1, <1>6

LEMMA AppendElements ==
  ASSUME NEW list \in Seq(Messages), NEW m \in Messages
  PROVE  /\ ToSet(Append(list, m)) = ToSet(list) \cup {m}
         /\ IdentifiedOnce(list) /\ m \notin ToSet(list) \ Anonymous => IdentifiedOnce(Append(list, m))
<1> DEFINE longer == Append(list, m)
<1>1. /\ Len(list) \in Nat /\ DOMAIN list = 1..Len(list)
      /\ DOMAIN longer = 1..(Len(list) + 1)
      /\ \A i \in 1..Len(list) : longer[i] = list[i]
      /\ longer[Len(list) + 1] = m
  OBVIOUS
<1> HIDE DEF longer
<1>2. ToSet(longer) = ToSet(list) \cup {m}
  BY <1>1 DEF ToSet
<1>3. IdentifiedOnce(list) /\ m \notin ToSet(list) \ Anonymous => IdentifiedOnce(longer)
  <2>1. Len(longer) = Len(list) + 1
    BY DEF longer
  <2>2. QED BY <1>1, <2>1 DEF ToSet, IdentifiedOnce
<1>4. QED BY <1>2, <1>3 DEF longer

\* Who writes the buffers.
LEMMA DraftWriters ==
  ASSUME [Next]_vars
  PROVE  \/ \E p \in Senders : AppendScript(p)
         \/ \E f \in Finalizers : CleanDrafts(f)
         \/ ClearDrafts
         \/ UNCHANGED <<drafts, chars, dedup>>
<1>1. ASSUME NEW f \in Finalizers, FinalizeStep(f), ~CleanDrafts(f)
      PROVE  UNCHANGED <<drafts, chars, dedup>>
  BY <1>1 DEF FinalizeStep, ReadDrafts, CommitTurn, RejectTurn, EnqueueTurn, ReleaseLock, redisVars
<1>2. ASSUME NEW f \in Finalizers, FinalizeStepFails(f) \/ FinalizerCrashes(f)
      PROVE  UNCHANGED <<drafts, chars, dedup>>
  BY <1>2 DEF FinalizeStepFails, FinalizerCrashes, redisVars
<1>3. CASE (\E c \in Clients, s \in ChatSlots : ClientFinalize(c, s)) \/ SchedulerStep
  BY <1>3 DEF ClientFinalize, SchedulerStep, SchedulerFindsTurn, SchedulerLock, redisVars
<1>4. CASE (\E p \in Senders, m \in Messages, s \in ChatSlots : AppendCheck(p, m, s))
           \/ \E s \in Slots : LockExpires(s)
  BY <1>4 DEF AppendCheck, LockExpires, redisVars
<1>5. CASE PreparationEnds \/ TurnTimeRunsOut \/ TotalTimeRunsOut \/ Forfeit \/ ExpireDebate
           \/ ListDraftKeys \/ ClearDraftsFails
  BY <1>5 DEF PreparationEnds, TurnTimeRunsOut, TotalTimeRunsOut, Forfeit, ExpireDebate,
     ListDraftKeys, ClearDraftsFails, redisVars
<1>6. CASE UNCHANGED vars
  BY <1>6 DEF vars, redisVars
<1>7. QED BY <1>1, <1>2, <1>3, <1>4, <1>5, <1>6 DEF Next

\* What APPENDED means for the three keys of the turn.
LEMMA AppendedAgrees ==
  ASSUME TypeOK, DraftKeysAgree, NEW p \in Senders, AppendScript(p),
         AppendOutcome(sender[p].msg, sender[p].slot) = "APPENDED"
  PROVE  /\ DraftKeysAgree'
         /\ sender[p].msg \notin ToSet(drafts[sender[p].slot]) \ Anonymous
         /\ RunningTotals(drafts'[sender[p].slot]) # {}
<1> DEFINE m == sender[p].msg
           s == sender[p].slot
           list == drafts[s]
<1>1. m \in Messages /\ s \in Slots
  BY DEF AppendScript, TypeOK, SendersTyped
<1>2. list \in Seq(Messages) /\ drafts \in [Slots -> Seq(Messages)]
      /\ chars \in [Slots -> Nat \cup {Absent}] /\ dedup \in [Slots -> SUBSET Messages]
  BY <1>1 DEF TypeOK, BuffersTyped
<1>3. /\ drafts' = [drafts EXCEPT ![s] = Append(list, m)]
      /\ chars' = [chars EXCEPT ![s] = CharsOf(s) + Length(m)]
      /\ dedup' = [dedup EXCEPT ![s] = dedup[s] \cup ({m} \ Anonymous)]
  BY DEF AppendScript
<1>4. (m \notin dedup[s] \/ m \in Anonymous) /\ CharsOf(s) + Length(m) <= MaxLength
  <2>1. (m \notin dedup[s] \/ m \in Anonymous) /\ ~(CharsOf(s) + Length(m) > MaxLength)
    BY Zenon DEF AppendOutcome
  <2>2. CharsOf(s) + Length(m) \in Nat /\ MaxLength \in Nat
    BY <1>1, <1>2, ChatAssumption DEF CharsOf, Absent
  <2>3. QED BY <2>1, <2>2
<1>5. \E total \in RunningTotals(list) : CharsOf(s) = total[Len(list)]
  <2>1. CASE list = <<>>
    <3>1. PICK total : total \in RunningTotals(<<>>)
      BY EmptyListFits
    <3>2. total[0] = 0 /\ CharsOf(s) = 0
      BY <1>1, <2>1, <3>1 DEF RunningTotals, DraftKeysAgree, CharsOf
    <3>3. QED BY <2>1, <3>1, <3>2
  <2>2. CASE list # <<>>
    <3>1. PICK total \in RunningTotals(list) : chars[s] = total[Len(list)]
      BY <1>1, <2>2 DEF DraftKeysAgree
    <3>2. total[Len(list)] \in Nat
      BY <1>2, <3>1, ChatAssumption DEF RunningTotals
    <3>3. QED BY <3>1, <3>2 DEF CharsOf, Absent
  <2>3. QED BY <2>1, <2>2
<1>6. \E longer \in RunningTotals(Append(list, m)) : longer[Len(list) + 1] = CharsOf(s) + Length(m)
  <2>1. PICK total \in RunningTotals(list) : CharsOf(s) = total[Len(list)]
    BY <1>5
  <2>2. total[Len(list)] + Length(m) <= MaxLength
    BY <1>4, <2>1
  <2>3. \E longer \in RunningTotals(Append(list, m)) : longer[Len(list) + 1] = total[Len(list)] + Length(m)
    BY <1>1, <1>2, <2>2, AppendTotals, Zenon
  <2>4. QED BY <2>1, <2>3, Zenon
<1>7. /\ Append(list, m) # <<>> /\ Len(Append(list, m)) = Len(list) + 1
      /\ ToSet(Append(list, m)) \ Anonymous = dedup[s] \cup ({m} \ Anonymous)
  <2>1. dedup[s] = ToSet(list) \ Anonymous
    BY <1>1 DEF DraftKeysAgree
  <2>2. ToSet(Append(list, m)) = ToSet(list) \cup {m}
    BY <1>1, <1>2, AppendElements, Zenon
  <2>3. Append(list, m) # <<>> /\ Len(Append(list, m)) = Len(list) + 1
    <3>1. list \in Seq(Messages) /\ m \in Messages
      BY <1>1, <1>2
    <3> HIDE DEF list
    <3>2. QED BY <3>1
  <2>4. QED BY <2>1, <2>2, <2>3
<1>8. DraftKeysAgree'
  <2> SUFFICES ASSUME NEW r \in Slots
      PROVE  /\ IF drafts'[r] = <<>> THEN chars'[r] = Absent
                ELSE \E total \in RunningTotals(drafts'[r]) : chars'[r] = total[Len(drafts'[r])]
             /\ dedup'[r] = ToSet(drafts'[r]) \ Anonymous
    BY DEF DraftKeysAgree
  <2>1. CASE r = s
    <3>1. drafts'[r] = Append(list, m) /\ chars'[r] = CharsOf(s) + Length(m) /\ dedup'[r] = dedup[s] \cup ({m} \ Anonymous)
      BY <1>1, <1>2, <1>3, <2>1
    <3>2. QED BY <1>6, <1>7, <3>1
  <2>2. CASE r # s
    <3>1. drafts'[r] = drafts[r] /\ chars'[r] = chars[r] /\ dedup'[r] = dedup[r]
      BY <1>2, <1>3, <2>2
    <3>2. QED BY <3>1 DEF DraftKeysAgree
  <2>3. QED BY <2>1, <2>2
<1>9. m \notin ToSet(list) \ Anonymous
  BY <1>1, <1>4 DEF DraftKeysAgree
<1>10. drafts'[s] = Append(list, m)
  BY <1>1, <1>2, <1>3
<1>11. QED BY <1>6, <1>8, <1>9, <1>10

\* A deleted turn has none of its three keys left.
LEMMA DeletedAgrees ==
  ASSUME DraftKeysAgree, NEW S, DeleteDrafts(S)
  PROVE  DraftKeysAgree'
<1>1. ToSet(<<>>) = {}
  BY DEF ToSet
<1>2. QED BY <1>1 DEF DraftKeysAgree, DeleteDrafts

LEMMA DraftKeysStep ==
  ASSUME TypeOK, DraftKeysAgree, [Next]_vars
  PROVE  DraftKeysAgree'
<1>1. ASSUME NEW p \in Senders, AppendScript(p)
      PROVE  DraftKeysAgree'
  <2>1. CASE AppendOutcome(sender[p].msg, sender[p].slot) = "APPENDED"
    BY <1>1, <2>1, AppendedAgrees
  <2>2. CASE AppendOutcome(sender[p].msg, sender[p].slot) # "APPENDED"
    BY <1>1, <2>2 DEF AppendScript, DraftKeysAgree
  <2>3. QED BY <2>1, <2>2
<1>2. ASSUME NEW f \in Finalizers, CleanDrafts(f)
      PROVE  DraftKeysAgree'
  BY <1>2, DeletedAgrees DEF CleanDrafts
<1>3. CASE ClearDrafts
  BY <1>3, DeletedAgrees DEF ClearDrafts
<1>4. CASE UNCHANGED <<drafts, chars, dedup>>
  BY <1>4 DEF DraftKeysAgree
<1>5. QED BY <1>1, <1>2, <1>3, <1>4, DraftWriters

LEMMA DraftKeysInit == Init => DraftKeysAgree
<1>1. ToSet(<<>>) = {}
  BY DEF ToSet
<1>2. QED BY <1>1 DEF Init, DraftKeysAgree

\* Whatever appends, clean-ups and terminations interleave, the counter of a
\* turn is the total length of its list, the dedup map knows exactly the
\* listed messages that have a clientMessageId, and the total respects the
\* limit.
THEOREM DraftKeysStayTogether == Spec => []DraftKeysAgree
BY DraftKeysInit, DraftKeysStep, TypeInit, TypeStep, PTL DEF Spec

-----------------------------------------------------------------------------
(* What is saved has been read from a buffer.                               *)

\* g gives the lengths of the texts that the first messages of a list are
\* joined into: the recursion of TextLength.
JoinsTo(list, g) ==
  g = [i \in 0..Len(list) |->
         IF i = 0 THEN 0 ELSE g[i - 1] + Length(list[i]) + (IF i = 1 THEN 0 ELSE 1)]

Newlines(n) == IF n = 0 THEN 0 ELSE n - 1

\* There are such lengths, and the last is the total of the messages and the
\* newlines between them.
JoinsFit(list) ==
  /\ \E g : JoinsTo(list, g)
  /\ \A g, total : JoinsTo(list, g) /\ total \in RunningTotals(list)
       => g[Len(list)] = total[Len(list)] + Newlines(Len(list))

Sound(list) == IdentifiedOnce(list) /\ RunningTotals(list) # {} /\ JoinsFit(list)

LEMMA EmptyListIsSound == Sound(<<>>)
<1>1. JoinsTo(<<>>, [i \in 0..0 |-> 0])
  BY DEF JoinsTo
<1>2. ASSUME NEW g, JoinsTo(<<>>, g), NEW total \in RunningTotals(<<>>)
      PROVE  g[0] = total[0] + Newlines(0)
  BY <1>2 DEF JoinsTo, RunningTotals, Newlines
<1>3. QED BY <1>1, <1>2, EmptyListFits DEF Sound, JoinsFit

\* One message more adds its length and, unless it is the first, a newline.
LEMMA AppendJoins ==
  ASSUME NEW list \in Seq(Messages), NEW m \in Messages, JoinsFit(list)
  PROVE  JoinsFit(Append(list, m))
<1> DEFINE n == Len(list)
           longer == Append(list, m)
           step(i) == Length(longer[i]) + (IF i = 1 THEN 0 ELSE 1)
<1>1. /\ n \in Nat /\ Len(longer) = n + 1 /\ longer[n + 1] = m
      /\ \A i \in 1..n : longer[i] = list[i] /\ list[i] \in Messages
  OBVIOUS
<1> HIDE DEF longer
<1>2. \A i \in 1..(n + 1) : Length(longer[i]) \in Nat
  BY <1>1, ChatAssumption
<1>3. \E h : JoinsTo(longer, h)
  <2>1. PICK g : JoinsTo(list, g)
    BY DEF JoinsFit
  <2>2. /\ g = [i \in 0..n |-> g[i]] /\ g[0] = 0
        /\ \A i \in 1..n : g[i] = g[i - 1] + Length(list[i]) + (IF i = 1 THEN 0 ELSE 1)
    BY <1>1, <2>1 DEF JoinsTo
  <2> DEFINE last == g[n] + Length(m) + (IF n + 1 = 1 THEN 0 ELSE 1)
             h == [i \in 0..(n + 1) |-> IF i = n + 1 THEN last ELSE g[i]]
  <2>3. ASSUME NEW i \in 0..(n + 1)
        PROVE  h[i] = IF i = 0 THEN 0 ELSE h[i - 1] + Length(longer[i]) + (IF i = 1 THEN 0 ELSE 1)
    <3>1. CASE i = n + 1
      BY <1>1, <3>1
    <3>2. CASE i = 0
      BY <1>1, <2>2, <3>2
    <3>3. CASE i \in 1..n
      <4>1. /\ i # 0 /\ i # n + 1 /\ i - 1 # n + 1
            /\ i \in 0..(n + 1) /\ i - 1 \in 0..(n + 1)
        BY <1>1, <3>3
      <4>2. h[i] = g[i] /\ h[i - 1] = g[i - 1]
        BY <4>1
      <4>3. longer[i] = list[i] /\ g[i] = g[i - 1] + Length(list[i]) + (IF i = 1 THEN 0 ELSE 1)
        BY <1>1, <2>2, <3>3
      <4> HIDE DEF h
      <4>4. QED BY <4>1, <4>2, <4>3
    <3>4. QED BY <1>1, <3>1, <3>2, <3>3
  <2>4. JoinsTo(longer, h)
    BY <1>1, <2>3 DEF JoinsTo
  <2>5. QED BY <2>4
<1>4. ASSUME NEW h, JoinsTo(longer, h), NEW total \in RunningTotals(longer)
      PROVE  h[n + 1] = total[n + 1] + Newlines(n + 1)
  <2> DEFINE g == [i \in 0..n |-> h[i]]
             before == [i \in 0..n |-> total[i]]
  <2>1. /\ h[0] = 0
        /\ \A i \in 1..(n + 1) : h[i] = h[i - 1] + Length(longer[i]) + (IF i = 1 THEN 0 ELSE 1)
    BY <1>1, <1>4 DEF JoinsTo
  <2>2. /\ total \in [0..(n + 1) -> 0..MaxLength] /\ total[0] = 0
        /\ \A i \in 1..(n + 1) : total[i] = total[i - 1] + Length(longer[i])
    BY <1>1, <1>4 DEF RunningTotals
  <2>3. JoinsTo(list, g)
    <3>1. ASSUME NEW i \in 0..n
          PROVE  g[i] = IF i = 0 THEN 0 ELSE g[i - 1] + Length(list[i]) + (IF i = 1 THEN 0 ELSE 1)
      BY <1>1, <2>1
    <3>2. QED BY <3>1 DEF JoinsTo
  <2>4. before \in RunningTotals(list)
    <3>1. before \in [0..n -> 0..MaxLength] /\ before[0] = 0
      BY <1>1, <2>2
    <3>2. \A i \in 1..n : before[i] = before[i - 1] + Length(list[i])
      BY <1>1, <2>2
    <3>3. QED BY <3>1, <3>2 DEF RunningTotals
  <2>5. g[n] = before[n] + Newlines(n)
    BY <2>3, <2>4 DEF JoinsFit
  <2>6. h[n] = total[n] + Newlines(n)
    BY <1>1, <2>5
  <2>7. h[n + 1] = h[n] + Length(m) + (IF n + 1 = 1 THEN 0 ELSE 1)
    BY <1>1, <2>1
  <2>8. total[n + 1] = total[n] + Length(m) /\ total[n] \in Nat /\ Length(m) \in Nat
    <3>1. n \in 0..(n + 1) /\ n + 1 \in 1..(n + 1) /\ (n + 1) - 1 = n
      BY <1>1
    <3>2. total[n + 1] = total[n] + Length(longer[n + 1])
      BY <2>2, <3>1
    <3>3. total[n] \in 0..MaxLength
      BY <2>2, <3>1
    <3>4. QED BY <1>1, <3>2, <3>3, ChatAssumption
  <2>9. QED BY <1>1, <2>6, <2>7, <2>8 DEF Newlines
<1>5. QED BY <1>1, <1>3, <1>4 DEF JoinsFit, longer

\* What the recursion computes of a list that fits.
LEMMA TextFits ==
  ASSUME NEW list \in Seq(Messages), RunningTotals(list) # {}, JoinsFit(list), list # <<>>
  PROVE  TextLength(list) < MaxLength + Len(list)
<1>1. PICK total : total \in RunningTotals(list)
  OBVIOUS
<1>2. Len(list) \in Nat \ {0}
  OBVIOUS
<1>3. total[Len(list)] \in 0..MaxLength
  BY <1>1, <1>2 DEF RunningTotals
<1> DEFINE upTo == CHOOSE g : JoinsTo(list, g)
<1>4. TextLength(list) = upTo[Len(list)]
  BY DEF TextLength, JoinsTo
<1>5. JoinsTo(list, upTo)
  BY DEF JoinsFit
<1>6. upTo[Len(list)] = total[Len(list)] + Newlines(Len(list))
  BY <1>1, <1>5 DEF JoinsFit
<1>7. QED BY <1>2, <1>3, <1>4, <1>6, ChatAssumption DEF Newlines

\* Neither a buffer nor what a handler has read from one, nor what it has
\* saved, has an identified message twice or exceeds the limit.
ListsAreSound ==
  /\ \A s \in Slots : Sound(drafts[s])
  /\ \A f \in Finalizers : Sound(finalizer[f].content)
  /\ \A i \in 1..Len(turns) : Sound(turns[i].content)

LEMMA ListsAreSoundInit == Init => ListsAreSound
BY EmptyListIsSound DEF Init, ListsAreSound, IdleFinalizer

\* The buffers.
LEMMA BuffersAreSound ==
  ASSUME TypeOK, DraftKeysAgree, ListsAreSound, [Next]_vars
  PROVE  \A s \in Slots : Sound(drafts'[s])
<1>1. ASSUME NEW p \in Senders, AppendScript(p)
      PROVE  \A s \in Slots : Sound(drafts'[s])
  <2> DEFINE m == sender[p].msg
             s == sender[p].slot
  <2>1. CASE AppendOutcome(m, s) = "APPENDED"
    <3>1. m \in Messages /\ s \in Slots /\ drafts \in [Slots -> Seq(Messages)]
      BY <1>1 DEF AppendScript, TypeOK, SendersTyped, BuffersTyped
    <3>2. drafts' = [drafts EXCEPT ![s] = Append(drafts[s], m)]
      BY <1>1, <2>1 DEF AppendScript
    <3>3. m \notin ToSet(drafts[s]) \ Anonymous /\ RunningTotals(drafts'[s]) # {}
      BY <1>1, <2>1, AppendedAgrees
    <3>4. IdentifiedOnce(Append(drafts[s], m)) /\ JoinsFit(Append(drafts[s], m))
      <4>1. IdentifiedOnce(drafts[s]) /\ JoinsFit(drafts[s]) /\ drafts[s] \in Seq(Messages)
        BY <3>1 DEF ListsAreSound, Sound
      <4>2. QED BY <3>1, <3>3, <4>1, AppendElements, AppendJoins, Zenon
    <3>5. Sound(drafts'[s])
      BY <3>1, <3>2, <3>3, <3>4 DEF Sound
    <3>6. \A r \in Slots \ {s} : drafts'[r] = drafts[r]
      BY <3>1, <3>2
    <3>7. QED BY <3>5, <3>6 DEF ListsAreSound
  <2>2. CASE AppendOutcome(m, s) # "APPENDED"
    BY <1>1, <2>2 DEF AppendScript, ListsAreSound
  <2>3. QED BY <2>1, <2>2
<1>2. ASSUME NEW S, DeleteDrafts(S)
      PROVE  \A s \in Slots : Sound(drafts'[s])
  BY <1>2, EmptyListIsSound DEF DeleteDrafts, ListsAreSound
<1>3. CASE UNCHANGED <<drafts, chars, dedup>>
  BY <1>3 DEF ListsAreSound
<1>4. QED BY <1>1, <1>2, <1>3, DraftWriters DEF CleanDrafts, ClearDrafts

\* What the handlers hold.
LEMMA ContentsAreSound ==
  ASSUME TypeOK, ListsAreSound, [Next]_vars
  PROVE  \A f \in Finalizers : Sound(finalizer'[f].content)
<1>f. FinalizersTyped /\ Scheduler \in Finalizers /\ Clients \subseteq Finalizers /\ Sound(<<>>)
  BY EmptyListIsSound DEF TypeOK, Finalizers
<1>1. ASSUME NEW f \in Finalizers, ReadDrafts(f)
      PROVE  \A g \in Finalizers : Sound(finalizer'[g].content)
  <2>1. finalizer[f].slot \in Slots
    BY <1>1, WorksOnASlot DEF ReadDrafts, At
  <2>2. Sound(drafts[finalizer[f].slot])
    BY <2>1 DEF ListsAreSound
  <2>3. QED
    BY <1>1, <1>f, <2>2 DEF ReadDrafts, ListsAreSound, FinalizersTyped, FinalizerRecords
<1>2. ASSUME NEW f \in Finalizers, NEW pc, Goto(f, pc)
      PROVE  \A g \in Finalizers : Sound(finalizer'[g].content)
  BY <1>2, <1>f DEF Goto, ListsAreSound, FinalizersTyped, FinalizerRecords
<1>3. ASSUME NEW f \in Finalizers, finalizer' = [finalizer EXCEPT ![f] = IdleFinalizer]
      PROVE  \A g \in Finalizers : Sound(finalizer'[g].content)
  BY <1>3, <1>f DEF IdleFinalizer, ListsAreSound, FinalizersTyped
<1>4. ASSUME NEW f \in Finalizers, NEW pc, NEW s, NEW id, Start(f, pc, s, id)
      PROVE  \A g \in Finalizers : Sound(finalizer'[g].content)
  BY <1>4, <1>f DEF Start, ListsAreSound, FinalizersTyped
<1>5. CASE UNCHANGED finalizer
  BY <1>5 DEF ListsAreSound
<1>6. ASSUME NEW f \in Finalizers, FinalizeStep(f) \/ FinalizeStepFails(f) \/ FinalizerCrashes(f)
      PROVE  \A g \in Finalizers : Sound(finalizer'[g].content)
  BY <1>1, <1>2, <1>3, <1>6 DEF FinalizeStep, CommitTurn, RejectTurn, CleanDrafts, EnqueueTurn,
     ReleaseLock, FinalizeStepFails, FinalizerCrashes
<1>7. CASE (\E c \in Clients, s \in ChatSlots : ClientFinalize(c, s)) \/ SchedulerStep
  BY <1>3, <1>4, <1>5, <1>7, <1>f DEF ClientFinalize, TakeLock, SchedulerStep, SchedulerFindsTurn, SchedulerLock
<1>8. CASE \/ \E p \in Senders, m \in Messages, s \in ChatSlots : AppendCheck(p, m, s)
           \/ \E p \in Senders : AppendScript(p)
           \/ \E s \in Slots : LockExpires(s)
  BY <1>5, <1>8 DEF AppendCheck, AppendScript, LockExpires
<1>9. CASE PreparationEnds \/ TurnTimeRunsOut \/ TotalTimeRunsOut \/ Forfeit \/ ExpireDebate
           \/ ListDraftKeys \/ ClearDrafts \/ ClearDraftsFails
  BY <1>5, <1>9 DEF PreparationEnds, TurnTimeRunsOut, TotalTimeRunsOut, Forfeit, ExpireDebate,
     ListDraftKeys, ClearDrafts, ClearDraftsFails
<1>10. CASE UNCHANGED vars
  BY <1>5, <1>10 DEF vars
<1>11. QED BY <1>6, <1>7, <1>8, <1>9, <1>10 DEF Next

\* Who writes the debate row and its turns.
LEMMA RowWriters ==
  ASSUME [Next]_vars
  PROVE  \/ \E f \in Finalizers : CommitTurn(f)
         \/ (Forfeit \/ ExpireDebate) /\ UNCHANGED turns
         \/ UNCHANGED dbVars
<1>1. ASSUME NEW f \in Finalizers, FinalizeStep(f), ~CommitTurn(f)
      PROVE  UNCHANGED dbVars
  BY <1>1 DEF FinalizeStep, ReadDrafts, RejectTurn, CleanDrafts, EnqueueTurn, ReleaseLock
<1>2. ASSUME NEW f \in Finalizers, FinalizeStepFails(f) \/ FinalizerCrashes(f)
      PROVE  UNCHANGED dbVars
  BY <1>2 DEF FinalizeStepFails, FinalizerCrashes
<1>3. CASE (\E c \in Clients, s \in ChatSlots : ClientFinalize(c, s)) \/ SchedulerStep
  BY <1>3 DEF ClientFinalize, SchedulerStep, SchedulerFindsTurn, SchedulerLock
<1>4. CASE \/ \E p \in Senders, m \in Messages, s \in ChatSlots : AppendCheck(p, m, s)
           \/ \E p \in Senders : AppendScript(p)
           \/ \E s \in Slots : LockExpires(s)
  BY <1>4 DEF AppendCheck, AppendScript, LockExpires
<1>5. CASE PreparationEnds \/ TurnTimeRunsOut \/ TotalTimeRunsOut \/ ListDraftKeys \/ ClearDrafts
           \/ ClearDraftsFails
  BY <1>5 DEF PreparationEnds, TurnTimeRunsOut, TotalTimeRunsOut, ListDraftKeys, ClearDrafts, ClearDraftsFails
<1>6. CASE Forfeit \/ ExpireDebate
  BY <1>6 DEF Forfeit, ExpireDebate
<1>7. CASE UNCHANGED vars
  BY <1>7 DEF vars
<1>8. QED BY <1>1, <1>2, <1>3, <1>4, <1>5, <1>6, <1>7 DEF Next

\* The turn that a transaction adds, after those there were.
LEMMA CommitAppends ==
  ASSUME TypeOK, NEW f \in Finalizers, CommitTurn(f)
  PROVE  /\ Len(turns) \in Nat /\ Len(turns') = Len(turns) + 1
         /\ \A i \in 1..Len(turns) : turns'[i] = turns[i]
         /\ turns'[Len(turns) + 1] = [slot |-> finalizer[f].slot, content |-> finalizer[f].content]
<1>1. [slot |-> finalizer[f].slot, content |-> finalizer[f].content] \in SavedTurns
  BY WorksOnASlot DEF CommitTurn, At, SavedTurns
<1>2. turns \in Seq(SavedTurns)
  BY DEF TypeOK
<1>3. turns' = Append(turns, [slot |-> finalizer[f].slot, content |-> finalizer[f].content])
  BY DEF CommitTurn
<1>4. QED BY <1>1, <1>2, <1>3

LEMMA ListsAreSoundStep ==
  ASSUME TypeOK, DraftKeysAgree, ListsAreSound, [Next]_vars
  PROVE  ListsAreSound'
<1>1. \A i \in 1..Len(turns') : Sound(turns'[i].content)
  <2>1. ASSUME NEW f \in Finalizers, CommitTurn(f), NEW i \in 1..Len(turns')
        PROVE  Sound(turns'[i].content)
    <3>1. /\ Len(turns) \in Nat /\ Len(turns') = Len(turns) + 1
          /\ \A j \in 1..Len(turns) : turns'[j] = turns[j]
          /\ turns'[Len(turns) + 1] = [slot |-> finalizer[f].slot, content |-> finalizer[f].content]
      BY <2>1, CommitAppends, Zenon
    <3>2. Sound(finalizer[f].content)
      BY DEF ListsAreSound
    <3>3. CASE i = Len(turns) + 1
      BY <3>1, <3>2, <3>3
    <3>4. CASE i \in 1..Len(turns)
      BY <3>1, <3>4 DEF ListsAreSound
    <3>5. QED BY <3>1, <3>3, <3>4
  <2>2. QED BY <2>1, RowWriters DEF ListsAreSound, dbVars
<1>2. QED
  BY <1>1, BuffersAreSound, ContentsAreSound DEF ListsAreSound, Sound, IdentifiedOnce, RunningTotals,
     JoinsFit, JoinsTo, Newlines

\* No saved turn has a message with a clientMessageId twice, its messages
\* respect the limit, and its text is longer by less than their number,
\* whatever is resent and whoever finalizes.
THEOREM SavedTurnsStaySound == Spec => []SavedTurnsAreSound
<1>1. TypeOK /\ ListsAreSound => SavedTurnsAreSound
  <2> SUFFICES ASSUME TypeOK, ListsAreSound, NEW i \in 1..Len(turns)
               PROVE  /\ IdentifiedOnce(turns[i].content)
                      /\ RunningTotals(turns[i].content) # {}
                      /\ turns[i].content # <<>> =>
                           TextLength(turns[i].content) < MaxLength + Len(turns[i].content)
    BY DEF SavedTurnsAreSound, Contents
  <2>1. Sound(turns[i].content)
    BY DEF ListsAreSound
  <2>2. turns \in Seq(SavedTurns)
    BY DEF TypeOK
  <2>3. turns[i] \in SavedTurns
    BY <2>2
  <2>4. turns[i].content \in Seq(Messages)
    BY <2>3 DEF SavedTurns
  <2>5. QED BY <2>1, <2>4, TextFits DEF Sound
<1>2. QED
  BY <1>1, ListsAreSoundInit, ListsAreSoundStep, DraftKeysInit, DraftKeysStep, TypeInit, TypeStep, PTL DEF Spec

-----------------------------------------------------------------------------
(* Acknowledged messages.  Until the debate fails, a handler that has not   *)
(* lost its lock holds it, so that nothing is appended between the read of  *)
(* the drafts and their deletion.  That two handlers may carry one command  *)
(* id, and the later lose its lock to the earlier, is in lapsed.            *)

\* Only a debate that has failed has its drafts cleared.
ClearedAfterEnd == terminator.pc # "idle" => status = "FAILED"

\* Messages are accepted for the turns that clients chat in.
ChatsInSlots ==
  /\ \A p \in Senders : sender[p].pc = "checked" => sender[p].slot \in ChatSlots
  /\ acked \subseteq Messages \X ChatSlots

LocksHeld ==
  status # "FAILED" =>
    \A f \in Finalizers, s \in Slots :
      Finalizing(f, s) /\ f \notin lapsed => lock[s] = finalizer[f].id

\* What is left in the buffer of f's turn is part of content.
Covers(f, content) == ToSet(drafts[finalizer[f].slot]) \subseteq ToSet(content)

SavedCovers(f) == \E i \in 1..Len(turns) : turns[i].slot = finalizer[f].slot /\ Covers(f, turns[i].content)

\* A handler that holds its lock has read, or saved, what is in the buffer.
ReadsCover ==
  status # "FAILED" =>
    \A f \in Finalizers \ lapsed :
      /\ finalizer[f].pc = "read" => Covers(f, finalizer[f].content)
      /\ finalizer[f].pc = "committed" => SavedCovers(f)

\* The lists agree with the dedup map, which is what a resent message is
\* looked up in.
AckedInv ==
  /\ TypeOK /\ DraftKeysAgree
  /\ ClearedAfterEnd /\ ChatsInSlots /\ LocksHeld /\ ReadsCover /\ AckedSurvive

LEMMA AckedInit == Init => AckedInv
<1> SUFFICES ASSUME Init PROVE AckedInv
  OBVIOUS
<1>1. TypeOK /\ DraftKeysAgree
  BY TypeInit, DraftKeysInit
<1>2. ClearedAfterEnd /\ ChatsInSlots /\ LocksHeld /\ ReadsCover /\ AckedSurvive
  BY DEF Init, ClearedAfterEnd, ChatsInSlots, LocksHeld, ReadsCover, AckedSurvive,
     IdleTerminator, IdleSender, IdleFinalizer, Finalizing
<1>3. QED BY <1>1, <1>2 DEF AckedInv

\* A debate that has failed stays so.
LEMMA FailedStays ==
  ASSUME [Next]_vars, status = "FAILED"
  PROVE  status' = "FAILED"
BY RowWriters DEF CommitTurn, TurnIsCurrent, CanReceiveTurn, Forfeit, ExpireDebate, TimeoutEligible, dbVars

\* Who writes the terminator and the history.
LEMMA HistoryWriters ==
  ASSUME [Next]_vars
  PROVE  /\ (\E p \in Senders : AppendScript(p)) \/ UNCHANGED acked
         /\ (\E f \in Finalizers : CleanDrafts(f)) \/ UNCHANGED torn
         /\ (Forfeit \/ ExpireDebate \/ ListDraftKeys \/ ClearDrafts \/ ClearDraftsFails) \/ UNCHANGED terminator
         /\ \/ \E p \in Senders, m \in Messages, s \in ChatSlots : AppendCheck(p, m, s)
            \/ \E p \in Senders : AppendScript(p)
            \/ UNCHANGED sender
<1>1. ASSUME NEW f \in Finalizers, FinalizeStep(f)
      PROVE  UNCHANGED <<acked, terminator, sender>> /\ (CleanDrafts(f) \/ UNCHANGED torn)
  BY <1>1 DEF FinalizeStep, ReadDrafts, CommitTurn, RejectTurn, CleanDrafts, EnqueueTurn, ReleaseLock, history
<1>2. ASSUME NEW f \in Finalizers, FinalizeStepFails(f) \/ FinalizerCrashes(f)
      PROVE  UNCHANGED <<acked, torn, terminator, sender>>
  BY <1>2 DEF FinalizeStepFails, FinalizerCrashes, history
<1>3. CASE (\E c \in Clients, s \in ChatSlots : ClientFinalize(c, s)) \/ SchedulerStep
  BY <1>3 DEF ClientFinalize, SchedulerStep, SchedulerFindsTurn, SchedulerLock, history
<1>4. ASSUME NEW p \in Senders, (\E m \in Messages, s \in ChatSlots : AppendCheck(p, m, s)) \/ AppendScript(p)
      PROVE  UNCHANGED <<torn, terminator>> /\ (AppendScript(p) \/ UNCHANGED acked)
  BY <1>4 DEF AppendCheck, AppendScript, history
<1>5. CASE \E s \in Slots : LockExpires(s)
  BY <1>5 DEF LockExpires
<1>6. CASE PreparationEnds \/ TurnTimeRunsOut \/ TotalTimeRunsOut
  BY <1>6 DEF PreparationEnds, TurnTimeRunsOut, TotalTimeRunsOut, history
<1>7. CASE Forfeit \/ ExpireDebate \/ ListDraftKeys \/ ClearDrafts \/ ClearDraftsFails
  BY <1>7 DEF Forfeit, ExpireDebate, ListDraftKeys, ClearDrafts, ClearDraftsFails, history
<1>8. CASE UNCHANGED vars
  BY <1>8 DEF vars, history
<1>9. QED BY <1>1, <1>2, <1>3, <1>4, <1>5, <1>6, <1>7, <1>8 DEF Next

LEMMA ClearedAfterEndStep ==
  ASSUME ClearedAfterEnd, [Next]_vars
  PROVE  ClearedAfterEnd'
<1>1. CASE UNCHANGED terminator
  BY <1>1, FailedStays DEF ClearedAfterEnd
<1>2. CASE Forfeit \/ ExpireDebate
  BY <1>2 DEF Forfeit, ExpireDebate, EndDebate, ClearedAfterEnd
<1>3. CASE ListDraftKeys \/ ClearDrafts \/ ClearDraftsFails
  BY <1>3, FailedStays DEF ListDraftKeys, ClearDrafts, ClearDraftsFails, IdleTerminator, ClearedAfterEnd
<1>4. QED BY <1>1, <1>2, <1>3, HistoryWriters

LEMMA ChatsInSlotsStep ==
  ASSUME TypeOK, ChatsInSlots, [Next]_vars
  PROVE  ChatsInSlots'
<1>s. sender \in [Senders -> SenderRecords] /\ SendersTyped
  BY DEF TypeOK, SendersTyped
<1>1. ASSUME NEW p \in Senders, NEW m \in Messages, NEW s \in ChatSlots, AppendCheck(p, m, s)
      PROVE  ChatsInSlots'
  BY <1>1, <1>s DEF AppendCheck, ChatsInSlots, history
<1>2. ASSUME NEW p \in Senders, AppendScript(p)
      PROVE  ChatsInSlots'
  <2>1. sender[p].msg \in Messages /\ sender[p].slot \in ChatSlots
    BY <1>2, <1>s DEF AppendScript, SendersTyped, ChatsInSlots
  <2>2. acked' \subseteq Messages \X ChatSlots
    BY <1>2, <2>1 DEF AppendScript, ChatsInSlots
  <2>3. QED BY <1>2, <1>s, <2>2 DEF AppendScript, IdleSender, ChatsInSlots
<1>3. CASE UNCHANGED <<sender, acked>>
  BY <1>3 DEF ChatsInSlots
<1>4. QED BY <1>1, <1>2, <1>3, HistoryWriters

\* Until the debate fails, keys are not cleared: a lock is released by its
\* owner, or expires.
LEMMA LocksHeldStep ==
  ASSUME TypeOK, ClearedAfterEnd, LocksHeld, [Next]_vars
  PROVE  LocksHeld'
<1> SUFFICES ASSUME status' # "FAILED", NEW f \in Finalizers, NEW s \in Slots,
                    Finalizing(f, s)', f \notin lapsed'
             PROVE  lock'[s] = finalizer'[f].id
  BY DEF LocksHeld, Finalizing
<1>f. /\ finalizer \in [Finalizers -> FinalizerRecords] /\ lock \in [Slots -> Ids \cup {NoOne}]
      /\ Scheduler \in Finalizers /\ Clients \subseteq Finalizers
  BY DEF TypeOK, FinalizersTyped, Finalizers
<1>h. Finalizing(f, s) /\ f \notin lapsed => lock[s] = finalizer[f].id /\ lock[s] # NoOne
  <2>1. Finalizing(f, s) => finalizer[f].id \in Ids
    BY DEF Finalizing, TypeOK, FinalizersTyped
  <2>2. QED BY <2>1, FailedStays, ChatAssumption DEF LocksHeld
<1>w. /\ finalizer'[f].slot = s
      /\ finalizer'[f].pc \in {"locked", "read", "committed", "cleaned", "releasing"}
  BY DEF Finalizing
<1>1. ASSUME UNCHANGED <<lock, lapsed>>, UNCHANGED finalizer
      PROVE  lock'[s] = finalizer'[f].id
  BY <1>1, <1>h, <1>w DEF Finalizing
<1>2. ASSUME NEW g \in Finalizers, NEW r \in Slots, NEW id \in Ids, TakeLock(g, r, id), UNCHANGED lapsed
      PROVE  lock'[s] = finalizer'[f].id
  <2>1. CASE f = g
    BY <1>2, <1>f, <1>w, <2>1 DEF TakeLock, Start
  <2>2. CASE f # g
    <3>1. finalizer'[f] = finalizer[f]
      BY <1>2, <1>f, <2>2 DEF TakeLock, Start
    <3>2. lock[s] = finalizer[f].id /\ lock[s] # NoOne
      BY <1>2, <1>h, <1>w, <3>1 DEF Finalizing
    <3>3. QED BY <1>2, <1>f, <3>1, <3>2 DEF TakeLock
  <2>3. QED BY <2>1, <2>2
<1>3. ASSUME NEW g \in Finalizers, finalizer[g].pc \in {"locked", "read", "committed", "cleaned"},
             finalizer'[g].slot = finalizer[g].slot, finalizer'[g].id = finalizer[g].id,
             \A h \in Finalizers \ {g} : finalizer'[h] = finalizer[h],
             UNCHANGED <<lock, lapsed>>
      PROVE  lock'[s] = finalizer'[f].id
  <2>1. CASE f = g
    BY <1>3, <1>h, <1>w, <2>1 DEF Finalizing
  <2>2. CASE f # g
    BY <1>3, <1>h, <1>w, <2>2 DEF Finalizing
  <2>3. QED BY <2>1, <2>2
<1>4. ASSUME NEW g \in Finalizers, ReadDrafts(g) \/ CommitTurn(g) \/ RejectTurn(g) \/ CleanDrafts(g)
                                   \/ EnqueueTurn(g) \/ FinalizeStepFails(g)
      PROVE  lock'[s] = finalizer'[f].id
  <2>1. finalizer[g].pc \in {"locked", "read", "committed", "cleaned"}
    BY <1>4 DEF ReadDrafts, CommitTurn, RejectTurn, CleanDrafts, EnqueueTurn, FinalizeStepFails, At
  <2>2. UNCHANGED <<lock, lapsed>>
    BY <1>4 DEF ReadDrafts, CommitTurn, RejectTurn, CleanDrafts, EnqueueTurn, FinalizeStepFails, redisVars, history
  <2>3. /\ finalizer'[g].slot = finalizer[g].slot /\ finalizer'[g].id = finalizer[g].id
        /\ \A h \in Finalizers \ {g} : finalizer'[h] = finalizer[h]
    BY <1>4, <1>f DEF ReadDrafts, CommitTurn, RejectTurn, CleanDrafts, EnqueueTurn, FinalizeStepFails,
       Goto, FinalizerRecords
  <2>4. QED BY <1>3, <2>1, <2>2, <2>3
<1>5. ASSUME NEW g \in Finalizers, ReleaseLock(g)
      PROVE  lock'[s] = finalizer'[f].id
  <2>1. f # g
    BY <1>5, <1>f, <1>w DEF ReleaseLock, IdleFinalizer
  <2>2. finalizer'[f] = finalizer[f] /\ Finalizing(f, s)
    BY <1>5, <1>f, <1>w, <2>1 DEF ReleaseLock, Finalizing
  <2>3. f \notin lapsed /\ f \notin SameCommand(g)
    BY <1>5, <2>1 DEF ReleaseLock
  <2>4. lock[s] = finalizer[f].id
    BY <1>h, <2>2, <2>3
  <2>5. finalizer[g].slot = s => finalizer[f].id # finalizer[g].id
    BY <2>2, <2>3, <2>4 DEF SameCommand, Holders
  <2>6. lock'[s] = lock[s]
    BY <1>5, <1>f, <2>4, <2>5 DEF ReleaseLock, Released
  <2>7. QED BY <2>2, <2>4, <2>6
<1>15. ASSUME NEW g \in Finalizers, FinalizerCrashes(g)
       PROVE  lock'[s] = finalizer'[f].id
  <2>1. f # g
    BY <1>15, <1>f, <1>w DEF FinalizerCrashes, IdleFinalizer
  <2>2. finalizer'[f] = finalizer[f] /\ Finalizing(f, s) /\ f \notin lapsed
    BY <1>15, <1>f, <1>w, <2>1 DEF FinalizerCrashes, Finalizing
  <2>3. QED BY <1>15, <1>h, <2>2 DEF FinalizerCrashes, redisVars
<1>6. ASSUME NEW r \in Slots, LockExpires(r)
      PROVE  lock'[s] = finalizer'[f].id
  <2>1. Finalizing(f, s) /\ f \notin lapsed /\ f \notin Holders(r)
    BY <1>6, <1>w DEF LockExpires, Finalizing
  <2>2. s # r
    BY <1>h, <2>1 DEF Holders
  <2>3. QED BY <1>6, <1>f, <1>h, <2>1, <2>2 DEF LockExpires
<1>7. ASSUME NEW c \in Clients, NEW r \in ChatSlots, ClientFinalize(c, r)
      PROVE  lock'[s] = finalizer'[f].id
  <2>1. c \in Finalizers /\ r \in Slots /\ CommandIds \subseteq Ids
    BY <1>f, ChatAssumption DEF Ids
  <2>2. QED BY <1>2, <1>7, <2>1 DEF ClientFinalize, history
<1>8. CASE SchedulerFindsTurn
  <2>1. f # Scheduler
    BY <1>8, <1>f, <1>w DEF SchedulerFindsTurn, Start
  <2>2. QED BY <1>8, <1>f, <1>h, <1>w, <2>1 DEF SchedulerFindsTurn, Start, Finalizing, redisVars, history
<1>9. CASE SchedulerLock
  <2>1. CASE TakeLock(Scheduler, finalizer[Scheduler].slot, Scheduler)
    <3>1. finalizer[Scheduler].slot \in Slots /\ Scheduler \in Ids
      BY <1>9, <1>f, WorksOnASlot DEF SchedulerLock, At, Ids
    <3>2. QED BY <1>2, <1>9, <1>f, <2>1, <3>1 DEF SchedulerLock, history
  <2>2. CASE finalizer' = [finalizer EXCEPT ![Scheduler] = IdleFinalizer] /\ UNCHANGED lock
    <3>1. f # Scheduler
      BY <1>f, <1>w, <2>2 DEF IdleFinalizer
    <3>2. QED BY <1>9, <1>f, <1>h, <1>w, <2>2, <3>1 DEF SchedulerLock, Finalizing, history
  <2>3. QED BY <1>9, <2>1, <2>2 DEF SchedulerLock
<1>10. CASE \/ \E p \in Senders, m \in Messages, r \in ChatSlots : AppendCheck(p, m, r)
            \/ \E p \in Senders : AppendScript(p)
  BY <1>1, <1>10 DEF AppendCheck, AppendScript, redisVars, history
<1>11. CASE PreparationEnds \/ TurnTimeRunsOut \/ TotalTimeRunsOut \/ Forfeit \/ ExpireDebate
            \/ ListDraftKeys \/ ClearDraftsFails
  BY <1>1, <1>11 DEF PreparationEnds, TurnTimeRunsOut, TotalTimeRunsOut, Forfeit, ExpireDebate,
     ListDraftKeys, ClearDraftsFails, redisVars, history
<1>12. CASE ClearDrafts
  BY <1>12, FailedStays DEF ClearDrafts, ClearedAfterEnd
<1>13. CASE UNCHANGED vars
  BY <1>1, <1>13 DEF vars, redisVars, history
<1>14. QED
  BY <1>4, <1>5, <1>6, <1>7, <1>8, <1>9, <1>10, <1>11, <1>12, <1>13, <1>15 DEF Next, FinalizeStep, SchedulerStep

\* Under a lock a buffer does not grow.
LEMMA LockedDraftsShrink ==
  ASSUME TypeOK, [Next]_vars, NEW s \in Slots, lock[s] # NoOne
  PROVE  ToSet(drafts'[s]) \subseteq ToSet(drafts[s])
<1>1. ASSUME NEW p \in Senders, AppendScript(p)
      PROVE  drafts'[s] = drafts[s]
  <2>1. sender[p].slot \in Slots /\ drafts \in [Slots -> Seq(Messages)]
    BY <1>1 DEF AppendScript, TypeOK, SendersTyped, BuffersTyped
  <2>2. CASE AppendOutcome(sender[p].msg, sender[p].slot) = "APPENDED"
    <3>1. sender[p].slot # s
      BY <2>2 DEF AppendOutcome
    <3>2. QED BY <1>1, <2>1, <2>2, <3>1 DEF AppendScript
  <2>3. CASE AppendOutcome(sender[p].msg, sender[p].slot) # "APPENDED"
    BY <1>1, <2>3 DEF AppendScript
  <2>4. QED BY <2>2, <2>3
<1>2. ASSUME NEW S, DeleteDrafts(S)
      PROVE  ToSet(drafts'[s]) \subseteq ToSet(drafts[s])
  <2>1. ToSet(<<>>) = {}
    BY DEF ToSet
  <2>2. QED BY <1>2, <2>1 DEF DeleteDrafts
<1>3. QED BY <1>1, <1>2, DraftWriters DEF CleanDrafts, ClearDrafts

\* A handler that is about to save, or has saved, came there from the step
\* before, or rests.
LEMMA HandlerReads ==
  ASSUME TypeOK, [Next]_vars, NEW f \in Finalizers \ lapsed', finalizer'[f].pc \in {"read", "committed"}
  PROVE  \/ finalizer'[f] = finalizer[f] /\ f \notin lapsed
         \/ ReadDrafts(f)
         \/ CommitTurn(f) /\ f \notin lapsed
<1>f. /\ finalizer \in [Finalizers -> FinalizerRecords]
      /\ Scheduler \in Finalizers /\ Clients \subseteq Finalizers
  BY DEF TypeOK, FinalizersTyped, Finalizers
<1>1. ASSUME NEW g \in Finalizers, ReadDrafts(g) \/ CommitTurn(g)
      PROVE  (finalizer'[f] = finalizer[f] \/ f = g) /\ f \notin lapsed
  BY <1>1, <1>f DEF ReadDrafts, CommitTurn, Goto, history
<1>2. ASSUME NEW g \in Finalizers, RejectTurn(g) \/ CleanDrafts(g) \/ EnqueueTurn(g) \/ FinalizeStepFails(g)
      PROVE  finalizer'[f] = finalizer[f] /\ f \notin lapsed
  BY <1>2, <1>f DEF RejectTurn, CleanDrafts, EnqueueTurn, FinalizeStepFails, Goto, FinalizerRecords, history
<1>3. ASSUME NEW g \in Finalizers, ReleaseLock(g) \/ FinalizerCrashes(g)
      PROVE  finalizer'[f] = finalizer[f] /\ f \notin lapsed
  BY <1>3, <1>f DEF ReleaseLock, FinalizerCrashes, IdleFinalizer
<1>4. CASE (\E c \in Clients, s \in ChatSlots : ClientFinalize(c, s)) \/ SchedulerStep
  BY <1>4, <1>f DEF ClientFinalize, SchedulerStep, SchedulerFindsTurn, SchedulerLock, TakeLock, Start,
     IdleFinalizer, history
<1>5. CASE \/ \E p \in Senders, m \in Messages, s \in ChatSlots : AppendCheck(p, m, s)
           \/ \E p \in Senders : AppendScript(p)
           \/ \E s \in Slots : LockExpires(s)
  BY <1>5 DEF AppendCheck, AppendScript, LockExpires, history
<1>6. CASE PreparationEnds \/ TurnTimeRunsOut \/ TotalTimeRunsOut \/ Forfeit \/ ExpireDebate
           \/ ListDraftKeys \/ ClearDrafts \/ ClearDraftsFails
  BY <1>6 DEF PreparationEnds, TurnTimeRunsOut, TotalTimeRunsOut, Forfeit, ExpireDebate,
     ListDraftKeys, ClearDrafts, ClearDraftsFails, history
<1>7. CASE UNCHANGED vars
  BY <1>7 DEF vars, history
<1>8. QED BY <1>1, <1>2, <1>3, <1>4, <1>5, <1>6, <1>7 DEF Next, FinalizeStep

\* Saved turns stay.
LEMMA TurnsStay ==
  ASSUME TypeOK, [Next]_vars
  PROVE  /\ Len(turns) \in Nat /\ Len(turns') \in Nat /\ Len(turns) <= Len(turns')
         /\ \A i \in 1..Len(turns) : turns'[i] = turns[i]
<1>1. ASSUME NEW f \in Finalizers, CommitTurn(f)
      PROVE  /\ Len(turns) \in Nat /\ Len(turns') = Len(turns) + 1
             /\ \A i \in 1..Len(turns) : turns'[i] = turns[i]
  BY <1>1, CommitAppends, Zenon
<1>2. Len(turns) \in Nat
  BY DEF TypeOK
<1>3. QED BY <1>1, <1>2, RowWriters DEF dbVars

LEMMA ReadsCoverStep ==
  ASSUME TypeOK, LocksHeld, ReadsCover, [Next]_vars
  PROVE  ReadsCover'
<1> SUFFICES ASSUME status' # "FAILED", NEW f \in Finalizers \ lapsed'
             PROVE  /\ (finalizer[f].pc = "read")' => Covers(f, finalizer[f].content)'
                    /\ (finalizer[f].pc = "committed")' => SavedCovers(f)'
  BY DEF ReadsCover
<1>s. status # "FAILED" /\ finalizer \in [Finalizers -> FinalizerRecords]
  BY FailedStays DEF TypeOK, FinalizersTyped
<1>1. CASE finalizer'[f] = finalizer[f] /\ f \notin lapsed
  <2> DEFINE s == finalizer[f].slot
  <2>1. CASE finalizer[f].pc \in {"read", "committed"}
    <3>1. s \in Slots /\ lock[s] # NoOne
      <4>1. s \in Slots /\ finalizer[f].id \in Ids
        BY <2>1 DEF TypeOK, FinalizersTyped
      <4>2. QED BY <1>1, <1>s, <2>1, <4>1, ChatAssumption DEF LocksHeld, Finalizing
    <3>2. ToSet(drafts'[s]) \subseteq ToSet(drafts[s])
      BY <3>1, LockedDraftsShrink
    <3>3. CASE finalizer[f].pc = "read"
      <4>1. Covers(f, finalizer[f].content)
        BY <1>1, <1>s, <3>3 DEF ReadsCover
      <4>2. QED BY <1>1, <3>2, <3>3, <4>1 DEF Covers
    <3>4. CASE finalizer[f].pc = "committed"
      <4>1. PICK i \in 1..Len(turns) : turns[i].slot = s /\ Covers(f, turns[i].content)
        BY <1>1, <1>s, <3>4 DEF ReadsCover, SavedCovers
      <4>2. i \in 1..Len(turns') /\ turns'[i] = turns[i]
        BY <4>1, TurnsStay
      <4>3. ToSet(drafts'[s]) \subseteq ToSet(turns'[i].content)
        BY <3>2, <4>1, <4>2 DEF Covers
      <4>4. SavedCovers(f)'
        BY <1>1, <4>1, <4>2, <4>3 DEF SavedCovers, Covers
      <4>5. QED BY <1>1, <3>4, <4>4
    <3>5. QED BY <2>1, <3>3, <3>4
  <2>2. QED BY <1>1, <2>1
<1>2. CASE ReadDrafts(f)
  BY <1>2, <1>s DEF ReadDrafts, Covers, FinalizerRecords, redisVars
<1>3. CASE CommitTurn(f) /\ f \notin lapsed
  <2>1. Covers(f, finalizer[f].content)
    BY <1>3, <1>s DEF CommitTurn, At, ReadsCover
  <2>2. /\ Len(turns) \in Nat /\ Len(turns') = Len(turns) + 1
        /\ turns'[Len(turns) + 1] = [slot |-> finalizer[f].slot, content |-> finalizer[f].content]
    BY <1>3, CommitAppends, Zenon
  <2>3. finalizer'[f].slot = finalizer[f].slot /\ finalizer'[f].pc = "committed" /\ drafts' = drafts
    BY <1>3, <1>s DEF CommitTurn, Goto, FinalizerRecords, redisVars
  <2>4. Len(turns) + 1 \in 1..Len(turns')
    BY <2>2
  <2>5. SavedCovers(f)'
    BY <2>1, <2>2, <2>3, <2>4 DEF SavedCovers, Covers
  <2>6. QED BY <2>3, <2>5
<1>4. CASE finalizer'[f].pc \notin {"read", "committed"}
  BY <1>4
<1>5. QED BY <1>1, <1>2, <1>3, <1>4, HandlerReads

LEMMA AckedSurviveStep ==
  ASSUME AckedInv, [Next]_vars
  PROVE  AckedSurvive'
<1> SUFFICES ASSUME status' # "FAILED", NEW m \in Messages, NEW s \in Slots, <<m, s>> \in acked'
             PROVE  \/ s \in torn'
                    \/ m \in ToSet(drafts'[s])
                    \/ \E i \in 1..Len(turns') : turns'[i].slot = s /\ m \in ToSet(turns'[i].content)
  BY DEF AckedSurvive
<1> DEFINE Saved == \E i \in 1..Len(turns) : turns[i].slot = s /\ m \in ToSet(turns[i].content)
<1>t. TypeOK /\ status # "FAILED" /\ DraftKeysAgree
  BY FailedStays DEF AckedInv
<1>1. s \in torn => s \in torn'
  BY HistoryWriters DEF CleanDrafts
<1>2. Saved => \E i \in 1..Len(turns') : turns'[i].slot = s /\ m \in ToSet(turns'[i].content)
  <2> SUFFICES ASSUME NEW i \in 1..Len(turns), turns[i].slot = s /\ m \in ToSet(turns[i].content)
               PROVE  \E j \in 1..Len(turns') : turns'[j].slot = s /\ m \in ToSet(turns'[j].content)
    OBVIOUS
  <2>1. i \in 1..Len(turns') /\ turns'[i] = turns[i]
    BY <1>t, TurnsStay
  <2>2. QED BY <2>1
<1>3. ASSUME NEW p \in Senders, AppendScript(p)
      PROVE  \/ s \in torn' \/ m \in ToSet(drafts'[s])
             \/ \E i \in 1..Len(turns') : turns'[i].slot = s /\ m \in ToSet(turns'[i].content)
  <2> DEFINE n == sender[p].msg
             r == sender[p].slot
  <2>1. n \in Messages /\ r \in Slots /\ drafts \in [Slots -> Seq(Messages)]
    BY <1>3, <1>t DEF AppendScript, TypeOK, SendersTyped, BuffersTyped
  <2>2. CASE AppendOutcome(n, r) = "APPENDED"
    <3>1. drafts' = [drafts EXCEPT ![r] = Append(drafts[r], n)]
      BY <1>3, <2>2 DEF AppendScript
    <3>2. ToSet(Append(drafts[r], n)) = ToSet(drafts[r]) \cup {n}
      BY <2>1, AppendElements, Zenon
    <3>3. m \in ToSet(drafts[s]) => m \in ToSet(drafts'[s])
      BY <2>1, <3>1, <3>2
    <3>4. <<m, s>> = <<n, r>> => m \in ToSet(drafts'[s])
      BY <2>1, <3>1, <3>2
    <3>5. <<m, s>> \in acked \/ <<m, s>> = <<n, r>>
      BY <1>3, <2>2 DEF AppendScript
    <3>6. QED BY <1>1, <1>2, <1>t, <3>3, <3>4, <3>5 DEF AckedInv, AckedSurvive
  <2>3. CASE AppendOutcome(n, r) = "DUPLICATE"
    <3>1. n \in ToSet(drafts[r])
      BY <1>t, <2>1, <2>3 DEF AppendOutcome, DraftKeysAgree
    <3>2. drafts' = drafts /\ (<<m, s>> \in acked \/ <<m, s>> = <<n, r>>)
      BY <1>3, <2>3 DEF AppendScript
    <3>3. QED BY <1>1, <1>2, <1>t, <3>1, <3>2 DEF AckedInv, AckedSurvive
  <2>4. CASE AppendOutcome(n, r) \notin {"APPENDED", "DUPLICATE"}
    <3>1. drafts' = drafts /\ acked' = acked
      BY <1>3, <2>4 DEF AppendScript
    <3>2. QED BY <1>1, <1>2, <1>t, <3>1 DEF AckedInv, AckedSurvive
  <2>5. QED BY <2>2, <2>3, <2>4
<1>4. ASSUME UNCHANGED acked
      PROVE  s \in torn \/ m \in ToSet(drafts[s]) \/ Saved
  BY <1>4, <1>t DEF AckedInv, AckedSurvive
<1>5. ASSUME NEW f \in Finalizers, CleanDrafts(f)
      PROVE  s \in torn' \/ m \in ToSet(drafts'[s]) \/ Saved
  <2>1. UNCHANGED acked /\ DeleteDrafts({finalizer[f].slot})
    BY <1>5 DEF CleanDrafts
  <2>2. CASE finalizer[f].slot # s
    BY <1>1, <1>4, <2>1, <2>2 DEF DeleteDrafts
  <2>3. CASE finalizer[f].slot = s /\ f \in lapsed
    <3>1. s \in ChatSlots
      BY <2>1 DEF AckedInv, ChatsInSlots
    <3>2. QED BY <1>5, <2>3, <3>1 DEF CleanDrafts
  <2>4. CASE finalizer[f].slot = s /\ f \notin lapsed
    <3>1. PICK i \in 1..Len(turns) : turns[i].slot = s /\ Covers(f, turns[i].content)
      BY <1>5, <1>t, <2>4 DEF CleanDrafts, At, AckedInv, ReadsCover, SavedCovers
    <3>2. m \in ToSet(drafts[s]) => Saved
      BY <2>4, <3>1 DEF Covers
    <3>3. QED BY <1>1, <1>4, <2>1, <3>2
  <2>5. QED BY <2>2, <2>3, <2>4
<1>6. CASE ClearDrafts
  BY <1>6, <1>t DEF ClearDrafts, AckedInv, ClearedAfterEnd
<1>7. CASE UNCHANGED <<drafts, chars, dedup>> /\ UNCHANGED acked
  BY <1>1, <1>2, <1>4, <1>7
<1>8. CASE UNCHANGED <<drafts, chars, dedup>> /\ \E p \in Senders : AppendScript(p)
  BY <1>3, <1>8
<1>9. QED BY <1>2, <1>3, <1>5, <1>6, <1>7, <1>8, DraftWriters, HistoryWriters

LEMMA AckedStep == AckedInv /\ [Next]_vars => AckedInv'
BY TypeStep, DraftKeysStep, ClearedAfterEndStep, ChatsInSlotsStep, LocksHeldStep, ReadsCoverStep,
   AckedSurviveStep DEF AckedInv

LEMMA AckedInvariant == Spec => []AckedInv
BY AckedInit, AckedStep, PTL DEF Spec

\* An acknowledged message is in the drafts or in the saved turn, unless the
\* debate has failed or a handler that had lost its lock deleted it: whatever
\* crashes, expires or is sent again.
THEOREM AcknowledgedSurvive == Spec => []AckedSurvive
<1>1. AckedInv => AckedSurvive
  BY DEF AckedInv
<1>2. QED BY <1>1, AckedInvariant, PTL

-----------------------------------------------------------------------------
(* Where locks do not expire under their holders (LockMayExpire = FALSE),   *)
(* README.md:37 holds of a debate that has not failed.                      *)

\* No handler has lost its lock, and a turn is finalized by one at a time.
NoneLapsed ==
  status # "FAILED" =>
    /\ lapsed = {}
    /\ \A f, g \in Finalizers, s \in Slots : Finalizing(f, s) /\ Finalizing(g, s) => f = g

\* A handler gets to work on a turn by taking its lock.
LEMMA FinalizingFrom ==
  ASSUME TypeOK, [Next]_vars, NEW f \in Finalizers, NEW s \in Slots, Finalizing(f, s)'
  PROVE  \/ Finalizing(f, s)
         \/ lock[s] = NoOne /\ \A g \in Finalizers \ {f} : finalizer'[g] = finalizer[g]
<1>f. /\ finalizer \in [Finalizers -> FinalizerRecords]
      /\ Scheduler \in Finalizers /\ Clients \subseteq Finalizers
  BY DEF TypeOK, FinalizersTyped, Finalizers
<1>w. /\ finalizer'[f].slot = s
      /\ finalizer'[f].pc \in {"locked", "read", "committed", "cleaned", "releasing"}
  BY DEF Finalizing
<1>1. ASSUME NEW g \in Finalizers, NEW r, NEW id, TakeLock(g, r, id)
      PROVE  \/ Finalizing(f, s)
             \/ lock[s] = NoOne /\ \A h \in Finalizers \ {f} : finalizer'[h] = finalizer[h]
  <2>1. CASE f = g
    BY <1>1, <1>f, <1>w, <2>1 DEF TakeLock, Start
  <2>2. CASE f # g
    BY <1>1, <1>f, <1>w, <2>2 DEF TakeLock, Start, Finalizing
  <2>3. QED BY <2>1, <2>2
<1>2. ASSUME NEW g \in Finalizers, ReadDrafts(g) \/ CommitTurn(g) \/ RejectTurn(g) \/ CleanDrafts(g)
                                   \/ EnqueueTurn(g) \/ FinalizeStepFails(g)
      PROVE  Finalizing(f, s)
  <2>1. /\ finalizer[g].pc \in {"locked", "read", "committed", "cleaned"}
        /\ finalizer'[g].slot = finalizer[g].slot
        /\ \A h \in Finalizers \ {g} : finalizer'[h] = finalizer[h]
    BY <1>2, <1>f DEF ReadDrafts, CommitTurn, RejectTurn, CleanDrafts, EnqueueTurn, FinalizeStepFails,
       At, Goto, FinalizerRecords
  <2>2. CASE f = g
    BY <1>w, <2>1, <2>2 DEF Finalizing
  <2>3. CASE f # g
    BY <1>w, <2>1, <2>3 DEF Finalizing
  <2>4. QED BY <2>2, <2>3
<1>3. ASSUME NEW g \in Finalizers, finalizer' = [finalizer EXCEPT ![g] = IdleFinalizer]
      PROVE  Finalizing(f, s)
  BY <1>3, <1>f, <1>w DEF IdleFinalizer, Finalizing
<1>4. CASE SchedulerFindsTurn
  BY <1>4, <1>f, <1>w DEF SchedulerFindsTurn, Start, Finalizing
<1>5. CASE UNCHANGED finalizer
  BY <1>5 DEF Finalizing
<1>6. ASSUME NEW g \in Finalizers, FinalizeStep(g) \/ FinalizeStepFails(g) \/ FinalizerCrashes(g)
      PROVE  Finalizing(f, s)
  BY <1>2, <1>3, <1>6 DEF FinalizeStep, ReleaseLock, FinalizerCrashes
<1>7. CASE \E c \in Clients, r \in ChatSlots : ClientFinalize(c, r)
  BY <1>1, <1>7, <1>f DEF ClientFinalize
<1>8. CASE SchedulerLock
  BY <1>1, <1>3, <1>8, <1>f DEF SchedulerLock
<1>9. CASE \/ \E p \in Senders, m \in Messages, r \in ChatSlots : AppendCheck(p, m, r)
           \/ \E p \in Senders : AppendScript(p)
           \/ \E r \in Slots : LockExpires(r)
  BY <1>5, <1>9 DEF AppendCheck, AppendScript, LockExpires
<1>10. CASE PreparationEnds \/ TurnTimeRunsOut \/ TotalTimeRunsOut \/ Forfeit \/ ExpireDebate
            \/ ListDraftKeys \/ ClearDrafts \/ ClearDraftsFails
  BY <1>5, <1>10 DEF PreparationEnds, TurnTimeRunsOut, TotalTimeRunsOut, Forfeit, ExpireDebate,
     ListDraftKeys, ClearDrafts, ClearDraftsFails
<1>11. CASE UNCHANGED vars
  BY <1>5, <1>11 DEF vars
<1>12. QED BY <1>4, <1>6, <1>7, <1>8, <1>9, <1>10, <1>11 DEF Next, SchedulerStep

\* Who takes a handler's lock away.
LEMMA LapsedWriters ==
  ASSUME [Next]_vars, NEW f \in lapsed' \ lapsed
  PROVE  \/ \E g \in Finalizers : ReleaseLock(g) /\ f \in SameCommand(g) \ {g}
         \/ LockMayExpire
<1>1. ASSUME NEW g \in Finalizers, FinalizeStep(g), ~ReleaseLock(g)
      PROVE  UNCHANGED lapsed
  BY <1>1 DEF FinalizeStep, ReadDrafts, CommitTurn, RejectTurn, CleanDrafts, EnqueueTurn, history
<1>2. ASSUME NEW g \in Finalizers, ReleaseLock(g)
      PROVE  f \in SameCommand(g) \ {g}
  BY <1>2 DEF ReleaseLock
<1>3. ASSUME NEW g \in Finalizers, FinalizeStepFails(g) \/ FinalizerCrashes(g)
      PROVE  FALSE
  BY <1>3 DEF FinalizeStepFails, FinalizerCrashes, history
<1>4. ASSUME NEW s \in Slots, LockExpires(s)
      PROVE  LockMayExpire
  BY <1>4 DEF LockExpires
<1>5. CASE (\E c \in Clients, s \in ChatSlots : ClientFinalize(c, s)) \/ SchedulerStep
  BY <1>5 DEF ClientFinalize, SchedulerStep, SchedulerFindsTurn, SchedulerLock, history
<1>6. CASE \/ \E p \in Senders, m \in Messages, s \in ChatSlots : AppendCheck(p, m, s)
           \/ \E p \in Senders : AppendScript(p)
  BY <1>6 DEF AppendCheck, AppendScript, history
<1>7. CASE PreparationEnds \/ TurnTimeRunsOut \/ TotalTimeRunsOut \/ Forfeit \/ ExpireDebate
           \/ ListDraftKeys \/ ClearDrafts \/ ClearDraftsFails
  BY <1>7 DEF PreparationEnds, TurnTimeRunsOut, TotalTimeRunsOut, Forfeit, ExpireDebate,
     ListDraftKeys, ClearDrafts, ClearDraftsFails, history
<1>8. CASE UNCHANGED vars
  BY <1>8 DEF vars, history
<1>9. QED BY <1>1, <1>2, <1>3, <1>4, <1>5, <1>6, <1>7, <1>8 DEF Next

LEMMA NoneLapsedStep ==
  ASSUME ~LockMayExpire, TypeOK, LocksHeld, NoneLapsed, [Next]_vars
  PROVE  NoneLapsed'
<1> SUFFICES ASSUME status' # "FAILED"
             PROVE  /\ lapsed' = {}
                    /\ \A f, g \in Finalizers, s \in Slots :
                         Finalizing(f, s)' /\ Finalizing(g, s)' => f = g
  BY DEF NoneLapsed, Finalizing
<1>s. status # "FAILED" /\ lapsed = {}
  BY FailedStays DEF NoneLapsed
<1>1. ASSUME NEW f \in lapsed'
      PROVE  FALSE
  <2>1. PICK g \in Finalizers : ReleaseLock(g) /\ f \in SameCommand(g) \ {g}
    BY <1>s, <1>1, LapsedWriters
  <2>2. f \in Finalizers /\ Finalizing(f, finalizer[g].slot)
    BY <2>1 DEF SameCommand, Holders
  <2>3. finalizer[g].slot \in Slots /\ Finalizing(g, finalizer[g].slot)
    BY <2>1, WorksOnASlot DEF ReleaseLock, At, Finalizing
  <2>4. QED BY <1>s, <2>1, <2>2, <2>3 DEF NoneLapsed
<1>2. ASSUME NEW f \in Finalizers, NEW g \in Finalizers, NEW s \in Slots,
             Finalizing(f, s)', Finalizing(g, s)', f # g
      PROVE  FALSE
  <2>1. ASSUME NEW h \in Finalizers, Finalizing(h, s)
        PROVE  lock[s] # NoOne
    <3>1. finalizer[h].id \in Ids
      BY <2>1 DEF Finalizing, TypeOK, FinalizersTyped
    <3>2. QED BY <1>s, <2>1, <3>1, ChatAssumption DEF LocksHeld
  <2>2. ASSUME NEW h \in Finalizers, NEW k \in Finalizers, h # k, Finalizing(h, s)', Finalizing(k, s)',
               lock[s] = NoOne, \A l \in Finalizers \ {h} : finalizer'[l] = finalizer[l]
        PROVE  FALSE
    <3>1. Finalizing(k, s)
      BY <2>2 DEF Finalizing
    <3>2. QED BY <2>1, <2>2, <3>1
  <2>3. Finalizing(f, s) /\ Finalizing(g, s)
    BY <1>2, <2>2, FinalizingFrom
  <2>4. QED BY <1>2, <1>s, <2>3 DEF NoneLapsed
<1>3. QED BY <1>1, <1>2

BlockedWhileFinalizing ==
  \A s \in Slots, m \in Messages :
    Appended(m, s) /\ status # "FAILED" =>
      ~\E f \in Finalizers : finalizer[f].slot = s /\ finalizer[f].pc \in {"read", "committed"}

\* While a handler is between the read of the drafts and their deletion,
\* nothing is appended to them, if no finalization outlives its lock and the
\* debate has not failed: the two exceptions are the ones that the run
\* chat_lock_expiry and clearDebateDrafts show.
THEOREM LocksKeepAppendsOut ==
  ASSUME ~LockMayExpire
  PROVE  Spec => [][BlockedWhileFinalizing]_vars
<1>1. AckedInv /\ NoneLapsed /\ [Next]_vars => [BlockedWhileFinalizing]_vars
  <2> SUFFICES ASSUME AckedInv, NoneLapsed, [Next]_vars,
                      NEW s \in Slots, NEW m \in Messages, Appended(m, s), status # "FAILED",
                      NEW f \in Finalizers, finalizer[f].slot = s, finalizer[f].pc \in {"read", "committed"}
               PROVE  FALSE
    BY DEF BlockedWhileFinalizing
  <2>1. lock[s] # NoOne
    <3>1. finalizer[f].id \in Ids /\ Finalizing(f, s)
      BY DEF AckedInv, TypeOK, FinalizersTyped, Finalizing
    <3>2. QED BY <3>1, ChatAssumption DEF AckedInv, LocksHeld, NoneLapsed
  <2>2. drafts[s] \in Seq(Messages) /\ drafts'[s] = Append(drafts[s], m)
    BY DEF AckedInv, TypeOK, BuffersTyped, Appended
  <2>3. drafts'[s] # drafts[s] /\ drafts'[s] # <<>>
    <3>1. Len(drafts[s]) \in Nat /\ Len(drafts'[s]) = Len(drafts[s]) + 1
      BY <2>2
    <3>2. QED BY <3>1
  <2>4. ASSUME NEW p \in Senders, AppendScript(p)
        PROVE  drafts'[s] = drafts[s]
    <3>1. CASE AppendOutcome(sender[p].msg, sender[p].slot) = "APPENDED"
      <4>1. sender[p].slot # s
        BY <2>1, <3>1 DEF AppendOutcome
      <4>2. sender[p].slot \in Slots /\ drafts \in [Slots -> Seq(Messages)]
        BY <2>4 DEF AckedInv, AppendScript, TypeOK, SendersTyped, BuffersTyped
      <4>3. QED BY <2>4, <3>1, <4>1, <4>2 DEF AppendScript
    <3>2. CASE AppendOutcome(sender[p].msg, sender[p].slot) # "APPENDED"
      BY <2>4, <3>2 DEF AppendScript
    <3>3. QED BY <3>1, <3>2
  <2>5. ASSUME NEW S, DeleteDrafts(S)
        PROVE  drafts'[s] = drafts[s] \/ drafts'[s] = <<>>
    BY <2>5 DEF DeleteDrafts
  <2>6. QED BY <2>3, <2>4, <2>5, DraftWriters DEF CleanDrafts, ClearDrafts
<1>2. Init => NoneLapsed
  BY DEF Init, NoneLapsed, Finalizing, IdleFinalizer
<1>3. AckedInv /\ NoneLapsed /\ [Next]_vars => NoneLapsed'
  BY NoneLapsedStep DEF AckedInv
<1>4. QED BY <1>1, <1>2, <1>3, AckedInvariant, PTL DEF Spec

-----------------------------------------------------------------------------
(* The hand-over to the Analyzer.                                           *)

\* Without a fault, a turn is enqueued or the handler that saved it has yet
\* to do so.
SavedTurnsAreUnderway ==
  faults = 0 =>
    \A i \in 1..Len(turns) :
      \/ i \in jobs
      \/ \E f \in Finalizers :
           finalizer[f].slot = turns[i].slot /\ finalizer[f].pc \in {"committed", "cleaned"}

\* A handler that has saved its turn goes on to enqueue it, unless it fails.
LEMMA HandlerHandsOver ==
  ASSUME TypeOK, [Next]_vars, NEW f \in Finalizers, finalizer[f].pc \in {"committed", "cleaned"}, faults' = 0
  PROVE  \/ finalizer'[f].slot = finalizer[f].slot /\ finalizer'[f].pc \in {"committed", "cleaned"}
         \/ EnqueueTurn(f)
<1>f. /\ finalizer \in [Finalizers -> FinalizerRecords] /\ faults \in Nat
      /\ Scheduler \in Finalizers /\ Clients \subseteq Finalizers
  BY ChatAssumption DEF TypeOK, FinalizersTyped, Finalizers
<1>1. ASSUME NEW g \in Finalizers, ReadDrafts(g) \/ CommitTurn(g) \/ RejectTurn(g) \/ CleanDrafts(g)
      PROVE  finalizer'[f].slot = finalizer[f].slot /\ finalizer'[f].pc \in {"committed", "cleaned"}
  <2>1. CASE g # f
    BY <1>1, <1>f, <2>1 DEF ReadDrafts, CommitTurn, RejectTurn, CleanDrafts, Goto, FinalizerRecords
  <2>2. CASE g = f
    BY <1>1, <1>f, <2>2 DEF ReadDrafts, CommitTurn, RejectTurn, CleanDrafts, Goto, At, FinalizerRecords
  <2>3. QED BY <2>1, <2>2
<1>2. ASSUME NEW g \in Finalizers, EnqueueTurn(g) \/ ReleaseLock(g)
      PROVE  finalizer'[f] = finalizer[f] \/ EnqueueTurn(f)
  BY <1>2, <1>f DEF EnqueueTurn, ReleaseLock, Goto, At, FinalizerRecords
<1>3. ASSUME NEW g \in Finalizers, FinalizeStepFails(g) \/ FinalizerCrashes(g)
      PROVE  FALSE
  BY <1>3, <1>f DEF FinalizeStepFails, FinalizerCrashes
<1>4. CASE (\E c \in Clients, s \in ChatSlots : ClientFinalize(c, s)) \/ SchedulerStep
  BY <1>4, <1>f DEF ClientFinalize, SchedulerStep, SchedulerFindsTurn, SchedulerLock, TakeLock, Start, At
<1>5. CASE \/ \E p \in Senders, m \in Messages, s \in ChatSlots : AppendCheck(p, m, s)
           \/ \E p \in Senders : AppendScript(p)
           \/ \E s \in Slots : LockExpires(s)
  BY <1>5 DEF AppendCheck, AppendScript, LockExpires
<1>6. CASE PreparationEnds \/ TurnTimeRunsOut \/ TotalTimeRunsOut \/ Forfeit \/ ExpireDebate
           \/ ListDraftKeys \/ ClearDrafts \/ ClearDraftsFails
  BY <1>6 DEF PreparationEnds, TurnTimeRunsOut, TotalTimeRunsOut, Forfeit, ExpireDebate,
     ListDraftKeys, ClearDrafts, ClearDraftsFails
<1>7. CASE UNCHANGED vars
  BY <1>7 DEF vars
<1>8. QED BY <1>1, <1>2, <1>3, <1>4, <1>5, <1>6, <1>7 DEF Next, FinalizeStep

\* Faults are counted, and jobs are only added.
LEMMA FaultsAndJobsGrow ==
  ASSUME TypeOK, [Next]_vars
  PROVE  faults \in Nat /\ (faults' = 0 => faults = 0) /\ jobs \subseteq jobs'
<1>f. faults \in Nat
  BY ChatAssumption DEF TypeOK
<1>1. ASSUME NEW f \in Finalizers, FinalizeStep(f)
      PROVE  UNCHANGED faults /\ jobs \subseteq jobs'
  BY <1>1 DEF FinalizeStep, ReadDrafts, CommitTurn, RejectTurn, CleanDrafts, EnqueueTurn, ReleaseLock, redisVars
<1>2. ASSUME \/ \E f \in Finalizers : FinalizeStepFails(f) \/ FinalizerCrashes(f)
             \/ ClearDraftsFails
      PROVE  faults' = faults + 1 /\ UNCHANGED jobs
  BY <1>2 DEF FinalizeStepFails, FinalizerCrashes, ClearDraftsFails, redisVars
<1>3. CASE (\E c \in Clients, s \in ChatSlots : ClientFinalize(c, s)) \/ SchedulerStep
  BY <1>f, <1>3 DEF ClientFinalize, SchedulerStep, SchedulerFindsTurn, SchedulerLock, redisVars
<1>4. CASE \/ \E p \in Senders, m \in Messages, s \in ChatSlots : AppendCheck(p, m, s)
           \/ \E p \in Senders : AppendScript(p)
           \/ \E s \in Slots : LockExpires(s)
  BY <1>f, <1>4 DEF AppendCheck, AppendScript, LockExpires, redisVars
<1>5. CASE PreparationEnds \/ TurnTimeRunsOut \/ TotalTimeRunsOut \/ Forfeit \/ ExpireDebate
           \/ ListDraftKeys \/ ClearDrafts
  BY <1>f, <1>5 DEF PreparationEnds, TurnTimeRunsOut, TotalTimeRunsOut, Forfeit, ExpireDebate,
     ListDraftKeys, ClearDrafts, redisVars
<1>6. CASE UNCHANGED vars
  BY <1>f, <1>6 DEF vars, redisVars
<1>7. QED BY <1>f, <1>1, <1>2, <1>3, <1>4, <1>5, <1>6 DEF Next

LEMMA SavedTurnsStep ==
  ASSUME TypeOK, SavedTurnsAreUnderway, [Next]_vars
  PROVE  SavedTurnsAreUnderway'
<1> SUFFICES ASSUME faults' = 0, NEW i \in 1..Len(turns')
             PROVE  \/ i \in jobs'
                    \/ \E f \in Finalizers : /\ finalizer'[f].slot = turns'[i].slot
                                             /\ finalizer'[f].pc \in {"committed", "cleaned"}
  BY DEF SavedTurnsAreUnderway
<1>t. finalizer \in [Finalizers -> FinalizerRecords]
  BY DEF TypeOK, FinalizersTyped
<1>1. CASE i \in 1..Len(turns)
  <2>1. turns'[i] = turns[i]
    BY <1>1, TurnsStay
  <2>2. CASE i \in jobs
    BY <2>2, FaultsAndJobsGrow
  <2>3. CASE i \notin jobs
    <3>1. PICK f \in Finalizers : finalizer[f].slot = turns[i].slot /\ finalizer[f].pc \in {"committed", "cleaned"}
      BY <1>1, <2>3, FaultsAndJobsGrow DEF SavedTurnsAreUnderway
    <3>2. CASE EnqueueTurn(f)
      BY <1>1, <3>1, <3>2 DEF EnqueueTurn
    <3>3. EnqueueTurn(f) \/ /\ finalizer'[f].slot = finalizer[f].slot
                            /\ finalizer'[f].pc \in {"committed", "cleaned"}
      BY <3>1, HandlerHandsOver
    <3>4. QED BY <2>1, <3>1, <3>2, <3>3
  <2>4. QED BY <2>2, <2>3
<1>2. CASE i \notin 1..Len(turns)
  <2>1. PICK f \in Finalizers : CommitTurn(f)
    BY <1>2, RowWriters DEF dbVars
  <2>2. /\ Len(turns) \in Nat /\ Len(turns') = Len(turns) + 1
        /\ turns'[Len(turns) + 1] = [slot |-> finalizer[f].slot, content |-> finalizer[f].content]
    BY <2>1, CommitAppends, Zenon
  <2>3. i = Len(turns) + 1
    BY <1>2, <2>2
  <2>4. finalizer'[f].slot = finalizer[f].slot /\ finalizer'[f].pc = "committed"
    BY <1>t, <2>1 DEF CommitTurn, Goto, FinalizerRecords
  <2>5. QED BY <2>2, <2>3, <2>4
<1>3. QED BY <1>1, <1>2

\* Without a crash or a failed call, a finalized turn that no handler works on
\* has been handed to the Analyzer.
THEOREM TurnsAreHandedOver == Spec => []FinalizedTurnsAreQueued
<1>1. SavedTurnsAreUnderway => FinalizedTurnsAreQueued
  BY DEF SavedTurnsAreUnderway, FinalizedTurnsAreQueued, Finalizing
<1>2. Init => SavedTurnsAreUnderway
  BY DEF Init, SavedTurnsAreUnderway
<1>3. QED BY <1>1, <1>2, SavedTurnsStep, TypeInit, TypeStep, PTL DEF Spec
=============================================================================
