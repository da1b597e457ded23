--------------------------- MODULE Analyzer_proofs ---------------------------
(***************************************************************************)
(* Theorems about Analyzer, for any number of rounds, workers, attempts    *)
(* and faults.  Turns have no owner, so that the order of the rounds rests *)
(* on the statements alone: both turns of a round move together, a round   *)
(* is claimed after the analyzed ones, and what is analyzed stays so.      *)
(* The graph then holds the completed rounds in their order, and every     *)
(* step is one of AnalysisOutcome.                                         *)
(***************************************************************************)
EXTENDS Analyzer, TLAPS

-----------------------------------------------------------------------------
(* Types.                                                                   *)

\* The operations of BullMQ keep a job a job.
LEMMA JobsTyped ==
  ASSUME NEW j \in Queue!Jobs
  PROVE  /\ Queue!NoJob \in Queue!Jobs
         /\ Queue!Added(j) \in Queue!Jobs /\ Queue!Ensured(j) \in Queue!Jobs
         /\ Queue!Overtaken(j) \subseteq Queue!Jobs /\ Queue!Stalled(j) \subseteq Queue!Jobs
         /\ Queue!Completed(j) \in Queue!Jobs /\ Queue!Delayed(j) \in Queue!Jobs
         /\ Queue!Thrown(j) \in Queue!Jobs /\ Queue!Removed(j) \in Queue!Jobs
         /\ \A w \in Workers : Queue!Taken(j, w) \in Queue!Jobs
<1> USE AnalyzerAssumption DEF Queue!Jobs, Queue!JobStates, Queue!Idle, Queue!NoJob, Queue!Queued
<1>1. Queue!NoJob \in Queue!Jobs /\ Queue!Added(j) \in Queue!Jobs /\ Queue!Ensured(j) \in Queue!Jobs
  BY DEF Queue!Added, Queue!Ensured
<1>2. Queue!Overtaken(j) \subseteq Queue!Jobs /\ Queue!Stalled(j) \subseteq Queue!Jobs
  BY DEF Queue!Overtaken, Queue!Stalled
<1>3. Queue!Completed(j) \in Queue!Jobs /\ Queue!Delayed(j) \in Queue!Jobs /\ Queue!Removed(j) \in Queue!Jobs
  BY DEF Queue!Completed, Queue!Delayed, Queue!Removed
<1>4. Queue!Thrown(j) \in Queue!Jobs
  BY DEF Queue!Thrown
<1>5. \A w \in Workers : Queue!Taken(j, w) \in Queue!Jobs
  BY DEF Queue!Taken
<1>6. QED BY <1>1, <1>2, <1>3, <1>4, <1>5

LEMMA TypeInit == Init => TypeOK
<1> SUFFICES ASSUME Init PROVE TypeOK
  OBVIOUS
<1>1. Queue!NoJob \in Queue!Jobs
  BY AnalyzerAssumption DEF Queue!Jobs, Queue!JobStates, Queue!NoJob, Queue!Idle
<1>2. IdleWorker \in WorkerRecords /\ IdleRecovery \in RecoveryRecords
  BY AnalyzerAssumption DEF IdleWorker, IdleRecovery, WorkerRecords, RecoveryRecords, WorkerPcs, RoundNumbers
<1>3. QED BY <1>1, <1>2, AnalyzerAssumption DEF Init, Outcome!Init, TypeOK, Statuses

\* What moves between statuses has statuses.
LEMMA MoveTyped ==
  ASSUME TypeOK, NEW r, NEW from, NEW to \in Statuses, Move(r, from, to)
  PROVE  turn' \in [Turns -> Statuses \cup {"NONE"}]
BY DEF TypeOK, Move

\* A worker that moves on or ends keeps its record well typed.
LEMMA WorkerMoves ==
  ASSUME TypeOK, NEW w \in Workers, NEW pc \in WorkerPcs,
         WorkerGoto(w, pc) \/ WorkerEnds(w, pc) \/ worker' = [worker EXCEPT ![w] = IdleWorker]
  PROVE  worker' \in [Workers -> WorkerRecords]
<1>1. IdleWorker \in WorkerRecords /\ worker[w] \in WorkerRecords
  BY AnalyzerAssumption DEF TypeOK, IdleWorker, WorkerRecords, WorkerPcs, RoundNumbers
<1>2. CASE WorkerGoto(w, pc)
  BY <1>1, <1>2 DEF TypeOK, WorkerGoto, WorkerRecords
<1>3. CASE WorkerEnds(w, pc)
  BY <1>1, <1>3 DEF TypeOK, WorkerEnds, WorkerRecords
<1>4. CASE worker' = [worker EXCEPT ![w] = IdleWorker]
  BY <1>1, <1>4 DEF TypeOK
<1>5. QED BY <1>2, <1>3, <1>4

\* finalizeTurn and the scheduler.
LEMMA ChatAndRecoveryTyped ==
  ASSUME TypeOK,
         \/ InsertTurn \/ EnqueueTurn \/ EnqueueTurnFails
         \/ RecoveryStep \/ EnsureJobFails \/ RecoveryFails
  PROVE  TypeOK'
<1>0. IdleRecovery \in RecoveryRecords
  BY AnalyzerAssumption DEF IdleRecovery, RecoveryRecords, RoundNumbers
<1>1. CASE InsertTurn
  BY <1>1 DEF InsertTurn, TypeOK, Statuses
<1>2. CASE EnqueueTurn
  <2>1. \A r \in RoundNumbers : Queue!Added(job[r]) \in Queue!Jobs
    BY JobsTyped DEF TypeOK
  <2>2. job' \in [RoundNumbers -> Queue!Jobs]
    BY <1>2, <2>1 DEF EnqueueTurn, TypeOK
  <2>3. QED BY <1>2, <2>2 DEF EnqueueTurn, TypeOK, dbVars
<1>3. CASE EnqueueTurnFails \/ RecoveryFails
  BY <1>0, <1>3, AnalyzerAssumption DEF EnqueueTurnFails, RecoveryFails, TypeOK, dbVars
<1>4. CASE FindPending \/ FindReset
  BY <1>0, <1>4 DEF FindPending, FindReset, TypeOK, RecoveryRecords, dbVars
<1>5. CASE EnsureJob
  <2>1. \A r \in RoundNumbers : Queue!Ensured(job[r]) \in Queue!Jobs
    BY JobsTyped DEF TypeOK
  <2>2. job' \in [RoundNumbers -> Queue!Jobs]
    BY <1>5, <2>1 DEF EnsureJob, TypeOK
  <2>3. QED BY <1>0, <1>5, <2>2 DEF EnsureJob, TypeOK, dbVars
<1>6. CASE ResetStale
  <2>1. turn' \in [Turns -> Statuses \cup {"NONE"}]
    BY <1>6, MoveTyped DEF ResetStale, Statuses
  <2>2. recovery' \in RecoveryRecords /\ stale' \subseteq RoundNumbers
    BY <1>6 DEF ResetStale, RecoveryRecords, TypeOK
  <2>3. QED BY <1>6, <2>1, <2>2 DEF ResetStale, TypeOK
<1>7. CASE RestoreStale
  <2>1. turn' \in [Turns -> Statuses \cup {"NONE"}]
    BY <1>7, MoveTyped DEF RestoreStale, Statuses
  <2>2. recovery.round \in RoundNumbers
    BY DEF TypeOK, RecoveryRecords
  <2>3. stale' \subseteq RoundNumbers
    BY <1>7, <2>2 DEF RestoreStale, TypeOK
  <2>4. QED BY <1>0, <1>7, <2>1, <2>3 DEF RestoreStale, TypeOK
<1>8. CASE EnsureJobFails
  <2>1. recovery.round \in RoundNumbers
    BY DEF TypeOK, RecoveryRecords
  <2>2. Queue!Overtaken(job[recovery.round]) \subseteq Queue!Jobs
    BY <2>1, JobsTyped DEF TypeOK
  <2>3. job' \in [RoundNumbers -> Queue!Jobs]
    BY <1>8, <2>2 DEF EnsureJobFails, TypeOK
  <2>4. recovery' \in RecoveryRecords
    BY <1>0, <1>8 DEF EnsureJobFails, TypeOK, RecoveryRecords
  <2>5. QED BY <1>8, <2>3, <2>4 DEF EnsureJobFails, TypeOK, dbVars
<1>9. QED BY <1>1, <1>2, <1>3, <1>4, <1>5, <1>6, <1>7, <1>8 DEF RecoveryStep

LEMMA WorkerTyped ==
  ASSUME TypeOK, NEW w \in Workers, WorkerStep(w) \/ WorkerCallFails(w) \/ WorkerCrashes(w)
  PROVE  TypeOK'
<1>0. worker[w] \in WorkerRecords /\ worker[w].round \in RoundNumbers
  BY DEF TypeOK, WorkerRecords
<1>1. ASSUME NEW r \in RoundNumbers, TakeJob(w, r)
      PROVE  TypeOK'
  <2>1. job[r] \in Queue!Jobs /\ job[r].made \in 0..Attempts
    BY DEF TypeOK, Queue!Jobs
  <2>2. job' \in [RoundNumbers -> Queue!Jobs]
    BY <1>1, <2>1, JobsTyped DEF TakeJob, TypeOK
  <2>3. [IdleWorker EXCEPT !.pc = "claim", !.round = r, !.made = job[r].made] \in WorkerRecords
    BY <2>1 DEF IdleWorker, WorkerRecords, WorkerPcs
  <2>4. worker' \in [Workers -> WorkerRecords]
    BY <1>1, <2>3 DEF TakeJob, TypeOK
  <2>5. QED BY <1>1, <2>2, <2>4 DEF TakeJob, TypeOK, dbVars
<1>2. CASE Claim(w) \/ Release(w) \/ SaveRound(w)
  <2>1. turn' \in [Turns -> Statuses \cup {"NONE"}]
    BY <1>2, MoveTyped DEF Claim, Release, SaveRound, Statuses
  <2>2. worker' \in [Workers -> WorkerRecords]
    BY <1>2, WorkerMoves DEF Claim, Release, SaveRound, WorkerPcs
  <2>3. graph' \in Seq(RoundNumbers)
    BY <1>0, <1>2 DEF Claim, Release, SaveRound, TypeOK
  <2>4. stale' \subseteq RoundNumbers
    BY <1>2 DEF Claim, Release, SaveRound, TypeOK
  <2>5. QED BY <1>2, <2>1, <2>2, <2>3, <2>4 DEF Claim, Release, SaveRound, TypeOK
<1>3. CASE ClaimRefused(w) \/ Unclaimed(w) \/ AiAnswers(w) \/ SaveRefused(w) \/ HandOver(w)
  <2>1. worker' \in [Workers -> WorkerRecords]
    BY <1>3, WorkerMoves DEF ClaimRefused, Unclaimed, AiAnswers, SaveRefused, HandOver, WorkerPcs
  <2>2. QED
    BY <1>3, <2>1 DEF ClaimRefused, Unclaimed, AiAnswers, SaveRefused, HandOver, TypeOK, dbVars
<1>4. CASE EnqueueNext(w)
  <2>1. \A r \in RoundNumbers : Queue!Added(job[r]) \in Queue!Jobs
    BY JobsTyped DEF TypeOK
  <2>2. job' \in [RoundNumbers -> Queue!Jobs]
    BY <1>4, <2>1 DEF EnqueueNext, TypeOK
  <2>3. worker' \in [Workers -> WorkerRecords]
    BY <1>4, WorkerMoves DEF EnqueueNext, WorkerPcs
  <2>4. QED BY <1>4, <2>2, <2>3 DEF EnqueueNext, TypeOK, dbVars
<1>5. CASE FinishJob(w)
  <2>1. job' \in [RoundNumbers -> Queue!Jobs]
    BY <1>0, <1>5, JobsTyped DEF FinishJob, TypeOK, WorkerAt
  <2>2. worker' \in [Workers -> WorkerRecords]
    BY <1>5, WorkerMoves DEF FinishJob, WorkerPcs
  <2>3. QED BY <1>5, <2>1, <2>2 DEF FinishJob, TypeOK, dbVars
<1>6. CASE WorkerCallFails(w) \/ WorkerCrashes(w)
  <2>1. worker' \in [Workers -> WorkerRecords]
    BY <1>6, WorkerMoves DEF WorkerCallFails, WorkerCrashes, WorkerPcs
  <2>2. faults' \in 0..MaxFaults
    BY <1>6, AnalyzerAssumption DEF WorkerCallFails, WorkerCrashes, TypeOK
  <2>3. QED BY <1>6, <2>1, <2>2 DEF WorkerCallFails, WorkerCrashes, TypeOK, dbVars
<1>7. QED BY <1>1, <1>2, <1>3, <1>4, <1>5, <1>6 DEF WorkerStep

\* BullMQ, the clock and the end of the debate.
LEMMA EndTyped ==
  ASSUME TypeOK,
         \/ \E r \in RoundNumbers : OrphanStalls(r) \/ BlockedWorkerStalls(r) \/ RoundGoesStale(r)
         \/ TerminateDebate \/ CancelInvocations \/ RemoveJobs \/ TerminatorFails
  PROVE  TypeOK'
<1>1. ASSUME NEW r \in RoundNumbers, OrphanStalls(r) \/ BlockedWorkerStalls(r)
      PROVE  TypeOK'
  <2>1. Queue!Stalled(job[r]) \subseteq Queue!Jobs
    BY JobsTyped DEF TypeOK
  <2>2. job' \in [RoundNumbers -> Queue!Jobs]
    BY <1>1, <2>1 DEF OrphanStalls, BlockedWorkerStalls, JobStalls, TypeOK
  <2>3. QED
    BY <1>1, <2>2, AnalyzerAssumption DEF OrphanStalls, BlockedWorkerStalls, JobStalls, TypeOK, dbVars, procVars
<1>2. ASSUME NEW r \in RoundNumbers, RoundGoesStale(r)
      PROVE  TypeOK'
  BY <1>2, AnalyzerAssumption DEF RoundGoesStale, TypeOK, procVars
<1>3. CASE TerminateDebate
  BY <1>3 DEF TerminateDebate, TypeOK, Statuses
<1>4. CASE CancelInvocations
  <2>1. PICK W \in SUBSET {w \in Workers : WorkerAt(w, "asking")} :
          worker' = [w \in Workers |-> IF w \in W THEN [worker[w] EXCEPT !.pc = "cancelled"] ELSE worker[w]]
    BY <1>4 DEF CancelInvocations
  <2>2. \A w \in Workers : [worker[w] EXCEPT !.pc = "cancelled"] \in WorkerRecords
    BY DEF TypeOK, WorkerRecords, WorkerPcs
  <2>3. worker' \in [Workers -> WorkerRecords]
    BY <2>1, <2>2 DEF TypeOK
  <2>4. QED BY <1>4, <2>3 DEF CancelInvocations, TypeOK, dbVars
<1>5. CASE RemoveJobs
  <2>1. \A r \in RoundNumbers : Queue!Removed(job[r]) \in Queue!Jobs
    BY JobsTyped DEF TypeOK
  <2>2. QED BY <1>5, <2>1 DEF RemoveJobs, TypeOK, dbVars
<1>6. CASE TerminatorFails
  BY <1>6, AnalyzerAssumption DEF TerminatorFails, TypeOK, dbVars
<1>7. QED BY <1>1, <1>2, <1>3, <1>4, <1>5, <1>6

LEMMA TypeStep == TypeOK /\ [Next]_vars => TypeOK'
<1>1. TypeOK /\ UNCHANGED vars => TypeOK'
  BY DEF vars, dbVars, procVars, TypeOK
<1>2. QED BY <1>1, ChatAndRecoveryTyped, WorkerTyped, EndTyped DEF Next

\* Every reachable state is well typed, for any number of rounds, workers,
\* attempts and faults.
THEOREM AnalyzerTypeCorrect == Spec => []TypeOK
BY TypeInit, TypeStep, PTL DEF Spec

-----------------------------------------------------------------------------
(* The order of the rounds.                                                 *)

\* Both turns of a round that was claimed once share their status from then
\* on, and the turns before them stay analyzed.
Begun(r) == (\A t \in TurnsOf(r) : turn[t] \in Statuses /\ turn[t] = turn[2 * r]) /\ Predecessors(r)

\* restoreForNextRecovery does not look at other rounds: it need not, because
\* the round it restores had been claimed.
RestoresBegun == recovery.pc \in {"reset", "reensure", "restore"} => Begun(recovery.round)

OrderInv == TypeOK /\ RoundsInOrder /\ RestoresBegun

\* Each turn belongs to one round.
LEMMA TurnsOfRounds ==
  /\ \A r \in RoundNumbers : 2 * r - 1 \in Turns /\ 2 * r \in Turns /\ TurnsOf(r) \subseteq Turns
  /\ \A r, q \in RoundNumbers : r # q => TurnsOf(r) \cap TurnsOf(q) = {}
  /\ \A r, q \in RoundNumbers : r < q => TurnsOf(r) \subseteq 1..(2 * q - 2)
  /\ \A r, q \in RoundNumbers : q <= r => TurnsOf(r) \cap 1..(2 * q - 2) = {}
  /\ \A r \in RoundNumbers : 1..(2 * r - 2) \subseteq Turns
BY AnalyzerAssumption DEF RoundNumbers, TurnsOf, Turns

\* The statements that change the status of a turn, the age of a round or the
\* graph.
MarkProcessing(r) == Ready(r) /\ Move(r, "PENDING", "PROCESSING") /\ stale' = stale \ {r}
GiveBack(r, to) == Move(r, "PROCESSING", to) /\ stale' = stale \ {r}

LEMMA TurnWriters ==
  ASSUME TypeOK, [Next]_vars
  PROVE  \/ UNCHANGED <<turn, stale, graph>>
         \/ InsertTurn
         \/ UNCHANGED graph /\ \E r \in RoundNumbers : MarkProcessing(r)
         \/ UNCHANGED graph /\ \E r \in RoundNumbers, to \in {"PENDING", "FAILED"} : GiveBack(r, to)
         \/ \E w \in Workers : SaveRound(w)
         \/ RestoreStale
         \/ \E r \in RoundNumbers : RoundGoesStale(r)
         \/ TerminateDebate
<1>w. \A w \in Workers : worker[w].round \in RoundNumbers
  BY DEF TypeOK, WorkerRecords
<1>1. CASE EnqueueTurn \/ EnqueueTurnFails \/ EnsureJobFails \/ RecoveryFails
  BY <1>1 DEF EnqueueTurn, EnqueueTurnFails, EnsureJobFails, RecoveryFails, dbVars
<1>2. CASE FindPending \/ EnsureJob \/ FindReset
  BY <1>2 DEF FindPending, EnsureJob, FindReset, dbVars
<1>3. CASE ResetStale
  <2>1. PICK r \in stale : GiveBack(r, "PENDING")
    BY <1>3 DEF ResetStale, GiveBack
  <2>2. r \in RoundNumbers
    BY DEF TypeOK
  <2>3. QED BY <1>3, <2>1, <2>2 DEF ResetStale
<1>4. ASSUME NEW w \in Workers, Claim(w)
      PROVE  UNCHANGED graph /\ \E r \in RoundNumbers : MarkProcessing(r)
  BY <1>w, <1>4 DEF Claim, MarkProcessing
<1>5. ASSUME NEW w \in Workers, Release(w)
      PROVE  UNCHANGED graph /\ \E r \in RoundNumbers, to \in {"PENDING", "FAILED"} : GiveBack(r, to)
  <2>1. GiveBack(worker[w].round, IF FinalFailure(w) THEN "FAILED" ELSE "PENDING")
    BY <1>5 DEF Release, GiveBack
  <2>2. UNCHANGED graph
    BY <1>5 DEF Release
  <2>3. CASE FinalFailure(w)
    BY <1>w, <2>1, <2>2, <2>3
  <2>4. CASE ~FinalFailure(w)
    BY <1>w, <2>1, <2>2, <2>4
  <2>5. QED BY <2>3, <2>4
<1>6. ASSUME NEW w \in Workers, WorkerStep(w), ~Claim(w), ~Release(w), ~SaveRound(w)
      PROVE  UNCHANGED <<turn, stale, graph>>
  BY <1>6 DEF WorkerStep, TakeJob, ClaimRefused, Unclaimed, AiAnswers, SaveRefused, HandOver, EnqueueNext,
     FinishJob, dbVars
<1>7. ASSUME NEW w \in Workers, WorkerCallFails(w) \/ WorkerCrashes(w)
      PROVE  UNCHANGED <<turn, stale, graph>>
  BY <1>7 DEF WorkerCallFails, WorkerCrashes, dbVars
<1>8. ASSUME NEW r \in RoundNumbers, OrphanStalls(r) \/ BlockedWorkerStalls(r)
      PROVE  UNCHANGED <<turn, stale, graph>>
  BY <1>8 DEF OrphanStalls, BlockedWorkerStalls, JobStalls, dbVars
<1>9. CASE CancelInvocations \/ RemoveJobs \/ TerminatorFails
  BY <1>9 DEF CancelInvocations, RemoveJobs, TerminatorFails, dbVars
<1>10. CASE UNCHANGED vars
  BY <1>10 DEF vars, dbVars
<1>11. QED
  BY <1>1, <1>2, <1>3, <1>4, <1>5, <1>6, <1>7, <1>8, <1>9, <1>10 DEF Next, RecoveryStep

\* A turn that is analyzed, of a round or before it.
LEMMA AnalyzedTurnStays ==
  ASSUME TypeOK, [Next]_vars, NEW t \in Turns, turn[t] = "COMPLETED"
  PROVE  turn'[t] = "COMPLETED"
<1>1. ASSUME NEW r, NEW from, NEW to, Move(r, from, to), from # "COMPLETED"
      PROVE  turn'[t] = "COMPLETED"
  BY <1>1 DEF Move
<1>2. CASE InsertTurn \/ TerminateDebate
  BY <1>2 DEF InsertTurn, TerminateDebate, TypeOK
<1>3. QED
  BY <1>1, <1>2, TurnWriters DEF MarkProcessing, GiveBack, SaveRound, RestoreStale, RoundGoesStale

LEMMA PredecessorsStay ==
  ASSUME TypeOK, [Next]_vars, NEW r \in RoundNumbers, Predecessors(r)
  PROVE  Predecessors(r)'
BY AnalyzedTurnStays, TurnsOfRounds DEF Predecessors

\* A round in order, as the statements find it.
InOrder(r) ==
  /\ (\E t \in TurnsOf(r) : turn[t] \in {"PROCESSING", "COMPLETED"}) => Is(r, turn[2 * r]) /\ Predecessors(r)
  /\ r \in stale => Is(r, "PROCESSING")

LEMMA OrderByRound == RoundsInOrder <=> \A r \in RoundNumbers : InOrder(r)
BY DEF RoundsInOrder, InOrder, Predecessors

\* A statement that moves both turns of a round that may be worked on, or
\* takes it back, keeps the order of all rounds.
LEMMA MoveKeepsOrder ==
  ASSUME TypeOK, RoundsInOrder, NEW q \in RoundNumbers, NEW from \in Statuses, NEW to \in Statuses,
         Move(q, from, to), from # "COMPLETED",
         Is(q, from) \/ from = "PROCESSING" \/ ~\E t \in TurnsOf(q) : turn[t] = from,
         to \in {"PROCESSING", "COMPLETED"} => Predecessors(q) \/ ~\E t \in TurnsOf(q) : turn[t] = from,
         stale' = stale \ {q} \/ UNCHANGED stale \/ (Is(q, "PROCESSING")' /\ stale' \subseteq stale \cup {q}),
         q \in stale' => Is(q, "PROCESSING")'
  PROVE  RoundsInOrder'
<1>1. \A t \in Turns : t \notin TurnsOf(q) => turn'[t] = turn[t]
  BY DEF Move
<1>2. \A t \in TurnsOf(q) : turn'[t] = IF turn[t] = from THEN to ELSE turn[t]
  BY TurnsOfRounds DEF Move
<1>3. \A r \in RoundNumbers : InOrder(r)
  BY OrderByRound
<1>4. Is(q, from) \/ ~\E t \in TurnsOf(q) : turn[t] = from
  BY <1>3 DEF InOrder, Is, TurnsOf
<1>5. \A t \in Turns : turn[t] = "COMPLETED" => turn'[t] = "COMPLETED"
  BY <1>1, <1>2
<1>6. \A r \in RoundNumbers : Predecessors(r) => Predecessors(r)'
  BY <1>5, TurnsOfRounds DEF Predecessors
<1>7. InOrder(q)'
  <2>1. CASE Is(q, from)
    <3>1. \A t \in TurnsOf(q) : turn'[t] = to
      BY <1>2, <2>1 DEF Is
    <3>2. 2 * q \in TurnsOf(q)
      BY DEF TurnsOf
    <3>3. Is(q, turn[2 * q])'
      BY <3>1, <3>2 DEF Is
    <3>4. to \in {"PROCESSING", "COMPLETED"} => Predecessors(q)
      BY <2>1, <3>2 DEF Is
    <3>5. QED BY <1>6, <3>1, <3>3, <3>4 DEF InOrder
  <2>2. CASE ~\E t \in TurnsOf(q) : turn[t] = from
    <3>1. \A t \in TurnsOf(q) : turn'[t] = turn[t]
      BY <1>2, <2>2
    <3>2. 2 * q \in TurnsOf(q)
      BY DEF TurnsOf
    <3>3. QED BY <1>3, <1>6, <3>1, <3>2 DEF InOrder, Is
  <2>3. QED BY <1>4, <2>1, <2>2
<1>8. ASSUME NEW r \in RoundNumbers, r # q
      PROVE  InOrder(r)'
  <2>1. \A t \in TurnsOf(r) : turn'[t] = turn[t]
    BY <1>1, <1>8, TurnsOfRounds
  <2>2. 2 * r \in TurnsOf(r)
    BY DEF TurnsOf
  <2>3. r \in stale' => r \in stale
    BY <1>8
  <2>4. QED BY <1>3, <1>6, <2>1, <2>2, <2>3 DEF InOrder, Is
<1>9. (\A r \in RoundNumbers : InOrder(r))'
  BY <1>7, <1>8
<1>10. QED BY <1>9, OrderByRound DEF RoundsInOrder, InOrder, Predecessors

\* InsertTurn adds a turn to a round none of whose turns is worked on.
LEMMA InsertKeepsOrder ==
  ASSUME TypeOK, RoundsInOrder, InsertTurn
  PROVE  RoundsInOrder'
<1>1. PICK t \in Turns : turn[t] = "NONE" /\ turn' = [turn EXCEPT ![t] = "PENDING"]
  BY DEF InsertTurn
<1>2. \A u \in Turns : u # t => turn'[u] = turn[u]
  BY <1>1 DEF TypeOK
<1>3. turn'[t] = "PENDING" /\ UNCHANGED stale
  BY <1>1 DEF TypeOK, InsertTurn
<1>4. \A r \in RoundNumbers : InOrder(r)
  BY OrderByRound
<1>5. ASSUME NEW r \in RoundNumbers
      PROVE  InOrder(r)'
  <2>1. Predecessors(r) => Predecessors(r)'
    BY <1>1, <1>2, TurnsOfRounds DEF Predecessors
  <2>2. 2 * r \in TurnsOf(r) /\ TurnsOf(r) \subseteq Turns
    BY TurnsOfRounds DEF TurnsOf
  <2>3. CASE t \in TurnsOf(r)
    <3>1. ~\E u \in TurnsOf(r) : turn[u] \in {"PROCESSING", "COMPLETED"}
      BY <1>1, <1>4, <2>2, <2>3 DEF InOrder, Is
    <3>2. ~\E u \in TurnsOf(r) : turn'[u] \in {"PROCESSING", "COMPLETED"}
      BY <1>2, <1>3, <2>2, <3>1
    <3>3. r \notin stale
      BY <1>1, <1>4, <2>3 DEF InOrder, Is
    <3>4. QED BY <1>3, <3>2, <3>3 DEF InOrder
  <2>4. CASE t \notin TurnsOf(r)
    <3>1. \A u \in TurnsOf(r) : turn'[u] = turn[u]
      BY <1>2, <2>2, <2>4
    <3>2. QED BY <1>3, <1>4, <2>1, <2>2, <3>1 DEF InOrder, Is
  <2>5. QED BY <2>3, <2>4
<1>6. (\A r \in RoundNumbers : InOrder(r))'
  BY <1>5
<1>7. QED BY <1>6, OrderByRound DEF RoundsInOrder, InOrder, Predecessors

\* The termination fails every round that is worked on, and leaves no age.
LEMMA TerminateKeepsOrder ==
  ASSUME TypeOK, RoundsInOrder, TerminateDebate
  PROVE  RoundsInOrder'
<1>1. /\ \A t \in Turns : turn'[t] = IF turn[t] \in {"PENDING", "PROCESSING"} THEN "FAILED" ELSE turn[t]
      /\ stale' = {}
  BY DEF TerminateDebate
<1>2. \A r \in RoundNumbers : InOrder(r)
  BY OrderByRound
<1>3. ASSUME NEW r \in RoundNumbers
      PROVE  InOrder(r)'
  <2>1. Predecessors(r) => Predecessors(r)'
    BY <1>1, TurnsOfRounds DEF Predecessors
  <2>2. 2 * r \in TurnsOf(r) /\ TurnsOf(r) \subseteq Turns
    BY TurnsOfRounds DEF TurnsOf
  <2>3. (\E t \in TurnsOf(r) : turn'[t] \in {"PROCESSING", "COMPLETED"}) =>
          \E t \in TurnsOf(r) : turn[t] \in {"PROCESSING", "COMPLETED"} /\ turn[t] = "COMPLETED"
    BY <1>1, <2>2
  <2>4. QED BY <1>1, <1>2, <2>1, <2>2, <2>3 DEF InOrder, Is
<1>4. (\A r \in RoundNumbers : InOrder(r))'
  BY <1>3
<1>5. QED BY <1>4, OrderByRound DEF RoundsInOrder, InOrder, Predecessors

LEMMA RoundsInOrderStep ==
  ASSUME OrderInv, [Next]_vars
  PROVE  RoundsInOrder'
<1>t. TypeOK /\ RoundsInOrder /\ \A r \in RoundNumbers : InOrder(r)
  BY OrderByRound DEF OrderInv
<1>1. CASE UNCHANGED <<turn, stale, graph>>
  BY <1>1, <1>t DEF RoundsInOrder, Is
<1>2. ASSUME NEW r \in RoundNumbers, MarkProcessing(r)
      PROVE  RoundsInOrder'
  <2>1. Is(r, "PENDING") /\ Predecessors(r) /\ Move(r, "PENDING", "PROCESSING") /\ stale' = stale \ {r}
    BY <1>2 DEF MarkProcessing, Ready
  <2>2. QED BY <1>t, <2>1, MoveKeepsOrder DEF Statuses
<1>3. ASSUME NEW r \in RoundNumbers, NEW to \in {"PENDING", "FAILED"}, GiveBack(r, to)
      PROVE  RoundsInOrder'
  <2>1. Move(r, "PROCESSING", to) /\ stale' = stale \ {r}
    BY <1>3 DEF GiveBack
  <2>2. QED BY <1>t, <2>1, MoveKeepsOrder DEF Statuses
<1>4. ASSUME NEW w \in Workers, SaveRound(w)
      PROVE  RoundsInOrder'
  <2> DEFINE r == worker[w].round
  <2>1. r \in RoundNumbers /\ Is(r, "PROCESSING") /\ Move(r, "PROCESSING", "COMPLETED") /\ stale' = stale \ {r}
    BY <1>4, <1>t DEF SaveRound, MaySave, TypeOK, WorkerRecords
  <2>2. Predecessors(r)
    BY <1>t, <2>1 DEF InOrder, Is, TurnsOf
  <2>3. QED BY <1>t, <2>1, <2>2, MoveKeepsOrder DEF Statuses
<1>5. CASE RestoreStale
  <2>1. PICK r \in RoundNumbers :
          /\ Begun(r) /\ Move(r, "PENDING", "PROCESSING")
          /\ stale' = IF Is(r, "PENDING") THEN stale \cup {r} ELSE stale
    BY <1>5 DEF RestoreStale, RecoveryAt, OrderInv, RestoresBegun, TypeOK, RecoveryRecords
  <2>2. Is(r, "PENDING") \/ ~\E t \in TurnsOf(r) : turn[t] = "PENDING"
    BY <2>1 DEF Begun, Is
  <2>3. CASE Is(r, "PENDING")
    <3>1. Is(r, "PROCESSING")'
      BY <2>1, <2>3, TurnsOfRounds DEF Is, Move
    <3>2. stale' = stale \cup {r} /\ Predecessors(r)
      BY <2>1, <2>3 DEF Begun
    <3>3. QED BY <1>t, <2>1, <2>3, <3>1, <3>2, MoveKeepsOrder DEF Statuses
  <2>4. CASE ~Is(r, "PENDING")
    <3>1. \A t \in TurnsOf(r) : turn[t] # "PENDING"
      BY <2>2, <2>4
    <3>2. turn' = turn
      BY <1>t, <2>1, <3>1 DEF Move, TypeOK
    <3>3. stale' = stale
      BY <2>1, <2>4
    <3>4. QED BY <1>t, <3>2, <3>3 DEF RoundsInOrder, Is
  <2>5. QED BY <2>3, <2>4
<1>6. ASSUME NEW r \in RoundNumbers, RoundGoesStale(r)
      PROVE  RoundsInOrder'
  BY <1>6, <1>t DEF RoundGoesStale, RoundsInOrder, Is
<1>7. QED
  BY <1>t, <1>1, <1>2, <1>3, <1>4, <1>5, <1>6, InsertKeepsOrder, TerminateKeepsOrder, TurnWriters

\* A round that was claimed once remains so: its turns move together.
LEMMA BegunStays ==
  ASSUME TypeOK, [Next]_vars, NEW r \in RoundNumbers, Begun(r)
  PROVE  Begun(r)'
<1>0. 2 * r \in TurnsOf(r) /\ TurnsOf(r) \subseteq Turns /\ Predecessors(r)'
  BY TurnsOfRounds, PredecessorsStay DEF TurnsOf, Begun
<1>1. ASSUME NEW q \in RoundNumbers, NEW from, NEW to \in Statuses, Move(q, from, to)
      PROVE  Begun(r)'
  <2>1. \A t \in TurnsOf(r) : turn'[t] = IF t \in TurnsOf(q) /\ turn[t] = from THEN to ELSE turn[t]
    BY <1>0, <1>1 DEF Move
  <2>2. CASE q = r
    BY <1>0, <2>1, <2>2 DEF Begun
  <2>3. CASE q # r
    BY <1>0, <2>1, <2>3, TurnsOfRounds DEF Begun
  <2>4. QED BY <2>2, <2>3
<1>2. CASE InsertTurn
  <2>1. PICK t \in Turns : turn[t] = "NONE" /\ turn' = [turn EXCEPT ![t] = "PENDING"]
    BY <1>2 DEF InsertTurn
  <2>2. t \notin TurnsOf(r)
    BY <2>1 DEF Begun, Statuses
  <2>3. \A u \in TurnsOf(r) : turn'[u] = turn[u]
    BY <1>0, <2>1, <2>2 DEF TypeOK
  <2>4. QED BY <1>0, <2>3 DEF Begun
<1>3. CASE TerminateDebate
  BY <1>0, <1>3 DEF TerminateDebate, Begun, Statuses
<1>4. CASE UNCHANGED turn
  BY <1>0, <1>4 DEF Begun
<1>5. recovery.round \in RoundNumbers /\ \A w \in Workers : worker[w].round \in RoundNumbers
  BY DEF TypeOK, RecoveryRecords, WorkerRecords
<1>6. QED
  BY <1>1, <1>2, <1>3, <1>4, <1>5, TurnWriters
  DEF MarkProcessing, GiveBack, SaveRound, RestoreStale, RoundGoesStale, Statuses

\* A poll that may restore a round has reset it, or goes on with one that it
\* has reset.
LEMMA RestoringPoll ==
  ASSUME TypeOK, [Next]_vars, recovery'.pc \in {"reset", "reensure", "restore"}
  PROVE  \/ recovery.pc \in {"reset", "reensure", "restore"} /\ recovery'.round = recovery.round
         \/ recovery'.round \in stale
<1> USE DEF RecoveryAt, IdleRecovery
<1>1. CASE FindPending \/ FindReset \/ EnsureJob \/ RestoreStale \/ EnsureJobFails \/ RecoveryFails
  BY <1>1 DEF FindPending, FindReset, EnsureJob, RestoreStale, EnsureJobFails, RecoveryFails, TypeOK, RecoveryRecords
<1>2. CASE ResetStale
  BY <1>2 DEF ResetStale
<1>3. CASE UNCHANGED recovery
  BY <1>3
<1>4. ASSUME NEW w \in Workers, WorkerStep(w) \/ WorkerCallFails(w) \/ WorkerCrashes(w)
      PROVE  UNCHANGED recovery
  BY <1>4 DEF WorkerStep, TakeJob, Claim, ClaimRefused, Unclaimed, AiAnswers, SaveRound, SaveRefused, HandOver,
     Release, EnqueueNext, FinishJob, WorkerCallFails, WorkerCrashes
<1>5. CASE InsertTurn \/ EnqueueTurn \/ EnqueueTurnFails
  BY <1>3, <1>5 DEF InsertTurn, EnqueueTurn, EnqueueTurnFails
<1>6. ASSUME NEW r \in RoundNumbers, OrphanStalls(r) \/ BlockedWorkerStalls(r) \/ RoundGoesStale(r)
      PROVE  UNCHANGED recovery
  BY <1>6 DEF OrphanStalls, BlockedWorkerStalls, JobStalls, RoundGoesStale, procVars
<1>7. CASE TerminateDebate \/ CancelInvocations \/ RemoveJobs \/ TerminatorFails
  BY <1>3, <1>7 DEF TerminateDebate, CancelInvocations, RemoveJobs, TerminatorFails
<1>8. CASE UNCHANGED vars
  BY <1>3, <1>8 DEF vars, procVars
<1>9. QED
  BY <1>1, <1>2, <1>3, <1>4, <1>5, <1>6, <1>7, <1>8 DEF Next, RecoveryStep

LEMMA RestoresBegunStep ==
  ASSUME OrderInv, [Next]_vars
  PROVE  RestoresBegun'
<1>1. SUFFICES ASSUME recovery'.pc \in {"reset", "reensure", "restore"}
               PROVE  Begun(recovery.round)'
  BY DEF RestoresBegun, Begun, Predecessors
<1>2. PICK r \in RoundNumbers : recovery'.round = r /\ Begun(r)
  <2>1. CASE recovery.pc \in {"reset", "reensure", "restore"} /\ recovery'.round = recovery.round
    BY <2>1 DEF OrderInv, RestoresBegun, TypeOK, RecoveryRecords
  <2>2. CASE recovery'.round \in stale
    <3>1. PICK r \in RoundNumbers : recovery'.round = r /\ r \in stale
      BY <2>2 DEF OrderInv, TypeOK
    <3>2. Is(r, "PROCESSING") /\ 2 * r \in TurnsOf(r)
      BY <3>1 DEF OrderInv, RoundsInOrder, TurnsOf
    <3>3. Predecessors(r)
      BY <3>1, <3>2 DEF OrderInv, RoundsInOrder, Is, Predecessors
    <3>4. QED BY <3>1, <3>2, <3>3 DEF Begun, Is, Statuses
  <2>3. QED BY <1>1, <2>1, <2>2, RestoringPoll DEF OrderInv
<1>3. Begun(r)'
  BY <1>2, BegunStays DEF OrderInv
<1>4. QED BY <1>2, <1>3 DEF Begun, Predecessors, TurnsOf

\* Rounds are claimed and analyzed in order and as a whole, however resets,
\* restorations, late workers and the termination interleave.
THEOREM RoundsStayInOrder == Spec => []RoundsInOrder
<1>1. Init => OrderInv
  <2>1. Init => RoundsInOrder
    BY TurnsOfRounds DEF Init, RoundsInOrder
  <2>2. Init => RestoresBegun
    BY DEF Init, RestoresBegun, IdleRecovery
  <2>3. QED BY <2>1, <2>2, TypeInit DEF OrderInv
<1>2. OrderInv /\ [Next]_vars => OrderInv'
  BY TypeStep, RoundsInOrderStep, RestoresBegunStep DEF OrderInv
<1>3. OrderInv => RoundsInOrder
  BY DEF OrderInv
<1>4. QED BY <1>1, <1>2, <1>3, PTL DEF Spec

\* No step takes back an analyzed turn: every statement asks for the status
\* it replaces.
THEOREM AnalyzedTurnsStay == Spec => AnalyzedStays
<1>1. TypeOK /\ [Next]_vars => [\A t \in Turns : turn[t] = "COMPLETED" => turn'[t] = "COMPLETED"]_vars
  BY AnalyzedTurnStays
<1>2. QED BY <1>1, AnalyzerTypeCorrect, PTL DEF Spec, AnalyzedStays

-----------------------------------------------------------------------------
(* The graph.                                                               *)

\* The n-th round saved is round n.
GraphInOrder == \A i \in 1..Len(graph) : graph[i] = i

GraphInv == OrderInv /\ GraphIsWhole

LEMMA WholeGraphInOrder == ASSUME GraphIsWhole PROVE GraphInOrder
BY DEF GraphIsWhole, GraphInOrder

LEMMA RangeOfGraph ==
  ASSUME TypeOK, GraphInOrder
  PROVE  Range(graph) = 1..Len(graph) /\ Len(graph) \in Nat
BY DEF TypeOK, GraphInOrder, Range

\* Only the transaction that saves a round makes it analyzed or touches the
\* graph.
LEMMA OnlySavingAnalyzes ==
  ASSUME TypeOK, [Next]_vars, ~\E w \in Workers : SaveRound(w)
  PROVE  UNCHANGED graph /\ \A t \in Turns : turn'[t] = "COMPLETED" <=> turn[t] = "COMPLETED"
<1>1. UNCHANGED graph
  BY TurnWriters DEF InsertTurn, RestoreStale, RoundGoesStale, TerminateDebate
<1>2. ASSUME NEW r, NEW from, NEW to, Move(r, from, to), to # "COMPLETED", NEW t \in Turns, turn'[t] = "COMPLETED"
      PROVE  turn[t] = "COMPLETED"
  BY <1>2 DEF Move
<1>3. ASSUME NEW t \in Turns, turn'[t] = "COMPLETED", InsertTurn \/ TerminateDebate \/ UNCHANGED turn
      PROVE  turn[t] = "COMPLETED"
  BY <1>3 DEF InsertTurn, TerminateDebate, TypeOK
<1>4. ASSUME NEW t \in Turns, turn'[t] = "COMPLETED"
      PROVE  turn[t] = "COMPLETED"
  BY <1>2, <1>3, <1>4, TurnWriters DEF MarkProcessing, GiveBack, RestoreStale, RoundGoesStale
<1>5. QED BY <1>1, <1>4, AnalyzedTurnStays

\* A worker that goes anywhere but to the AI call or the transaction.
LEMMA NotAnalyzing ==
  ASSUME TypeOK, NEW v \in Workers, NEW w \in Workers, NEW pc, pc \notin {"asking", "saving"},
         WorkerGoto(v, pc) \/ WorkerEnds(v, pc) \/ worker' = [worker EXCEPT ![v] = IdleWorker],
         worker'[w].pc \in {"asking", "saving"}
  PROVE  worker'[w] = worker[w]
<1>1. worker \in [Workers -> WorkerRecords] /\ worker[v] \in WorkerRecords
  BY DEF TypeOK
<1>2. CASE WorkerGoto(v, pc)
  BY <1>1, <1>2 DEF WorkerGoto, WorkerRecords
<1>3. CASE WorkerEnds(v, pc)
  BY <1>1, <1>3 DEF WorkerEnds, IdleWorker
<1>4. CASE worker' = [worker EXCEPT ![v] = IdleWorker]
  BY <1>1, <1>4 DEF IdleWorker
<1>5. QED BY <1>2, <1>3, <1>4

\* Who asks the AI or saves has claimed its round with the analyzed ones
\* before it.
LEMMA Analyzing ==
  ASSUME TypeOK, [Next]_vars, NEW w \in Workers, worker'[w].pc \in {"asking", "saving"}
  PROVE  /\ worker'[w].round = worker[w].round
         /\ worker[w].pc \in {"asking", "saving"} \/ Predecessors(worker[w].round)
<1>w. worker \in [Workers -> WorkerRecords]
  BY DEF TypeOK
<1>1. ASSUME NEW v \in Workers, WorkerCallFails(v) \/ WorkerCrashes(v)
      PROVE  worker'[w] = worker[w]
  BY <1>1, NotAnalyzing DEF WorkerCallFails, WorkerCrashes
<1>2. ASSUME NEW v \in Workers, NEW r \in RoundNumbers, TakeJob(v, r)
      PROVE  worker'[w] = worker[w]
  BY <1>w, <1>2 DEF TakeJob, IdleWorker
<1>3. ASSUME NEW v \in Workers,
             ClaimRefused(v) \/ Unclaimed(v) \/ SaveRound(v) \/ SaveRefused(v) \/ HandOver(v) \/ Release(v)
               \/ EnqueueNext(v) \/ FinishJob(v)
      PROVE  worker'[w] = worker[w]
  <2>1. CASE ClaimRefused(v) \/ SaveRound(v) \/ HandOver(v) \/ EnqueueNext(v) \/ FinishJob(v)
    BY <2>1, NotAnalyzing DEF ClaimRefused, SaveRound, HandOver, EnqueueNext, FinishJob
  <2>2. CASE Unclaimed(v)
    BY <2>2, NotAnalyzing DEF Unclaimed
  <2>3. CASE SaveRefused(v) \/ Release(v)
    BY <2>3, NotAnalyzing DEF SaveRefused, Release
  <2>4. QED BY <1>3, <2>1, <2>2, <2>3
<1>4. ASSUME NEW v \in Workers, Claim(v)
      PROVE  \/ worker'[w] = worker[w]
             \/ worker'[w].round = worker[w].round /\ Predecessors(worker[w].round)
  BY <1>w, <1>4 DEF Claim, Ready, WorkerGoto, WorkerRecords
<1>5. ASSUME NEW v \in Workers, AiAnswers(v)
      PROVE  worker'[w].round = worker[w].round /\ worker[w].pc \in {"asking", "saving"}
  BY <1>w, <1>5 DEF AiAnswers, WorkerGoto, WorkerAt, WorkerRecords
<1>6. CASE CancelInvocations
  BY <1>w, <1>6 DEF CancelInvocations, WorkerRecords
<1>7. CASE UNCHANGED worker
  BY <1>7
<1>8. ASSUME \/ InsertTurn \/ EnqueueTurn \/ EnqueueTurnFails \/ RecoveryStep \/ EnsureJobFails \/ RecoveryFails
             \/ TerminateDebate \/ RemoveJobs \/ TerminatorFails \/ UNCHANGED vars
      PROVE  UNCHANGED worker
  BY <1>8 DEF InsertTurn, EnqueueTurn, EnqueueTurnFails, RecoveryStep, FindPending, EnsureJob, ResetStale, FindReset,
     RestoreStale, EnsureJobFails, RecoveryFails, TerminateDebate, RemoveJobs, TerminatorFails, vars, procVars
<1>9. ASSUME NEW r \in RoundNumbers, OrphanStalls(r) \/ BlockedWorkerStalls(r) \/ RoundGoesStale(r)
      PROVE  UNCHANGED worker
  BY <1>9 DEF OrphanStalls, BlockedWorkerStalls, JobStalls, RoundGoesStale, procVars
<1>10. QED
  BY <1>1, <1>2, <1>3, <1>4, <1>5, <1>6, <1>7, <1>8, <1>9 DEF Next, WorkerStep

\* What is saved is the round after the graph's last.
LEMMA SavesTheNext ==
  ASSUME GraphInv, NEW w \in Workers, SaveRound(w)
  PROVE  worker[w].round = Len(graph) + 1 /\ worker[w].round \in RoundNumbers
<1> DEFINE r == worker[w].round
<1>1. r \in RoundNumbers /\ Is(r, "PROCESSING") /\ worker[w].pc = "saving"
  BY DEF SaveRound, MaySave, WorkerAt, GraphInv, OrderInv, TypeOK, WorkerRecords
<1>2. r \notin Range(graph)
  BY <1>1 DEF GraphInv, GraphIsWhole, Is, TurnsOf
<1>3. 1..(r - 1) \subseteq Range(graph)
  BY <1>1 DEF GraphInv, GraphIsWhole
<1>4. r \in Nat /\ 1 <= r /\ Len(graph) \in Nat /\ r \notin 1..Len(graph) /\ 1..(r - 1) \subseteq 1..Len(graph)
  BY <1>1, <1>2, <1>3, RangeOfGraph, WholeGraphInOrder, AnalyzerAssumption DEF GraphInv, OrderInv, RoundNumbers
<1>5. r - 1 <= Len(graph)
  <2>1. CASE r = 1
    BY <1>4, <2>1
  <2>2. CASE r # 1
    <3>1. r - 1 \in 1..(r - 1)
      BY <1>4, <2>2
    <3>2. QED BY <1>4, <3>1
  <2>3. QED BY <2>1, <2>2
<1>6. QED BY <1>1, <1>4, <1>5

LEMMA GraphInvStep ==
  ASSUME GraphInv, [Next]_vars
  PROVE  GraphIsWhole'
<1>t. TypeOK /\ TypeOK' /\ graph \in Seq(RoundNumbers)
  BY TypeStep DEF GraphInv, OrderInv, TypeOK
<1>r. \A r \in RoundNumbers : TurnsOf(r) \subseteq Turns
  BY TurnsOfRounds
<1>1. GraphInOrder' /\ Range(graph) \subseteq Range(graph)'
      /\ \A r \in RoundNumbers : Is(r, "COMPLETED")' <=> r \in Range(graph)'
  <2>1. CASE ~\E w \in Workers : SaveRound(w)
    <3>1. UNCHANGED graph /\ \A t \in Turns : turn'[t] = "COMPLETED" <=> turn[t] = "COMPLETED"
      BY <1>t, <2>1, OnlySavingAnalyzes
    <3>2. \A r \in RoundNumbers : Is(r, "COMPLETED")' <=> Is(r, "COMPLETED")
      BY <1>r, <3>1 DEF Is
    <3>3. QED BY <3>1, <3>2 DEF GraphInv, GraphInOrder, GraphIsWhole
  <2>2. ASSUME NEW w \in Workers, SaveRound(w)
        PROVE  GraphInOrder' /\ Range(graph) \subseteq Range(graph)'
               /\ \A r \in RoundNumbers : Is(r, "COMPLETED")' <=> r \in Range(graph)'
    <3>1. PICK q \in RoundNumbers : q = Len(graph) + 1 /\ graph' = Append(graph, q)
                                  /\ Is(q, "PROCESSING") /\ Move(q, "PROCESSING", "COMPLETED")
      BY <2>2, SavesTheNext DEF SaveRound, MaySave
    <3>2. Len(graph') = Len(graph) + 1 /\ Len(graph) \in Nat
          /\ \A i \in 1..Len(graph') : graph'[i] = IF i <= Len(graph) THEN graph[i] ELSE q
      BY <1>t, <3>1
    <3>3. GraphInOrder'
      BY <3>1, <3>2 DEF GraphInv, GraphIsWhole, GraphInOrder
    <3>4. Range(graph) = 1..Len(graph) /\ Range(graph)' = 1..(Len(graph) + 1)
      BY <1>t, <3>2, <3>3, RangeOfGraph, WholeGraphInOrder DEF GraphInv, TypeOK, GraphInOrder, Range
    <3>5. \A t \in TurnsOf(q) : turn'[t] = "COMPLETED"
      BY <1>r, <3>1 DEF Is, Move
    <3>6. ASSUME NEW r \in RoundNumbers, r # q
          PROVE  Is(r, "COMPLETED")' <=> Is(r, "COMPLETED")
      BY <1>r, <3>1, <3>6, TurnsOfRounds DEF Is, Move
    <3>7. ASSUME NEW r \in RoundNumbers
          PROVE  Is(r, "COMPLETED")' <=> r \in Range(graph)'
      <4>1. CASE r = q
        BY <3>1, <3>2, <3>4, <3>5, <4>1 DEF Is
      <4>2. CASE r # q
        <5>1. Is(r, "COMPLETED") <=> r \in 1..Len(graph)
          BY <3>4 DEF GraphInv, GraphIsWhole
        <5>2. r \in 1..Len(graph) <=> r \in 1..(Len(graph) + 1)
          BY <3>1, <3>2, <4>2, AnalyzerAssumption DEF RoundNumbers
        <5>3. QED BY <3>4, <3>6, <4>2, <5>1, <5>2
      <4>3. QED BY <4>1, <4>2
    <3>8. Range(graph) \subseteq Range(graph)'
      BY <3>2, <3>4
    <3>9. QED BY <3>3, <3>7, <3>8
  <2>3. QED BY <2>1, <2>2
<1>2. ASSUME NEW w \in Workers, worker'[w].pc \in {"asking", "saving"}
      PROVE  1..(worker'[w].round - 1) \subseteq Range(graph)'
  <2>1. worker'[w].round = worker[w].round /\ worker[w].round \in RoundNumbers
    BY <1>t, <1>2, Analyzing DEF TypeOK, WorkerRecords
  <2>2. CASE worker[w].pc \in {"asking", "saving"}
    BY <1>1, <2>1, <2>2 DEF GraphInv, GraphIsWhole
  <2>3. CASE Predecessors(worker[w].round)
    <3>1. ASSUME NEW q \in 1..(worker[w].round - 1)
          PROVE  q \in Range(graph)
      <4>1. q \in RoundNumbers /\ q < worker[w].round
        BY <2>1, AnalyzerAssumption DEF RoundNumbers
      <4>2. Is(q, "COMPLETED")
        BY <2>1, <2>3, <4>1, TurnsOfRounds DEF Predecessors, Is
      <4>3. QED BY <4>1, <4>2 DEF GraphInv, GraphIsWhole
    <3>2. QED BY <1>1, <2>1, <3>1
  <2>4. QED BY <1>t, <1>2, <2>2, <2>3, Analyzing
<1>3. QED BY <1>1, <1>2 DEF GraphIsWhole, GraphInOrder

LEMMA GraphInvariant == Spec => []GraphInv
<1>1. Init => GraphInv
  <2>1. Init => OrderInv
    <3>1. Init => RoundsInOrder
      BY TurnsOfRounds DEF Init, RoundsInOrder
    <3>2. Init => RestoresBegun
      BY DEF Init, RestoresBegun, IdleRecovery
    <3>3. QED BY <3>1, <3>2, TypeInit DEF OrderInv
  <2>2. Init => Range(graph) = {}
    BY DEF Init, Outcome!Init, Range
  <2>3. Init => GraphInOrder
    BY DEF Init, Outcome!Init, GraphInOrder
  <2>4. Init => GraphIsWhole
    BY <2>2, <2>3, TurnsOfRounds DEF Init, GraphInOrder, GraphIsWhole, Is, TurnsOf, IdleWorker
  <2>5. QED BY <2>1, <2>4 DEF GraphInv
<1>2. GraphInv /\ [Next]_vars => GraphInv'
  BY TypeStep, RoundsInOrderStep, RestoresBegunStep, GraphInvStep DEF GraphInv, OrderInv
<1>3. QED BY <1>1, <1>2, PTL DEF Spec

\* The graph holds exactly the analyzed rounds, each once and in order, and
\* who analyzes finds all the earlier ones in it.
THEOREM GraphStaysWhole == Spec => []GraphIsWhole
BY GraphInvariant, PTL DEF GraphInv

-----------------------------------------------------------------------------
(* The refinement.                                                          *)

\* Only the termination ends the debate, and no step but the saving of a
\* round touches the graph.
LEMMA DebateEnds ==
  ASSUME TypeOK, [Next]_vars
  PROVE  UNCHANGED debate \/ TerminateDebate
<1>1. ASSUME NEW w \in Workers, WorkerStep(w) \/ WorkerCallFails(w) \/ WorkerCrashes(w)
      PROVE  UNCHANGED debate
  BY <1>1 DEF WorkerStep, TakeJob, Claim, ClaimRefused, Unclaimed, AiAnswers, SaveRound, SaveRefused, HandOver,
     Release, EnqueueNext, FinishJob, WorkerCallFails, WorkerCrashes, dbVars
<1>2. ASSUME NEW r \in RoundNumbers, OrphanStalls(r) \/ BlockedWorkerStalls(r) \/ RoundGoesStale(r)
      PROVE  UNCHANGED debate
  BY <1>2 DEF OrphanStalls, BlockedWorkerStalls, JobStalls, RoundGoesStale, dbVars
<1>3. ASSUME \/ InsertTurn \/ EnqueueTurn \/ EnqueueTurnFails \/ RecoveryStep \/ EnsureJobFails \/ RecoveryFails
             \/ CancelInvocations \/ RemoveJobs \/ TerminatorFails \/ UNCHANGED vars
      PROVE  UNCHANGED debate
  BY <1>3 DEF InsertTurn, EnqueueTurn, EnqueueTurnFails, RecoveryStep, FindPending, EnsureJob, ResetStale, FindReset,
     RestoreStale, EnsureJobFails, RecoveryFails, CancelInvocations, RemoveJobs, TerminatorFails, vars, dbVars
<1>4. QED BY <1>1, <1>2, <1>3 DEF Next

\* The Analyzer implements AnalysisOutcome: a step adds the next round to the
\* graph of a live debate, ends the debate, or changes neither.
THEOREM AnalyzerFollowsAnalysis == Spec => FollowsAnalysis
<1>1. Init => Outcome!Init
  BY DEF Init
<1>2. GraphInv /\ [Next]_vars => [Outcome!SaveRound \/ Outcome!Terminate]_<<debate, graph>>
  <2> SUFFICES ASSUME GraphInv, [Next]_vars
               PROVE  [Outcome!SaveRound \/ Outcome!Terminate]_<<debate, graph>>
    OBVIOUS
  <2>t. TypeOK
    BY DEF GraphInv, OrderInv
  <2>1. ASSUME NEW w \in Workers, SaveRound(w)
        PROVE  Outcome!SaveRound
    <3>1. worker[w].round = Len(graph) + 1 /\ worker[w].round \in RoundNumbers
      BY <2>1, SavesTheNext
    <3>2. Len(graph) < Rounds
      BY <2>t, <3>1, AnalyzerAssumption DEF RoundNumbers, TypeOK
    <3>3. QED BY <2>1, <3>1, <3>2 DEF SaveRound, MaySave, Outcome!SaveRound
  <2>2. CASE TerminateDebate
    BY <2>2 DEF TerminateDebate, Outcome!Terminate
  <2>3. CASE ~TerminateDebate /\ ~\E w \in Workers : SaveRound(w)
    BY <2>t, <2>3, OnlySavingAnalyzes, DebateEnds
  <2>4. QED BY <2>1, <2>2, <2>3
<1>3. QED BY <1>1, <1>2, GraphInvariant, PTL DEF Spec, FollowsAnalysis, Outcome!Spec
=============================================================================
