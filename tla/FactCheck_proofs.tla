-------------------------- MODULE FactCheck_proofs --------------------------
(***************************************************************************)
(* For any number of workers, attempts and faults: the rows of a batch     *)
(* agree and the fact check implements FactCheckOutcome.  StagesAgree is   *)
(* inductive with the types: every transaction looks at the rows it        *)
(* changes, so that who holds a job or a claim does not matter.            *)
(***************************************************************************)
EXTENDS FactCheck, TLAPS

RowTypes ==
  /\ debate \in {"LIVE", "FAILED"}
  /\ batch \in TaskStatuses
  /\ task \in [Stages -> TaskStatuses \cup {"NONE"}]
  /\ stale \in [Stages -> BOOLEAN]
  /\ snapshot \in BOOLEAN /\ results \in BOOLEAN

WorkerTypes == worker \in [Workers -> WorkerRecords]
CallerTypes == caller \in [Callers -> CallerRecords]
JobTypes == job \in [Stages -> Queue!Jobs]
TerminatorTypes == terminator \in [pc : {"idle", "ended", "cancelled"}, listed : SUBSET Stages]

LEMMA TypeParts ==
  /\ TypeOK <=> RowTypes /\ WorkerTypes /\ CallerTypes /\ JobTypes /\ TerminatorTypes /\ faults \in 0..MaxFaults
  /\ TypeOK' <=> (RowTypes /\ WorkerTypes /\ CallerTypes /\ JobTypes /\ TerminatorTypes /\ faults \in 0..MaxFaults)'
BY DEF TypeOK, RowTypes, WorkerTypes, CallerTypes, JobTypes, TerminatorTypes

LEMMA TypeInit == Init => TypeOK
<1> SUFFICES ASSUME Init PROVE TypeOK
  OBVIOUS
<1>1. RowTypes
  BY DEF Init, RowTypes, Outcome!Init, Tasks, Stages, TaskStatuses
<1>2. WorkerTypes
  BY FactCheckAssumption DEF Init, WorkerTypes, IdleWorker, WorkerRecords, WorkerPcs, Stages
<1>3. CallerTypes
  BY DEF Init, CallerTypes, IdleCaller, CallerRecords, Stages
<1>4. JobTypes
  BY FactCheckAssumption DEF Init, JobTypes, Queue!NoJob, Queue!Idle, Queue!Jobs, Queue!JobStates
<1>5. TerminatorTypes
  BY DEF Init, TerminatorTypes, IdleTerminator
<1>6. QED BY <1>1, <1>2, <1>3, <1>4, <1>5, TypeParts, FactCheckAssumption DEF Init

-----------------------------------------------------------------------------
(* What the steps have in common.                                           *)

\* Whatever a queue service, BullMQ or the clean-up makes of a job is a job.
LEMMA JobMoves ==
  ASSUME NEW j \in Queue!Jobs
  PROVE  /\ Queue!Ensured(j) \in Queue!Jobs /\ Queue!Overtaken(j) \subseteq Queue!Jobs
         /\ (\A w \in Workers : Queue!Taken(j, w) \in Queue!Jobs) /\ Queue!Completed(j) \in Queue!Jobs
         /\ Queue!Thrown(j) \in Queue!Jobs /\ Queue!Stalled(j) \subseteq Queue!Jobs
         /\ Queue!Removed(j) \in Queue!Jobs
<1> USE FactCheckAssumption
<1>1. ASSUME NEW s \in Queue!JobStates, NEW n \in 0..Attempts PROVE Queue!Idle(s, n) \in Queue!Jobs
  BY DEF Queue!Idle, Queue!Jobs
<1>2. j.state \in Queue!JobStates /\ j.made \in 0..Attempts
  BY DEF Queue!Jobs
<1>3. ASSUME NEW n \in 0..Attempts PROVE Queue!Queued(n) \in Queue!Jobs
  BY <1>1 DEF Queue!Queued, Queue!JobStates
<1>4. Queue!NoJob \in Queue!Jobs
  BY <1>1 DEF Queue!NoJob, Queue!JobStates
<1>5. Queue!Ensured(j) \in Queue!Jobs
  BY <1>2, <1>3 DEF Queue!Ensured
<1>6. Queue!Overtaken(j) \subseteq Queue!Jobs
  BY <1>4 DEF Queue!Overtaken
<1>7. \A w \in Workers : Queue!Taken(j, w) \in Queue!Jobs
  BY DEF Queue!Taken, Queue!Jobs, Queue!JobStates
<1>8. Queue!Completed(j) \in Queue!Jobs
  BY <1>1, <1>2 DEF Queue!Completed, Queue!JobStates
<1>9. Queue!Thrown(j) \in Queue!Jobs
  <2>1. j.made + 1 < Attempts => j.made + 1 \in 0..Attempts
    BY <1>2
  <2>2. Attempts \in 0..Attempts /\ "failed" \in Queue!JobStates
    BY DEF Queue!JobStates
  <2>3. QED BY <1>1, <1>3, <2>1, <2>2 DEF Queue!Thrown
<1>10. Queue!Stalled(j) \subseteq Queue!Jobs
  BY <1>1, <1>2, <1>3 DEF Queue!Stalled, Queue!JobStates
<1>11. Queue!Removed(j) \in Queue!Jobs
  BY <1>4 DEF Queue!Removed
<1>12. QED BY <1>5, <1>6, <1>7, <1>8, <1>9, <1>10, <1>11

\* A worker that goes on, ends its attempt or is gone.
LEMMA WorkerMoves ==
  ASSUME WorkerTypes, NEW w \in Workers,
         \/ \E pc \in WorkerPcs : WorkerGoto(w, pc) \/ WorkerEnds(w, pc)
         \/ worker' = [worker EXCEPT ![w] = IdleWorker]
         \/ UNCHANGED worker
  PROVE  WorkerTypes'
<1> USE FactCheckAssumption DEF WorkerTypes
<1>0. 0 \in 0..Attempts /\ "idle" \in WorkerPcs /\ "GROUNDING" \in Stages
  BY DEF WorkerPcs, Stages
<1>1. ASSUME NEW pc \in WorkerPcs, WorkerGoto(w, pc) PROVE WorkerTypes'
  BY <1>1 DEF WorkerGoto, WorkerRecords
<1>2. ASSUME NEW pc \in WorkerPcs, WorkerEnds(w, pc) PROVE WorkerTypes'
  <2>1. [worker[w] EXCEPT !.pc = pc, !.made = 0] \in WorkerRecords
    BY <1>0 DEF WorkerRecords
  <2>2. QED BY <1>2, <2>1 DEF WorkerEnds
<1>3. IdleWorker \in WorkerRecords
  BY <1>0 DEF IdleWorker, WorkerRecords
<1>4. QED BY <1>1, <1>2, <1>3

\* A task that is written, and the two tasks of a kept evidence.
LEMMA TaskWritten ==
  ASSUME RowTypes, NEW st \in Stages, NEW s \in TaskStatuses, SetTask(st, s)
  PROVE  /\ task' \in [Stages -> TaskStatuses \cup {"NONE"}] /\ stale' \in [Stages -> BOOLEAN]
         /\ \A x \in Stages : task'[x] = IF x = st THEN s ELSE task[x]
BY DEF RowTypes, SetTask

LEMMA EvidenceKept ==
  ASSUME KeepEvidence
  PROVE  /\ task' \in [Stages -> TaskStatuses \cup {"NONE"}] /\ stale' \in [Stages -> BOOLEAN]
         /\ task'["GROUNDING"] = "COMPLETED" /\ task'["SYNTHESIS"] = "PENDING" /\ snapshot' = TRUE
BY DEF KeepEvidence, Tasks, Stages, TaskStatuses

-----------------------------------------------------------------------------
(* The rows: the actions that write them.                                   *)

\* What each action below shows of the rows it writes.
RowsMove == RowTypes' /\ StagesAgree' /\ (Outcome!Next \/ UNCHANGED Outcome!vars)

LEMMA RowsSame ==
  ASSUME RowTypes, StagesAgree, UNCHANGED <<debate, batch, task, snapshot, results>>,
         stale' \in [Stages -> BOOLEAN]
  PROVE  RowsMove
BY DEF RowsMove, RowTypes, StagesAgree, Outcome!vars

LEMMA RecoverMoves == ASSUME RowTypes, StagesAgree, Recover PROVE RowsMove
<1> USE DEF RowTypes, StagesAgree, Recover
<1>1. RowTypes'
  BY DEF TaskStatuses
<1>2. \A st \in Stages : \/ task'[st] = task[st]
                         \/ task[st] = "PROCESSING" /\ task'[st] = "PENDING"
  OBVIOUS
<1>3. batch = "PENDING" => task' = Tasks("PENDING", "NONE")
  BY DEF Tasks, Stages
<1>4. StagesAgree'
  BY <1>2, <1>3 DEF Stages
<1>5. QED BY <1>1, <1>4 DEF RowsMove, Outcome!vars

LEMMA ClaimMoves ==
  ASSUME RowTypes, StagesAgree, NEW w \in Workers, worker[w].stage \in Stages, Claim(w) PROVE RowsMove
<1> USE DEF RowTypes, Claim
<1>1. PICK st \in Stages : st = worker[w].stage
  OBVIOUS
<1>2. task[st] = "PENDING" /\ SetTask(st, "PROCESSING")
  BY <1>1
<1>3. /\ task' \in [Stages -> TaskStatuses \cup {"NONE"}] /\ stale' \in [Stages -> BOOLEAN]
      /\ \A x \in Stages : task'[x] = IF x = st THEN "PROCESSING" ELSE task[x]
  BY <1>2, TaskWritten DEF TaskStatuses
<1>4. /\ batch' \in TaskStatuses /\ UNCHANGED <<debate, snapshot, results>>
      /\ batch' = batch \/ (batch = "PENDING" /\ batch' = "PROCESSING")
  BY DEF TaskStatuses
<1>5. batch = "PENDING" => st = "GROUNDING" /\ batch' = "PROCESSING"
  BY <1>1, <1>2 DEF StagesAgree, Tasks, Stages
<1>6. StagesAgree'
  BY <1>2, <1>3, <1>4, <1>5 DEF StagesAgree, Stages
<1>7. Outcome!Next \/ UNCHANGED Outcome!vars
  BY <1>4 DEF Outcome!Next, Outcome!Start, Outcome!vars
<1>8. QED BY <1>3, <1>4, <1>6, <1>7 DEF RowsMove

\* The evidence is kept of a grounding that is PROCESSING.
LEMMA EvidenceMoves ==
  ASSUME RowTypes, StagesAgree, KeepEvidence, task["GROUNDING"] = "PROCESSING", debate = "LIVE",
         UNCHANGED results,
         \/ UNCHANGED <<debate, batch>>
         \/ debate' = "FAILED" /\ batch' = IF batch \in {"PENDING", "PROCESSING"} THEN "FAILED" ELSE batch
  PROVE  RowsMove
<1> USE DEF RowTypes
<1>1. /\ task' \in [Stages -> TaskStatuses \cup {"NONE"}] /\ stale' \in [Stages -> BOOLEAN]
      /\ task'["GROUNDING"] = "COMPLETED" /\ task'["SYNTHESIS"] = "PENDING" /\ snapshot' = TRUE
  BY EvidenceKept
<1>2. ~snapshot /\ batch # "COMPLETED" /\ batch # "PENDING" /\ ~results
  BY DEF StagesAgree, Tasks, Stages
<1>3. /\ batch' \in TaskStatuses /\ batch' # "COMPLETED" /\ batch' # "PENDING"
      /\ debate' \in {"LIVE", "FAILED"} /\ results' = results
  BY <1>2 DEF TaskStatuses
<1>4. StagesAgree'
  BY <1>1, <1>2, <1>3 DEF StagesAgree
<1>5. CASE UNCHANGED <<debate, batch>>
  <2>1. Outcome!KeepEvidence
    BY <1>1, <1>2, <1>5 DEF Outcome!KeepEvidence
  <2>2. QED BY <1>1, <1>3, <1>4, <2>1 DEF RowsMove, Outcome!Next
<1>6. CASE debate' = "FAILED" /\ batch' = IF batch \in {"PENDING", "PROCESSING"} THEN "FAILED" ELSE batch
  <2>1. Outcome!Terminate
    BY <1>1, <1>2, <1>6 DEF Outcome!Terminate, TaskStatuses
  <2>2. QED BY <1>1, <1>3, <1>4, <2>1 DEF RowsMove, Outcome!Next
<1>7. QED BY <1>5, <1>6

LEMMA CompleteMoves ==
  ASSUME RowTypes, StagesAgree, NEW w \in Workers, CompleteGrounding(w) \/ CompleteSynthesis(w)
  PROVE  RowsMove
<1>1. CASE CompleteGrounding(w)
  BY <1>1, EvidenceMoves DEF CompleteGrounding, MayComplete
<1>2. CASE CompleteSynthesis(w)
  <2> USE DEF RowTypes
  <2>1. /\ task["SYNTHESIS"] = "PROCESSING" /\ debate = "LIVE" /\ batch = "PROCESSING"
        /\ SetTask("SYNTHESIS", "COMPLETED") /\ results' = TRUE /\ batch' = "COMPLETED"
        /\ UNCHANGED <<debate, snapshot>>
    BY <1>2 DEF CompleteSynthesis, MayComplete, BatchAccepts
  <2>2. /\ task' \in [Stages -> TaskStatuses \cup {"NONE"}] /\ stale' \in [Stages -> BOOLEAN]
        /\ task'["SYNTHESIS"] = "COMPLETED" /\ task'["GROUNDING"] = task["GROUNDING"]
    BY <2>1, TaskWritten DEF TaskStatuses, Stages
  <2>3. snapshot
    BY <2>1 DEF StagesAgree
  <2>4. StagesAgree'
    BY <2>1, <2>2, <2>3 DEF StagesAgree
  <2>5. Outcome!Complete
    BY <2>1, <2>3 DEF Outcome!Complete
  <2>6. QED BY <2>1, <2>2, <2>4, <2>5 DEF RowsMove, Outcome!Next, TaskStatuses
<1>3. QED BY <1>1, <1>2

LEMMA FailureMoves ==
  ASSUME RowTypes, StagesAgree, NEW w \in Workers, worker[w].stage \in Stages, HandleFailure(w)
  PROVE  RowsMove
<1> USE DEF RowTypes
<1>1. PICK st \in Stages : st = worker[w].stage
  OBVIOUS
<1>2. /\ UNCHANGED <<debate, snapshot, results>> /\ batch' \in TaskStatuses
      /\ batch' = batch \/ (batch \in {"PENDING", "PROCESSING"} /\ batch' = "FAILED")
  BY DEF HandleFailure, BatchAfterFailure, TaskStatuses
<1>3. Outcome!Next \/ UNCHANGED Outcome!vars
  BY <1>2 DEF Outcome!Next, Outcome!Fail, Outcome!vars
<1>4. CASE task[st] = "PROCESSING"
  <2>1. PICK s \in {"FAILED", "PENDING"} : SetTask(st, s)
    BY <1>1, <1>4 DEF HandleFailure
  <2>2. /\ task' \in [Stages -> TaskStatuses \cup {"NONE"}] /\ stale' \in [Stages -> BOOLEAN]
        /\ \A x \in Stages : task'[x] = IF x = st THEN s ELSE task[x]
    BY <2>1, TaskWritten DEF TaskStatuses
  <2>3. batch # "PENDING"
    BY <1>4 DEF StagesAgree, Tasks, Stages
  <2>4. StagesAgree'
    BY <1>2, <1>4, <2>2, <2>3 DEF StagesAgree, Stages
  <2>5. QED BY <1>2, <1>3, <2>2, <2>4 DEF RowsMove
<1>5. CASE task[st] # "PROCESSING"
  <2>1. UNCHANGED <<task, stale>>
    BY <1>1, <1>5 DEF HandleFailure
  <2>2. StagesAgree'
    BY <1>2, <2>1 DEF StagesAgree
  <2>3. QED BY <1>2, <1>3, <2>1, <2>2 DEF RowsMove
<1>6. QED BY <1>4, <1>5

LEMMA TerminateMoves ==
  ASSUME RowTypes, StagesAgree, TerminateDebate \/ \E w \in Workers : TerminateDuringGrounding(w)
  PROVE  RowsMove
<1>1. ASSUME NEW w \in Workers, TerminateDuringGrounding(w) PROVE RowsMove
  BY <1>1, EvidenceMoves DEF TerminateDuringGrounding, MayComplete, EndDebate
<1>2. CASE TerminateDebate
  <2> USE DEF RowTypes
  <2>1. /\ debate = "LIVE" /\ debate' = "FAILED" /\ UNCHANGED <<snapshot, results>>
        /\ batch' = IF batch \in {"PENDING", "PROCESSING"} THEN "FAILED" ELSE batch
    BY <1>2 DEF TerminateDebate, EndDebate
  <2>2. /\ task' \in [Stages -> TaskStatuses \cup {"NONE"}] /\ stale' \in [Stages -> BOOLEAN]
        /\ \A st \in Stages : task'[st] = IF task[st] \in {"PENDING", "PROCESSING"} THEN "FAILED" ELSE task[st]
    BY <1>2 DEF TerminateDebate, TaskStatuses
  <2>3. StagesAgree'
    BY <2>1, <2>2 DEF StagesAgree, Stages, TaskStatuses
  <2>4. Outcome!Terminate
    BY <2>1 DEF Outcome!Terminate, TaskStatuses
  <2>5. QED BY <2>1, <2>2, <2>3, <2>4 DEF RowsMove, Outcome!Next, TaskStatuses
<1>3. QED BY <1>1, <1>2

-----------------------------------------------------------------------------
(* The processes and the jobs.                                              *)

\* What each action below shows of what it writes.
ProcessTypes == WorkerTypes /\ CallerTypes /\ JobTypes /\ TerminatorTypes /\ faults \in 0..MaxFaults

\* A fault that still may happen is counted.
LEMMA FaultCounted ==
  ASSUME faults \in 0..MaxFaults, faults < MaxFaults, faults' = faults + 1 PROVE faults' \in 0..MaxFaults
BY FactCheckAssumption

\* A job that is replaced by a job.
LEMMA JobReplaced ==
  ASSUME JobTypes, NEW st \in Stages, NEW j \in Queue!Jobs, job' = [job EXCEPT ![st] = j]
  PROVE  JobTypes'
BY DEF JobTypes

LEMMA CallerReplaced ==
  ASSUME CallerTypes, NEW c \in Callers, NEW r \in CallerRecords, caller' = [caller EXCEPT ![c] = r]
  PROVE  CallerTypes'
BY DEF CallerTypes

LEMMA CallerStepTyped ==
  ASSUME ProcessTypes, RecoveryStep \/ EnsureJob(Analyzer) \/ (\E c \in Callers : CallerFails(c))
  PROVE  ProcessTypes'
<1> USE DEF ProcessTypes
<1>1. Recovery \in Callers /\ Analyzer \in Callers /\ IdleCaller \in CallerRecords
  BY DEF Callers, IdleCaller, CallerRecords, Stages
<1>2. CASE Recover \/ ListPending
  <2>1. UNCHANGED <<worker, job, terminator, faults>>
    BY <1>2 DEF Recover, ListPending, dbVars
  <2>2. CallerTypes'
    <3>1. CASE Recover
      BY <1>1, <3>1 DEF Recover, CallerTypes, CallerRecords
    <3>2. ASSUME NEW st \in Stages, caller' = [caller EXCEPT ![Recovery] = [pc |-> "ensure", stage |-> st]]
          PROVE  CallerTypes'
      BY <1>1, <3>2 DEF CallerTypes, CallerRecords
    <3>3. CASE caller' = [caller EXCEPT ![Recovery] = IdleCaller]
      BY <1>1, <3>3, CallerReplaced
    <3>4. QED BY <1>2, <3>1, <3>2, <3>3 DEF ListPending
  <2>3. QED BY <2>1, <2>2 DEF WorkerTypes, JobTypes, TerminatorTypes
<1>3. ASSUME NEW c \in Callers, EnsureJob(c) PROVE ProcessTypes'
  <2>1. caller[c].stage \in Stages
    BY DEF CallerTypes, CallerRecords
  <2>2. job[caller[c].stage] \in Queue!Jobs
    BY <2>1 DEF JobTypes
  <2>3. Queue!Ensured(job[caller[c].stage]) \in Queue!Jobs
    BY <2>2, JobMoves
  <2>4. JobTypes'
    BY <1>3, <2>1, <2>3, JobReplaced DEF EnsureJob
  <2>5. CallerTypes'
    BY <1>1, <1>3, CallerReplaced DEF EnsureJob
  <2>6. QED BY <1>3, <2>4, <2>5 DEF EnsureJob, WorkerTypes, TerminatorTypes
<1>4. ASSUME NEW c \in Callers, CallerFails(c) PROVE ProcessTypes'
  <2>1. caller[c].stage \in Stages
    BY DEF CallerTypes, CallerRecords
  <2>2. job[caller[c].stage] \in Queue!Jobs
    BY <2>1 DEF JobTypes
  <2>3. PICK j \in Queue!Overtaken(job[caller[c].stage]) : job' = [job EXCEPT ![caller[c].stage] = j]
    BY <1>4 DEF CallerFails
  <2>4. JobTypes'
    BY <2>1, <2>2, <2>3, JobMoves, JobReplaced
  <2>5. CallerTypes'
    BY <1>1, <1>4, CallerReplaced DEF CallerFails
  <2>6. QED BY <1>4, <2>4, <2>5, FaultCounted DEF CallerFails, WorkerTypes, TerminatorTypes
<1>5. QED BY <1>1, <1>2, <1>3, <1>4 DEF RecoveryStep

LEMMA WorkerStepTyped ==
  ASSUME ProcessTypes, NEW w \in Workers, WorkerStep(w) PROVE ProcessTypes'
<1> USE DEF ProcessTypes
<1>1. worker[w].stage \in Stages
  BY DEF WorkerTypes, WorkerRecords
<1>2. job[worker[w].stage] \in Queue!Jobs /\ job["SYNTHESIS"] \in Queue!Jobs /\ "SYNTHESIS" \in Stages
  BY <1>1 DEF JobTypes, Stages
<1>3. ASSUME NEW st \in Stages, TakeJob(w, st) PROVE ProcessTypes'
  <2>1. job[st] \in Queue!Jobs
    BY DEF JobTypes
  <2>2. Queue!Taken(job[st], w) \in Queue!Jobs /\ job[st].made \in 0..Attempts
    BY <2>1, JobMoves DEF Queue!Jobs
  <2>3. JobTypes'
    BY <1>3, <2>2, JobReplaced DEF TakeJob
  <2>4. [pc |-> "claim", stage |-> st, made |-> job[st].made] \in WorkerRecords
    BY <2>2 DEF WorkerRecords, WorkerPcs
  <2>5. WorkerTypes'
    BY <1>3, <2>4 DEF TakeJob, WorkerTypes
  <2>6. QED BY <1>3, <2>3, <2>5 DEF TakeJob, CallerTypes, TerminatorTypes
<1>4. CASE \/ Claim(w) \/ Unclaimed(w) \/ AiAnswers(w) \/ CompletionRefused(w) \/ CompleteGrounding(w)
           \/ CompleteSynthesis(w) \/ SynthesisCancelled(w) \/ Publish(w) \/ HandleFailure(w)
  <2>1. UNCHANGED <<job, caller, terminator, faults>>
    BY <1>4 DEF Claim, Unclaimed, AiAnswers, CompletionRefused, CompleteGrounding, CompleteSynthesis,
       SynthesisCancelled, Publish, HandleFailure
  <2>2. \E pc \in WorkerPcs : WorkerGoto(w, pc) \/ WorkerEnds(w, pc)
    BY <1>4 DEF Claim, Unclaimed, AiAnswers, CompletionRefused, CompleteGrounding, CompleteSynthesis,
       SynthesisCancelled, Publish, HandleFailure, WorkerPcs
  <2>3. QED BY <2>1, <2>2, WorkerMoves DEF JobTypes, CallerTypes, TerminatorTypes
<1>5. CASE WorkerEnsures(w)
  <2>1. JobTypes'
    BY <1>2, <1>5, JobMoves, JobReplaced DEF WorkerEnsures
  <2>2. WorkerTypes'
    BY <1>5, WorkerMoves DEF WorkerEnsures, WorkerPcs
  <2>3. QED BY <1>5, <2>1, <2>2 DEF WorkerEnsures, CallerTypes, TerminatorTypes
<1>6. CASE FinishJob(w)
  <2>1. JobTypes'
    <3>1. CASE job' = job
      BY <3>1 DEF JobTypes
    <3>2. CASE job' # job
      <4>1. PICK j \in {Queue!Completed(job[worker[w].stage]), Queue!Thrown(job[worker[w].stage])} :
              job' = [job EXCEPT ![worker[w].stage] = j]
        BY <1>6, <3>2 DEF FinishJob
      <4>2. QED BY <1>1, <1>2, <4>1, JobMoves, JobReplaced
    <3>3. QED BY <3>1, <3>2
  <2>2. WorkerTypes'
    BY <1>6, WorkerMoves DEF FinishJob
  <2>3. QED BY <1>6, <2>1, <2>2 DEF FinishJob, CallerTypes, TerminatorTypes
<1>7. QED BY <1>3, <1>4, <1>5, <1>6 DEF WorkerStep

LEMMA WorkerFaultTyped ==
  ASSUME ProcessTypes, NEW w \in Workers, WorkerEnsureFails(w) \/ WorkerCallFails(w) \/ WorkerCrashes(w)
  PROVE  ProcessTypes'
<1> USE DEF ProcessTypes
<1>1. WorkerTypes'
  BY WorkerMoves DEF WorkerEnsureFails, WorkerCallFails, WorkerCrashes, WorkerPcs
<1>2. JobTypes'
  <2>1. CASE WorkerEnsureFails(w)
    <3>1. job["SYNTHESIS"] \in Queue!Jobs /\ "SYNTHESIS" \in Stages
      BY DEF JobTypes, Stages
    <3>2. PICK j \in Queue!Overtaken(job["SYNTHESIS"]) : job' = [job EXCEPT !["SYNTHESIS"] = j]
      BY <2>1 DEF WorkerEnsureFails
    <3>3. QED BY <3>1, <3>2, JobMoves, JobReplaced
  <2>2. CASE WorkerCallFails(w) \/ WorkerCrashes(w)
    BY <2>2 DEF WorkerCallFails, WorkerCrashes, JobTypes
  <2>3. QED BY <2>1, <2>2
<1>3. UNCHANGED <<caller, terminator>> /\ faults < MaxFaults /\ faults' = faults + 1
  BY DEF WorkerEnsureFails, WorkerCallFails, WorkerCrashes
<1>4. QED BY <1>1, <1>2, <1>3, FaultCounted DEF CallerTypes, TerminatorTypes

LEMMA StallTyped ==
  ASSUME ProcessTypes, NEW st \in Stages,
         OrphanStalls(st) \/ BlockedWorkerStalls(st) \/ TaskGoesStale(st)
  PROVE  ProcessTypes'
<1> USE DEF ProcessTypes
<1>1. UNCHANGED procVars
  BY DEF OrphanStalls, BlockedWorkerStalls, TaskGoesStale, JobStalls
<1>2. faults' \in 0..MaxFaults
  BY FaultCounted DEF OrphanStalls, BlockedWorkerStalls, TaskGoesStale
<1>3. JobTypes'
  <2>1. CASE JobStalls(st)
    <3>1. job[st] \in Queue!Jobs
      BY DEF JobTypes
    <3>2. PICK j \in Queue!Stalled(job[st]) : job' = [job EXCEPT ![st] = j]
      BY <2>1 DEF JobStalls
    <3>3. QED BY <3>1, <3>2, JobMoves, JobReplaced
  <2>2. CASE TaskGoesStale(st)
    BY <2>2 DEF TaskGoesStale, JobTypes
  <2>3. QED BY <2>1, <2>2 DEF OrphanStalls, BlockedWorkerStalls
<1>4. QED BY <1>1, <1>2, <1>3 DEF procVars, WorkerTypes, CallerTypes, TerminatorTypes

LEMMA TerminatorTyped ==
  ASSUME ProcessTypes,
         \/ TerminateDebate \/ (\E w \in Workers : TerminateDuringGrounding(w))
         \/ CancelInvocations \/ RemoveJobs \/ TerminatorFails
  PROVE  ProcessTypes'
<1> USE DEF ProcessTypes
<1>1. CallerTypes'
  BY DEF TerminateDebate, TerminateDuringGrounding, EndDebate, CancelInvocations, RemoveJobs,
     TerminatorFails, CallerTypes
<1>2. faults' \in 0..MaxFaults
  BY FaultCounted
     DEF TerminateDebate, TerminateDuringGrounding, EndDebate, CancelInvocations, RemoveJobs, TerminatorFails
<1>3. TerminatorTypes'
  <2>1. CASE EndDebate
    BY <2>1 DEF EndDebate, TerminatorTypes
  <2>2. CASE CancelInvocations
    BY <2>2 DEF CancelInvocations, TerminatorTypes
  <2>3. CASE RemoveJobs \/ TerminatorFails
    BY <2>3 DEF RemoveJobs, TerminatorFails, IdleTerminator, TerminatorTypes
  <2>4. QED BY <2>1, <2>2, <2>3 DEF TerminateDebate, TerminateDuringGrounding
<1>4. JobTypes'
  <2>1. CASE RemoveJobs
    BY <2>1, JobMoves DEF RemoveJobs, JobTypes
  <2>2. CASE ~RemoveJobs
    BY <2>2 DEF TerminateDebate, TerminateDuringGrounding, EndDebate, CancelInvocations, TerminatorFails, JobTypes
  <2>3. QED BY <2>1, <2>2
<1>5. WorkerTypes'
  <2>1. CASE CancelInvocations
    <3>1. PICK W \in SUBSET {w \in Workers : WorkerAt(w, "asking")} :
            worker' = [w \in Workers |-> IF w \in W THEN [worker[w] EXCEPT !.pc = "rejected"] ELSE worker[w]]
      BY <2>1 DEF CancelInvocations
    <3>2. \A w \in Workers : [worker[w] EXCEPT !.pc = "rejected"] \in WorkerRecords
      BY DEF WorkerTypes, WorkerRecords, WorkerPcs
    <3>3. QED BY <3>1, <3>2 DEF WorkerTypes
  <2>2. ASSUME NEW w \in Workers, TerminateDuringGrounding(w) PROVE WorkerTypes'
    BY <2>2, WorkerMoves DEF TerminateDuringGrounding, WorkerPcs
  <2>3. CASE TerminateDebate \/ RemoveJobs \/ TerminatorFails
    BY <2>3 DEF TerminateDebate, RemoveJobs, TerminatorFails, WorkerTypes
  <2>4. QED BY <2>1, <2>2, <2>3
<1>6. QED BY <1>1, <1>2, <1>3, <1>4, <1>5

-----------------------------------------------------------------------------
LEMMA TypeStep == TypeOK /\ StagesAgree /\ [Next]_vars => ProcessTypes'
<1> SUFFICES ASSUME TypeOK, StagesAgree, [Next]_vars PROVE ProcessTypes'
  OBVIOUS
<1>1. ProcessTypes
  BY TypeParts DEF ProcessTypes
<1>2. CASE UNCHANGED vars
  BY <1>1, <1>2 DEF vars, procVars, ProcessTypes, WorkerTypes, CallerTypes, JobTypes, TerminatorTypes
<1>3. QED
  BY <1>1, <1>2, CallerStepTyped, WorkerStepTyped, WorkerFaultTyped, StallTyped, TerminatorTyped DEF Next

LEMMA RowsStep == TypeOK /\ StagesAgree /\ [Next]_vars => RowsMove
<1> SUFFICES ASSUME RowTypes, WorkerTypes, StagesAgree, [Next]_vars PROVE RowsMove
  BY TypeParts
<1>1. CASE UNCHANGED dbVars
  BY <1>1, RowsSame DEF dbVars, RowTypes
<1>2. CASE RecoveryStep \/ EnsureJob(Analyzer) \/ (\E c \in Callers : CallerFails(c))
  <2>1. CASE Recover
    BY <2>1, RecoverMoves
  <2>2. CASE ~Recover
    BY <1>1, <1>2, <2>2 DEF RecoveryStep, ListPending, EnsureJob, CallerFails
  <2>3. QED BY <2>1, <2>2
<1>3. ASSUME NEW w \in Workers, WorkerStep(w) PROVE RowsMove
  <2>1. worker[w].stage \in Stages
    BY DEF WorkerTypes, WorkerRecords
  <2>2. CASE Claim(w) \/ CompleteGrounding(w) \/ CompleteSynthesis(w) \/ HandleFailure(w)
    BY <2>1, <2>2, ClaimMoves, CompleteMoves, FailureMoves
  <2>3. CASE ~(Claim(w) \/ CompleteGrounding(w) \/ CompleteSynthesis(w) \/ HandleFailure(w))
    BY <1>1, <1>3, <2>3 DEF WorkerStep, TakeJob, Unclaimed, AiAnswers, CompletionRefused,
       SynthesisCancelled, Publish, WorkerEnsures, FinishJob
  <2>4. QED BY <2>2, <2>3
<1>4. ASSUME NEW w \in Workers, WorkerEnsureFails(w) \/ WorkerCallFails(w) \/ WorkerCrashes(w) PROVE RowsMove
  BY <1>1, <1>4 DEF WorkerEnsureFails, WorkerCallFails, WorkerCrashes
<1>5. ASSUME NEW st \in Stages, OrphanStalls(st) \/ BlockedWorkerStalls(st) \/ TaskGoesStale(st) PROVE RowsMove
  <2>1. CASE TaskGoesStale(st)
    BY <2>1, RowsSame DEF TaskGoesStale, RowTypes
  <2>2. CASE OrphanStalls(st) \/ BlockedWorkerStalls(st)
    BY <1>1, <2>2 DEF OrphanStalls, BlockedWorkerStalls, JobStalls
  <2>3. QED BY <1>5, <2>1, <2>2
<1>6. CASE TerminateDebate \/ \E w \in Workers : TerminateDuringGrounding(w)
  BY <1>6, TerminateMoves
<1>7. CASE CancelInvocations \/ RemoveJobs \/ TerminatorFails
  BY <1>1, <1>7 DEF CancelInvocations, RemoveJobs, TerminatorFails
<1>8. CASE UNCHANGED vars
  BY <1>1, <1>8 DEF vars
<1>9. QED BY <1>2, <1>3, <1>4, <1>5, <1>6, <1>7, <1>8 DEF Next

BatchInv == TypeOK /\ StagesAgree

LEMMA InitBatch == Init => BatchInv
<1> SUFFICES ASSUME Init PROVE StagesAgree
  BY TypeInit DEF BatchInv
<1>1. task = Tasks("PENDING", "NONE") /\ batch = "PENDING" /\ snapshot = FALSE /\ results = FALSE
  BY DEF Init, Outcome!Init
<1>2. task["GROUNDING"] = "PENDING" /\ task["SYNTHESIS"] = "NONE"
  BY <1>1 DEF Tasks, Stages
<1>3. QED BY <1>1, <1>2 DEF StagesAgree

LEMMA StepBatch == BatchInv /\ [Next]_vars => BatchInv' /\ (Outcome!Next \/ UNCHANGED Outcome!vars)
BY TypeStep, RowsStep, TypeParts DEF BatchInv, RowsMove, ProcessTypes

\* Every column, job and handler holds what it may hold.
THEOREM FactCheckTypeCorrect == Spec => []TypeOK
<1>1. BatchInv => TypeOK
  BY DEF BatchInv
<1>2. QED BY <1>1, InitBatch, StepBatch, PTL DEF Spec

\* However stale resets, late workers, lost jobs and terminations interleave,
\* batch, stage tasks, evidence and results tell one story.
THEOREM StagesStayInAgreement == Spec => []StagesAgree
<1>1. BatchInv => StagesAgree
  BY DEF BatchInv
<1>2. QED BY <1>1, InitBatch, StepBatch, PTL DEF Spec

\* The fact check implements its promise, without its fairness: a batch is
\* decided once, and nothing is saved for a debate seen to have failed.
THEOREM FactCheckImplementsOutcome == Spec => FollowsBatch
<1>1. Init => Outcome!Init
  BY DEF Init
<1>2. QED BY <1>1, InitBatch, StepBatch, PTL DEF Spec, FollowsBatch, Outcome!Spec
=============================================================================
