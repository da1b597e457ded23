----------------------------- MODULE FactCheck -----------------------------
(***************************************************************************)
(* The fact check of one round.  Its batch has a GROUNDING task, inserted  *)
(* by the Analyzer, and a SYNTHESIS task, inserted when the grounding is   *)
(* complete; FactCheckQueueService keeps a BullMQ job for a PENDING task,  *)
(* the workers of the two queues claim and finish tasks,                   *)
(* FactCheckRecoveryScheduler resets and enqueues, and                     *)
(* DebateTimeoutService may end the debate.  A step is one database        *)
(* statement or transaction, or one call to BullMQ.  As no task row        *)
(* carries an owner, whoever finds it PROCESSING may complete, fail or     *)
(* reset it.                                                               *)
(***************************************************************************)
EXTENDS Naturals

CONSTANTS
  Workers,        \* concurrent executions of the two processors
  Analyzer,       \* the Analyzer's worker, which enqueues the grounding
  Recovery,       \* the recovery scheduler (it never overlaps itself)
  NoOne,          \* the owner of a job that is not active
  Attempts,       \* FACT_CHECK_JOB_ATTEMPTS
  MaxFaults       \* bound: crashes, failed calls, stalls, attempts that
                  \* outlive FACT_CHECK_PROCESSING_STALE_MS

Callers == {Analyzer, Recovery}

ASSUME FactCheckAssumption ==
  /\ Analyzer # Recovery /\ NoOne \notin Workers
  /\ Attempts \in Nat \ {0}
  /\ MaxFaults \in Nat

VARIABLES
  debate,      \* FAILED once terminated, LIVE in any other status
  batch,       \* fact_check_batch.status
  task,        \* fact_check_stage_task.status by stage, NONE before the row
  stale,       \* by stage: processing_started_at is older than the limit
  snapshot,    \* the fact_check_grounding_snapshot row exists
  results,     \* the fact_check_result rows exist
  job,         \* the BullMQ job of each stage's task
  worker, caller, terminator,
  faults

dbVars == <<debate, batch, task, stale, snapshot, results>>
procVars == <<worker, caller, terminator>>
vars == <<dbVars, job, procVars, faults>>

Queue == INSTANCE QueueJob WITH Holders <- Workers

Outcome == INSTANCE FactCheckOutcome

-----------------------------------------------------------------------------
Stages == {"GROUNDING", "SYNTHESIS"}

\* The statuses of the two tasks.
Tasks(grounding, synthesis) == [st \in Stages |-> IF st = "GROUNDING" THEN grounding ELSE synthesis]

IdleWorker == [pc |-> "idle", stage |-> "GROUNDING", made |-> 0]
IdleCaller == [pc |-> "idle", stage |-> "GROUNDING"]
IdleTerminator == [pc |-> "idle", listed |-> {}]

\* The Analyzer's transaction has committed and its enqueueGroundingTask is
\* about to run.
Init ==
  /\ Outcome!Init
  /\ task = Tasks("PENDING", "NONE")
  /\ stale = [st \in Stages |-> FALSE]
  /\ job = [st \in Stages |-> Queue!NoJob]
  /\ worker = [w \in Workers |-> IdleWorker]
  /\ caller = [c \in Callers |-> [IdleCaller EXCEPT !.pc = IF c = Analyzer THEN "ensure" ELSE "idle"]]
  /\ terminator = IdleTerminator
  /\ faults = 0

SetTask(st, s) ==
  /\ task' = [task EXCEPT ![st] = s]
  /\ stale' = [stale EXCEPT ![st] = FALSE]

WorkerAt(w, pc) == worker[w].pc = pc
WorkerGoto(w, pc) == worker' = [worker EXCEPT ![w].pc = pc]

\* The attempt is over, with or without an error, but for its job.
WorkerEnds(w, pc) == worker' = [worker EXCEPT ![w] = [@ EXCEPT !.pc = pc, !.made = 0]]

\* w executes the try block of a task it has claimed.
Claimed(w) ==
  worker[w].pc \in {"asking", "completing", "ensure", "publish", "failing", "rejected"}

-----------------------------------------------------------------------------
(* FactCheckQueueService, called by the Analyzer, by the scheduler and by   *)
(* the grounding worker.                                                    *)

\* Mutant: stale tasks are never reset.
M_RecoverNoReset ==
  /\ caller[Recovery].pc = "idle"
  /\ caller' = [caller EXCEPT ![Recovery].pc = "list"]
  /\ UNCHANGED <<dbVars, job, worker, terminator, faults>>

\* recover: resetStaleProcessingTasks is one UPDATE ...
Recover ==
  /\ caller[Recovery].pc = "idle"
  /\ task' = [st \in Stages |-> IF task[st] = "PROCESSING" /\ stale[st]
                                THEN "PENDING" ELSE task[st]]
  /\ stale' = [st \in Stages |-> FALSE]
  /\ caller' = [caller EXCEPT ![Recovery].pc = "list"]
  /\ UNCHANGED <<debate, batch, snapshot, results, job, worker, terminator, faults>>

\* Mutant: only the tasks of an open batch are enqueued.
M_ListPending ==
  /\ caller[Recovery].pc = "list"
  /\ \/ \E st \in Stages :
          /\ task[st] = "PENDING" /\ batch # "FAILED"
          /\ caller' = [caller EXCEPT ![Recovery] = [pc |-> "ensure", stage |-> st]]
     \/ /\ \A st \in Stages : task[st] # "PENDING" \/ batch = "FAILED"
        /\ caller' = [caller EXCEPT ![Recovery] = IdleCaller]
  /\ UNCHANGED <<dbVars, job, worker, terminator, faults>>

\* ... and enqueuePendingTasks goes on with what is PENDING then.  The two
\* tasks of a batch are never both PENDING.
ListPending ==
  /\ caller[Recovery].pc = "list"
  /\ \/ \E st \in Stages :
          /\ task[st] = "PENDING"
          /\ caller' = [caller EXCEPT ![Recovery] = [pc |-> "ensure", stage |-> st]]
     \/ /\ \A st \in Stages : task[st] # "PENDING"
        /\ caller' = [caller EXCEPT ![Recovery] = IdleCaller]
  /\ UNCHANGED <<dbVars, job, worker, terminator, faults>>

\* enqueueTask of the task that was inserted or listed a step before.
EnsureJob(c) ==
  LET st == caller[c].stage IN
  /\ caller[c].pc = "ensure"
  /\ job' = [job EXCEPT ![st] = Queue!Ensured(@)]
  /\ caller' = [caller EXCEPT ![c] = IdleCaller]
  /\ UNCHANGED <<dbVars, worker, terminator, faults>>

\* A call throws, a look at the job is overtaken or the process dies; the
\* next poll starts over.
CallerFails(c) ==
  LET st == caller[c].stage IN
  /\ faults < MaxFaults /\ caller[c].pc # "idle"
  /\ \E j \in Queue!Overtaken(job[st]) : job' = [job EXCEPT ![st] = j]
  /\ caller' = [caller EXCEPT ![c] = IdleCaller]
  /\ faults' = faults + 1
  /\ UNCHANGED <<dbVars, worker, terminator>>

-----------------------------------------------------------------------------
(* The workers: processor and process() of the two task services.          *)

TakeJob(w, st) ==
  /\ WorkerAt(w, "idle") /\ job[st].state = "waiting"
  /\ job' = [job EXCEPT ![st] = Queue!Taken(@, w)]
  /\ worker' = [worker EXCEPT ![w] =
       [pc |-> "claim", stage |-> st, made |-> job[st].made]]
  /\ UNCHANGED <<dbVars, caller, terminator, faults>>

\* claimTask: only a PENDING task; the first grounding starts the batch.
Claim(w) ==
  LET st == worker[w].stage IN
  /\ WorkerAt(w, "claim")
  /\ task[st] = "PENDING"
  /\ SetTask(st, "PROCESSING")
  /\ batch' = IF st = "GROUNDING" /\ batch = "PENDING" THEN "PROCESSING" ELSE batch
  /\ WorkerGoto(w, "asking")
  /\ UNCHANGED <<debate, snapshot, results, job, caller, terminator, faults>>

\* handleUnclaimedTask: a completed grounding makes sure of its successor's
\* job; in every other case the job ends here as if it had succeeded.
Unclaimed(w) ==
  /\ WorkerAt(w, "claim")
  /\ task[worker[w].stage] # "PENDING"
  /\ IF /\ worker[w].stage = "GROUNDING"
        /\ task["GROUNDING"] = "COMPLETED" /\ task["SYNTHESIS"] = "PENDING"
     THEN WorkerGoto(w, "reensure") ELSE WorkerEnds(w, "succeed")
  /\ UNCHANGED <<dbVars, job, caller, terminator, faults>>

\* Input, AI call and validation: an answer that validates, an error, or an
\* error that is not worth a retry (the input; a cancelled invocation).
AiAnswers(w) ==
  /\ WorkerAt(w, "asking")
  /\ \E pc \in {"completing", "failing", "rejected"} : WorkerGoto(w, pc)
  /\ UNCHANGED <<dbVars, job, caller, terminator, faults>>

\* completeGrounding and completeSynthesis refuse a task that is no longer
\* PROCESSING with a conflict, a failed debate as a cancelled invocation.
MayComplete(w) == task[worker[w].stage] = "PROCESSING" /\ debate = "LIVE"

CompletionRefused(w) ==
  /\ WorkerAt(w, "completing")
  /\ \/ task[worker[w].stage] # "PROCESSING" /\ WorkerGoto(w, "failing")
     \/ task[worker[w].stage] = "PROCESSING" /\ debate = "FAILED" /\ WorkerGoto(w, "rejected")
  /\ UNCHANGED <<dbVars, job, caller, terminator, faults>>

KeepEvidence ==
  /\ snapshot' = TRUE
  /\ task' = Tasks("COMPLETED", "PENDING")
  /\ stale' = [st \in Stages |-> FALSE]

\* The snapshot, the end of this task and the next task are one transaction.
CompleteGrounding(w) ==
  /\ WorkerAt(w, "completing") /\ worker[w].stage = "GROUNDING"
  /\ MayComplete(w)
  /\ KeepEvidence
  /\ WorkerGoto(w, "ensure")
  /\ UNCHANGED <<debate, batch, results, job, caller, terminator, faults>>

\* Mutant: the state of the batch is not looked at.
M_BatchAccepts == TRUE

\* What completeSynthesis asks of the locked batch row.
BatchAccepts == batch = "PROCESSING"

\* The results, the end of the task and the end of the batch are one
\* transaction.
CompleteSynthesis(w) ==
  /\ WorkerAt(w, "completing") /\ worker[w].stage = "SYNTHESIS"
  /\ MayComplete(w)
  /\ BatchAccepts
  /\ results' = TRUE
  /\ SetTask("SYNTHESIS", "COMPLETED")
  /\ batch' = "COMPLETED"
  /\ WorkerGoto(w, "publish")
  /\ UNCHANGED <<debate, snapshot, job, caller, terminator, faults>>

\* A batch that has failed in the meantime cancels the synthesis.  (A batch
\* that is COMPLETED has no PROCESSING task: StagesAgree.)
SynthesisCancelled(w) ==
  /\ WorkerAt(w, "completing") /\ worker[w].stage = "SYNTHESIS"
  /\ MayComplete(w)
  /\ ~BatchAccepts
  /\ WorkerGoto(w, "rejected")
  /\ UNCHANGED <<dbVars, job, caller, terminator, faults>>

\* The completed task is read again and fact-check.completed published.
Publish(w) ==
  /\ WorkerAt(w, "publish")
  /\ WorkerEnds(w, "succeed")
  /\ UNCHANGED <<dbVars, job, caller, terminator, faults>>

\* enqueueSynthesisTask, inside the try block or from handleUnclaimedTask.
WorkerEnsures(w) ==
  /\ worker[w].pc \in {"ensure", "reensure"}
  /\ job' = [job EXCEPT !["SYNTHESIS"] = Queue!Ensured(@)]
  /\ WorkerEnds(w, "succeed")
  /\ UNCHANGED <<dbVars, caller, terminator, faults>>

\* It throws, or a look at the job that was overtaken ends it early.
WorkerEnsureFails(w) ==
  /\ faults < MaxFaults
  /\ worker[w].pc \in {"ensure", "reensure"}
  /\ \E j \in Queue!Overtaken(job["SYNTHESIS"]) : job' = [job EXCEPT !["SYNTHESIS"] = j]
  /\ \/ WorkerEnds(w, "succeed")
     \/ WorkerAt(w, "ensure") /\ WorkerGoto(w, "failing")
     \/ WorkerAt(w, "reensure") /\ WorkerEnds(w, "throw")
  /\ faults' = faults + 1
  /\ UNCHANGED <<dbVars, caller, terminator>>

FinalFailure(w) == WorkerAt(w, "rejected") \/ worker[w].made + 1 >= Attempts

BatchAfterFailure(w) ==
  IF FinalFailure(w) /\ batch \in {"PENDING", "PROCESSING"} THEN "FAILED" ELSE batch

\* Mutant: the task is released whatever its status.
M_HandleFailure(w) ==
  /\ worker[w].pc \in {"failing", "rejected"}
  /\ SetTask(worker[w].stage, IF FinalFailure(w) THEN "FAILED" ELSE "PENDING")
  /\ batch' = BatchAfterFailure(w)
  /\ WorkerEnds(w, IF WorkerAt(w, "rejected") THEN "succeed" ELSE "throw")
  /\ UNCHANGED <<debate, snapshot, results, job, caller, terminator, faults>>

\* handleFailure: the task is released if it is PROCESSING, whoever claimed
\* it, and a final failure ends the batch whatever the task's status.
HandleFailure(w) ==
  LET st == worker[w].stage IN
  /\ worker[w].pc \in {"failing", "rejected"}
  /\ IF task[st] = "PROCESSING"
     THEN SetTask(st, IF FinalFailure(w) THEN "FAILED" ELSE "PENDING")
     ELSE UNCHANGED <<task, stale>>
  /\ batch' = BatchAfterFailure(w)
  /\ WorkerEnds(w, IF WorkerAt(w, "rejected") THEN "succeed" ELSE "throw")
  /\ UNCHANGED <<debate, snapshot, results, job, caller, terminator, faults>>

\* BullMQ settles the job, unless it was taken from this worker.
FinishJob(w) ==
  LET st == worker[w].stage IN
  /\ worker[w].pc \in {"succeed", "throw"}
  /\ job' = IF ~Queue!Holds(job[st], w) THEN job
            ELSE [job EXCEPT ![st] = IF WorkerAt(w, "succeed") THEN Queue!Completed(@)
                                     ELSE Queue!Thrown(@)]
  /\ worker' = [worker EXCEPT ![w] = IdleWorker]
  /\ UNCHANGED <<dbVars, caller, terminator, faults>>

\* A database or BullMQ call throws: inside the try block it is a failure of
\* the attempt, elsewhere the error goes straight to BullMQ.
WorkerCallFails(w) ==
  /\ faults < MaxFaults
  /\ \/ worker[w].pc \in {"asking", "completing", "publish"} /\ WorkerGoto(w, "failing")
     \/ worker[w].pc \in {"claim", "failing", "rejected", "succeed"} /\ WorkerEnds(w, "throw")
  /\ faults' = faults + 1
  /\ UNCHANGED <<dbVars, job, caller, terminator>>

WorkerCrashes(w) ==
  /\ faults < MaxFaults /\ ~WorkerAt(w, "idle")
  /\ worker' = [worker EXCEPT ![w] = IdleWorker]
  /\ faults' = faults + 1
  /\ UNCHANGED <<dbVars, job, caller, terminator>>

\* BullMQ takes back a job whose worker is gone, or, a fault, one whose
\* worker is only slow.
JobStalls(st) ==
  /\ job[st].state = "active"
  /\ \E j \in Queue!Stalled(job[st]) : job' = [job EXCEPT ![st] = j]
  /\ UNCHANGED <<dbVars, procVars>>

Orphan(st) ==
  LET w == job[st].owner IN WorkerAt(w, "idle") \/ worker[w].stage # st

OrphanStalls(st) == JobStalls(st) /\ Orphan(st) /\ UNCHANGED faults

BlockedWorkerStalls(st) ==
  /\ JobStalls(st) /\ ~Orphan(st)
  /\ faults < MaxFaults
  /\ faults' = faults + 1

\* The AI limits (90 s, 70 s) keep an attempt below the stale limit of
\* 200 s, so only a fault lets a task go stale under a working worker.
Attended(st) == \E w \in Workers : worker[w].stage = st /\ Claimed(w)

TaskGoesStale(st) ==
  /\ task[st] = "PROCESSING" /\ ~stale[st]
  /\ stale' = [stale EXCEPT ![st] = TRUE]
  /\ \/ ~Attended(st) /\ UNCHANGED faults
     \/ Attended(st) /\ faults < MaxFaults /\ faults' = faults + 1
  /\ UNCHANGED <<debate, batch, task, snapshot, results, job, procVars>>

-----------------------------------------------------------------------------
(* DebateTimeoutService.terminateDebate.                                    *)

EndDebate ==
  /\ debate = "LIVE" /\ debate' = "FAILED"
  /\ batch' = IF batch \in {"PENDING", "PROCESSING"} THEN "FAILED" ELSE batch
  /\ terminator' = [pc |-> "ended", listed |-> {st \in Stages : task[st] # "NONE"}]
  /\ UNCHANGED <<results, job, caller, faults>>

TerminateDebate ==
  /\ EndDebate
  /\ task' = [st \in Stages |-> IF task[st] \in {"PENDING", "PROCESSING"}
                                THEN "FAILED" ELSE task[st]]
  /\ stale' = [st \in Stages |-> FALSE]
  /\ UNCHANGED <<snapshot, worker>>

\* completeGrounding reads the debate row without a lock: a termination that
\* ends the debate after that read waits for the grounding task's row and
\* does not see the synthesis task inserted with it.
TerminateDuringGrounding(w) ==
  /\ WorkerAt(w, "completing") /\ worker[w].stage = "GROUNDING"
  /\ MayComplete(w)
  /\ EndDebate
  /\ KeepEvidence
  /\ WorkerGoto(w, "ensure")

\* cancelDebate aborts the AI calls of its own process.
CancelInvocations ==
  /\ terminator.pc = "ended"
  /\ \E W \in SUBSET {w \in Workers : WorkerAt(w, "asking")} :
       worker' = [w \in Workers |-> IF w \in W THEN [worker[w] EXCEPT !.pc = "rejected"]
                                    ELSE worker[w]]
  /\ terminator' = [terminator EXCEPT !.pc = "cancelled"]
  /\ UNCHANGED <<dbVars, job, caller, faults>>

\* removeFactCheckJob for every task that was listed: Promise.allSettled.
RemoveJobs ==
  /\ terminator.pc = "cancelled"
  /\ job' = [st \in Stages |-> IF st \in terminator.listed THEN Queue!Removed(job[st])
                               ELSE job[st]]
  /\ terminator' = IdleTerminator
  /\ UNCHANGED <<dbVars, worker, caller, faults>>

TerminatorFails ==
  /\ faults < MaxFaults /\ terminator.pc # "idle"
  /\ terminator' = IdleTerminator
  /\ faults' = faults + 1
  /\ UNCHANGED <<dbVars, job, worker, caller>>

-----------------------------------------------------------------------------
RecoveryStep == Recover \/ ListPending \/ EnsureJob(Recovery)

WorkerStep(w) ==
  \/ \E st \in Stages : TakeJob(w, st)
  \/ Claim(w) \/ Unclaimed(w) \/ AiAnswers(w)
  \/ CompletionRefused(w) \/ CompleteGrounding(w)
  \/ CompleteSynthesis(w) \/ SynthesisCancelled(w) \/ Publish(w)
  \/ WorkerEnsures(w) \/ HandleFailure(w) \/ FinishJob(w)

Next ==
  \/ RecoveryStep \/ EnsureJob(Analyzer)
  \/ \E c \in Callers : CallerFails(c)
  \/ \E w \in Workers : WorkerStep(w) \/ WorkerEnsureFails(w) \/ WorkerCallFails(w) \/ WorkerCrashes(w)
  \/ \E st \in Stages : OrphanStalls(st) \/ BlockedWorkerStalls(st) \/ TaskGoesStale(st)
  \/ TerminateDebate
  \/ \E w \in Workers : TerminateDuringGrounding(w)
  \/ CancelInvocations \/ RemoveJobs \/ TerminatorFails

Spec == Init /\ [][Next]_vars

\* The scheduler polls, workers take jobs and go on, BullMQ notices lost
\* locks and time passes.  The Analyzer and the time limits owe nothing.
Fairness ==
  /\ WF_vars(RecoveryStep)
  /\ \A w \in Workers : WF_vars(WorkerStep(w))
  /\ \A st \in Stages : WF_vars(OrphanStalls(st)) /\ WF_vars(TaskGoesStale(st))

LiveSpec == Spec /\ Fairness

-----------------------------------------------------------------------------
WorkerPcs == {"idle", "claim", "asking", "completing", "publish", "ensure", "reensure",
              "failing", "rejected", "succeed", "throw"}
TaskStatuses == {"PENDING", "PROCESSING", "COMPLETED", "FAILED"}

WorkerRecords == [pc : WorkerPcs, stage : Stages, made : 0..Attempts]
CallerRecords == [pc : {"idle", "list", "ensure"}, stage : Stages]

\* Every variable holds what its column, job or handler may hold.
TypeOK ==
  /\ debate \in {"LIVE", "FAILED"}
  /\ batch \in TaskStatuses
  /\ task \in [Stages -> TaskStatuses \cup {"NONE"}]
  /\ stale \in [Stages -> BOOLEAN]
  /\ snapshot \in BOOLEAN /\ results \in BOOLEAN
  /\ job \in [Stages -> Queue!Jobs]
  /\ worker \in [Workers -> WorkerRecords]
  /\ caller \in [Callers -> CallerRecords]
  /\ terminator \in [pc : {"idle", "ended", "cancelled"}, listed : SUBSET Stages]
  /\ faults \in 0..MaxFaults

\* Batch, stage tasks, evidence and results tell one story through every
\* stale reset, late worker and termination: a completed grounding has left
\* its evidence and a synthesis task, a batch is COMPLETED exactly when its
\* synthesis is and the results are saved, and a batch nobody claimed has
\* nothing but a grounding that waits.
StagesAgree ==
  /\ (task["GROUNDING"] = "COMPLETED") <=> snapshot
  /\ (task["SYNTHESIS"] # "NONE") <=> snapshot
  /\ (batch = "COMPLETED") <=> (task["SYNTHESIS"] = "COMPLETED")
  /\ (batch = "COMPLETED") <=> results
  /\ batch = "PENDING" => task = Tasks("PENDING", "NONE")

\* The detailed fact check implements FactCheckOutcome: a batch is decided
\* once, its results are saved with the decision, and nothing is saved for a
\* debate that has failed before the transaction read it.
FollowsBatch == Outcome!Spec

\* Whatever is lost between the task rows, the jobs and the claims, the
\* batch is decided: the Judge does not wait for it forever.
BatchIsDecided ==
  batch \in {"PENDING", "PROCESSING"} ~> batch \in {"COMPLETED", "FAILED"}

\* A failed batch leaves no task that is attempted again and again: not the
\* synthesis a termination overlooked, not the one whose enqueueing failed.
FailedBatchSettles ==
  batch = "FAILED" ~> \A st \in Stages : task[st] \notin {"PENDING", "PROCESSING"}
=============================================================================
