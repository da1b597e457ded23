--------------------------- MODULE JudgePipeline ---------------------------
(***************************************************************************)
(* The Judge of one debate: JudgeReadinessService opens the task and moves *)
(* the debate to JUDGING, JudgeQueueService keeps a BullMQ job for a       *)
(* pending task, JudgeProcessor's workers claim the task and JudgeService  *)
(* saves the verdict; JudgeRecoveryScheduler, the manual retry and         *)
(* DebateTimeoutService interfere.  A step is one database statement or    *)
(* transaction, or one call to BullMQ.  The task row carries no owner:     *)
(* whoever finds it PROCESSING may complete, fail or reset it.             *)
(***************************************************************************)
EXTENDS Naturals

CONSTANTS
  Workers,        \* concurrent executions of JudgeTaskService.process
  Requests,       \* concurrent callers: POST judge, POST judge/retry, events
  Recovery,       \* the recovery scheduler (it never overlaps itself)
  NoOne,          \* the owner of a job that is not active
  Attempts,       \* JUDGE_JOB_ATTEMPTS
  MayOutlive,     \* may an attempt outlive JUDGE_PROCESSING_STALE_MS?
  MaxFaults       \* bound: crashes, failed calls, stalls of a live worker

Callers == Requests \cup {Recovery}

ASSUME JudgeAssumption ==
  /\ Recovery \notin Requests /\ NoOne \notin Workers
  /\ Attempts \in Nat \ {0}
  /\ MayOutlive \in BOOLEAN
  /\ MaxFaults \in Nat

VARIABLES
  status,      \* debate.status
  ready,       \* every turn analyzed, every batch and fact check complete
  task,        \* judge_task.status, NONE before the row exists
  stale,       \* processing_started_at is older than the stale limit
  verdict,     \* judgment_result.winner
  score,       \* rewards paid, by side
  job,         \* the BullMQ job of the task: [state, made, owner]
  worker, caller, terminator,
  faults

dbVars == <<status, ready, task, stale, verdict, score>>
procVars == <<worker, caller, terminator>>
vars == <<dbVars, job, procVars, faults>>

Outcome == INSTANCE DebateOutcome

-----------------------------------------------------------------------------
\* A job no worker holds, or none; "waiting" includes delayed by a backoff.
Idle(state, made) == [state |-> state, made |-> made, owner |-> NoOne]
NoJob == Idle("absent", 0)
Queued(made) == Idle("waiting", made)

IdleWorker == [pc |-> "idle", made |-> 0]
IdleCaller == [pc |-> "idle", seen |-> "NONE", then |-> "idle"]

Init ==
  /\ Outcome!Init
  /\ ready = FALSE
  /\ task = "NONE" /\ stale = FALSE
  /\ job = NoJob
  /\ worker = [w \in Workers |-> IdleWorker]
  /\ caller = [c \in Callers |-> IdleCaller]
  /\ terminator = "idle"
  /\ faults = 0

At(c, pc) == caller[c].pc = pc
Goto(c, pc) == caller' = [caller EXCEPT ![c].pc = pc]
Return(c) == caller' = [caller EXCEPT ![c] = IdleCaller]

\* Go on after tryStartJudge or ensureJob.
Proceed(c) == caller' = [caller EXCEPT ![c] = [IdleCaller EXCEPT !.pc = caller[c].then]]

\* Enqueue the task, then go on at next.
GotoLook(c, next) ==
  caller' = [caller EXCEPT ![c] = [pc |-> "look", seen |-> "NONE", then |-> next]]

WorkerAt(w, pc) == worker[w].pc = pc
WorkerGoto(w, pc) == worker' = [worker EXCEPT ![w].pc = pc]

-----------------------------------------------------------------------------
(* The rest of the pipeline, as the Judge sees it.                          *)

FinalizeDebate ==
  /\ Outcome!FinalizeDebate
  /\ UNCHANGED <<ready, task, stale, job, procVars, faults>>

AnalysisCompletes ==
  /\ status = "DEBATE_FINALIZED" /\ ~ready
  /\ ready' = TRUE
  /\ UNCHANGED <<status, task, stale, verdict, score, job, procVars, faults>>

-----------------------------------------------------------------------------
(* Callers: the recovery scheduler and the HTTP requests or pipeline events *)
(* that start a Judge.                                                      *)

\* A request goes on to retryStaleJudge or ends after tryStartJudge.
Request(c) ==
  /\ c \in Requests /\ At(c, "idle")
  /\ \E next \in {"check", "idle"} :
       caller' = [caller EXCEPT ![c].pc = "start", ![c].then = next]
  /\ UNCHANGED <<dbVars, job, worker, terminator, faults>>

\* Mutant: the recovery does not look for stale tasks.
M_RecoverNoReset ==
  /\ At(Recovery, "idle")
  /\ caller' = [caller EXCEPT ![Recovery].pc = "start", ![Recovery].then = "list"]
  /\ UNCHANGED <<dbVars, job, worker, terminator, faults>>

\* resetStaleProcessingTasks: one conditional UPDATE.
Recover ==
  /\ At(Recovery, "idle")
  /\ IF task = "PROCESSING" /\ stale
     THEN task' = "PENDING" /\ stale' = FALSE
     ELSE UNCHANGED <<task, stale>>
  /\ caller' = [caller EXCEPT ![Recovery].pc = "start", ![Recovery].then = "list"]
  /\ UNCHANGED <<status, ready, verdict, score, job, worker, terminator, faults>>

\* tryStartJudge: one transaction on the locked debate row.
StartJudge(c) ==
  /\ At(c, "start")
  /\ task = "NONE" /\ ready
  /\ Outcome!StartJudge
  /\ task' = "PENDING"
  /\ GotoLook(c, caller[c].then)
  /\ UNCHANGED <<ready, stale, job, worker, terminator, faults>>

StartRefused(c) ==
  /\ At(c, "start")
  /\ ~(status = "DEBATE_FINALIZED" /\ task = "NONE" /\ ready)
  /\ IF status = "DEBATE_FINALIZED" /\ task = "PENDING"
     THEN GotoLook(c, caller[c].then)
     ELSE Proceed(c)
  /\ UNCHANGED <<dbVars, job, worker, terminator, faults>>

\* enqueuePendingTasks
ListPending ==
  /\ At(Recovery, "list")
  /\ IF task = "PENDING" THEN GotoLook(Recovery, "idle") ELSE Return(Recovery)
  /\ UNCHANGED <<dbVars, job, worker, terminator, faults>>

\* retryStaleJudge: a debate with a result needs no retry.
CheckResult(c) ==
  /\ At(c, "check")
  /\ IF verdict = "NONE" THEN Goto(c, "read") ELSE Return(c)
  /\ UNCHANGED <<dbVars, job, worker, terminator, faults>>

\* retryTaskForDebate reads the task ...
ReadTask(c) ==
  /\ At(c, "read")
  /\ \/ /\ \/ task \in {"NONE", "COMPLETED"}
           \/ task = "PROCESSING" /\ ~stale
        /\ Return(c)
     \/ /\ task = "FAILED" \/ (task = "PROCESSING" /\ stale)
        /\ caller' = [caller EXCEPT ![c].pc = "reset", ![c].seen = task]
     \/ /\ task = "PENDING"
        /\ GotoLook(c, "idle")
  /\ UNCHANGED <<dbVars, job, worker, terminator, faults>>

\* Mutant: a reset without the expected status.
M_ResetTask(c) ==
  /\ At(c, "reset")
  /\ task' = "PENDING" /\ stale' = FALSE
  /\ GotoLook(c, "idle")
  /\ UNCHANGED <<status, ready, verdict, score, job, worker, terminator, faults>>

\* ... and resets it if it still has the status that was read.
ResetTask(c) ==
  /\ At(c, "reset")
  /\ IF task = caller[c].seen
     THEN task' = "PENDING" /\ stale' = FALSE /\ GotoLook(c, "idle")
     ELSE Return(c) /\ UNCHANGED <<task, stale>>
  /\ UNCHANGED <<status, ready, verdict, score, job, worker, terminator, faults>>

\* ensureJob reads the state of the job ...
LookAtJob(c) ==
  /\ At(c, "look")
  /\ caller' = [caller EXCEPT ![c].pc = "act", ![c].seen = job.state]
  /\ UNCHANGED <<dbVars, job, worker, terminator, faults>>

\* Mutant: a failed job is taken for a usable one.
M_RetryFailedJob(c) ==
  /\ At(c, "act") /\ caller[c].seen = "failed"
  /\ Proceed(c)
  /\ UNCHANGED <<dbVars, job, worker, terminator, faults>>

\* ... retries a failed one, which throws if it is no longer failed, ...
RetryFailedJob(c) ==
  /\ At(c, "act") /\ caller[c].seen = "failed"
  /\ IF job.state = "failed"
     THEN job' = Queued(job.made) /\ Proceed(c)
     ELSE Return(c) /\ UNCHANGED job
  /\ UNCHANGED <<dbVars, worker, terminator, faults>>

\* ... removes a completed one, which throws if it is active again, ...
RemoveCompletedJob(c) ==
  /\ At(c, "act") /\ caller[c].seen = "completed"
  /\ IF job.state = "active"
     THEN Return(c) /\ UNCHANGED job
     ELSE job' = NoJob /\ caller' = [caller EXCEPT ![c].seen = "absent"]
  /\ UNCHANGED <<dbVars, worker, terminator, faults>>

\* ... adds one if there is none (a job id that exists is left alone), and
\* leaves a waiting or active one as it is.
AddJob(c) ==
  /\ At(c, "act") /\ caller[c].seen \in {"absent", "waiting", "active"}
  /\ job' = IF caller[c].seen = "absent" /\ job.state = "absent"
            THEN Queued(0) ELSE job
  /\ Proceed(c)
  /\ UNCHANGED <<dbVars, worker, terminator, faults>>

\* A call throws or the process dies: the rest of the sequence is skipped.
CallerFails(c) ==
  /\ faults < MaxFaults /\ ~At(c, "idle")
  /\ Return(c)
  /\ faults' = faults + 1
  /\ UNCHANGED <<dbVars, job, worker, terminator>>

-----------------------------------------------------------------------------
(* Workers: JudgeProcessor, JudgeTaskService.process and judgeDebate.       *)

TakeJob(w) ==
  /\ WorkerAt(w, "idle") /\ job.state = "waiting"
  /\ job' = [job EXCEPT !.state = "active", !.owner = w]
  /\ worker' = [worker EXCEPT ![w] = [pc |-> "claim", made |-> job.made]]
  /\ UNCHANGED <<dbVars, caller, terminator, faults>>

Claim(w) ==
  /\ WorkerAt(w, "claim")
  /\ IF task = "PENDING"
     THEN task' = "PROCESSING" /\ stale' = FALSE /\ WorkerGoto(w, "assemble")
     ELSE WorkerGoto(w, "reconcile") /\ UNCHANGED <<task, stale>>
  /\ UNCHANGED <<status, ready, verdict, score, job, caller, terminator, faults>>

\* reconcileUnclaimedTask
Reconcile(w) ==
  /\ WorkerAt(w, "reconcile")
  /\ task' = IF verdict # "NONE" THEN "COMPLETED" ELSE task
  /\ stale' = (stale /\ verdict = "NONE")
  /\ WorkerGoto(w, "succeed")
  /\ UNCHANGED <<status, ready, verdict, score, job, caller, terminator, faults>>

\* assemble and validateJudgeInput
Assemble(w) ==
  /\ WorkerAt(w, "assemble")
  /\ WorkerGoto(w, IF status = "JUDGING" /\ verdict = "NONE" THEN "judging" ELSE "failing")
  /\ UNCHANGED <<dbVars, job, caller, terminator, faults>>

\* The AI call: an answer that validates, or an error.  The answer shows
\* only when it is saved.
AiAnswers(w) ==
  /\ WorkerAt(w, "judging")
  /\ WorkerGoto(w, "saving") \/ WorkerGoto(w, "failing")
  /\ UNCHANGED <<dbVars, job, caller, terminator, faults>>

\* Mutant: the task alone is trusted, the debate row is not looked at.
M_MaySave == task = "PROCESSING"

\* What the transaction verifies on the locked debate and task rows; a
\* second judgment_result would violate its unique debate_id.
MaySave == task = "PROCESSING" /\ status = "JUDGING" /\ verdict = "NONE"

SaveVerdict(w, winner) ==
  /\ WorkerAt(w, "saving")
  /\ MaySave
  /\ status' = "COMPLETED"
  /\ verdict' = winner
  /\ score' = Outcome!Awarded(winner)
  /\ task' = "COMPLETED" /\ stale' = FALSE
  /\ WorkerGoto(w, "succeed")
  /\ UNCHANGED <<ready, job, caller, terminator, faults>>

SaveRefused(w) ==
  /\ WorkerAt(w, "saving")
  /\ ~MaySave
  /\ WorkerGoto(w, IF status = "FAILED" THEN "cancelled" ELSE "failing")
  /\ UNCHANGED <<dbVars, job, caller, terminator, faults>>

\* isFinalJudgeAttempt, or a cancelled invocation
FinalFailure(w) == WorkerAt(w, "cancelled") \/ worker[w].made + 1 >= Attempts

\* handleFailure; a cancelled invocation is not an error of the job.
HandleFailure(w) ==
  /\ worker[w].pc \in {"failing", "cancelled"}
  /\ IF task = "PROCESSING"
     THEN task' = (IF FinalFailure(w) THEN "FAILED" ELSE "PENDING") /\ stale' = FALSE
     ELSE UNCHANGED <<task, stale>>
  /\ WorkerGoto(w, IF WorkerAt(w, "cancelled") THEN "succeed" ELSE "throw")
  /\ UNCHANGED <<status, ready, verdict, score, job, caller, terminator, faults>>

\* Mutant: every error leads to another attempt.
M_FinishJob(w) ==
  /\ worker[w].pc \in {"succeed", "throw"}
  /\ job' = IF ~(job.state = "active" /\ job.owner = w) THEN job
            ELSE IF WorkerAt(w, "succeed") THEN Idle("completed", job.made)
            ELSE Queued(job.made + 1)
  /\ worker' = [worker EXCEPT ![w] = IdleWorker]
  /\ UNCHANGED <<dbVars, caller, terminator, faults>>

\* BullMQ settles the job, unless it was taken from this worker: a thrown
\* error leads to another attempt, the last one to a failed job.  Attempts
\* beyond the last (a failed job that is retried) are not counted further.
FinishJob(w) ==
  /\ worker[w].pc \in {"succeed", "throw"}
  /\ job' = IF ~(job.state = "active" /\ job.owner = w) THEN job
            ELSE IF WorkerAt(w, "succeed") THEN Idle("completed", job.made)
            ELSE IF job.made + 1 < Attempts THEN Queued(job.made + 1)
            ELSE Idle("failed", Attempts)
  /\ worker' = [worker EXCEPT ![w] = IdleWorker]
  /\ UNCHANGED <<dbVars, caller, terminator, faults>>

\* A database call throws: inside the try block it is one more failure of
\* the attempt, elsewhere the error goes straight to BullMQ.
WorkerCallFails(w) ==
  /\ faults < MaxFaults
  /\ \/ worker[w].pc \in {"assemble", "saving"} /\ WorkerGoto(w, "failing")
     \/ worker[w].pc \in {"claim", "reconcile", "failing", "cancelled", "succeed"}
        /\ WorkerGoto(w, "throw")
  /\ faults' = faults + 1
  /\ UNCHANGED <<dbVars, job, caller, terminator>>

WorkerCrashes(w) ==
  /\ faults < MaxFaults /\ ~WorkerAt(w, "idle")
  /\ worker' = [worker EXCEPT ![w] = IdleWorker]
  /\ faults' = faults + 1
  /\ UNCHANGED <<dbVars, job, caller, terminator>>

\* BullMQ finds the lock of an active job expired: it queues the job again,
\* or fails it if that happened before.
StalledJob ==
  /\ job.state = "active"
  /\ job' \in {Queued(job.made), Idle("failed", job.made)}
  /\ UNCHANGED <<dbVars, procVars>>

OrphanStalls == StalledJob /\ WorkerAt(job.owner, "idle") /\ UNCHANGED faults

BlockedWorkerStalls ==
  /\ StalledJob /\ ~WorkerAt(job.owner, "idle")
  /\ faults < MaxFaults
  /\ faults' = faults + 1

\* w holds a claim of the task, or believes it does.
Processing(w) == worker[w].pc \in {"assemble", "judging", "saving", "failing", "cancelled"}

TaskGoesStale ==
  /\ task = "PROCESSING" /\ ~stale
  /\ MayOutlive \/ \A w \in Workers : ~Processing(w)
  /\ stale' = TRUE
  /\ UNCHANGED <<status, ready, task, verdict, score, job, procVars, faults>>

-----------------------------------------------------------------------------
(* DebateTimeoutService.terminateDebate.                                    *)

FailTask ==
  /\ task' = IF task \in {"PENDING", "PROCESSING"} THEN "FAILED" ELSE task
  /\ stale' = FALSE
  /\ terminator' = "ended"
  /\ UNCHANGED <<ready, job, worker, caller, faults>>

ForfeitDebate == (\E s \in Outcome!Sides : Outcome!Forfeit(s)) /\ FailTask

ExpireDebate == Outcome!Expire /\ FailTask

\* cancelDebate aborts the AI calls of its own process.
CancelInvocations ==
  /\ terminator = "ended"
  /\ \E W \in SUBSET {w \in Workers : WorkerAt(w, "judging")} :
       worker' = [w \in Workers |-> IF w \in W THEN [worker[w] EXCEPT !.pc = "cancelled"]
                                    ELSE worker[w]]
  /\ terminator' = "cancelled"
  /\ UNCHANGED <<dbVars, job, caller, faults>>

\* removeTaskJob
RemoveJob ==
  /\ terminator = "cancelled"
  /\ job' = IF job.state \in {"active", "completed"} THEN job ELSE NoJob
  /\ terminator' = "idle"
  /\ UNCHANGED <<dbVars, worker, caller, faults>>

\* Promise.allSettled, or a crash: nothing is repeated.
TerminatorFails ==
  /\ faults < MaxFaults /\ terminator # "idle"
  /\ terminator' = "idle"
  /\ faults' = faults + 1
  /\ UNCHANGED <<dbVars, job, worker, caller>>

-----------------------------------------------------------------------------
CallerStep(c) ==
  \/ StartJudge(c) \/ StartRefused(c)
  \/ CheckResult(c) \/ ReadTask(c) \/ ResetTask(c)
  \/ LookAtJob(c) \/ RetryFailedJob(c) \/ RemoveCompletedJob(c) \/ AddJob(c)

RecoveryStep == Recover \/ ListPending \/ CallerStep(Recovery)

WorkerStep(w) ==
  \/ TakeJob(w) \/ Claim(w) \/ Reconcile(w)
  \/ Assemble(w) \/ AiAnswers(w) \/ (\E winner \in Outcome!Winners : SaveVerdict(w, winner)) \/ SaveRefused(w)
  \/ HandleFailure(w) \/ FinishJob(w)

Next ==
  \/ FinalizeDebate \/ AnalysisCompletes
  \/ RecoveryStep
  \/ \E c \in Requests : Request(c) \/ CallerStep(c)
  \/ \E c \in Callers : CallerFails(c)
  \/ \E w \in Workers : WorkerStep(w) \/ WorkerCallFails(w) \/ WorkerCrashes(w)
  \/ OrphanStalls \/ BlockedWorkerStalls \/ TaskGoesStale
  \/ ForfeitDebate \/ ExpireDebate
  \/ CancelInvocations \/ RemoveJob \/ TerminatorFails

Spec == Init /\ [][Next]_vars

\* The scheduler polls, workers take jobs and go on, BullMQ notices lost
\* locks and time passes.  Requests and time limits owe nothing.
Fairness ==
  /\ WF_vars(RecoveryStep)
  /\ \A w \in Workers : WF_vars(WorkerStep(w))
  /\ WF_vars(OrphanStalls)
  /\ WF_vars(TaskGoesStale)

LiveSpec == Spec /\ Fairness

-----------------------------------------------------------------------------
WorkerPcs == {"idle", "claim", "reconcile", "assemble", "judging", "saving",
              "failing", "cancelled", "succeed", "throw"}
CallerPcs == {"idle", "start", "list", "check", "read", "reset", "look", "act"}
JobStates == {"absent", "waiting", "active", "completed", "failed"}
TaskStatuses == {"PENDING", "PROCESSING", "COMPLETED", "FAILED"}

Jobs == [state : JobStates, made : 0..Attempts, owner : Workers \cup {NoOne}]
WorkerRecords == [pc : WorkerPcs, made : 0..Attempts]
CallerRecords == [pc : CallerPcs, seen : JobStates \cup TaskStatuses \cup {"NONE"},
                  then : {"idle", "list", "check"}]

\* Every variable holds what its column, job or handler may hold.
TypeOK ==
  /\ status \in Outcome!TimeoutEligible \cup {"COMPLETED", "FAILED"}
  /\ ready \in BOOLEAN /\ stale \in BOOLEAN
  /\ task \in TaskStatuses \cup {"NONE"}
  /\ verdict \in Outcome!Winners \cup {"NONE"}
  /\ score \in [Outcome!Sides -> Nat]
  /\ job \in Jobs
  /\ worker \in [Workers -> WorkerRecords]
  /\ caller \in [Callers -> CallerRecords]
  /\ terminator \in {"idle", "ended", "cancelled"}
  /\ faults \in 0..MaxFaults

\* The task row, the result row and the debate row tell one story, through
\* every stale reset, late worker, retry and timeout: the task is COMPLETED
\* exactly when there is a verdict, which is exactly when the debate is
\* COMPLETED; a debate under judgment has a task; none exists before.
TaskAgrees ==
  /\ (task = "COMPLETED") <=> (status = "COMPLETED")
  /\ (verdict # "NONE") <=> (status = "COMPLETED")
  /\ status \in {"IN_PROGRESS", "DEBATE_FINALIZED"} => task = "NONE"
  /\ status = "JUDGING" => task # "NONE"

\* The reward follows the outcome and is never paid twice: not by two workers
\* that both answer, not by a verdict after a forfeit, not by a retry.
PaidOnce == Outcome!PaidOnce

\* Whatever happens to the job, the task and the workers, the debate ends as
\* DebateOutcome says: decided once, the reward paid with the decision.
FollowsOutcome == Outcome!Spec

\* ai-pipeline-architecture.md:572: a manual retry checks again that the
\* attempt it discards is stale, so a fresh attempt ends only by its own
\* worker's hand or with the debate.
RetryResetsOnlyStale ==
  [][\A c \in Requests : ResetTask(c) =>
       ~(task = "PROCESSING" /\ ~stale /\ task' = "PENDING")]_vars

\* A ready debate is decided, or its task is FAILED and waits for a manual
\* retry, without the help of the total time limit: whatever crashes between
\* the task row, the job, the claim and the verdict, the recovery finds it.
ReadyDebateIsDecided ==
  (status = "DEBATE_FINALIZED" /\ ready)
    ~> (status \in {"COMPLETED", "FAILED"} \/ task = "FAILED")

\* The task of a failed debate is always put to rest again, also when a
\* manual retry reopens it or a stale reset races with the termination.
FailedDebateSettles ==
  status = "FAILED" ~> task \notin {"PENDING", "PROCESSING"}
=============================================================================
