------------------------ MODULE JudgePipeline_proofs ------------------------
(***************************************************************************)
(* Theorems about JudgePipeline, for any number of workers, requests and   *)
(* attempts, whether or not an attempt may outlive the stale limit.        *)
(*                                                                         *)
(* TaskAgrees is not inductive: a caller about to reset a task relies on   *)
(* the status it read, so the invariant also says that this status is      *)
(* never COMPLETED and never NONE (ResetTargets).  The refinement needs no *)
(* invariant: the guards of the completing transaction are enough.         *)
(***************************************************************************)
EXTENDS JudgePipeline, TLAPS

\* The part of TypeOK about the rows.
DbTyped ==
  /\ status \in Outcome!TimeoutEligible \cup {"COMPLETED", "FAILED"}
  /\ ready \in BOOLEAN /\ stale \in BOOLEAN
  /\ task \in TaskStatuses \cup {"NONE"}
  /\ verdict \in Outcome!Winners \cup {"NONE"}
  /\ score \in [Outcome!Sides -> Nat]

-----------------------------------------------------------------------------
(* Typing, action by action.                                                *)

\* The initial states are well typed.
LEMMA TypeInit == Init => TypeOK
<1> SUFFICES ASSUME Init PROVE TypeOK
  OBVIOUS
<1> USE DEF Init
<1>1. DbTyped
  BY DEF DbTyped, Outcome!Init, Outcome!Sides, Outcome!Winners,
     Outcome!TimeoutEligible, TaskStatuses
<1>2. job \in Jobs
  BY JudgeAssumption DEF Jobs, NoJob, Idle, JobStates
<1>3. worker \in [Workers -> WorkerRecords]
  BY JudgeAssumption DEF WorkerRecords, IdleWorker, WorkerPcs
<1>4. caller \in [Callers -> CallerRecords]
  BY DEF CallerRecords, IdleCaller, CallerPcs
<1>5. QED
  BY <1>1, <1>2, <1>3, <1>4, JudgeAssumption DEF TypeOK, DbTyped

\* However a caller moves, its record stays well typed.
LEMMA CallerMoves ==
  ASSUME TypeOK, NEW c \in Callers,
         \/ Return(c)
         \/ \E pc \in CallerPcs : Goto(c, pc)
         \/ Proceed(c)
         \/ \E next \in {"idle", "list", "check"} : GotoLook(c, next)
         \/ GotoLook(c, caller[c].then)
         \/ \E pc \in CallerPcs, seen \in JobStates \cup TaskStatuses :
              caller' = [caller EXCEPT ![c].pc = pc, ![c].seen = seen]
         \/ \E pc \in CallerPcs, next \in {"idle", "list", "check"} :
              caller' = [caller EXCEPT ![c].pc = pc, ![c].then = next]
  PROVE  caller' \in [Callers -> CallerRecords]
<1>0. /\ caller \in [Callers -> CallerRecords]
      /\ caller[c].then \in {"idle", "list", "check"}
  BY DEF TypeOK, CallerRecords
<1>1. IdleCaller \in CallerRecords
  BY DEF IdleCaller, CallerRecords, CallerPcs
<1>2. CASE Return(c)
  BY <1>0, <1>1, <1>2 DEF Return
<1>3. CASE \E pc \in CallerPcs : Goto(c, pc)
  BY <1>0, <1>3 DEF Goto, CallerRecords
<1>4. CASE Proceed(c)
  <2>1. [IdleCaller EXCEPT !.pc = caller[c].then] \in CallerRecords
    BY <1>0 DEF IdleCaller, CallerRecords, CallerPcs
  <2>2. QED
    BY <1>0, <1>4, <2>1 DEF Proceed
<1>5. ASSUME NEW next \in {"idle", "list", "check"}, GotoLook(c, next)
      PROVE  caller' \in [Callers -> CallerRecords]
  BY <1>0, <1>5 DEF GotoLook, CallerRecords, CallerPcs
<1>6. CASE \E pc \in CallerPcs, seen \in JobStates \cup TaskStatuses :
             caller' = [caller EXCEPT ![c].pc = pc, ![c].seen = seen]
  BY <1>0, <1>6 DEF CallerRecords
<1>7. CASE \E pc \in CallerPcs, next \in {"idle", "list", "check"} :
             caller' = [caller EXCEPT ![c].pc = pc, ![c].then = next]
  BY <1>0, <1>7 DEF CallerRecords
<1>8. QED
  BY <1>0, <1>2, <1>3, <1>4, <1>5, <1>6, <1>7

\* A worker that moves to a known place stays well typed.
LEMMA WorkerMoves ==
  ASSUME TypeOK, NEW w \in Workers, NEW pc \in WorkerPcs, WorkerGoto(w, pc)
  PROVE  worker' \in [Workers -> WorkerRecords]
BY DEF TypeOK, WorkerRecords, WorkerGoto

\* A job nobody holds is a well-typed job ...
LEMMA IdleIsJob ==
  ASSUME NEW state \in JobStates, NEW made \in 0..Attempts
  PROVE  Idle(state, made) \in Jobs
BY DEF Idle, Jobs

\* ... a queued one in particular.
LEMMA QueuedIsJob ==
  ASSUME NEW made \in 0..Attempts
  PROVE  Queued(made) \in Jobs
BY IdleIsJob DEF Queued, JobStates

\* What a caller that changes nothing but its own record preserves.
LEMMA TypeOfCallerMove ==
  ASSUME TypeOK, caller' \in [Callers -> CallerRecords],
         UNCHANGED <<dbVars, job, worker, terminator, faults>>
  PROVE  TypeOK'
BY DEF TypeOK, dbVars

\* Every step of tryStartJudge, retryTaskForDebate and ensureJob preserves the
\* types.
LEMMA CallerStepTyped ==
  ASSUME TypeOK, NEW c \in Callers, CallerStep(c)
  PROVE  TypeOK'
<1>0. c \in Callers /\ TypeOK /\ caller[c] \in CallerRecords
  BY DEF TypeOK
<1> USE <1>0
<1>1. CASE StartJudge(c)
  <2>1. caller' \in [Callers -> CallerRecords]
    BY <1>1, CallerMoves DEF StartJudge
  <2>2. QED
    BY <1>1, <2>1 DEF StartJudge, Outcome!StartJudge, TypeOK, TaskStatuses,
       Outcome!TimeoutEligible
<1>2. CASE StartRefused(c)
  BY <1>2, CallerMoves, TypeOfCallerMove DEF StartRefused
<1>3. CASE CheckResult(c)
  BY <1>3, CallerMoves, TypeOfCallerMove DEF CheckResult, CallerPcs
<1>4. CASE ReadTask(c)
  <2>1. task \in TaskStatuses \cup {"NONE"}
    BY DEF TypeOK
  <2>2. CASE task \in {"FAILED", "PROCESSING"} /\ caller' = [caller EXCEPT ![c].pc = "reset", ![c].seen = task]
    BY <1>4, <2>2, CallerMoves, TypeOfCallerMove DEF ReadTask, CallerPcs, TaskStatuses
  <2>3. CASE Return(c) \/ GotoLook(c, "idle")
    BY <1>4, <2>3, CallerMoves, TypeOfCallerMove DEF ReadTask
  <2>4. QED
    BY <1>4, <2>2, <2>3 DEF ReadTask
<1>5. CASE ResetTask(c)
  <2>1. caller' \in [Callers -> CallerRecords]
    BY <1>5, CallerMoves DEF ResetTask
  <2>2. QED
    BY <1>5, <2>1 DEF ResetTask, TypeOK, TaskStatuses
<1>6. CASE LookAtJob(c)
  <2>1. job.state \in JobStates
    BY DEF TypeOK, Jobs
  <2>2. QED
    BY <1>6, <2>1, CallerMoves, TypeOfCallerMove DEF LookAtJob, CallerPcs
<1>7. CASE RetryFailedJob(c)
  <2>1. caller' \in [Callers -> CallerRecords]
    BY <1>7, CallerMoves DEF RetryFailedJob
  <2>2. job' \in Jobs
    BY <1>7, QueuedIsJob DEF RetryFailedJob, TypeOK, Jobs
  <2>3. QED
    BY <1>7, <2>1, <2>2 DEF RetryFailedJob, TypeOK, dbVars
<1>8. CASE RemoveCompletedJob(c)
  <2>1. caller' \in [Callers -> CallerRecords]
    <3>1. CASE Return(c)
      BY <3>1, CallerMoves
    <3>2. CASE caller' = [caller EXCEPT ![c].seen = "absent"]
      BY <3>2 DEF TypeOK, CallerRecords, JobStates
    <3>3. QED
      BY <1>8, <3>1, <3>2 DEF RemoveCompletedJob
  <2>2. job' \in Jobs
    BY <1>8, JudgeAssumption DEF RemoveCompletedJob, TypeOK, Jobs, NoJob, Idle, JobStates
  <2>3. QED
    BY <1>8, <2>1, <2>2 DEF RemoveCompletedJob, TypeOK, dbVars
<1>9. CASE AddJob(c)
  <2>1. caller' \in [Callers -> CallerRecords]
    BY <1>9, CallerMoves DEF AddJob
  <2>2. job' \in Jobs
    BY <1>9, QueuedIsJob, JudgeAssumption DEF AddJob, TypeOK
  <2>3. QED
    BY <1>9, <2>1, <2>2 DEF AddJob, TypeOK, dbVars
<1>10. QED
  BY <1>1, <1>2, <1>3, <1>4, <1>5, <1>6, <1>7, <1>8, <1>9 DEF CallerStep

\* Every step of a worker preserves the types.
LEMMA WorkerStepTyped ==
  ASSUME TypeOK, NEW w \in Workers, WorkerStep(w)
  PROVE  TypeOK'
<1>0. worker[w] \in WorkerRecords /\ job \in Jobs
  BY DEF TypeOK
<1> USE <1>0
<1>1. CASE TakeJob(w)
  <2>1. worker' \in [Workers -> WorkerRecords]
    BY <1>1 DEF TakeJob, TypeOK, WorkerRecords, WorkerPcs, Jobs
  <2>2. job' \in Jobs
    BY <1>1 DEF TakeJob, Jobs, JobStates
  <2>3. QED
    BY <1>1, <2>1, <2>2 DEF TakeJob, TypeOK, dbVars
<1>2. CASE Claim(w)
  <2>1. worker' \in [Workers -> WorkerRecords]
    BY <1>2, WorkerMoves DEF Claim, WorkerPcs
  <2>2. QED
    BY <1>2, <2>1 DEF Claim, TypeOK, TaskStatuses
<1>3. CASE Reconcile(w)
  <2>1. worker' \in [Workers -> WorkerRecords]
    BY <1>3, WorkerMoves DEF Reconcile, WorkerPcs
  <2>2. QED
    BY <1>3, <2>1 DEF Reconcile, TypeOK, TaskStatuses
<1>4. CASE Assemble(w)
  <2>1. worker' \in [Workers -> WorkerRecords]
    BY <1>4, WorkerMoves DEF Assemble, WorkerPcs
  <2>2. QED
    BY <1>4, <2>1 DEF Assemble, TypeOK, dbVars
<1>5. CASE AiAnswers(w)
  <2>1. worker' \in [Workers -> WorkerRecords]
    BY <1>5, WorkerMoves DEF AiAnswers, WorkerPcs
  <2>2. QED
    BY <1>5, <2>1 DEF AiAnswers, TypeOK, dbVars
<1>6. ASSUME NEW winner \in Outcome!Winners, SaveVerdict(w, winner)
      PROVE  TypeOK'
  <2>1. worker' \in [Workers -> WorkerRecords]
    BY <1>6, WorkerMoves DEF SaveVerdict, WorkerPcs
  <2>2. score' \in [Outcome!Sides -> Nat]
    BY <1>6 DEF SaveVerdict, Outcome!Awarded, TypeOK
  <2>3. QED
    BY <1>6, <2>1, <2>2 DEF SaveVerdict, TypeOK, TaskStatuses
<1>7. CASE SaveRefused(w)
  <2>1. worker' \in [Workers -> WorkerRecords]
    BY <1>7, WorkerMoves DEF SaveRefused, WorkerPcs
  <2>2. QED
    BY <1>7, <2>1 DEF SaveRefused, TypeOK, dbVars
<1>8. CASE HandleFailure(w)
  <2>1. worker' \in [Workers -> WorkerRecords]
    BY <1>8, WorkerMoves DEF HandleFailure, WorkerPcs
  <2>2. QED
    BY <1>8, <2>1 DEF HandleFailure, TypeOK, TaskStatuses
<1>9. CASE FinishJob(w)
  <2>1. worker' \in [Workers -> WorkerRecords]
    BY <1>9, JudgeAssumption DEF FinishJob, TypeOK, WorkerRecords, IdleWorker, WorkerPcs
  <2>2. job' \in Jobs
    <3>1. job.made \in 0..Attempts
      BY DEF Jobs
    <3>2. Idle("completed", job.made) \in Jobs /\ Idle("failed", Attempts) \in Jobs
      BY <3>1, IdleIsJob, JudgeAssumption DEF JobStates
    <3>3. job.made + 1 < Attempts => Queued(job.made + 1) \in Jobs
      BY <3>1, QueuedIsJob, JudgeAssumption
    <3>4. QED
      BY <1>9, <3>2, <3>3 DEF FinishJob
  <2>3. QED
    BY <1>9, <2>1, <2>2 DEF FinishJob, TypeOK, dbVars
<1>10. QED
  BY <1>1, <1>2, <1>3, <1>4, <1>5, <1>6, <1>7, <1>8, <1>9 DEF WorkerStep

\* A stalled job preserves the types.
LEMMA StalledTyped ==
  ASSUME TypeOK, StalledJob, faults' \in 0..MaxFaults
  PROVE  TypeOK'
<1>1. job.made \in 0..Attempts
  BY DEF TypeOK, Jobs
<1>2. job' \in Jobs
  BY <1>1, QueuedIsJob, IdleIsJob DEF StalledJob, JobStates
<1>3. QED
  BY <1>2 DEF StalledJob, TypeOK, dbVars, procVars

\* Every step preserves the types.
LEMMA TypeStep == TypeOK /\ [Next]_vars => TypeOK'
<1> SUFFICES ASSUME TypeOK, [Next]_vars PROVE TypeOK'
  OBVIOUS
<1>0. CASE UNCHANGED vars
  BY <1>0 DEF vars, dbVars, procVars, TypeOK
<1>1. CASE FinalizeDebate
  BY <1>1 DEF FinalizeDebate, Outcome!FinalizeDebate, procVars, TypeOK, Outcome!TimeoutEligible
<1>2. CASE AnalysisCompletes
  BY <1>2 DEF AnalysisCompletes, procVars, TypeOK
<1>3. CASE RecoveryStep
  <2>1. Recovery \in Callers
    BY DEF Callers
  <2>2. CASE Recover
    <3>1. caller' \in [Callers -> CallerRecords]
      BY <2>1, <2>2, CallerMoves DEF Recover, CallerPcs
    <3>2. QED
      BY <2>2, <3>1 DEF Recover, TypeOK, TaskStatuses
  <2>3. CASE ListPending
    BY <2>1, <2>3, CallerMoves, TypeOfCallerMove DEF ListPending
  <2>4. CASE CallerStep(Recovery)
    BY <2>1, <2>4, CallerStepTyped
  <2>5. QED
    BY <1>3, <2>2, <2>3, <2>4 DEF RecoveryStep
<1>4. ASSUME NEW c \in Requests, Request(c) \/ CallerStep(c)
      PROVE  TypeOK'
  <2>1. c \in Callers
    BY DEF Callers
  <2>2. CASE Request(c)
    <3>1. caller' \in [Callers -> CallerRecords]
      BY <2>1, <2>2, CallerMoves DEF Request, CallerPcs
    <3>2. QED
      BY <2>2, <3>1, TypeOfCallerMove DEF Request
  <2>3. QED
    BY <1>4, <2>1, <2>2, CallerStepTyped
<1>5. ASSUME NEW c \in Callers, CallerFails(c)
      PROVE  TypeOK'
  <2>1. caller' \in [Callers -> CallerRecords]
    BY <1>5, CallerMoves DEF CallerFails
  <2>2. QED
    BY <1>5, <2>1, JudgeAssumption DEF CallerFails, TypeOK, dbVars
<1>6. ASSUME NEW w \in Workers, WorkerStep(w) \/ WorkerCallFails(w) \/ WorkerCrashes(w)
      PROVE  TypeOK'
  <2>1. CASE WorkerCallFails(w)
    <3>1. worker' \in [Workers -> WorkerRecords]
      BY <2>1, WorkerMoves DEF WorkerCallFails, WorkerPcs
    <3>2. QED
      BY <2>1, <3>1, JudgeAssumption DEF WorkerCallFails, TypeOK, dbVars
  <2>2. CASE WorkerCrashes(w)
    <3>1. worker' \in [Workers -> WorkerRecords]
      BY <2>2, JudgeAssumption DEF WorkerCrashes, TypeOK, WorkerRecords, IdleWorker, WorkerPcs
    <3>2. QED
      BY <2>2, <3>1, JudgeAssumption DEF WorkerCrashes, TypeOK, dbVars
  <2>3. QED
    BY <1>6, <2>1, <2>2, WorkerStepTyped
<1>7. CASE OrphanStalls
  BY <1>7, StalledTyped DEF OrphanStalls, TypeOK
<1>8. CASE BlockedWorkerStalls
  BY <1>8, StalledTyped, JudgeAssumption DEF BlockedWorkerStalls, TypeOK
<1>9. CASE TaskGoesStale
  BY <1>9 DEF TaskGoesStale, TypeOK, procVars
<1>10. CASE ForfeitDebate
  <2>1. PICK s \in Outcome!Sides : Outcome!Forfeit(s)
    BY <1>10 DEF ForfeitDebate
  <2>2. score' \in [Outcome!Sides -> Nat]
    BY <2>1 DEF Outcome!Forfeit, Outcome!Awarded, TypeOK
  <2>3. QED
    BY <1>10, <2>1, <2>2 DEF ForfeitDebate, Outcome!Forfeit, FailTask, TypeOK, TaskStatuses
<1>11. CASE ExpireDebate
  BY <1>11 DEF ExpireDebate, Outcome!Expire, FailTask, TypeOK, TaskStatuses
<1>12. CASE CancelInvocations
  <2>1. worker' \in [Workers -> WorkerRecords]
    BY <1>12 DEF CancelInvocations, TypeOK, WorkerRecords, WorkerPcs
  <2>2. QED
    BY <1>12, <2>1 DEF CancelInvocations, TypeOK, dbVars
<1>13. CASE RemoveJob
  <2>1. NoJob \in Jobs
    BY IdleIsJob, JudgeAssumption DEF NoJob, JobStates
  <2>2. job' \in Jobs
    BY <1>13, <2>1 DEF RemoveJob, TypeOK
  <2>3. QED
    BY <1>13, <2>2 DEF RemoveJob, TypeOK, dbVars
<1>14. CASE TerminatorFails
  BY <1>14, JudgeAssumption DEF TerminatorFails, TypeOK, dbVars
<1>15. QED
  BY <1>0, <1>1, <1>2, <1>3, <1>4, <1>5, <1>6, <1>7, <1>8, <1>9, <1>10,
     <1>11, <1>12, <1>13, <1>14 DEF Next

\* Every reachable state is well typed.
THEOREM JudgeTypeCorrect == Spec => []TypeOK
BY TypeInit, TypeStep, PTL DEF Spec

-----------------------------------------------------------------------------
(* Agreement of the rows.  TaskAgrees needs one fact about the callers: the *)
(* status a manual retry has read and is about to reset is never COMPLETED. *)

ResetTargets ==
  \A c \in Callers : At(c, "reset") => caller[c].seen \in {"FAILED", "PROCESSING"}

JudgeInv == TypeOK /\ TaskAgrees /\ ResetTargets

\* The initial states satisfy the inductive invariant.
LEMMA JudgeInvInit == Init => JudgeInv
<1>1. Init => TaskAgrees
  BY DEF Init, Outcome!Init, TaskAgrees
<1>2. Init => ResetTargets
  BY DEF Init, ResetTargets, At, IdleCaller
<1>3. QED
  BY <1>1, <1>2, TypeInit DEF JudgeInv

\* A step of one caller that does not lead to "reset".
LEMMA TargetsOfMove ==
  ASSUME JudgeInv, NEW c \in Callers,
         \/ Return(c)
         \/ \E pc \in CallerPcs \ {"reset"} : Goto(c, pc)
         \/ Proceed(c)
         \/ \E next \in {"idle", "list", "check"} : GotoLook(c, next)
         \/ GotoLook(c, caller[c].then)
         \/ \E pc \in CallerPcs \ {"reset"}, seen \in JobStates \cup TaskStatuses :
              caller' = [caller EXCEPT ![c].pc = pc, ![c].seen = seen]
         \/ \E pc \in CallerPcs \ {"reset"}, next \in {"idle", "list", "check"} :
              caller' = [caller EXCEPT ![c].pc = pc, ![c].then = next]
  PROVE  ResetTargets'
<1>1. caller \in [Callers -> CallerRecords]
  BY DEF JudgeInv, TypeOK
<1>2. \A d \in Callers : d # c => caller'[d] = caller[d]
  BY <1>1 DEF Return, Goto, Proceed, GotoLook
<1>3. caller'[c].pc # "reset"
  <2>1. CASE Return(c) \/ Proceed(c)
    BY <1>1, <2>1 DEF Return, Proceed, IdleCaller, CallerRecords
  <2>2. CASE GotoLook(c, caller[c].then) \/ \E next \in {"idle", "list", "check"} : GotoLook(c, next)
    BY <1>1, <2>2 DEF GotoLook
  <2>3. CASE \E pc \in CallerPcs \ {"reset"} : Goto(c, pc)
    BY <1>1, <2>3 DEF Goto, CallerRecords
  <2>4. CASE \E pc \in CallerPcs \ {"reset"}, seen \in JobStates \cup TaskStatuses :
               caller' = [caller EXCEPT ![c].pc = pc, ![c].seen = seen]
    BY <1>1, <2>4 DEF CallerRecords
  <2>5. CASE \E pc \in CallerPcs \ {"reset"}, next \in {"idle", "list", "check"} :
               caller' = [caller EXCEPT ![c].pc = pc, ![c].then = next]
    BY <1>1, <2>5 DEF CallerRecords
  <2>6. QED
    BY <2>1, <2>2, <2>3, <2>4, <2>5
<1>4. QED
  BY <1>2, <1>3 DEF JudgeInv, ResetTargets, At

\* Every step keeps the callers about to reset a task honest (ResetTargets).
LEMMA TargetsStep == JudgeInv /\ [Next]_vars => ResetTargets'
<1> SUFFICES ASSUME JudgeInv, [Next]_vars PROVE ResetTargets'
  OBVIOUS
<1>0. ASSUME UNCHANGED caller PROVE ResetTargets'
  BY <1>0 DEF JudgeInv, ResetTargets, At
<1>1. ASSUME NEW c \in Callers, CallerStep(c) PROVE ResetTargets'
  <2>1. task \in TaskStatuses \cup {"NONE"} /\ job.state \in JobStates /\ caller[c] \in CallerRecords
    BY DEF JudgeInv, TypeOK, Jobs
  <2>2. CASE ReadTask(c)
    <3>1. CASE Return(c) \/ GotoLook(c, "idle")
      BY <3>1, TargetsOfMove
    <3>2. CASE /\ task \in {"FAILED", "PROCESSING"}
               /\ caller' = [caller EXCEPT ![c].pc = "reset", ![c].seen = task]
      BY <3>2 DEF JudgeInv, TypeOK, ResetTargets, At, CallerRecords
    <3>3. QED
      BY <2>2, <3>1, <3>2 DEF ReadTask
  <2>3. CASE StartJudge(c) \/ StartRefused(c)
    BY <2>3, TargetsOfMove DEF StartJudge, StartRefused
  <2>4. CASE CheckResult(c) \/ ResetTask(c)
    <3>1. CASE CheckResult(c)
      BY <3>1, TargetsOfMove DEF CheckResult, CallerPcs
    <3>2. CASE ResetTask(c)
      BY <3>2, TargetsOfMove DEF ResetTask
    <3>3. QED
      BY <2>4, <3>1, <3>2
  <2>5. CASE LookAtJob(c)
    BY <2>1, <2>5, TargetsOfMove DEF LookAtJob, CallerPcs
  <2>6. CASE RetryFailedJob(c)
    BY <2>6, TargetsOfMove DEF RetryFailedJob
  <2>7. CASE RemoveCompletedJob(c)
    <3>1. CASE Return(c)
      BY <3>1, TargetsOfMove
    <3>2. CASE caller' = [caller EXCEPT ![c].seen = "absent"]
      BY <2>7, <3>2 DEF RemoveCompletedJob, JudgeInv, TypeOK, ResetTargets, At, CallerRecords
    <3>3. QED
      BY <2>7, <3>1, <3>2 DEF RemoveCompletedJob
  <2>8. CASE AddJob(c)
    BY <2>8, TargetsOfMove DEF AddJob
  <2>9. QED
    BY <1>1, <2>2, <2>3, <2>4, <2>5, <2>6, <2>7, <2>8 DEF CallerStep
<1>2. CASE RecoveryStep
  <2>1. Recovery \in Callers
    BY DEF Callers
  <2>2. CASE Recover
    BY <2>1, <2>2, TargetsOfMove DEF Recover, CallerPcs
  <2>3. CASE ListPending
    BY <2>1, <2>3, TargetsOfMove DEF ListPending
  <2>4. QED
    BY <1>1, <1>2, <2>1, <2>2, <2>3 DEF RecoveryStep
<1>3. ASSUME NEW c \in Requests, Request(c) \/ CallerStep(c) PROVE ResetTargets'
  <2>1. c \in Callers
    BY DEF Callers
  <2>2. CASE Request(c)
    BY <2>1, <2>2, TargetsOfMove DEF Request, CallerPcs
  <2>3. QED
    BY <1>1, <1>3, <2>1, <2>2
<1>4. ASSUME NEW c \in Callers, CallerFails(c) PROVE ResetTargets'
  BY <1>4, TargetsOfMove DEF CallerFails
<1>5. ASSUME NEW w \in Workers, WorkerStep(w) \/ WorkerCallFails(w) \/ WorkerCrashes(w)
      PROVE  ResetTargets'
  <2>1. WorkerStep(w) => UNCHANGED caller
    BY DEF WorkerStep, TakeJob, Claim, Reconcile, Assemble, AiAnswers, SaveVerdict,
       SaveRefused, HandleFailure, FinishJob
  <2>2. WorkerCallFails(w) \/ WorkerCrashes(w) => UNCHANGED caller
    BY DEF WorkerCallFails, WorkerCrashes
  <2>3. QED
    BY <1>0, <1>5, <2>1, <2>2
<1>6. CASE OrphanStalls \/ BlockedWorkerStalls \/ TaskGoesStale \/ FinalizeDebate \/ AnalysisCompletes
  BY <1>0, <1>6 DEF OrphanStalls, BlockedWorkerStalls, StalledJob, TaskGoesStale,
     FinalizeDebate, AnalysisCompletes, procVars
<1>7. CASE ForfeitDebate \/ ExpireDebate \/ CancelInvocations \/ RemoveJob \/ TerminatorFails
  BY <1>0, <1>7 DEF ForfeitDebate, ExpireDebate, FailTask, CancelInvocations, RemoveJob, TerminatorFails
<1>8. CASE UNCHANGED vars
  BY <1>0, <1>8 DEF vars, procVars
<1>9. QED
  BY <1>2, <1>3, <1>4, <1>5, <1>6, <1>7, <1>8 DEF Next

\* The steps that leave the three rows alone.
LEMMA AgreesUntouched ==
  ASSUME TaskAgrees, UNCHANGED <<status, task, verdict>>
  PROVE  TaskAgrees'
BY DEF TaskAgrees

\* Steps of callers keep the three rows in agreement.
LEMMA AgreesCallerStep ==
  ASSUME JudgeInv, NEW c \in Callers, CallerStep(c)
  PROVE  TaskAgrees'
<1>1. CASE StartJudge(c)
  BY <1>1 DEF StartJudge, Outcome!StartJudge, JudgeInv, TaskAgrees
<1>2. CASE ResetTask(c)
  <2>1. CASE task = caller[c].seen
    <3>1. task \in {"FAILED", "PROCESSING"}
      BY <1>2, <2>1 DEF ResetTask, JudgeInv, ResetTargets
    <3>2. task' = "PENDING" /\ UNCHANGED <<status, verdict>>
      BY <1>2, <2>1 DEF ResetTask
    <3>3. QED
      BY <3>1, <3>2 DEF JudgeInv, TaskAgrees
  <2>2. CASE task # caller[c].seen
    BY <1>2, <2>2, AgreesUntouched DEF ResetTask, JudgeInv
  <2>3. QED
    BY <2>1, <2>2
<1>3. CASE StartRefused(c) \/ CheckResult(c) \/ ReadTask(c) \/ LookAtJob(c)
  BY <1>3, AgreesUntouched
  DEF StartRefused, CheckResult, ReadTask, LookAtJob, dbVars, JudgeInv
<1>4. CASE RetryFailedJob(c) \/ RemoveCompletedJob(c) \/ AddJob(c)
  BY <1>4, AgreesUntouched
  DEF RetryFailedJob, RemoveCompletedJob, AddJob, dbVars, JudgeInv
<1>5. QED
  BY <1>1, <1>2, <1>3, <1>4 DEF CallerStep

\* So do steps of workers.
LEMMA AgreesWorkerStep ==
  ASSUME JudgeInv, NEW w \in Workers, WorkerStep(w)
  PROVE  TaskAgrees'
<1>1. CASE Claim(w)
  BY <1>1 DEF Claim, JudgeInv, TaskAgrees
<1>2. CASE Reconcile(w)
  BY <1>2 DEF Reconcile, JudgeInv, TaskAgrees
<1>3. ASSUME NEW winner \in Outcome!Winners, SaveVerdict(w, winner)
      PROVE  TaskAgrees'
  BY <1>3 DEF SaveVerdict, TaskAgrees, Outcome!Winners, Outcome!Sides
<1>4. CASE HandleFailure(w)
  BY <1>4 DEF HandleFailure, JudgeInv, TaskAgrees
<1>5. CASE TakeJob(w) \/ Assemble(w) \/ AiAnswers(w) \/ SaveRefused(w) \/ FinishJob(w)
  <2>1. UNCHANGED dbVars
    BY <1>5 DEF TakeJob, Assemble, AiAnswers, SaveRefused, FinishJob
  <2>2. QED
    BY <2>1, AgreesUntouched DEF dbVars, JudgeInv
<1>6. QED
  BY <1>1, <1>2, <1>3, <1>4, <1>5 DEF WorkerStep

\* So does every step.
LEMMA AgreesStep == JudgeInv /\ [Next]_vars => TaskAgrees'
<1> SUFFICES ASSUME JudgeInv, [Next]_vars PROVE TaskAgrees'
  OBVIOUS
<1>0. ASSUME UNCHANGED dbVars PROVE TaskAgrees'
  BY <1>0, AgreesUntouched DEF dbVars, JudgeInv
<1>1. CASE FinalizeDebate
  BY <1>1 DEF FinalizeDebate, Outcome!FinalizeDebate, JudgeInv, TaskAgrees
<1>2. CASE AnalysisCompletes
  BY <1>2, AgreesUntouched DEF AnalysisCompletes, JudgeInv
<1>3. CASE RecoveryStep
  <2>1. CASE Recover
    BY <2>1 DEF Recover, JudgeInv, TaskAgrees
  <2>2. CASE ListPending
    BY <2>2, <1>0 DEF ListPending
  <2>3. QED
    BY <1>3, <2>1, <2>2, AgreesCallerStep DEF RecoveryStep, Callers
<1>4. ASSUME NEW c \in Requests, Request(c) \/ CallerStep(c) PROVE TaskAgrees'
  <2>1. CASE Request(c)
    BY <2>1, <1>0 DEF Request
  <2>2. QED
    BY <1>4, <2>1, AgreesCallerStep DEF Callers
<1>5. ASSUME NEW c \in Callers, CallerFails(c) PROVE TaskAgrees'
  BY <1>0, <1>5 DEF CallerFails
<1>6. ASSUME NEW w \in Workers, WorkerStep(w) \/ WorkerCallFails(w) \/ WorkerCrashes(w)
      PROVE  TaskAgrees'
  <2>1. WorkerCallFails(w) \/ WorkerCrashes(w) => UNCHANGED dbVars
    BY DEF WorkerCallFails, WorkerCrashes
  <2>2. QED
    BY <1>0, <1>6, <2>1, AgreesWorkerStep
<1>7. CASE OrphanStalls \/ BlockedWorkerStalls
  BY <1>0, <1>7 DEF OrphanStalls, BlockedWorkerStalls, StalledJob
<1>8. CASE TaskGoesStale
  BY <1>8, AgreesUntouched DEF TaskGoesStale, JudgeInv
<1>9. CASE ForfeitDebate
  BY <1>9 DEF ForfeitDebate, Outcome!Forfeit, FailTask, JudgeInv, TaskAgrees
<1>10. CASE ExpireDebate
  BY <1>10 DEF ExpireDebate, Outcome!Expire, Outcome!TimeoutEligible, FailTask, JudgeInv, TaskAgrees
<1>11. CASE CancelInvocations \/ RemoveJob \/ TerminatorFails
  BY <1>0, <1>11 DEF CancelInvocations, RemoveJob, TerminatorFails
<1>12. CASE UNCHANGED vars
  BY <1>0, <1>12 DEF vars
<1>13. QED
  BY <1>1, <1>2, <1>3, <1>4, <1>5, <1>6, <1>7, <1>8, <1>9, <1>10, <1>11, <1>12 DEF Next

\* The invariant is inductive.
LEMMA JudgeInvStep == JudgeInv /\ [Next]_vars => JudgeInv'
BY TypeStep, TargetsStep, AgreesStep DEF JudgeInv

\* The task, the result and the debate row agree in every reachable state.
THEOREM RowsAgree == Spec => []TaskAgrees
<1>1. JudgeInv => TaskAgrees
  BY DEF JudgeInv
<1>2. QED
  BY <1>1, JudgeInvInit, JudgeInvStep, PTL DEF Spec

-----------------------------------------------------------------------------
(* Every step is a step of DebateOutcome or leaves its variables alone.     *)

\* A step that leaves the rows alone is a stutter of DebateOutcome.
LEMMA OutcomeUntouched ==
  ASSUME UNCHANGED dbVars
  PROVE  UNCHANGED Outcome!outcomeVars
BY DEF dbVars, Outcome!outcomeVars

\* Of the steps of callers, only tryStartJudge is a step of DebateOutcome.
LEMMA OutcomeCallerStep ==
  ASSUME NEW c \in Callers, CallerStep(c)
  PROVE  [Outcome!Next]_(Outcome!outcomeVars)
<1>1. CASE StartJudge(c)
  BY <1>1 DEF StartJudge, Outcome!Next
<1>2. CASE ResetTask(c)
  BY <1>2 DEF ResetTask, Outcome!outcomeVars
<1>3. CASE StartRefused(c) \/ CheckResult(c) \/ ReadTask(c) \/ LookAtJob(c)
  BY <1>3, OutcomeUntouched DEF StartRefused, CheckResult, ReadTask, LookAtJob
<1>4. CASE RetryFailedJob(c) \/ RemoveCompletedJob(c) \/ AddJob(c)
  BY <1>4, OutcomeUntouched DEF RetryFailedJob, RemoveCompletedJob, AddJob
<1>5. QED
  BY <1>1, <1>2, <1>3, <1>4 DEF CallerStep

\* Of the steps of workers, only the completing transaction is.
LEMMA OutcomeWorkerStep ==
  ASSUME NEW w \in Workers, WorkerStep(w)
  PROVE  [Outcome!Next]_(Outcome!outcomeVars)
<1>1. ASSUME NEW winner \in Outcome!Winners, SaveVerdict(w, winner)
      PROVE  Outcome!Next
  <2>1. Outcome!Decide(winner)
    BY <1>1 DEF SaveVerdict, MaySave, Outcome!Decide
  <2>2. QED
    BY <2>1 DEF Outcome!Next
<1>2. CASE Claim(w) \/ Reconcile(w) \/ HandleFailure(w)
  BY <1>2 DEF Claim, Reconcile, HandleFailure, Outcome!outcomeVars
<1>3. CASE TakeJob(w) \/ Assemble(w) \/ AiAnswers(w) \/ SaveRefused(w) \/ FinishJob(w)
  <2>1. UNCHANGED dbVars
    BY <1>3 DEF TakeJob, Assemble, AiAnswers, SaveRefused, FinishJob
  <2>2. QED
    BY <2>1, OutcomeUntouched
<1>4. QED
  BY <1>1, <1>2, <1>3 DEF WorkerStep

\* Every step is a step of DebateOutcome or a stutter.
LEMMA OutcomeStep == [Next]_vars => [Outcome!Next]_(Outcome!outcomeVars)
<1> SUFFICES ASSUME [Next]_vars PROVE [Outcome!Next]_(Outcome!outcomeVars)
  OBVIOUS
<1>1. CASE FinalizeDebate
  BY <1>1 DEF FinalizeDebate, Outcome!Next
<1>2. CASE AnalysisCompletes
  BY <1>2 DEF AnalysisCompletes, Outcome!outcomeVars
<1>3. CASE RecoveryStep
  <2>1. CASE Recover
    BY <2>1 DEF Recover, Outcome!outcomeVars
  <2>2. CASE ListPending
    BY <2>2, OutcomeUntouched DEF ListPending
  <2>3. QED
    BY <1>3, <2>1, <2>2, OutcomeCallerStep DEF RecoveryStep, Callers
<1>4. ASSUME NEW c \in Requests, Request(c) \/ CallerStep(c)
      PROVE  [Outcome!Next]_(Outcome!outcomeVars)
  <2>1. CASE Request(c)
    BY <2>1, OutcomeUntouched DEF Request
  <2>2. QED
    BY <1>4, <2>1, OutcomeCallerStep DEF Callers
<1>5. ASSUME NEW c \in Callers, CallerFails(c)
      PROVE  [Outcome!Next]_(Outcome!outcomeVars)
  BY <1>5, OutcomeUntouched DEF CallerFails
<1>6. ASSUME NEW w \in Workers, WorkerStep(w) \/ WorkerCallFails(w) \/ WorkerCrashes(w)
      PROVE  [Outcome!Next]_(Outcome!outcomeVars)
  <2>1. WorkerCallFails(w) \/ WorkerCrashes(w) => UNCHANGED dbVars
    BY DEF WorkerCallFails, WorkerCrashes
  <2>2. QED
    BY <1>6, <2>1, OutcomeUntouched, OutcomeWorkerStep
<1>7. CASE OrphanStalls \/ BlockedWorkerStalls
  BY <1>7, OutcomeUntouched DEF OrphanStalls, BlockedWorkerStalls, StalledJob
<1>8. CASE TaskGoesStale
  BY <1>8 DEF TaskGoesStale, Outcome!outcomeVars
<1>9. CASE ForfeitDebate \/ ExpireDebate
  BY <1>9 DEF ForfeitDebate, ExpireDebate, Outcome!Next
<1>10. CASE CancelInvocations \/ RemoveJob \/ TerminatorFails
  BY <1>10, OutcomeUntouched DEF CancelInvocations, RemoveJob, TerminatorFails
<1>11. CASE UNCHANGED vars
  BY <1>11, OutcomeUntouched DEF vars
<1>12. QED
  BY <1>1, <1>2, <1>3, <1>4, <1>5, <1>6, <1>7, <1>8, <1>9, <1>10, <1>11 DEF Next

\* The Judge implements DebateOutcome: a debate is decided once, and paid for
\* in the step that decides it, whatever workers, retries and timeouts do.
THEOREM JudgeImplementsOutcome == Spec => FollowsOutcome
<1>1. Init => Outcome!Init
  BY DEF Init
<1>2. QED
  BY <1>1, OutcomeStep, PTL DEF Spec, FollowsOutcome, Outcome!Spec

-----------------------------------------------------------------------------
(* DebateOutcome pays once, hence so does the Judge.                        *)

\* PaidOnce is inductive in DebateOutcome itself.
LEMMA OutcomePaysOnce ==
  Outcome!PaidOnce /\ [Outcome!Next]_(Outcome!outcomeVars) => Outcome!PaidOnce'
<1> SUFFICES ASSUME Outcome!PaidOnce, [Outcome!Next]_(Outcome!outcomeVars)
             PROVE  Outcome!PaidOnce'
  OBVIOUS
<1> USE DEF Outcome!PaidOnce
<1>1. CASE Outcome!FinalizeDebate
  BY <1>1 DEF Outcome!FinalizeDebate
<1>2. CASE Outcome!StartJudge
  BY <1>2 DEF Outcome!StartJudge
<1>3. ASSUME NEW winner \in Outcome!Winners, Outcome!Decide(winner)
      PROVE  Outcome!PaidOnce'
  <2>1. score = [s \in Outcome!Sides |-> 0]
    BY <1>3 DEF Outcome!Decide
  <2>2. score' = [s \in Outcome!Sides |-> IF s = winner THEN 1 ELSE 0]
    BY <1>3, <2>1 DEF Outcome!Decide, Outcome!Awarded
  <2>3. QED
    BY <1>3, <2>2 DEF Outcome!Decide
<1>4. ASSUME NEW s \in Outcome!Sides, Outcome!Forfeit(s)
      PROVE  Outcome!PaidOnce'
  <2>1. score = [t \in Outcome!Sides |-> 0] /\ verdict = "NONE"
    BY <1>4 DEF Outcome!Forfeit
  <2>2. Outcome!Opponent(s) \in Outcome!Sides
    BY DEF Outcome!Opponent, Outcome!Sides
  <2>3. score' = [t \in Outcome!Sides |-> IF t = Outcome!Opponent(s) THEN 1 ELSE 0]
    BY <1>4, <2>1 DEF Outcome!Forfeit, Outcome!Awarded
  <2>4. status' = "FAILED" /\ verdict' = "NONE"
    BY <1>4, <2>1 DEF Outcome!Forfeit
  <2>5. QED
    BY <2>2, <2>3, <2>4
<1>5. CASE Outcome!Expire
  <2>1. score = [s \in Outcome!Sides |-> 0] /\ verdict = "NONE"
    BY <1>5 DEF Outcome!Expire, Outcome!TimeoutEligible
  <2>2. score' = [t \in Outcome!Sides |-> IF t = "NONE" THEN 1 ELSE 0]
    BY <1>5, <2>1 DEF Outcome!Expire, Outcome!Sides
  <2>3. status' = "FAILED" /\ verdict' = "NONE"
    BY <1>5, <2>1 DEF Outcome!Expire
  <2>4. QED
    BY <2>2, <2>3
<1>6. CASE UNCHANGED Outcome!outcomeVars
  BY <1>6 DEF Outcome!outcomeVars
<1>7. QED
  BY <1>1, <1>2, <1>3, <1>4, <1>5, <1>6 DEF Outcome!Next

\* No execution pays for a debate twice or pays the wrong side.
THEOREM JudgePaysOnce == Spec => []PaidOnce
<1>1. Init => Outcome!PaidOnce
  BY DEF Init, Outcome!Init, Outcome!PaidOnce
<1>2. QED
  BY <1>1, OutcomeStep, OutcomePaysOnce, PTL DEF Spec, PaidOnce
=============================================================================
