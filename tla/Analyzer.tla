------------------------------ MODULE Analyzer ------------------------------
(***************************************************************************)
(* The analysis of one debate, round by round.  DebateChatService inserts  *)
(* turns and enqueues their round; AnalyzerQueueService keeps one BullMQ   *)
(* job per round; AnalyzerProcessor's workers claim a round when both of   *)
(* its turns wait and every earlier turn is analyzed, save the graph of    *)
(* the round with its fact-check batch and enqueue the next round;         *)
(* AnalyzerRecoveryScheduler enqueues and resets rounds, and               *)
(* DebateTimeoutService may end the debate.  A step is one database        *)
(* statement or transaction, or one call to BullMQ.  Turns carry no owner: *)
(* whoever finds them PROCESSING may complete, release or reset them.      *)
(***************************************************************************)
EXTENDS Naturals, Sequences, SequencesExt

CONSTANTS
  Rounds,         \* rounds of the debate: opening, rebuttals, closing
  Workers,        \* concurrent executions of AnalyzerProcessor.process
  NoOne,          \* the owner of a job that is not active
  Attempts,       \* ANALYZE_ROUND_JOB_ATTEMPTS
  MaxFaults       \* bound: crashes, failed calls, stalls, attempts that
                  \* outlive ANALYZER_PROCESSING_STALE_MS

ASSUME AnalyzerAssumption ==
  /\ Rounds \in Nat \ {0}
  /\ NoOne \notin Workers
  /\ Attempts \in Nat \ {0}
  /\ MaxFaults \in Nat

VARIABLES
  debate,      \* FAILED once terminated, LIVE in any other status
  turn,        \* debate_turn.analysis_status by sequence, NONE before the row
  stale,       \* rounds whose analysis_processing_started_at is too old
  graph,       \* the rounds whose components and relations are saved, in order
  job,         \* the BullMQ job of each round
  chat,        \* finalizeTurn after its commit: the turn to enqueue, or 0
  worker, recovery, terminator,
  faults

dbVars == <<debate, turn, stale, graph>>
procVars == <<chat, worker, recovery, terminator>>
vars == <<dbVars, job, procVars, faults>>

Queue == INSTANCE QueueJob WITH Holders <- Workers

Outcome == INSTANCE AnalysisOutcome

-----------------------------------------------------------------------------
Turns == 1..(2 * Rounds)
RoundNumbers == 1..Rounds
TurnsOf(r) == {2 * r - 1, 2 * r}
RoundOf(t) == (t + 1) \div 2

IdleWorker == [pc |-> "idle", round |-> 1, made |-> 0]
IdleRecovery == [pc |-> "idle", round |-> 1]

Init ==
  /\ Outcome!Init
  /\ turn = [t \in Turns |-> "NONE"]
  /\ stale = {}
  /\ job = [r \in RoundNumbers |-> Queue!NoJob]
  /\ chat = 0
  /\ worker = [w \in Workers |-> IdleWorker]
  /\ recovery = IdleRecovery
  /\ terminator = "idle"
  /\ faults = 0

Is(r, s) == \A t \in TurnsOf(r) : turn[t] = s

\* UPDATE of the turns of round r that have status `from`.
Move(r, from, to) ==
  turn' = [t \in Turns |-> IF t \in TurnsOf(r) /\ turn[t] = from THEN to ELSE turn[t]]

\* Mutant: any earlier turn that was analyzed or failed is enough.
M_Predecessors(r) == \A t \in 1..(2 * r - 2) : turn[t] \in {"COMPLETED", "FAILED"}

Predecessors(r) == \A t \in 1..(2 * r - 2) : turn[t] = "COMPLETED"

\* findCompleteRound, and the condition of the claim.
Ready(r) == Is(r, "PENDING") /\ Predecessors(r)

WorkerAt(w, pc) == worker[w].pc = pc
WorkerGoto(w, pc) == worker' = [worker EXCEPT ![w].pc = pc]
WorkerEnds(w, pc) == worker' = [worker EXCEPT ![w] = [IdleWorker EXCEPT !.pc = pc, !.round = worker[w].round]]

\* w executes the try block of a round it has claimed.
Claimed(w) == worker[w].pc \in {"asking", "saving", "handing", "failing", "cancelled"}

-----------------------------------------------------------------------------
(* DebateChatService.finalizeTurn: the turn is committed, then its round is *)
(* enqueued with add, which leaves any job that exists under the id alone.  *)

InsertTurn ==
  /\ debate = "LIVE" /\ chat = 0
  /\ \E t \in Turns :
       /\ turn[t] = "NONE" /\ \A u \in 1..(t - 1) : turn[u] # "NONE"
       /\ turn' = [turn EXCEPT ![t] = "PENDING"]
       /\ chat' = t
  /\ UNCHANGED <<debate, stale, graph, job, worker, recovery, terminator, faults>>

\* enqueueAnalyzeTurn
EnqueueTurn ==
  LET r == RoundOf(chat) IN
  /\ chat # 0
  /\ job' = IF Ready(r) THEN [job EXCEPT ![r] = Queue!Added(@)] ELSE job
  /\ chat' = 0
  /\ UNCHANGED <<dbVars, worker, recovery, terminator, faults>>

EnqueueTurnFails ==
  /\ faults < MaxFaults /\ chat # 0
  /\ chat' = 0
  /\ faults' = faults + 1
  /\ UNCHANGED <<dbVars, job, worker, recovery, terminator>>

-----------------------------------------------------------------------------
(* AnalyzerRecoveryScheduler.recover: every round it lists as PENDING or as *)
(* stale is looked at again before it is enqueued or reset, so that the     *)
(* list itself decides nothing; at most one round is ready or stale.        *)

RecoveryAt(pc) == recovery.pc = pc

\* enqueuePendingAnalyzeTurn: findCompleteRound ...
FindPending ==
  /\ RecoveryAt("idle")
  /\ \E r \in RoundNumbers : Ready(r) /\ recovery' = [pc |-> "ensure", round |-> r]
  /\ UNCHANGED <<dbVars, job, chat, worker, terminator, faults>>

\* The reset asks for PROCESSING and for the age again.
ResetStale ==
  /\ RecoveryAt("idle")
  /\ \E r \in stale :
       /\ Move(r, "PROCESSING", "PENDING")
       /\ stale' = stale \ {r}
       /\ recovery' = [pc |-> "reset", round |-> r]
  /\ UNCHANGED <<debate, graph, job, chat, worker, terminator, faults>>

\* enqueueRecoveredAnalyzeTurn: findCompleteRound ...
FindReset ==
  /\ RecoveryAt("reset")
  /\ recovery' = IF Ready(recovery.round) THEN [recovery EXCEPT !.pc = "reensure"] ELSE IdleRecovery
  /\ UNCHANGED <<dbVars, job, chat, worker, terminator, faults>>

\* ... and ensureJob, whatever has become of the round since.
EnsureJob ==
  /\ recovery.pc \in {"ensure", "reensure"}
  /\ job' = [job EXCEPT ![recovery.round] = Queue!Ensured(@)]
  /\ recovery' = IdleRecovery
  /\ UNCHANGED <<dbVars, chat, worker, terminator, faults>>

\* A look at the job that is overtaken ends the call early; if the call
\* throws, a round that was reset is to be restored.  This is the one fault
\* that is not counted.
EnsureJobFails ==
  /\ recovery.pc \in {"ensure", "reensure"}
  /\ \E j \in Queue!Overtaken(job[recovery.round]) : job' = [job EXCEPT ![recovery.round] = j]
  /\ \/ recovery' = IdleRecovery
     \/ RecoveryAt("reensure") /\ recovery' = [recovery EXCEPT !.pc = "restore"]
  /\ UNCHANGED <<dbVars, chat, worker, terminator, faults>>

\* Mutant: whatever the status, the round is PROCESSING again.
M_RestoreStale ==
  LET r == recovery.round IN
  /\ RecoveryAt("restore")
  /\ turn' = [t \in Turns |-> IF t \in TurnsOf(r) THEN "PROCESSING" ELSE turn[t]]
  /\ stale' = stale \cup {r}
  /\ recovery' = IdleRecovery
  /\ UNCHANGED <<debate, graph, job, chat, worker, terminator, faults>>

\* restoreForNextRecovery: PENDING turns of the round, whoever made them
\* PENDING, become PROCESSING with the old start time.
RestoreStale ==
  LET r == recovery.round IN
  /\ RecoveryAt("restore")
  /\ Move(r, "PENDING", "PROCESSING")
  /\ stale' = IF Is(r, "PENDING") THEN stale \cup {r} ELSE stale
  /\ recovery' = IdleRecovery
  /\ UNCHANGED <<debate, graph, job, chat, worker, terminator, faults>>

\* Any other error ends the poll; so does a crash.
RecoveryFails ==
  /\ faults < MaxFaults /\ ~RecoveryAt("idle")
  /\ recovery' = IdleRecovery
  /\ faults' = faults + 1
  /\ UNCHANGED <<dbVars, job, chat, worker, terminator>>

-----------------------------------------------------------------------------
(* The workers: AnalyzerProcessor.process and analyzeTurn.                  *)

TakeJob(w, r) ==
  /\ WorkerAt(w, "idle") /\ job[r].state = "waiting"
  /\ job' = [job EXCEPT ![r] = Queue!Taken(@, w)]
  /\ worker' = [worker EXCEPT ![w] =
       [IdleWorker EXCEPT !.pc = "claim", !.round = r, !.made = job[r].made]]
  /\ UNCHANGED <<dbVars, chat, recovery, terminator, faults>>

\* claimRoundForAnalysis: one UPDATE of both turns or of none.
Claim(w) ==
  LET r == worker[w].round IN
  /\ WorkerAt(w, "claim")
  /\ Ready(r)
  /\ Move(r, "PENDING", "PROCESSING")
  /\ stale' = stale \ {r}
  /\ WorkerGoto(w, "asking")
  /\ UNCHANGED <<debate, graph, job, chat, recovery, terminator, faults>>

ClaimRefused(w) ==
  /\ WorkerAt(w, "claim")
  /\ ~Ready(worker[w].round)
  /\ WorkerGoto(w, "unclaimed")
  /\ UNCHANGED <<dbVars, job, chat, recovery, terminator, faults>>

\* handleUnclaimedTurn of the anchor, the first turn of the round: an
\* analyzed round may still owe its grounding task a job and goes on as if
\* analyzed now; a failed one, or one after a failed one, is an error; any
\* other waits two seconds and costs no attempt.
Unclaimed(w) ==
  LET r == worker[w].round
      s == turn[2 * r - 1]
      earlierFailed == \E t \in 1..(2 * r - 2) : turn[t] = "FAILED"
  IN
  /\ WorkerAt(w, "unclaimed")
  /\ \/ s = "COMPLETED" /\ (WorkerGoto(w, "rehanding") \/ WorkerGoto(w, "next"))
     \/ s # "COMPLETED" /\ (earlierFailed \/ s = "FAILED") /\ WorkerGoto(w, "throw")
     \/ s \in {"PENDING", "PROCESSING"} /\ ~earlierFailed /\ WorkerEnds(w, "delay")
  /\ UNCHANGED <<dbVars, job, chat, recovery, terminator, faults>>

\* AnalyzerInputAssembler reads the graph of the earlier rounds, which is
\* final once the round is claimed; then the AI call and the validation.
AiAnswers(w) ==
  /\ WorkerAt(w, "asking")
  /\ WorkerGoto(w, "saving") \/ WorkerGoto(w, "failing")
  /\ UNCHANGED <<dbVars, job, chat, recovery, terminator, faults>>

\* Mutant: rows that are no longer PROCESSING do not stop the transaction.
M_MaySave(w) == debate = "LIVE"

\* The transaction holds the debate row FOR SHARE, so that no termination
\* overlaps it, and rolls back unless it moves both turns.
MaySave(w) == debate = "LIVE" /\ Is(worker[w].round, "PROCESSING")

\* Graph, fact-check batch and task, and the turns' status are one
\* transaction; without targets, or without fact checks, nothing is handed on.
SaveRound(w) ==
  LET r == worker[w].round IN
  /\ WorkerAt(w, "saving")
  /\ MaySave(w)
  /\ Move(r, "PROCESSING", "COMPLETED")
  /\ stale' = stale \ {r}
  /\ graph' = Append(graph, r)
  /\ WorkerGoto(w, "handing") \/ WorkerGoto(w, "next")
  /\ UNCHANGED <<debate, job, chat, recovery, terminator, faults>>

SaveRefused(w) ==
  /\ WorkerAt(w, "saving")
  /\ ~MaySave(w)
  /\ WorkerGoto(w, IF debate = "FAILED" THEN "cancelled" ELSE "failing")
  /\ UNCHANGED <<dbVars, job, chat, recovery, terminator, faults>>

\* enqueueGroundingTask (module FactCheck goes on from here), by the worker
\* that saved or by one that finds the round COMPLETED.
HandOver(w) ==
  /\ worker[w].pc \in {"handing", "rehanding"}
  /\ WorkerGoto(w, "next")
  /\ UNCHANGED <<dbVars, job, chat, recovery, terminator, faults>>

FinalFailure(w) == worker[w].made + 1 >= Attempts

\* Mutant: the turns are released whatever their status.
M_Release(w) ==
  LET r == worker[w].round IN
  /\ worker[w].pc \in {"failing", "cancelled"}
  /\ turn' = [t \in Turns |-> IF t \in TurnsOf(r)
                              THEN (IF FinalFailure(w) THEN "FAILED" ELSE "PENDING") ELSE turn[t]]
  /\ stale' = stale \ {r}
  /\ WorkerGoto(w, IF WorkerAt(w, "cancelled") THEN "next" ELSE "throw")
  /\ UNCHANGED <<debate, graph, job, chat, recovery, terminator, faults>>

\* releaseOrFailRoundAnalysis; a cancelled invocation counts as skipped and
\* the processor goes on.
Release(w) ==
  LET r == worker[w].round IN
  /\ worker[w].pc \in {"failing", "cancelled"}
  /\ Move(r, "PROCESSING", IF FinalFailure(w) THEN "FAILED" ELSE "PENDING")
  /\ stale' = stale \ {r}
  /\ WorkerGoto(w, IF WorkerAt(w, "cancelled") THEN "next" ELSE "throw")
  /\ UNCHANGED <<debate, graph, job, chat, recovery, terminator, faults>>

First(S) == CHOOSE t \in S : \A u \in S : t <= u

\* enqueueNextReadyRound: the first later turn that is PENDING, and its round
\* if that is ready.
EnqueueNext(w) ==
  LET later == {t \in Turns : t > 2 * worker[w].round - 1 /\ turn[t] = "PENDING"}
      r == RoundOf(First(later))
  IN
  /\ WorkerAt(w, "next")
  /\ job' = IF later # {} /\ Ready(r) THEN [job EXCEPT ![r] = Queue!Added(@)] ELSE job
  /\ WorkerEnds(w, "succeed")
  /\ UNCHANGED <<dbVars, chat, recovery, terminator, faults>>

\* BullMQ settles the job, unless it was taken from this worker.
FinishJob(w) ==
  LET r == worker[w].round IN
  /\ worker[w].pc \in {"succeed", "delay", "throw"}
  /\ job' = IF ~Queue!Holds(job[r], w) THEN job
            ELSE [job EXCEPT ![r] = CASE WorkerAt(w, "succeed") -> Queue!Completed(@)
                                      [] WorkerAt(w, "delay") -> Queue!Delayed(@)
                                      [] WorkerAt(w, "throw") -> Queue!Thrown(@)]
  /\ worker' = [worker EXCEPT ![w] = IdleWorker]
  /\ UNCHANGED <<dbVars, chat, recovery, terminator, faults>>

\* A database or BullMQ call throws: inside analyzeTurn's try block the round
\* is released, elsewhere the error goes straight to BullMQ.
WorkerCallFails(w) ==
  /\ faults < MaxFaults
  /\ \/ worker[w].pc \in {"saving", "handing"} /\ WorkerGoto(w, "failing")
     \/ worker[w].pc \in {"claim", "unclaimed", "rehanding", "failing", "cancelled", "next", "delay"}
        /\ WorkerEnds(w, "throw")
  /\ faults' = faults + 1
  /\ UNCHANGED <<dbVars, job, chat, recovery, terminator>>

WorkerCrashes(w) ==
  /\ faults < MaxFaults /\ ~WorkerAt(w, "idle")
  /\ worker' = [worker EXCEPT ![w] = IdleWorker]
  /\ faults' = faults + 1
  /\ UNCHANGED <<dbVars, job, chat, recovery, terminator>>

\* BullMQ takes back a job whose worker is gone, or, a fault, one whose
\* worker is only slow.
JobStalls(r) ==
  /\ job[r].state = "active"
  /\ \E j \in Queue!Stalled(job[r]) : job' = [job EXCEPT ![r] = j]
  /\ UNCHANGED <<dbVars, procVars>>

Orphan(r) ==
  LET w == job[r].owner IN WorkerAt(w, "idle") \/ worker[w].round # r

OrphanStalls(r) == JobStalls(r) /\ Orphan(r) /\ UNCHANGED faults

BlockedWorkerStalls(r) ==
  /\ JobStalls(r) /\ ~Orphan(r)
  /\ faults < MaxFaults
  /\ faults' = faults + 1

\* The AI limit keeps an attempt below the stale limit of 80 s, so only a
\* fault lets a round go stale under a working worker.
RoundGoesStale(r) ==
  LET attended == \E w \in Workers : worker[w].round = r /\ Claimed(w) IN
  /\ Is(r, "PROCESSING") /\ r \notin stale
  /\ stale' = stale \cup {r}
  /\ \/ ~attended /\ UNCHANGED faults
     \/ attended /\ faults < MaxFaults /\ faults' = faults + 1
  /\ UNCHANGED <<debate, turn, graph, job, procVars>>

-----------------------------------------------------------------------------
(* DebateTimeoutService.terminateDebate.                                    *)

TerminateDebate ==
  /\ debate = "LIVE" /\ debate' = "FAILED"
  /\ turn' = [t \in Turns |-> IF turn[t] \in {"PENDING", "PROCESSING"} THEN "FAILED" ELSE turn[t]]
  /\ stale' = {}
  /\ terminator' = "ended"
  /\ UNCHANGED <<graph, job, chat, worker, recovery, faults>>

\* cancelDebate aborts the AI calls of its own process.
CancelInvocations ==
  /\ terminator = "ended"
  /\ \E W \in SUBSET {w \in Workers : WorkerAt(w, "asking")} :
       worker' = [w \in Workers |-> IF w \in W THEN [worker[w] EXCEPT !.pc = "cancelled"]
                                    ELSE worker[w]]
  /\ terminator' = "cancelled"
  /\ UNCHANGED <<dbVars, job, chat, recovery, faults>>

\* cancelAnalyzeTurn for every turn: Promise.allSettled.
RemoveJobs ==
  /\ terminator = "cancelled"
  /\ job' = [r \in RoundNumbers |-> Queue!Removed(job[r])]
  /\ terminator' = "idle"
  /\ UNCHANGED <<dbVars, chat, worker, recovery, faults>>

TerminatorFails ==
  /\ faults < MaxFaults /\ terminator # "idle"
  /\ terminator' = "idle"
  /\ faults' = faults + 1
  /\ UNCHANGED <<dbVars, job, chat, worker, recovery>>

-----------------------------------------------------------------------------
RecoveryStep == FindPending \/ EnsureJob \/ ResetStale \/ FindReset \/ RestoreStale

WorkerStep(w) ==
  \/ \E r \in RoundNumbers : TakeJob(w, r)
  \/ Claim(w) \/ ClaimRefused(w) \/ Unclaimed(w)
  \/ AiAnswers(w) \/ SaveRound(w) \/ SaveRefused(w)
  \/ HandOver(w) \/ Release(w) \/ EnqueueNext(w) \/ FinishJob(w)

Next ==
  \/ InsertTurn \/ EnqueueTurn \/ EnqueueTurnFails
  \/ RecoveryStep \/ EnsureJobFails \/ RecoveryFails
  \/ \E w \in Workers : WorkerStep(w) \/ WorkerCallFails(w) \/ WorkerCrashes(w)
  \/ \E r \in RoundNumbers : OrphanStalls(r) \/ BlockedWorkerStalls(r) \/ RoundGoesStale(r)
  \/ TerminateDebate \/ CancelInvocations \/ RemoveJobs \/ TerminatorFails

Spec == Init /\ [][Next]_vars

\* The scheduler polls, workers take jobs and go on, BullMQ notices lost
\* locks and time passes; the scheduler's call to BullMQ does not fail each
\* time.  Speakers and the time limits owe nothing.
Fairness ==
  /\ WF_vars(RecoveryStep) /\ SF_vars(EnsureJob)
  /\ \A w \in Workers : WF_vars(WorkerStep(w))
  /\ \A r \in RoundNumbers : WF_vars(OrphanStalls(r)) /\ WF_vars(RoundGoesStale(r))

LiveSpec == Spec /\ Fairness

-----------------------------------------------------------------------------
WorkerPcs == {"idle", "claim", "unclaimed", "asking", "saving", "handing",
              "rehanding", "failing", "cancelled", "next", "succeed", "delay", "throw"}
Statuses == {"PENDING", "PROCESSING", "COMPLETED", "FAILED"}

WorkerRecords == [pc : WorkerPcs, round : RoundNumbers, made : 0..Attempts]
RecoveryRecords == [pc : {"idle", "ensure", "reset", "reensure", "restore"}, round : RoundNumbers]

\* Every variable holds what its column, job or handler may hold.
TypeOK ==
  /\ debate \in {"LIVE", "FAILED"}
  /\ turn \in [Turns -> Statuses \cup {"NONE"}]
  /\ stale \subseteq RoundNumbers
  /\ graph \in Seq(RoundNumbers)
  /\ job \in [RoundNumbers -> Queue!Jobs]
  /\ chat \in Turns \cup {0}
  /\ worker \in [Workers -> WorkerRecords]
  /\ recovery \in RecoveryRecords
  /\ terminator \in {"idle", "ended", "cancelled"}
  /\ faults \in 0..MaxFaults

\* Rounds are analyzed in order and as a whole: a round that is claimed or
\* analyzed follows analyzed rounds only, its two turns share their status,
\* and only claimed rounds are stale.
RoundsInOrder ==
  \A r \in RoundNumbers :
    /\ (\E t \in TurnsOf(r) : turn[t] \in {"PROCESSING", "COMPLETED"})
         => Is(r, turn[2 * r]) /\ \A t \in 1..(2 * r - 2) : turn[t] = "COMPLETED"
    /\ r \in stale => Is(r, "PROCESSING")

\* The graph holds exactly the analyzed rounds, each once and in order,
\* although a late worker, a stale reset or a restored round may have one
\* analyzed twice; and who analyzes a round finds the graph of all earlier
\* ones.
GraphIsWhole ==
  /\ \A i \in 1..Len(graph) : graph[i] = i
  /\ \A r \in RoundNumbers : Is(r, "COMPLETED") <=> r \in Range(graph)
  /\ \A w \in Workers : worker[w].pc \in {"asking", "saving"} => 1..(worker[w].round - 1) \subseteq Range(graph)

\* The Analyzer implements AnalysisOutcome: the graph grows round by round,
\* and not after a termination.
FollowsAnalysis == Outcome!Spec

\* An analyzed turn stays analyzed: no release, reset or restoration of a
\* worker or poll that comes too late takes it back.
AnalyzedStays ==
  [][\A t \in Turns : turn[t] = "COMPLETED" => turn'[t] = "COMPLETED"]_vars

\* Whatever rounds the speakers have finished, they are analyzed in the end
\* or one has failed: a lost enqueue, a crash or a failed restoration is made
\* up for by the scheduler.
RoundsAreAnalyzed ==
  []<>(\A r \in RoundNumbers :
         turn[2 * r] # "NONE" => Is(r, "COMPLETED") \/ \E t \in 1..(2 * r) : turn[t] = "FAILED")
=============================================================================
