# Formal model of the Heimdall debate backend

TLA+ modules that model the core of `src/backend` (NestJS, PostgreSQL, Redis, BullMQ, WebSocket),
configurations that TLC checks on small instances, and theorems that the TLA+ proof system checks
for every value of the constants. `PROJECT.json` maps every definition to the source lines it models
and lists the hazards the properties are for.

Contents: [system](#1-the-system) · [modules](#2-modules) · [debate and chat](#3-debatechat) ·
[Analyzer](#4-analyzer) · [fact check](#5-factcheck) · [Judge](#6-judgepipeline) ·
[what the stages hand over](#7-argumentation) · [community](#8-community) ·
[rooms and sessions](#9-communityroom-debateroom-sessions) · [runs](#10-what-the-runs-check) ·
[findings](#11-where-code-and-documents-disagree) · [proofs](#12-what-is-proved) ·
[not modelled](#13-what-is-not-modelled) · [plan](#14-plan)

## 1. The system

Two speakers debate in turns; an Analyzer turns each round into an argument graph, a fact check
verifies claims against web sources, and a Judge decides. Everything durable is in PostgreSQL; Redis
holds drafts and BullMQ's queues; several schedulers poll for what was lost.

| component | state | operations | talks to |
|---|---|---|---|
| Debates service | `debate`, votes, invitations (in memory) | create, start, invite, accept, reject, expire, vote | community, Judge readiness |
| Debate chat | Redis drafts, counters, dedup maps, finalize locks; `debate_turn`, `debate` | append a message, finalize a turn | Analyzer queue, WebSocket |
| Turn timeout scheduler | poll flag | finalize a turn whose time is up | debate chat |
| Debate timeout | poll flag | forfeit, expire: end the debate and cancel its work | all queues, chat, AI cancellation, community |
| Analyzer | `debate_turn.analysis_status`, components, relations; BullMQ job per round | claim a round, analyze, complete, release; recover | fact-check queue |
| Fact check | `fact_check_batch`, stage tasks, snapshot, results; BullMQ job per task | ground, synthesize, fail, recover | pipeline event bus |
| Judge | `judge_task`, `judgment_result`, `debate.status`, scores; BullMQ job | start when ready, claim, judge, save, fail, retry, recover | event bus, HTTP |
| AI cancellation | abort controllers, per process | run, cancel | Analyzer, fact check, Judge, debate timeout |
| WebSocket server | rooms in memory | authenticate, send snapshots, dispatch commands, broadcast | chat, community chat |
| Community chat | members, intents, messages, opinions, status | join, leave, intent, send | debates |
| Auth | refresh-token sessions | issue, refresh (rotate), logout | members |
| Members | profile, score | CRUD; score is incremented by Judge and forfeit | |

What makes it hard:

* **Three stores, no common transaction.** A finalized turn is read from Redis, committed to
  PostgreSQL, deleted from Redis and announced to BullMQ: four steps, each of which can be the last.
* **Check, then act.** A message is validated against the debate row and appended by a Lua script
  later; a task is read and then reset; a job's state is read and then acted upon; an invitation is
  checked, awaited and then issued.
* **Locks and claims that expire.** The finalize lock lives 30 seconds. A `PROCESSING` task or turn
  older than its stale limit is given to another worker while the first may still be at work, and
  the row has no owner.
* **At-least-once delivery.** BullMQ repeats stalled and failed jobs; clients resend messages.
* **Termination at any moment.** A forfeit or the total time limit ends the debate between any two
  steps of everything above.
* **State in memory.** Invitations, rooms and the event bus die with their process.

What makes each component correct, and where it is stated:

| component | must hold | stated as |
|---|---|---|
| debate row | status and current turn follow the protocol; complete when finalized | `ProtocolOrder`, `CurrentTurnFollows`, `FinalizedIsComplete` |
| chat | each turn is saved once, in order, whoever finalizes it | `FollowsLifecycle` |
| | the draft keys agree; a saved turn has no identified message twice and its messages respect the limit | `DraftKeysAgree`, `SavedTurnsAreSound` |
| | an acknowledged message is not lost | `AckedSurvive` |
| | a finalized turn is queued for analysis; the live phase ends | `FinalizedTurnsAreQueued`, `LivePhaseEnds` |
| Analyzer | rounds are analyzed whole, in order, each in the graph once, and stay analyzed | `RoundsInOrder`, `GraphIsWhole`, `AnalyzedStays`, `FollowsAnalysis` |
| | no round is forgotten | `RoundsAreAnalyzed` |
| fact check | stages, evidence, results and batch agree; a batch is decided once | `StagesAgree`, `FollowsBatch` |
| | a batch is decided; nothing of a failed one stays at work | `BatchIsDecided`, `FailedBatchSettles` |
| Judge | task, result and debate agree; decided once; paid once | `TaskAgrees`, `FollowsOutcome`, `PaidOnce` |
| | a ready debate is decided; a failed debate's task settles | `ReadyDebateIsDecided`, `FailedDebateSettles` |
| hand-over of data | what one stage accepts, the next accepts, but for the number of targets; graph, prompt and evidence are sound | `GraphIsSound`, `FactCheckInputAccepted`, `JudgeInputAccepted`, `AcceptedIsMappable`, `PromptIsPrefix`, `EvidenceIsFaithful` |
| community | one invitation waits, each is decided, once; `ACTIVE` means a debate is underway | `OnePending`, `FollowsInvitations`, `InvitationsAreDecided`, `ActiveIsUnderway` |
| rooms | whoever has connected knows the drafts, the turn, the opinions and the newest messages | `SnapshotCovers`, `NothingMissed` |
| sessions | a family of tokens is a chain, and ends for good | `FamilyIsAChain`, `EndedStaysEnded` |

## 2. Modules

```
TurnProtocol            turns of a debate and what follows each (operators only)
  DebateLifecycle       abstract: transactions on the debate row and its turns
    DebateLifecycle_proofs
  DebateChat            chat, turn finalization, schedulers    DebateChat implements DebateLifecycle
    MCDebateChat, DebateChat_proofs
AnalysisOutcome         abstract: the argument graph grows by rounds
  Analyzer              rounds, jobs, recovery                 Analyzer implements AnalysisOutcome
    Analyzer_proofs
FactCheckOutcome        abstract: how a batch is decided
  FactCheck             stage tasks, jobs, recovery            FactCheck implements FactCheckOutcome
    FactCheck_proofs
DebateOutcome           abstract: how a debate ends and who is paid
  JudgePipeline         task, job, workers, retries            JudgePipeline implements DebateOutcome
    MCJudgePipeline, JudgePipeline_proofs
QueueJob                one BullMQ job (operators; Analyzer and FactCheck use it)
Places                  sorting, filtering, dropping repetitions (operators)
Texts, AnalyzerRules, EvidenceRules, JudgeRules   validators and mappers (operators)
  Argumentation         the data that Analyzer, fact check and Judge hand to each other
    MCArgumentation, Argumentation_proofs
InvitationOutcome       abstract: what becomes of invitations
  Community             membership, invitations, status        Community implements InvitationOutcome
    Community_proofs
Sessions                refresh-token sessions
CommunityRoom, DebateRoom    rooms of the WebSocket server
  Gateway               Sessions, with instances of the two rooms
    MCGateway, Gateway_proofs
```

A step of a detailed module is one Redis command or script, one database statement or transaction,
one BullMQ call, or, where the state is in memory, the stretch between two awaits. Handlers carry a
program counter (`pc`), and between two of their steps all others run. Reads on which a handler acts
later are steps of their own. Operators whose name begins with `M_` are deliberate bugs ("mutants")
that show each property can fail; no specification uses them.

How the pieces fit: `DebateChat` produces the finalized turns whose insertion is `InsertTurn` in
`Analyzer`; `Analyzer` produces the batch that `FactCheck` starts with (its `Init` is the moment
`analyzeTurn` has committed); `ready` in `JudgePipeline` is the conjunction of what those two decide.
`DebateLifecycle` and `DebateOutcome` are two views of one row, `debate`: the first keeps the turns,
the second the verdict and the rewards. `terminateDebate` appears in each module with its effect on
the rows of that module.

## 3. DebateChat

One debate. Correspondence of state:

| variable | in the code |
|---|---|
| `status`, `turn`, `turns` | `debate.status`, `current_*` columns, `debate_turn` by sequence |
| `clock` | the current turn's start and limit: before its start (`PREPARING`), within, past the limit |
| `overdue` | `isDebateLiveExpired` |
| `drafts`, `chars`, `dedup`, `draftKeys`, `lock` | the five kinds of Redis key, by turn; `lock` holds the id of the command that set it |
| `jobs` | turns passed to `enqueueAnalyzeTurn` |
| `sender`, `finalizer`, `terminator` | handlers of `turn.message.send`, of `turn.finalize` and the scheduler, of `terminateDebate` |
| `acked`, `lapsed`, `torn` | history, read by properties only (and written by no guard) |

| action | in the code |
|---|---|
| `AppendCheck`, `AppendScript` | the two halves of `appendDraftMessage`; the script's five answers in their order |
| `ClientFinalize` | `handleMessage` → `finalizeTurn`: the lock of the turn the *client* names, before any validation |
| `SchedulerFindsTurn`, `SchedulerLock` | `finalizeExpiredTurn` reads the row, then calls `finalizeTurn` |
| `ReadDrafts`, `CommitTurn`/`RejectTurn`, `CleanDrafts`, `EnqueueTurn`, `ReleaseLock` | the rest of `finalizeTurn`, in order |
| `FinalizeStepFails`, `FinalizerCrashes` | an exception (the `finally` runs), or the end of the process (it does not) |
| `LockExpires` | the key's TTL |
| `Forfeit`, `ExpireDebate`, `ListDraftKeys`, `ClearDrafts` | `terminateDebate` and `clearDebateDrafts` |

Abstractions. A message is its `clientMessageId`, with a length. The id is optional
(`debate-chat-command.validator.ts:72`): the messages of `Anonymous` have none and stand for their
content, are never recognised as sent before, and are in no dedup map. A saved content is the sequence
of its messages, and the empty one stands for the "no statement" placeholder. The command validator
trims a message when it is received and rejects a blank one, hence `Length(m) > 0`; the trimming in
`finalizeTurn` has nothing left to do. Its `join("\n")` is what `TextLength` counts: the limit was
checked against the sum of the lengths, so that a saved text may exceed it by a character for each
message after the first, and `SavedTurnsAreSound` says so. Speaker checks compare constants of the
debate and are implied by the turn's side. Draft keys live six hours, longer than a debate: their TTL
is left out. The two guards on the database row, `CanReceiveTurn` and `turn`, are read inside the
transaction that locks it.

The lock's value is `command.id`, which the client chooses. Two commands may carry one id (a client
that sends its command again), so that a handler that outlived its lock deletes the lock of a later
handler with the same id (`SameCommand`). `lapsed` records who has lost a lock, by expiry or in this
way.

`AckedSurvive` has two exceptions that are real: a failed debate clears its drafts, and a handler that
has lost its lock deletes what was appended meanwhile (`torn`, see section 11). A message appended to a
turn already finalized stays in that turn's drafts: it is not destroyed, but no turn will hold it.
`FinalizedTurnsAreQueued` excepts runs with a failure, since a finalizer that fails after its commit
queues nothing: that such a round is analyzed all the same is `RoundsAreAnalyzed` of `Analyzer`.

## 4. Analyzer

The rounds of one debate. `turn` is `debate_turn.analysis_status` by sequence, `stale` the rounds whose
`analysis_processing_started_at` is too old, `graph` the rounds whose components and relations are
saved, in the order in which they were, `job` the BullMQ job of each round.

| action | in the code |
|---|---|
| `InsertTurn`, `EnqueueTurn` | the end of `finalizeTurn`: commit, then `enqueueAnalyzeTurn` with `add` |
| `FindPending`, `EnsureJob` | `enqueuePendingAnalyzeTurn`, `ensureJob` |
| `ResetStale`, `FindReset`, `EnsureJob`/`EnsureJobFails`, `RestoreStale` | the reset of a stale round, its enqueue, and `restoreForNextRecovery` if that throws |
| `TakeJob`, `Claim`/`ClaimRefused`, `Unclaimed` | `AnalyzerProcessor.process`, `claimRoundForAnalysis`, `handleUnclaimedTurn` with its three ways out |
| `AiAnswers`, `SaveRound`/`SaveRefused`, `HandOver`, `Release`, `EnqueueNext`, `FinishJob` | the rest of `analyzeTurn` and of the processor |
| `WorkerCallFails`, `WorkerCrashes`, `OrphanStalls`, `BlockedWorkerStalls`, `RoundGoesStale` | exceptions, crashes, BullMQ's stalled check, the passing of time |
| `TerminateDebate`, `CancelInvocations`, `RemoveJobs` | `terminateDebate` |

The claim is one conditional UPDATE whose conditions are evaluated with it (`Ready`). The completing
transaction holds the debate row `FOR SHARE`, so that a termination comes before or after it
(`MaySave`). A read of the recovery's list is not a step: every listed round is looked at again before
anything is done to it. A round without targets, or with fact checks switched off, has nothing to hand
on, hence the choice in `SaveRound` and `Unclaimed`.

`EnsureJob` looks at a job and then acts; when a worker gets in between, BullMQ throws or the job was
moved on. `QueueJob!Overtaken` is what such an end may leave: the job as it was, or, after `remove`,
no job. In `EnsureJobFails` this may happen at any poll.

## 5. FactCheck

One batch. `task` is the status of its two stage tasks (`NONE` before the row exists), `stale`
their age, `snapshot` and `results` say that the rows exist, `job` is one BullMQ job per task.

| action | in the code |
|---|---|
| `Recover`, `ListPending`, `EnsureJob` | `FactCheckRecoveryScheduler.recover`, `FactCheckQueueService` |
| `TakeJob`, `Claim`, `Unclaimed` | the processors; `claimTask`; `handleUnclaimedTask` with its repair of a missing synthesis job |
| `AiAnswers`, `CompleteGrounding`, `CompleteSynthesis`, `CompletionRefused`, `SynthesisCancelled` | the try block: input, AI call, validation, the completing transactions and their refusals |
| `WorkerEnsures`/`WorkerEnsureFails`, `Publish` | `enqueueSynthesisTask` inside the try block; `fact-check.completed` |
| `HandleFailure`, `FinishJob` | `handleFailure`: the task is released only if `PROCESSING`, the batch fails whatever the task's status |
| `TerminateDebate`, `TerminateDuringGrounding`, `CancelInvocations`, `RemoveJobs` | `terminateDebate` |

`TerminateDuringGrounding` is the one place where two transactions overlap visibly: `completeGrounding`
reads the debate without a lock, so a termination may end the debate after that read, wait for the
grounding task's row, and miss the synthesis task that was inserted with it. The batch is then
`FAILED` with a `PENDING` task; `FailedBatchSettles` shows that the recovery enqueues it, that it is
refused, and that it comes to rest. `FactCheckOutcome` names what remains true: evidence may still
appear with the termination, results never.

`StagesAgree` allows a `FAILED` batch whose grounding is `COMPLETED` and whose synthesis waits: a
worker whose attempt was stale may fail the batch on its last attempt although another completed the
task. What is wrong is kept from getting worse by `CompleteSynthesis`, which looks at the batch.

## 6. JudgePipeline

One debate and its only `judge_task`. `ready` is the conjunction of the readiness counts; `job` is the
BullMQ job with the task's id (`waiting` includes delayed), `made` its `attemptsMade`, `owner` the
worker that holds its BullMQ lock; `stale` says that `processing_started_at` is past the limit. The
defaults of `JUDGE_PROCESSING_STALE_MS` and `JUDGE_MANUAL_RETRY_STALE_MS` are equal, so one flag serves
both.

| action | in the code |
|---|---|
| `StartJudge`, `StartRefused` | the transaction of `tryStartJudge` |
| `Recover`, `ListPending` | `JudgeRecoveryScheduler.recover`: reset, (start), enqueue pending |
| `Request`, `CheckResult`, `ReadTask`, `ResetTask` | `POST judge`, `POST judge/retry`, pipeline events; `retryStaleJudge`, `retryTaskForDebate` |
| `LookAtJob`, `RetryFailedJob`, `RemoveCompletedJob`, `AddJob` | `ensureJob`, one BullMQ call at a time; `retry()` and `remove()` throw if the job moved on |
| `TakeJob`, `Claim`, `Reconcile`, `Assemble`, `AiAnswers`, `SaveVerdict`/`SaveRefused`, `HandleFailure`, `FinishJob` | a worker, from `JudgeProcessor.process` to BullMQ settling the job |
| `WorkerCallFails`, `WorkerCrashes`, `CallerFails`, `TerminatorFails` | exceptions and crashes between steps |
| `OrphanStalls`, `BlockedWorkerStalls` | BullMQ's stalled-job check (external: modelled from its use) |
| `ForfeitDebate`, `ExpireDebate`, `CancelInvocations`, `RemoveJob` | `terminateDebate` as far as the Judge goes |

`CancelInvocations` aborts any subset of the running AI calls: those of the process that ends the
debate. Its refusal conditions aside, the completing transaction is one step, as its row locks make it.
`made` stops at `Attempts`: further attempts of a job retried after its last failure behave as the last.

## 7. Argumentation

The data that flows through the pipeline, without its concurrency: a step is one request to a model
and the transaction that saves its answer. Rounds come in order and once, batches are grounded and
synthesized once, which is what `RoundsInOrder`, `FollowsAnalysis` and `FollowsBatch` establish.
`AnalyzerRules`, `EvidenceRules` and `JudgeRules` are the validators and mappers, one operator per
function of the code, in its order; `Argumentation` adds the assemblers, the rows and the steps.

* A text is its length before and after trimming (`Texts`): the validators look at nothing else.
* `uuid` is a table of ids in which later rounds sort *before* earlier ones, so that an order by id
  alone is noticed (`PromptIsPrefix`).
* `createdAt` is the number of the round: PostgreSQL gives all rows of a transaction one value.
* `sort`, `filter` and the dropping of repetitions are `Places`: a set of places put in order, and what
  a sequence has there. The code loops; `Places` says which element ends up where, which is what the
  proofs need and what TLC evaluates to the same.
* Answers of the models come from finite sets with good and bad members: repeated and unknown keys,
  references out of range, contradicting relations, texts that are blank, padded or too long, too many
  targets, missing and repeated results, sources out of range and repeated, scores within and out of
  their limits. A refused answer changes nothing here; what a refusal does to jobs is in the other
  modules.
* The limits exist twice in the code: `AnalyzerAiService` validates with the default ones,
  `AnalyzeTurnService` with those of the configuration. Both are constants, and they differ in the run.

The targets per turn and per batch are separate environment variables that nothing compares
(`env.validation.ts:55`, `:72`). The defaults fit exactly (5 per turn, 10 per batch); with values that
do not, a round is analyzed into a batch that is refused on every attempt. Nothing is assumed of them:
`FactCheckInputAccepted` says that a round has at most `TargetsPerRound` targets, twice what both
limits per turn allow, and that the number of targets is the only reason for which the fact check can
refuse them. In the run the settings fit, so that every batch goes on to the Judge.

The Judge's input has the two speakers with their names, and the speaker of each turn, which
`validateParticipants` compares: what the chat saves is a turn of the speaker of its side
(`SpeakerOf`). Of the verdict only its acceptance is kept (`judged`): totals and winner are sums and a
comparison, and `JudgePipeline` chooses the winner freely.

`IsEvidenceOf` is the reference definition of `Extracted`: usable uris, each preceded by exactly those
that occur before it, and as many as fit. It knows nothing of filtering, numbering and cutting.

## 8. Community

One community. `intent`, `status`, `debates` are rows; `pending` and `byCommunity` are the two maps of
`DebatesService`, `invited` the invitations ever issued, `outcome` their history.

| action | in the code |
|---|---|
| `JoinCommunity`, `LeaveCommunity`, `UpdateIntent` | `CommunityChatService`; the foreign key keeps speakers of a debate from leaving |
| `BeginInvitation`, `CheckInvitation`, `IssueInvitation` | `startCommunityDebate`: map, transaction, map again with the insertion and the timer |
| `ExpireInvitation`, `RejectInvitation`, `TakeInvitation` | the timer, `rejectCommunityDebateInvitation`, `takeDebateInvitation` |
| `AcceptInvitation`, `RefuseInvitation` | the transaction of `acceptCommunityDebateInvitation`, or its rollback |
| `CheckSpeakers`, `InsertDebate`, `StartDebate` | `createDebate` (check, then insert), `startDebate` |
| `FinalizeDebate`, `CompleteDebate`, `TerminateDebate` | the later transactions on the debate, with the community's status |
| `Restart` | the maps, the timers and the calls are gone |

`JUDGING` stands for `DEBATE_FINALIZED` too: nothing here tells them apart. A community is `ACTIVE`
only while a debate of an invitation is underway; the converse does not hold, since the end of a debate
that `createDebate` made sets `WAITING` as well, and the code allows such debates at any time.
`InvitationOutcome` therefore speaks of debates that invitations started: one of two accepted
invitations starts a debate.

## 9. CommunityRoom, DebateRoom, Sessions

`CommunityRoom` and `DebateRoom` follow a socket from `handleConnection` to its close. The order of the
code matters and is what the properties are about: a socket is put into its room, then the stored
data is read (`Promise.all` for a debate, one list after the other for a community) and sent. What the
reads lack is announced to the room later, so that whoever has been sent what is stored (`ready`)
knows it all. `SnapshotCovers` and `NothingMissed` except what is still to be told (`Telling`) and what
a handler stored before it failed (`unannounced`): `finalizeTurn` may throw after its commit, and
`sendMessage` may fail between its insertion and its second read, after which a retry is answered as a
duplicate and never broadcast.

Modelled as the code has it: a socket that closes during the verification of its token is put into
the room nevertheless and stays there (nobody sends to it); messages that arrive before the entry are
handled after it; `removeFromRoom` comes with the close event.

In `DebateRoom` a handler is a sequence of awaited calls, and a call returns, is refused, or fails
before or after it took effect:

| action | in the code |
|---|---|
| `ReceiveDraft`, `AppendScript` | `appendDraftMessage` looks at the row, later runs its script, which looks at the lock only: drafts are appended during and after the finalization |
| `LockTurn`, `SaveTurn`, `DeleteDrafts`, `ReleaseLock` | `finalizeTurn`, of a client or the scheduler; the enqueue is a call without effect here |
| `Tell` | acknowledgement and `broadcastExcept` of a draft, `broadcast` of the turn |
| `LockExpires`, `ClearDrafts` | the TTL of the lock, under a handler at work too; `clearDebateDrafts` |

In `CommunityRoom` the insertion with `orIgnore` reports a created row exactly when there was none.
`listMessages` orders by creation and takes `ListLimit` (50 in the code): `Newest` are the messages it
is sure to take, those that fewer than `ListLimit` others are as new as; of messages created in one
instant it takes any that there is room for. `NothingMissed` therefore speaks of the newest messages
and of all opinions; older messages are what a client pages back for. Members of the room have not
spoken in a debate, so that they may leave.

`Sessions` is one member's `refresh_token_session` table. `Rotate` and `Refuse` run under the lock of
the token's row. The revocation of a family is an UPDATE that takes the rows of its snapshot: a
rotation of another token of the family may commit in between (`found`). `FamilyIsAChain` is why that
does no harm: a refused token is never the last of its chain without the last being found.

## 10. What the runs check

| run | instance | shows |
|---|---|---|
| `chat_lifecycle` | 2 rounds (8 turns), no sender, 1 client, scheduler; locks expire any time; 1 fault; fair | `FollowsLifecycle`, `ProtocolOrder`, `CurrentTurnFollows`, `FinalizedIsComplete`, `FinalizedTurnsAreQueued`, `LivePhaseEnds` |
| `chat_drafts` | 2 messages, one without id, limit 2, 1 sender, 2 clients, 2 command ids; locks expire any time; 1 fault; first turn only (`OpeningOnly`) | types, `DraftKeysAgree`, `SavedTurnsAreSound`, `AckedSurvive` |
| `analyzer` | 2 rounds, 2 workers, recovery, 2 attempts, 1 fault; fair | types, `RoundsInOrder`, `GraphIsWhole`, `FollowsAnalysis`, `AnalyzedStays`, `RoundsAreAnalyzed` |
| `fact_check` | 1 batch, 2 workers, Analyzer, recovery, 2 attempts, 1 fault; fair | `StagesAgree`, `FollowsBatch`, `BatchIsDecided`, `FailedBatchSettles` |
| `judge` | 2 workers, 1 request, recovery, 2 attempts, attempts may outlive the stale limit, 1 fault | types, `TaskAgrees`, `PaidOnce`, `FollowsOutcome` |
| `judge_live` | 1 worker, 1 request, recovery, 1 fault, fair | `ReadyDebateIsDecided`, `FailedDebateSettles` |
| `arguments` | 3 rounds, 99 answers each, 3 groundings, 6 syntheses, 32 answers of the Judge | `GraphIsSound`, `FactCheckInputAccepted`, `JudgeInputAccepted`, `PromptIsPrefix`, `EvidenceIsFaithful`, `AcceptedIsMappable` |
| `community` | host, 1 guest, 2 calls, 2 invitations, 2 debates, 1 fault; fair | `OnePending`, `ActiveIsUnderway`, `FollowsInvitations`, `InvitationsAreDecided` |
| `gateway` | 2 refreshes and 4 tokens; 2 sockets, 2 messages of which 1 is listed, 1 opinion; 2 sockets, 2 drafts, 2 handlers under one command id, locks expire any time; 1 fault; the second socket connects when the first has been served (`BobComesLater`) | `FamilyIsAChain`, `EndedStaysEnded`, `NothingMissed`, `SnapshotCovers` |
| `chat_lock_expiry`, `chat_resend`, `judge_retry_stale` | minimal | violations, section 11 |

Bounds, and why they are enough:

* `Rounds`. Two rebuttal rounds take every branch of `calculateNextTurnState`; the theorems of
  `DebateChat_proofs` hold for any number. Two rounds of analysis are the smallest number with a
  predecessor; the conditions of a claim mention the earlier turns only through "all `COMPLETED`".
* `ChatSlots`. Clients chat in and finalize one turn; in `chat_lifecycle` it is the *second* turn, so
  that a client can lock and finalize it before it is the current one, while it is, and after. The
  scheduler finalizes all others.
* `Messages`, `MaxLength`. Two messages of one character against a limit of two, one of them without a
  `clientMessageId`: sent again, that one reaches the limit, and a message is refused.
* `Clients`, `CommandIds`. Two finalizers under one id or under two: the late one releases a lock of its
  own, of the other, or none. `OpeningOnly` keeps the scheduler out of `chat_drafts` (its lock differs
  from a client's in nothing but its id) and stops when the second turn is saved: the draft keys
  are per turn.
* `ListLimit = 1` with two messages: one is listed and one is not. `BobComesLater` lets the second socket
  connect after the first has been served, and send no drafts: it is there to be told by others, and
  sockets share nothing but the room.
* `MaxFaults = 1`. One crash, failed call or stall at every point of every handler. Lock expiry, the
  Judge's stale attempts and failing restorations of the Analyzer's recovery are not counted and are
  unbounded. The theorems hold for any number of faults.
* `Workers = 2`: one that is late and one that took over. A job has one owner at a time, so a third
  worker could only be late like the first. `judge_live` has one worker, because a second one is only
  needed for the races that `judge` covers, and restarts are faults.
* `Attempts = 2` is the configured number of attempts of all three queues.
* `Guests = {g1}`, two invitations: one invitation that is taken, and a second that is issued meanwhile
  and accepted too. Which guest is invited is never compared with anything but that guest's membership.
* `MaxInvitations`, `MaxDebates`, `MaxTokens` end the runs: a call beyond the bound is refused.
* The three parts of `Gateway` share no state; each is explored with the others at rest. That this loses
  nothing of any part is not a theorem but its making: each part's own `Init` and `Next` are used.
* Messages, senders, clients, workers, requests and handlers are symmetric; runs that check liveness
  use no symmetry.

Fairness. Weakly fair are the polls of the schedulers (`setInterval`, which skip a round only while
one is running), the steps of a handler that has begun (an `await` returns or throws), the workers
(BullMQ keeps polling), BullMQ's stalled check, the TTL of a key whose holder is gone, the timers of
invitations and the passing of time. Nothing is asked of users: they may never send, finalize, retry,
answer or forfeit. In `analyzer` the recovery's call to BullMQ may fail at any poll and is strongly
fair: it does not fail each time. `judge_live` has no attempt that outlives the stale limit
(`MayOutlive = FALSE`): the AI call is limited to 40 seconds (`GEMINI_JUDGE_TIMEOUT_MS`) against 75;
for the same reason such an attempt is a counted fault in `Analyzer` and `FactCheck`. No run asks
anything of the total time limit, which would end every debate in the end: the claim is that turn
timeouts and recoveries alone suffice.

`CHECK_DEADLOCK FALSE` stands in the configurations of chat, Analyzer, fact check, arguments and
gateway, where a debate that is over, a batch that is decided or a bound that is reached stops the
model. The Judge's system (the recovery polls) and the community never stop.

## 11. Where code and documents disagree

Each is a run in which TLC finds the documented claim violated.

* `chat_lock_expiry`. `README.md:37` says the finalize lock keeps appends out during finalization. The
  lock expires after 30 seconds and is not checked again, so a slow finalization (lock wait on the
  debate row, database failover) is not protected: an acknowledged message can be deleted with the
  drafts. The database is safe all the same (`FollowsLifecycle` holds with expiring locks).
* `chat_resend`. `README.md:32` says the ACK protocol prevents duplicate propagation of resent messages.
  The dedup map is deleted with the drafts; a resend that was validated before the commit and runs its
  script after the release is appended and broadcast again. The saved turn is safe
  (`SavedTurnsAreSound`).
* `judge_retry_stale`. `ai-pipeline-architecture.md:572` says a manual retry checks staleness again. It
  does so only on its read: a fresh attempt claimed in between is reset, and its verdict refused. The
  rows stay consistent (`TaskAgrees`), at the price of one more AI call.

Further disagreements without a run, because they are constants or structure: `README.md:31` gives a
limit of 1000 characters (the code: 500, and a newline more for each message after the first),
`README.md:134` a stale limit of 5 minutes for the Judge (75 seconds), `README.md:42` a fixed total time
(it grows with the rounds), and `README.md:19` and `:132` describe a Judge without queue or task table.
`README.md:38` says that the comparison of an owner token keeps a request from deleting the lock of
another; the token is the client's command id, and the model has the states in which a late handler
deletes the lock of a later one with the same id (`SameCommand`).

## 12. What is proved

All proofs hold for every value of the constants under the assumptions the modules name, each of which
TLC evaluates on the instances of section 10: at least one round (the column's CHECK), distinct
identifiers of actors, bounds that are numbers; for the rooms, that sockets and messages belong to
members (`RoomsAssumption`); for the data, that ids are distinct, that answers have the shape the JSON
schema gives them, that there is an id for every row and that members have names
(`ArgumentationAssumption`, `AnswersAssumption`). No assumption relates one setting to another.

The 26 invariants and all action properties and refinements of the passing runs are theorems, but for
liveness.

**`DebateLifecycle_proofs`.** `TurnsFollowProtocol` and `FinalizedDebateIsComplete`. `SlotAt(i)` gives
the i-th turn by arithmetic, `NextTurn` by the case analysis of the code; lemma `NextOfSlotAt` proves
that the two agree. `ProtocolOrder` alone is not inductive, since the turn that is appended is the
row's current turn: `LifecycleInv` adds `CurrentTurnFollows` and that a `READY` debate has no turns.

**`DebateChat_proofs`.** `ChatTypeCorrect`, and `ChatImplementsLifecycle`: `Spec => FollowsLifecycle`.
The refinement maps `turns` to their positions and everything else to itself. It needs only the type
invariant (a running debate has a current turn): since the transaction checks the locked row, nothing
that happens to the lock or the drafts can matter, which is why the theorem holds for
`LockMayExpire = TRUE`. `ChatFollowsProtocol`, `ChatKnowsTheTurn` and `ChatIsComplete` carry the
invariants of the lifecycle over to the rows of the chat, by an instance of `DebateLifecycle_proofs`
under the refinement: no interleaving, crash or expiring lock makes the chat save a turn twice or out
of order, or finalize a debate with a turn missing.

The drafts are a different matter: there the lock is all there is. `AcknowledgedSurvive` needs the
invariant `AckedInv`, with what the argument about the lock rests on: `DraftKeysAgree` (the drafts of a
turn, the total length and the dedup map say the same, but for messages without an id),
`ClearedAfterEnd` (only a failed debate has its drafts cleared), `ChatsInSlots`, `LocksHeld` (the lock
of a turn has the command id of whoever finalizes it and has not lost it: by expiry, or to the release
of another handler with that id) and `ReadsCover` (what is in the drafts is part of what a holder has
read, and later of what it has saved). `LocksKeepAppendsOut` is the same invariant for `LockMayExpire =
FALSE`: then nothing is appended between the two, so that what `chat_lock_expiry` refutes is due to
expiry and to nothing else. `SavedTurnsStaySound` rests on `DraftKeysAgree` and on `ListsAreSound`:
drafts, what a finalizer has read and what is saved are all sound. The lengths are compared through
`RunningTotals`, the function of partial sums that the counter key goes through, so that no fold has to
be reasoned about; `TextLength` of the saved text is such a function with the newlines added.
`TurnsAreHandedOver` says that a committed turn has been queued or its finalizer is still on its way to
do it, or failed.

**`Analyzer_proofs`.** `AnalyzerTypeCorrect`; `RoundsStayInOrder` with `OrderInv`, which adds
`RestoresBegun`: a round that the recovery has reset and may restore had been claimed, so that its
predecessors are completed; `restoreForNextRecovery` does not look. `AnalyzedTurnsStay` follows from it,
and `GraphStaysWhole` with `GraphInv`, which is `OrderInv` and the property itself: the graph is the
sequence `1, 2, ...` of the completed rounds (`GraphInOrder` is the part of it that most lemmas need).
Nothing is said of claims, owners or jobs, and nothing need be: a turn has no owner, the statements
alone keep the order. `AnalyzerFollowsAnalysis` is the refinement of `AnalysisOutcome`, step by step;
only `SaveRound` moves it.

**`FactCheck_proofs`.** `StagesStayInAgreement` and `FactCheckImplementsOutcome`. `StagesAgree` is
inductive with the types (`BatchInv`), and nothing about jobs, claims or workers is needed: each
transaction looks at the rows it changes. So neither late workers nor any number of deliveries,
crashes or lost jobs can decide a batch twice.

**`JudgePipeline_proofs`.** `JudgeTypeCorrect`; `RowsAgree`, whose inductive invariant `JudgeInv` adds
`ResetTargets` (a retry about to reset a task has seen it `FAILED` or `PROCESSING`: without it a reset
could reopen a completed task); `JudgeImplementsOutcome`; and `JudgePaysOnce`, which follows from the
refinement because `PaidOnce` is inductive in `DebateOutcome` (lemma `OutcomePaysOnce`).

**`Community_proofs`.** `CommunityInv` joins `OnePending`, `ActiveIsUnderway`, `SpeakersAreMembers`,
that the host is a member, and `OneUnderway`: of the debates that invitations started at most one is
underway. The last is what makes the refinement mapping `Running` a function of the rows, and what
`InvitationsAreKept` rests on.

**`Gateway_proofs`.** The sessions and both rooms. `FamiliesAreChains` by induction with `FamilyIsOld`
(a family is no younger than its tokens, so that a new family is new), and from it
`EndedFamiliesStayEnded`: only a rotation makes a live token, and it revokes a live one of the same
family. `NothingIsMissed` and `SnapshotsCover`: the invariants of the rooms say more than the
properties, `CommunityInTheRoom` and `DebateInTheRoom` (a socket has entered its room before it reads
anything) and `CommunityCovered` and `DebateCovered`, which speak of each socket from its first read on:
what is stored has been sent to it, is in what it has read, or is still to be told. A message among
the newest was among them whenever it was stored (`NewestOfMore`): later ones only push others out,
which is why a limit of any size does no harm. `DebateCovered` needs nothing of the lock: what a
handler appended or saved it is still to tell, whoever held it.
`PartsBehaveAsAlone`: a behaviour of `Gateway` is one of each part's own specification.

**`Argumentation_proofs`.** The six invariants of the data, for any rounds, limits and answers.
The prover has no induction, and needs none here: `Places` puts a set in order by giving each member
the number of those before it as its place, and `RanksCount` shows by counting (a one-to-one map of a
finite set into one of its size takes every value) that these numbers are exactly `0 .. n-1`. From it
follow `SortedHoldsEach`, `SortedGrowsAtTheEnd` (what comes after everything that is there extends the
sequence at its end), `PlacesPicked` and `FirstOccurrence`. `DistinctMeansInjective` does the same for
the validators' comparison of sizes.

* `GraphStaysSound`. The validators see one answer; the graph is all of them. `GraphInv` says besides
  that every row has an id of the table of the round in which it was created (`Placed`), which keeps
  rows of different rounds apart, and that components belong to the turn of their round.
  `AnalyzeKeepsGraph` combines the lemmas of one answer (`ComponentsOfAnswer`, `RelationsOfAnswer`:
  what each check excludes) with those of the rows that are there. `AcceptedAnswersAreMappable` needs
  no invariant, only two of the checks.
* `FactCheckAcceptsTargets`, `JudgeAcceptsMaterial`. `MaterialInv` ties each batch to the graph: its
  targets are the components of its round that require a check, at most `TargetsPerRound`
  (`TargetsAgree`), its results are one for each target (`ResultsAgree`). `TargetsOfAnswer` counts the
  targets of a round by its two turns, under both sets of limits; what else the fact check asks of
  its input holds whatever the settings are.
* `RequestsShareTheirPrefix`. Rows added since a request are of a later round (`RowsOfEarlierRounds`,
  `EarlierRowsStay`), hence later in the order whatever their ids. This is where it matters that a
  relation never points to a later round.
* `EvidenceStaysFaithful`. `UsableEachOnce` and `ExtractedIsEvidence` prove `Extracted` against its
  reference definition for every sequence of uris; `ResultsCiteTheirSources` proves the limits of an
  accepted result; `EvidenceInv` keeps both for the batches.

Only model-checked: liveness (`LivePhaseEnds`, `RoundsAreAnalyzed`, `BatchIsDecided`,
`FailedBatchSettles`, `ReadyDebateIsDecided`, `FailedDebateSettles`, `InvitationsAreDecided`), because
the prover supports neither fairness nor `ENABLED`; and the violations of section 11.

## 13. What is not modelled

* Votes and queries of the debates service, the CRUD of members, the creation and listing of
  communities: single rows under a unique key that no other part reads.
* Heartbeats and other events than those of drafts, turns, messages and opinions (debate started,
  ended, invitations): they repeat a status that a client can read.
* A second process of the server: rooms and invitations are in memory, and the code has one process.
* Request validators and DTOs: what they guarantee is the type of a handler's input. Prompts, response
  schemas, time limits and the wording of texts. Titles and publishers of sources, among them the
  title's column of 500 characters that nothing checks.
* PostgreSQL's own lock waits and deadlocks (a transaction is a step, except where a read takes no
  lock: `TerminateDuringGrounding`, `RevokeFamily`), and a commit whose acknowledgement is lost.
* Several debates at once: they share no rows but the community's; batch limits of the polls and
  starvation are left out.
* Configuration, migrations, HTTP plumbing, the documents under `requirement-docs`.

## 14. Plan

1. A composition of `DebateLifecycle`, `AnalysisOutcome`, `FactCheckOutcome` and `DebateOutcome` over
   one debate row: `ready` is stable, and a finalized debate is decided or fails.
2. The safety half of the liveness properties: which states leave no handler, job or poll that could
   continue, for any number of workers.
3. `MCArgumentation` with answers that use every limit at once, and a third batch size.
