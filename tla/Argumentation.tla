--------------------------- MODULE Argumentation ---------------------------
(***************************************************************************)
(* What the Analyzer, the fact check and the Judge hand to each other: the *)
(* argument graph, the targets and evidence of the fact checks, and the    *)
(* judgment. A step is one request to the model and the transaction that   *)
(* saves its answer; a refused answer changes nothing here.  Which worker  *)
(* runs when, and what a failure does, is in Analyzer, FactCheck and       *)
(* JudgePipeline: here the rounds are analyzed in order and once.          *)
(***************************************************************************)
EXTENDS AnalyzerRules, EvidenceRules, JudgeRules

CONSTANTS
  LastRound,          \* the rounds of the debate: OPENING, the rebuttals, CLOSING
  SilentCases,        \* the sets of turns that may have ended without content
  Uuid,               \* the random ids of the rows of each round
  AnalyzerAnswers,    \* what the model may answer for each round
  GroundingAnswers,   \* sequences of the uris of grounding chunks
  SynthesisAnswers,   \* sequences of results, by the place of their target
  JudgeAnswers,
  Speakers            \* the id and the display name of the member of each side

TurnsOf(r) == {Turn(r, side) : side \in Sides}

Least(m, n) == IF m <= n THEN m ELSE n

\* A turn has as many targets as both limits allow, and a round two turns.
TargetsPerRound == 2 * Least(DefaultLimits.targets, Limits.targets)

ASSUME ArgumentationAssumption ==
  /\ LastRound \in Nat \ {0}
  /\ \A silent \in SilentCases : silent \subseteq UNION {TurnsOf(r) : r \in 1..LastRound}
  /\ \A r, s \in 1..LastRound : \A i \in DOMAIN Uuid[r], j \in DOMAIN Uuid[s] :
       Uuid[r][i] = Uuid[s][j] => r = s /\ i = j
  /\ \A side \in Sides : ~Blank(Speakers[side].name)   \* readRequiredString

\* Answers have the shape that is parsed, and there is an id for every row.
ASSUME AnswersAssumption ==
  /\ Uuid \in [1..LastRound -> Seq(Int)]
  /\ \A r \in 1..LastRound : \A out \in AnalyzerAnswers[r] :
       out \in Answers /\ Len(out.components) + Len(out.relations) <= Len(Uuid[r])
  /\ \A answer \in SynthesisAnswers :
       answer \in Seq([place : Nat, status : STRING, reason : Texts, sources : Seq(Int)])
  /\ GroundingAnswers \subseteq Seq(STRING)

VARIABLES
  silent,       \* the turns whose content is EMPTY_DEBATE_TURN_CONTENT
  analyzed,     \* the rounds whose turns are COMPLETED
  components,   \* argument_component
  relations,    \* argumental_relation and interactional_relation
  batch,        \* by round: fact_check_batch, its targets, evidence, results
  judged        \* whether judgment_result has a row

vars == <<silent, analyzed, components, relations, batch, judged>>

NoBatch == [status |-> "NONE", targets |-> <<>>, chunks |-> <<>>, sources |-> <<>>,
            results |-> {}]

Init ==
  /\ silent \in SilentCases
  /\ analyzed = 0
  /\ components = {} /\ relations = {}
  /\ batch = [r \in 1..LastRound |-> NoBatch]
  /\ judged = FALSE

-----------------------------------------------------------------------------
(* The Analyzer.                                                            *)

\* AnalyzerInputAssembler.assemble: the components of the earlier turns.
AnalyzerInput(r) ==
  [turns |-> TurnsOf(r), empty |-> silent \cap TurnsOf(r),
   existing |-> {c \in components : c.turn.round < r}]

\* Mutant: the graph is ordered by id alone.
M_Precedes(p, q) == p.id < q.id

\* createdAt is one value for all rows of a round.
Precedes(p, q) == p.created < q.created \/ (p.created = q.created /\ p.id < q.id)

\* What a request for round r has of the graph: the components of the earlier
\* turns, and the relations between them.
EarlierRows(r) ==
  LET existing == {c \in components : c.turn.round < r}
      ids == {c.id : c \in existing}
  IN {[id |-> x.id, created |-> x.created] :
        x \in existing \cup {rel \in relations : rel.from \in ids /\ rel.to \in ids}}

\* The accumulated graph, as it is serialized into the request.
GraphItems(r) ==
  LET items == EarlierRows(r)
  IN Sorted(items, {p \in items \X items : Precedes(p[1], p[2])})

\* analyzeTurn, from the assembled input to the commit.
Analyze ==
  \E out \in AnalyzerAnswers[analyzed + 1] :
    LET r == analyzed + 1
        targets == FactCheckTargets(out, Uuid[r])
    IN /\ AcceptedOutput(AnalyzerInput(r), out)
       /\ Mappable(out)
       /\ components' = components \cup ComponentRows(out, Uuid[r], r)
       /\ relations' = relations \cup RelationRows(out, Uuid[r], r)
       /\ batch' = IF targets = <<>> THEN batch
                   ELSE [batch EXCEPT ![r].status = "PENDING", ![r].targets = targets]
       /\ analyzed' = r
       /\ UNCHANGED <<silent, judged>>

AnalyzeNext == analyzed < LastRound /\ Analyze

-----------------------------------------------------------------------------
(* The fact check of round r.                                               *)

\* FactCheckInputAssembler.assemble: the targets with their statements.
BatchTargets(r) ==
  [i \in DOMAIN batch[r].targets |->
     LET c == CHOOSE x \in components : x.id = batch[r].targets[i]
     IN [id |-> c.id, statement |-> c.statement]]

Ground(r) ==
  /\ batch[r].status = "PENDING"
  /\ ValidBatchInput(BatchTargets(r))
  /\ \E chunks \in GroundingAnswers :
       /\ Grounded(chunks)
       /\ batch' = [batch EXCEPT ![r].status = "GROUNDED", ![r].chunks = chunks,
                                 ![r].sources = Extracted(chunks)]
  /\ UNCHANGED <<silent, analyzed, components, relations, judged>>

\* The answer, its targets named by their place; place 0 is an unknown id.
Named(answer, targets) ==
  [i \in DOMAIN answer |->
     [id |-> IF answer[i].place \in DOMAIN targets THEN targets[answer[i].place].id ELSE 0,
      status |-> answer[i].status, reason |-> answer[i].reason,
      sources |-> answer[i].sources]]

Synthesize(r) ==
  /\ batch[r].status = "GROUNDED"
  /\ \E answer \in SynthesisAnswers :
       LET out == TrimSources(Named(answer, BatchTargets(r)))
       IN /\ ValidBatchOutput(BatchTargets(r), out, batch[r].sources)
          /\ batch' = [batch EXCEPT ![r].status = "COMPLETED",
                                    ![r].results = ResultRows(out, batch[r].sources)]
  /\ UNCHANGED <<silent, analyzed, components, relations, judged>>

-----------------------------------------------------------------------------
(* The Judge.                                                               *)

\* The member that has spoken a turn: what the chat saves is the turn of the
\* speaker of its side (validateSpeaker, and the scheduler for an empty one).
SpeakerOf(turn) == Speakers[turn.side].id

\* JudgeInputAssembler.assemble, the results with the round of their batch.
JudgeInput ==
  [speakers |-> Speakers,
   components |-> components,
   speakerIds |-> [turn \in {c.turn : c \in components} |-> SpeakerOf(turn)],
   relations |-> relations,
   results |-> {[id |-> x[2].id, reason |-> x[2].reason, batch |-> x[1]] :
                  x \in UNION {{r} \X batch[r].results : r \in 1..LastRound}}]

\* validateExecutionState: every turn analyzed and every batch completed.
Ready ==
  /\ ~judged
  /\ analyzed = LastRound
  /\ \A r \in 1..LastRound : batch[r].status \in {"NONE", "COMPLETED"}

Judge ==
  /\ Ready
  /\ ValidJudgeInput(JudgeInput)
  /\ \E out \in JudgeAnswers : ValidJudgeOutput(out)
  /\ judged' = TRUE
  /\ UNCHANGED <<silent, analyzed, components, relations, batch>>

Next ==
  \/ AnalyzeNext
  \/ \E r \in 1..LastRound : Ground(r) \/ Synthesize(r)
  \/ Judge

Spec == Init /\ [][Next]_vars

-----------------------------------------------------------------------------
(* Properties.                                                              *)

(* What the Analyzer has saved is a graph that a reader can trust, although  *)
(* each answer is validated alone: ids are unique, both ends of a relation   *)
(* exist and differ, a relation starts in its own round and never points to  *)
(* a later one, the same two components are never both supported and         *)
(* attacked, or questioned and answered, in one direction, a speaker has one *)
(* major claim at most, in the opening, and a turn without content has no    *)
(* component.                                                                *)
EndsExist ==
  \A rel \in relations : \E p, q \in components :
    /\ p.id = rel.from /\ q.id = rel.to /\ p # q
    /\ p.created = rel.created /\ q.turn.round <= p.turn.round

NoContradiction ==
  \A p, q \in relations :
    p.kind = q.kind /\ p.from = q.from /\ p.to = q.to => p = q

ClaimsAreSound ==
  \A p, q \in components :
    /\ p.major => p.turn.round = Opening
    /\ p.major /\ q.major /\ p.turn.side = q.turn.side => p = q

GraphIsSound ==
  /\ UniqueIds(components)
  /\ EndsExist
  /\ NoContradiction
  /\ ClaimsAreSound
  /\ \A c \in components : c.turn \notin silent

(* What the Analyzer saves for a round, the fact check can refuse for one    *)
(* reason only, that the targets are too many for a batch                    *)
(* (fact-check-batch-input.validator.ts); and a round has no more than       *)
(* TargetsPerRound, so that nothing is refused when the settings fit each    *)
(* other (TargetsPerRound <= MaxTargetsPerBatch).  The environment may set   *)
(* them otherwise, for nothing compares them.                                *)
FactCheckInputAccepted ==
  \A r \in 1..LastRound :
    batch[r].status # "NONE" =>
      /\ Len(batch[r].targets) <= TargetsPerRound
      /\ Len(batch[r].targets) <= MaxTargetsPerBatch => ValidBatchInput(BatchTargets(r))

(* When every round is analyzed and every batch completed, the material      *)
(* passes validateJudgeInput: no debate reaches the Judge and is failed      *)
(* there for what the Analyzer and the fact check have accepted.             *)
JudgeInputAccepted == Ready => ValidJudgeInput(JudgeInput)

(* The accumulated graph of a round begins with that of the round before     *)
(* ("identical history shares the longest possible prompt prefix",           *)
(* analyzer-input.assembler.ts): nothing is inserted before what an earlier  *)
(* request has already seen, though ids are random.                          *)
PromptIsPrefix ==
  \A r \in 1..analyzed : IsPrefix(GraphItems(r), GraphItems(r + 1))

(* The evidence of a batch is the first uris of the grounding, each once,    *)
(* and a result cites only evidence of its own batch, as much as a result    *)
(* may cite.                                                                 *)
EvidenceIsFaithful ==
  \A r \in 1..LastRound :
    /\ batch[r].status \in {"GROUNDED", "COMPLETED"}
         => IsEvidenceOf(batch[r].sources, batch[r].chunks)
    /\ \A res \in batch[r].results :
         /\ res.urls \subseteq WebUrls \cap ToSet(batch[r].chunks)
         /\ Cardinality(res.urls) <= MaxSourcesPerResult

(* An answer that the validators accept can be mapped: the mapper never      *)
(* throws after the model has been paid for.                                 *)
AcceptedIsMappable ==
  analyzed < LastRound =>
    \A out \in AnalyzerAnswers[analyzed + 1] :
      AcceptedOutput(AnalyzerInput(analyzed + 1), out) => Mappable(out)
=============================================================================
