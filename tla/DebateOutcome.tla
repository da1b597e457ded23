--------------------------- MODULE DebateOutcome ---------------------------
(***************************************************************************)
(* How a debate may end, and who is paid for it: either the Judge decides  *)
(* it, once, and its winner gets the reward in the same step; or a speaker *)
(* forfeits it while it runs and the opponent gets the reward; or its time *)
(* runs out and nobody does.  JudgePipeline implements this module.        *)
(***************************************************************************)
EXTENDS Naturals

VARIABLES status,   \* debate.status
          verdict,  \* judgment_result.winner, NONE without a result
          score     \* per side, DEBATE_WIN_SCORE_REWARDs paid to its speaker

outcomeVars == <<status, verdict, score>>

Sides == {"SIDE_A", "SIDE_B"}
Winners == Sides \cup {"DRAW"}

Opponent(s) == CHOOSE t \in Sides : t # s

\* Statuses from which the total time limit may end the debate.
TimeoutEligible == {"IN_PROGRESS", "DEBATE_FINALIZED", "JUDGING"}

-----------------------------------------------------------------------------
Init ==
  /\ status = "IN_PROGRESS"
  /\ verdict = "NONE"
  /\ score = [s \in Sides |-> 0]

FinalizeDebate ==
  /\ status = "IN_PROGRESS"
  /\ status' = "DEBATE_FINALIZED"
  /\ UNCHANGED <<verdict, score>>

StartJudge ==
  /\ status = "DEBATE_FINALIZED"
  /\ status' = "JUDGING"
  /\ UNCHANGED <<verdict, score>>

\* Mutant: a draw pays both.
M_Awarded(winner) ==
  [s \in Sides |-> IF winner \in {s, "DRAW"} THEN score[s] + 1 ELSE score[s]]

\* awardWinnerScore: a draw pays nobody.
Awarded(winner) ==
  [s \in Sides |-> IF s = winner THEN score[s] + 1 ELSE score[s]]

Decide(winner) ==
  /\ status = "JUDGING"
  /\ status' = "COMPLETED"
  /\ verdict' = winner
  /\ score' = Awarded(winner)

Forfeit(s) ==
  /\ status = "IN_PROGRESS"
  /\ status' = "FAILED"
  /\ score' = Awarded(Opponent(s))
  /\ UNCHANGED verdict

Expire ==
  /\ status \in TimeoutEligible
  /\ status' = "FAILED"
  /\ UNCHANGED <<verdict, score>>

Next ==
  \/ FinalizeDebate
  \/ StartJudge
  \/ \E winner \in Winners : Decide(winner)
  \/ \E s \in Sides : Forfeit(s)
  \/ Expire

Spec == Init /\ [][Next]_outcomeVars

-----------------------------------------------------------------------------
\* A debate is paid for at most once, and never on the way: nothing before it
\* ends, exactly the winner after a verdict, at most one side after a failure.
PaidOnce ==
  CASE status = "COMPLETED" ->
         /\ verdict \in Winners
         /\ score = [s \in Sides |-> IF s = verdict THEN 1 ELSE 0]
    [] status = "FAILED" ->
         /\ verdict = "NONE"
         /\ \E s \in Sides \cup {"NONE"} :
              score = [t \in Sides |-> IF t = s THEN 1 ELSE 0]
    [] OTHER ->
         /\ verdict = "NONE"
         /\ score = [s \in Sides |-> 0]
=============================================================================
