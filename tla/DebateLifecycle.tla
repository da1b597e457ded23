-------------------------- MODULE DebateLifecycle --------------------------
(***************************************************************************)
(* What the row of table "debate" promises to every other part of the      *)
(* backend: its status moves along READY, IN_PROGRESS, DEBATE_FINALIZED,   *)
(* JUDGING, COMPLETED (or drops to FAILED), and while it is IN_PROGRESS    *)
(* the turns are finalized one by one in the order of the protocol:        *)
(*   OPENING A, OPENING B, (REBUTTAL_QUESTION r A, r B) for r = 1..Rounds, *)
(*   CLOSING A, CLOSING B.                                                 *)
(* Each step here is one committed database transaction.  The modules that *)
(* model the code (DebateChat, JudgePipeline) implement this one.          *)
(***************************************************************************)
EXTENDS TurnProtocol

VARIABLES status,   \* debate.status
          turn,     \* debate.currentPhase, currentRound, currentTurnSide
          turns     \* the turns of the debate_turn rows, by sequence

vars == <<status, turn, turns>>

-----------------------------------------------------------------------------
\* A debate is created READY, or already running when an invitation is
\* accepted.
Init ==
  /\ \/ status = "READY" /\ turn = NoTurn
     \/ status = "IN_PROGRESS" /\ turn = FirstTurn
  /\ turns = <<>>

StartDebate ==
  /\ status = "READY"
  /\ status' = "IN_PROGRESS"
  /\ turn' = FirstTurn
  /\ UNCHANGED turns

FinalizeTurn ==
  /\ status = "IN_PROGRESS"
  /\ turns' = Append(turns, turn)
  /\ turn' = NextTurn(turn)
  /\ status' = StatusAfter(turn)

StartJudge ==
  /\ status = "DEBATE_FINALIZED"
  /\ Len(turns) = TurnCount
  /\ status' = "JUDGING"
  /\ UNCHANGED <<turn, turns>>

CompleteDebate ==
  /\ status = "JUDGING"
  /\ status' = "COMPLETED"
  /\ UNCHANGED <<turn, turns>>

TerminateDebate ==
  /\ status \in TimeoutEligible
  /\ status' = "FAILED"
  /\ turn' = NoTurn
  /\ UNCHANGED turns

Next ==
  \/ StartDebate
  \/ FinalizeTurn
  \/ StartJudge
  \/ CompleteDebate
  \/ TerminateDebate

Spec == Init /\ [][Next]_vars

-----------------------------------------------------------------------------
\* The columns hold values of their enums and the rounds stay in range.
TypeOK ==
  /\ status \in Statuses
  /\ turn \in Slots \cup {NoTurn}
  /\ turns \in Seq(Slots)

\* The finalized turns are exactly the first positions of the protocol, in
\* order, each once: calculateNextTurnState never skips, repeats or reorders.
ProtocolOrder ==
  /\ Len(turns) <= TurnCount
  /\ \A i \in 1..Len(turns) : turns[i] = SlotAt(i)

\* While the debate runs, the row's current turn is the position that follows
\* the finalized turns; in any other status there is no current turn.
CurrentTurnFollows ==
  IF status = "IN_PROGRESS"
  THEN Len(turns) < TurnCount /\ turn = SlotAt(Len(turns) + 1)
  ELSE turn = NoTurn

\* A debate that has left the live phase without failing has every turn of the
\* protocol, so the turn count of tryStartJudge can never hold it back.
FinalizedIsComplete ==
  status \in {"DEBATE_FINALIZED", "JUDGING", "COMPLETED"}
    => Len(turns) = TurnCount
=============================================================================
