---------------------------- MODULE TurnProtocol ----------------------------
(***************************************************************************)
(* The turns of a debate and what follows each of them, as the columns     *)
(* current_phase, current_round and current_turn_side of table "debate"    *)
(* hold them.  No state: DebateLifecycle and DebateChat build on it.       *)
(***************************************************************************)
EXTENDS Integers, Sequences

CONSTANT Rounds   \* debate.rebuttalQuestionRounds

\* The CHECK constraint chk_debate_rebuttal_question_rounds_positive.
ASSUME RoundsAssumption == Rounds \in Nat \ {0}

Statuses == {"READY", "IN_PROGRESS", "DEBATE_FINALIZED", "JUDGING",
             "COMPLETED", "FAILED"}
Phases == {"OPENING", "REBUTTAL_QUESTION", "CLOSING"}
Sides == {"SIDE_A", "SIDE_B"}

Slot(phase, round, side) == [phase |-> phase, round |-> round, side |-> side]

\* The columns of a turn position; rounds count from 1.
Slots == [phase : Phases, round : 1..Rounds, side : Sides]

\* The current* columns when they are null.
NoTurn == Slot("NONE", 0, "NONE")

FirstTurn == Slot("OPENING", 1, "SIDE_A")

\* Mutant: the round bound off by one.
M_MissingRound(s) == s.round < Rounds - 1

\* After side B's turn of round s.round: is there another rebuttal round?
MoreRebuttals(s) == s.round < Rounds

\* Mutant: the second side's opening is skipped.
M_SideBFirst(s) ==
  IF s.phase = "OPENING" THEN Slot("REBUTTAL_QUESTION", 1, "SIDE_A")
  ELSE [s EXCEPT !.side = "SIDE_B"]

\* Side A is always followed by side B of the same phase and round.
AfterSideA(s) == [s EXCEPT !.side = "SIDE_B"]

\* The turn that follows s; NoTurn after the last one.
NextTurn(s) ==
  CASE s.side = "SIDE_A" -> AfterSideA(s)
    [] s.side = "SIDE_B" /\ s.phase = "OPENING" ->
         Slot("REBUTTAL_QUESTION", 1, "SIDE_A")
    [] s.side = "SIDE_B" /\ s.phase = "REBUTTAL_QUESTION" ->
         IF MoreRebuttals(s)
         THEN Slot("REBUTTAL_QUESTION", s.round + 1, "SIDE_A")
         ELSE Slot("CLOSING", 1, "SIDE_A")
    [] s.side = "SIDE_B" /\ s.phase = "CLOSING" -> NoTurn

StatusAfter(s) ==
  IF NextTurn(s) = NoTurn THEN "DEBATE_FINALIZED" ELSE "IN_PROGRESS"

\* expectedTurnCount of the readiness check for the Judge.
TurnCount == 4 + 2 * Rounds

\* Statuses from which the total time limit may end the debate.
TimeoutEligible == {"IN_PROGRESS", "DEBATE_FINALIZED", "JUDGING"}

-----------------------------------------------------------------------------
\* The protocol, position by position, independently of NextTurn.
SideAt(i) == IF i % 2 = 1 THEN "SIDE_A" ELSE "SIDE_B"

SlotAt(i) ==
  IF i <= 2 THEN Slot("OPENING", 1, SideAt(i))
  ELSE IF i <= 2 + 2 * Rounds
       THEN Slot("REBUTTAL_QUESTION", (i - 1) \div 2, SideAt(i))
       ELSE Slot("CLOSING", 1, SideAt(i))
=============================================================================
