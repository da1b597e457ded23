----------------------------- MODULE JudgeRules -----------------------------
(***************************************************************************)
(* What the Judge accepts: the material of a debate, and the scores and    *)
(* the reasons that the model answers.  No state.                          *)
(***************************************************************************)
EXTENDS Integers, FiniteSets, Texts

CONSTANTS MaxOverallReason, MaxFeedback   \* the limits of the configuration

ASSUME JudgeLimitsAssumption == MaxOverallReason \in Nat /\ MaxFeedback \in Nat

-----------------------------------------------------------------------------
(* validateJudgeInput.  An input has the two speakers, the components, the  *)
(* relations and the results of the fact check as sets of rows, and the     *)
(* speakerId of each turn that has components.                              *)

ValidParticipants(in) ==
  /\ \A side \in {"SIDE_A", "SIDE_B"} : ~Blank(in.speakers[side].name)
  /\ \A c \in in.components :
       /\ c.turn.side \in {"SIDE_A", "SIDE_B"}
       /\ in.speakerIds[c.turn] = in.speakers[c.turn.side].id

UniqueIds(rows) == \A p, q \in rows : p.id = q.id => p = q

ValidComponents(in) ==
  UniqueIds(in.components) /\ \A c \in in.components : ~Blank(c.statement)

ValidRelations(in) ==
  LET ids == {c.id : c \in in.components}
  IN \A rel \in in.relations : rel.from \in ids /\ rel.to \in ids /\ rel.from # rel.to

ValidFactCheckResults(in) ==
  /\ UniqueIds(in.results)
  /\ \A res \in in.results :
       res.id \in {c.id : c \in in.components} /\ ~Blank(res.reason)
  /\ \A c \in in.components : c.check => \E res \in in.results : res.id = c.id

ValidMajorClaims(in) ==
  \A side \in {"SIDE_A", "SIDE_B"} :
    Cardinality({c \in in.components : c.turn.side = side /\ c.major}) <= 1

ValidJudgeInput(in) ==
  /\ ValidParticipants(in)
  /\ ValidComponents(in)
  /\ ValidRelations(in)
  /\ ValidFactCheckResults(in)
  /\ ValidMajorClaims(in)

-----------------------------------------------------------------------------
(* validateJudgeOutput.  An answer has for each side the scores and the     *)
(* feedback, and a reason.                                                  *)

MaxScore == [argumentation |-> 40, interaction |-> 30, factualReliability |-> 30]

ValidScores(s) == \A k \in DOMAIN MaxScore : s[k] \in 0..MaxScore[k]

ValidJudgeOutput(out) ==
  /\ ValidScores(out.scores["SIDE_A"]) /\ ValidScores(out.scores["SIDE_B"])
  /\ ~Blank(out.reason) /\ out.reason.len <= MaxOverallReason
  /\ \A side \in {"SIDE_A", "SIDE_B"} :
       ~Blank(out.feedback[side]) /\ out.feedback[side].len <= MaxFeedback
=============================================================================
