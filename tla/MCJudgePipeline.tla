-------------------------- MODULE MCJudgePipeline --------------------------
(* Small instances of JudgePipeline for TLC.                                *)
EXTENDS JudgePipeline, TLC

\* Workers are interchangeable, and so are requests.
JudgeSymmetry == Permutations(Workers) \cup Permutations(Requests)
=============================================================================
