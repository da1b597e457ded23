-------------------------- MODULE AnalysisOutcome --------------------------
(***************************************************************************)
(* What the Analyzer promises: the argument graph grows by whole rounds,   *)
(* in their order, each once, and not after the debate has failed.         *)
(***************************************************************************)
EXTENDS Naturals, Sequences

CONSTANT Rounds   \* number of rounds of the debate: opening, rebuttals, closing

VARIABLES debate, graph

Init == debate = "LIVE" /\ graph = <<>>

SaveRound ==
  /\ debate = "LIVE" /\ Len(graph) < Rounds
  /\ graph' = Append(graph, Len(graph) + 1)
  /\ UNCHANGED debate

Terminate == debate = "LIVE" /\ debate' = "FAILED" /\ UNCHANGED graph

Spec == Init /\ [][SaveRound \/ Terminate]_<<debate, graph>>
=============================================================================
