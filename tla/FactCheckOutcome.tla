-------------------------- MODULE FactCheckOutcome --------------------------
(***************************************************************************)
(* What the fact check of a round promises to the Judge: the batch is      *)
(* decided once, its results are there exactly when it is COMPLETED, and a *)
(* debate that has failed gets no evidence and no results any more.        *)
(***************************************************************************)
VARIABLES debate, batch, snapshot, results

vars == <<debate, batch, snapshot, results>>

Init == debate = "LIVE" /\ batch = "PENDING" /\ snapshot = FALSE /\ results = FALSE

Start ==
  /\ batch = "PENDING"
  /\ batch' = "PROCESSING"
  /\ UNCHANGED <<debate, snapshot, results>>

\* The evidence is kept once; that and the results are two transactions.
KeepEvidence ==
  /\ debate = "LIVE" /\ ~snapshot
  /\ snapshot' = TRUE
  /\ UNCHANGED <<debate, batch, results>>

Complete ==
  /\ debate = "LIVE" /\ batch = "PROCESSING" /\ snapshot
  /\ batch' = "COMPLETED" /\ results' = TRUE
  /\ UNCHANGED <<debate, snapshot>>

Fail ==
  /\ batch \in {"PENDING", "PROCESSING"}
  /\ batch' = "FAILED"
  /\ UNCHANGED <<debate, snapshot, results>>

\* terminateDebate, whose transaction may overlap the one that keeps evidence.
Terminate ==
  /\ debate = "LIVE" /\ debate' = "FAILED"
  /\ batch' = IF batch = "COMPLETED" THEN batch ELSE "FAILED"
  /\ snapshot' \in {snapshot, TRUE}
  /\ UNCHANGED results

Next == Start \/ KeepEvidence \/ Complete \/ Fail \/ Terminate

Spec == Init /\ [][Next]_vars
=============================================================================
