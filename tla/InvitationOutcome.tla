------------------------- MODULE InvitationOutcome -------------------------
(***************************************************************************)
(* What the members of a community may rely on: one invitation waits at a  *)
(* time, each is decided once, and an accepted one starts a debate only    *)
(* when no debate started by another one is underway.                      *)
(***************************************************************************)
EXTENDS Naturals, Sequences

VARIABLES
  outcome,    \* what became of each invitation, in the order they were issued
  running     \* the invitation whose debate is underway, or 0

Init == outcome = <<>> /\ running = 0

Issue ==
  /\ \A i \in DOMAIN outcome : outcome[i] # "PENDING"
  /\ outcome' = Append(outcome, "PENDING")
  /\ UNCHANGED running

\* The opponent answers in time, or nobody does.
Answer(i) ==
  /\ outcome[i] = "PENDING"
  /\ \E o \in {"TAKEN", "REJECTED", "EXPIRED"} : outcome' = [outcome EXCEPT ![i] = o]
  /\ UNCHANGED running

Accept(i) ==
  /\ outcome[i] = "TAKEN" /\ running = 0
  /\ outcome' = [outcome EXCEPT ![i] = "ACCEPTED"]
  /\ running' = i

Refuse(i) ==
  /\ outcome[i] = "TAKEN"
  /\ outcome' = [outcome EXCEPT ![i] = "REFUSED"]
  /\ UNCHANGED running

EndDebate == running # 0 /\ running' = 0 /\ UNCHANGED outcome

\* A restart forgets what was not decided.
Restart ==
  /\ outcome' = [i \in DOMAIN outcome |->
                   IF outcome[i] \in {"PENDING", "TAKEN"} THEN "LOST" ELSE outcome[i]]
  /\ UNCHANGED running

Next ==
  \/ Issue \/ EndDebate \/ Restart
  \/ \E i \in DOMAIN outcome : Answer(i) \/ Accept(i) \/ Refuse(i)

Spec == Init /\ [][Next]_<<outcome, running>>
=============================================================================
