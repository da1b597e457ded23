----------------------- MODULE DebateLifecycle_proofs -----------------------
(***************************************************************************)
(* For every number of rebuttal rounds, the turns of a debate follow the   *)
(* protocol and a debate that left the live phase has all of them.         *)
(*                                                                         *)
(* ProtocolOrder alone is not inductive: the turn appended next is the     *)
(* row's current turn, so the invariant also has to say which one that is  *)
(* (CurrentTurnFollows) and that a READY debate has no turn yet.           *)
(* The arithmetic is in one lemma, NextOfSlotAt.                           *)
(***************************************************************************)
EXTENDS DebateLifecycle, TLAPS

NothingBeforeStart == status = "READY" => turns = <<>>

LifecycleInv ==
  /\ TypeOK
  /\ NothingBeforeStart
  /\ ProtocolOrder
  /\ CurrentTurnFollows
  /\ FinalizedIsComplete

-----------------------------------------------------------------------------
\* Every position of the protocol is a turn that the columns can hold.
LEMMA SlotAtInSlots ==
  ASSUME NEW i \in 1..TurnCount
  PROVE  SlotAt(i) \in Slots
<1>1. SideAt(i) \in Sides
  BY DEF SideAt, Sides
<1>2. CASE i <= 2
  BY <1>1, <1>2, RoundsAssumption DEF SlotAt, Slot, Slots, Phases
<1>3. CASE i > 2 /\ i <= 2 + 2 * Rounds
  <2>1. (i - 1) \div 2 \in 1..Rounds
    BY <1>3, RoundsAssumption DEF TurnCount
  <2>2. QED
    BY <1>1, <1>3, <2>1 DEF SlotAt, Slot, Slots, Phases, TurnCount
<1>4. CASE i > 2 + 2 * Rounds
  <2>1. ~(i <= 2) /\ ~(i <= 2 + 2 * Rounds)
    BY <1>4, RoundsAssumption DEF TurnCount
  <2>2. QED
    BY <1>1, <2>1, RoundsAssumption DEF SlotAt, Slot, Slots, Phases
<1>5. QED
  BY <1>2, <1>3, <1>4, RoundsAssumption DEF TurnCount

\* No position of the protocol is mistaken for the null turn.
LEMMA SlotIsATurn ==
  ASSUME NEW s \in Slots
  PROVE  s # NoTurn
<1>1. s.round \in 1..Rounds
  BY DEF Slots
<1>2. NoTurn.round = 0
  BY DEF NoTurn, Slot
<1>3. QED
  BY <1>1, <1>2, RoundsAssumption

\* NextTurn walks the positions of the protocol one by one and stops after
\* the last one.
LEMMA NextOfSlotAt ==
  ASSUME NEW i \in 1..TurnCount
  PROVE  NextTurn(SlotAt(i)) = IF i = TurnCount THEN NoTurn ELSE SlotAt(i + 1)
<1> DEFINE s == SlotAt(i)
<1>0. i \in Nat /\ Rounds \in Nat /\ Rounds > 0 /\ i >= 1 /\ i <= 4 + 2 * Rounds
  BY RoundsAssumption DEF TurnCount
<1>1. CASE i % 2 = 1
  <2>1. s.side = "SIDE_A"
    BY <1>1 DEF SlotAt, SideAt, Slot
  <2>2. NextTurn(s) = [s EXCEPT !.side = "SIDE_B"]
    BY <2>1 DEF NextTurn, AfterSideA
  <2>3. (i + 1) % 2 = 0 /\ i # TurnCount
    BY <1>0, <1>1 DEF TurnCount
  <2>4. SideAt(i) = "SIDE_A" /\ SideAt(i + 1) = "SIDE_B"
    BY <1>1, <2>3 DEF SideAt
  <2>5. CASE i <= 2
    <3>1. i = 1
      BY <1>0, <1>1, <2>5
    <3>2. QED
      BY <2>2, <2>3, <2>4, <3>1 DEF SlotAt, Slot
  <2>6. CASE i > 2 /\ i <= 2 + 2 * Rounds
    <3>1. /\ ~(i <= 2) /\ ~(i + 1 <= 2)
          /\ i + 1 <= 2 + 2 * Rounds
          /\ (i + 1 - 1) \div 2 = (i - 1) \div 2
      BY <1>0, <1>1, <2>6
    <3>2. QED
      BY <2>2, <2>3, <2>4, <2>6, <3>1 DEF SlotAt, Slot
  <2>7. CASE i > 2 + 2 * Rounds
    <3>1. /\ ~(i <= 2) /\ ~(i + 1 <= 2)
          /\ ~(i <= 2 + 2 * Rounds) /\ ~(i + 1 <= 2 + 2 * Rounds)
      BY <1>0, <2>7
    <3>2. QED
      BY <2>2, <2>3, <2>4, <3>1 DEF SlotAt, Slot
  <2>8. QED
    BY <1>0, <2>5, <2>6, <2>7
<1>2. CASE i % 2 = 0
  <2>1. SideAt(i) = "SIDE_B" /\ SideAt(i + 1) = "SIDE_A"
    BY <1>0, <1>2 DEF SideAt
  <2>2. s.side = "SIDE_B" /\ s.side # "SIDE_A"
    BY <2>1 DEF SlotAt, Slot
  <2>3. CASE i <= 2
    <3>1. i = 2
      BY <1>0, <1>2, <2>3
    <3>2. s.phase = "OPENING"
      BY <3>1 DEF SlotAt, Slot
    <3>3. NextTurn(s) = Slot("REBUTTAL_QUESTION", 1, "SIDE_A")
      BY <2>2, <3>2 DEF NextTurn
    <3>4. SlotAt(3) = Slot("REBUTTAL_QUESTION", 1, "SIDE_A")
      <4>1. ~(3 <= 2) /\ 3 <= 2 + 2 * Rounds /\ (3 - 1) \div 2 = 1
        BY <1>0
      <4>2. QED
        BY <2>1, <3>1, <4>1 DEF SlotAt
    <3>5. QED
      BY <1>0, <3>1, <3>3, <3>4 DEF TurnCount
  <2>4. CASE i > 2 /\ i <= 2 + 2 * Rounds
    <3>1. ~(i <= 2)
      BY <1>0, <2>4
    <3>2. s = Slot("REBUTTAL_QUESTION", (i - 1) \div 2, "SIDE_B")
      BY <2>1, <2>4, <3>1 DEF SlotAt
    <3>3. s.phase = "REBUTTAL_QUESTION" /\ s.round = (i - 1) \div 2
      BY <3>2 DEF Slot
    <3>4. NextTurn(s) = IF (i - 1) \div 2 < Rounds
                        THEN Slot("REBUTTAL_QUESTION", (i - 1) \div 2 + 1, "SIDE_A")
                        ELSE Slot("CLOSING", 1, "SIDE_A")
      BY <2>2, <3>3 DEF NextTurn, MoreRebuttals
    <3>5. i # TurnCount
      BY <1>0, <2>4 DEF TurnCount
    <3>6. CASE i < 2 + 2 * Rounds
      <4>1. /\ (i - 1) \div 2 < Rounds
            /\ (i + 1 - 1) \div 2 = (i - 1) \div 2 + 1
            /\ ~(i + 1 <= 2) /\ i + 1 <= 2 + 2 * Rounds
        BY <1>0, <1>2, <2>4, <3>6
      <4>2. QED
        BY <2>1, <3>4, <3>5, <4>1 DEF SlotAt
    <3>7. CASE i = 2 + 2 * Rounds
      <4>1. /\ (i - 1) \div 2 = Rounds
            /\ ~(i + 1 <= 2) /\ ~(i + 1 <= 2 + 2 * Rounds)
        BY <1>0, <3>7
      <4>2. QED
        BY <1>0, <2>1, <3>4, <3>5, <4>1 DEF SlotAt
    <3>8. QED
      BY <1>0, <2>4, <3>6, <3>7
  <2>5. CASE i > 2 + 2 * Rounds
    <3>1. i = TurnCount /\ ~(i <= 2) /\ ~(i <= 2 + 2 * Rounds)
      BY <1>0, <1>2, <2>5 DEF TurnCount
    <3>2. s.phase = "CLOSING"
      BY <3>1 DEF SlotAt, Slot
    <3>3. NextTurn(s) = NoTurn
      BY <2>2, <3>2 DEF NextTurn
    <3>4. QED
      BY <3>1, <3>3
  <2>6. QED
    BY <1>0, <2>3, <2>4, <2>5
<1>3. QED
  BY <1>0, <1>1, <1>2

-----------------------------------------------------------------------------
\* The initial states satisfy the invariant.
LEMMA LifecycleInit == Init => LifecycleInv
<1> SUFFICES ASSUME Init PROVE LifecycleInv
  OBVIOUS
<1>1. FirstTurn = SlotAt(1)
  BY DEF FirstTurn, SlotAt, SideAt
<1>2. TurnCount > 0 /\ 1 \in 1..TurnCount
  BY RoundsAssumption DEF TurnCount
<1>3. FirstTurn \in Slots
  BY <1>1, <1>2, SlotAtInSlots
<1>4. turns = <<>> /\ Len(turns) = 0 /\ status \in {"READY", "IN_PROGRESS"}
  BY DEF Init
<1>5. TypeOK
  BY <1>3, <1>4 DEF Init, TypeOK, Statuses
<1>6. ProtocolOrder
  <2>1. 1..Len(turns) = {}
    BY <1>4
  <2>2. TurnCount \in Nat /\ Len(turns) <= TurnCount
    BY <1>4, RoundsAssumption DEF TurnCount
  <2>3. QED
    BY <2>1, <2>2 DEF ProtocolOrder
<1>7. CurrentTurnFollows
  BY <1>1, <1>2, <1>4 DEF Init, CurrentTurnFollows
<1>8. QED
  BY <1>4, <1>5, <1>6, <1>7 DEF LifecycleInv, FinalizedIsComplete, NothingBeforeStart

\* Every transaction preserves the invariant.
LEMMA LifecycleStep == LifecycleInv /\ [Next]_vars => LifecycleInv'
<1> SUFFICES ASSUME LifecycleInv, [Next]_vars PROVE LifecycleInv'
  OBVIOUS
<1> USE DEF LifecycleInv
<1>0. TurnCount \in Nat /\ TurnCount > 0 /\ Len(turns) \in Nat
  BY RoundsAssumption DEF TurnCount, TypeOK
<1>1. CASE StartDebate
  <2>1. FirstTurn = SlotAt(1)
    BY DEF FirstTurn, SlotAt, SideAt
  <2>2. FirstTurn \in Slots
    BY <1>0, <2>1, SlotAtInSlots
  <2>3. TypeOK' /\ ProtocolOrder' /\ FinalizedIsComplete'
    BY <1>1, <2>2 DEF StartDebate, TypeOK, ProtocolOrder, FinalizedIsComplete, Statuses
  <2>4. turns' = <<>> /\ Len(turns') = 0
    BY <1>1 DEF StartDebate, NothingBeforeStart
  <2>5. QED
    BY <1>0, <1>1, <2>1, <2>3, <2>4
    DEF StartDebate, CurrentTurnFollows, NothingBeforeStart
<1>2. CASE FinalizeTurn
  <2> DEFINE n == Len(turns) + 1
  <2>1. n \in 1..TurnCount /\ turn = SlotAt(n) /\ turns \in Seq(Slots)
    BY <1>0, <1>2 DEF FinalizeTurn, CurrentTurnFollows, TypeOK
  <2>2. turn \in Slots
    BY <2>1, SlotAtInSlots
  <2>3. /\ turns' \in Seq(Slots) /\ Len(turns') = n /\ turns'[n] = turn
        /\ \A i \in 1..Len(turns) : turns'[i] = turns[i]
    BY <1>2, <2>1, <2>2 DEF FinalizeTurn
  <2>4. turn' = IF n = TurnCount THEN NoTurn ELSE SlotAt(n + 1)
    BY <1>2, <2>1, NextOfSlotAt DEF FinalizeTurn
  <2>5. n # TurnCount => n + 1 \in 1..TurnCount /\ turn' \in Slots /\ turn' # NoTurn
    BY <1>0, <2>1, <2>4, SlotAtInSlots, SlotIsATurn
  <2>6. status' = IF n = TurnCount THEN "DEBATE_FINALIZED" ELSE "IN_PROGRESS"
    BY <1>2, <2>4, <2>5 DEF FinalizeTurn, StatusAfter
  <2>7. TypeOK'
    BY <2>3, <2>4, <2>5, <2>6 DEF TypeOK, Statuses
  <2>8. ProtocolOrder'
    <3>1. \A i \in 1..n : i \in 1..Len(turns) \/ i = n
      BY <1>0
    <3>2. QED
      BY <2>1, <2>3, <3>1 DEF ProtocolOrder
  <2>9. CurrentTurnFollows'
    BY <1>0, <2>1, <2>3, <2>4, <2>6 DEF CurrentTurnFollows
  <2>10. FinalizedIsComplete'
    BY <2>3, <2>6 DEF FinalizedIsComplete
  <2>11. QED
    BY <2>6, <2>7, <2>8, <2>9, <2>10 DEF NothingBeforeStart
<1>3. CASE StartJudge
  BY <1>3 DEF StartJudge, TypeOK, ProtocolOrder, CurrentTurnFollows,
              FinalizedIsComplete, Statuses, NothingBeforeStart
<1>4. CASE CompleteDebate
  BY <1>4 DEF CompleteDebate, TypeOK, ProtocolOrder, CurrentTurnFollows,
              FinalizedIsComplete, Statuses, NothingBeforeStart
<1>5. CASE TerminateDebate
  BY <1>5 DEF TerminateDebate, TypeOK, ProtocolOrder, CurrentTurnFollows,
              FinalizedIsComplete, Statuses, NothingBeforeStart
<1>6. CASE UNCHANGED vars
  BY <1>6 DEF vars, TypeOK, ProtocolOrder, CurrentTurnFollows,
              FinalizedIsComplete, NothingBeforeStart
<1>7. QED
  BY <1>1, <1>2, <1>3, <1>4, <1>5, <1>6 DEF Next

\* The strengthened invariant: types, order of the turns, the current turn and
\* completeness together.
THEOREM LifecycleInvariant == Spec => []LifecycleInv
BY LifecycleInit, LifecycleStep, PTL DEF Spec

\* calculateNextTurnState produces the protocol, whatever the number of rounds.
THEOREM TurnsFollowProtocol == Spec => []ProtocolOrder
<1>1. LifecycleInv => ProtocolOrder
  BY DEF LifecycleInv
<1>2. QED
  BY <1>1, LifecycleInvariant, PTL

\* A debate that is DEBATE_FINALIZED, JUDGING or COMPLETED has 4 + 2 * Rounds
\* turns: the number tryStartJudge expects.
THEOREM FinalizedDebateIsComplete == Spec => []FinalizedIsComplete
<1>1. LifecycleInv => FinalizedIsComplete
  BY DEF LifecycleInv
<1>2. QED
  BY <1>1, LifecycleInvariant, PTL
=============================================================================
