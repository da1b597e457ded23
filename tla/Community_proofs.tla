-------------------------- MODULE Community_proofs --------------------------
(***************************************************************************)
(* For any number of guests, calls, invitations, debates and faults: the   *)
(* two maps of DebatesService agree, the status of a community tells       *)
(* whether a debate is underway, speakers are members, and the community   *)
(* implements InvitationOutcome.                                           *)
(***************************************************************************)
EXTENDS Community, TLAPS

DebateRows == [speakers : SUBSET Members, status : DebateStatuses, invitation : Nat]

\* At most one of the debates that invitations started is underway: accepting
\* asks for no active debate under the lock of the community.
OneUnderway ==
  \A j, k \in DOMAIN debates : Underway(debates[j]) /\ Underway(debates[k]) => j = k

HostIsMember == intent[Host] # "NONE"

CommunityInv ==
  TypeOK /\ OnePending /\ ActiveIsUnderway /\ HostIsMember /\ SpeakersAreMembers /\ OneUnderway

LEMMA InitCommunity == Init => CommunityInv
<1> SUFFICES ASSUME Init PROVE CommunityInv
  OBVIOUS
<1>1. TypeOK
  BY CommunityAssumption DEF Init, TypeOK, Members, Intents, Idle
<1>2. QED
  BY <1>1 DEF Init, CommunityInv, OnePending, ActiveIsUnderway, HostIsMember, SpeakersAreMembers,
     OneUnderway, Members

-----------------------------------------------------------------------------
(* The debates: the three ways in which a step changes them.                *)

Appended(d) == debates' = Append(debates, d)
Moved(k, s) == debates' = [debates EXCEPT ![k].status = s]

LEMMA AfterAppend ==
  ASSUME TypeOK, NEW d \in DebateRows, Appended(d)
  PROVE  /\ debates' \in Seq(DebateRows)
         /\ DOMAIN debates' = DOMAIN debates \cup {Len(debates) + 1}
         /\ \A j \in DOMAIN debates : debates'[j] = debates[j]
         /\ debates'[Len(debates) + 1] = d
         /\ Len(debates) + 1 \notin DOMAIN debates
<1>1. debates \in Seq(DebateRows)
  BY DEF TypeOK, DebateRows
<1>2. QED BY <1>1 DEF Appended

LEMMA AfterMove ==
  ASSUME TypeOK, NEW k \in DOMAIN debates, NEW s \in DebateStatuses, Moved(k, s)
  PROVE  /\ debates' \in Seq(DebateRows)
         /\ DOMAIN debates' = DOMAIN debates
         /\ \A j \in DOMAIN debates :
              /\ j # k => debates'[j] = debates[j]
              /\ debates'[j].invitation = debates[j].invitation
              /\ debates'[j].speakers = debates[j].speakers
         /\ debates'[k].status = s
<1>0. debates \in Seq(DebateRows)
  BY DEF TypeOK, DebateRows
<1>1. debates \in Seq(DebateRows) /\ debates[k] \in DebateRows
  BY <1>0
<1>2. [debates[k] EXCEPT !.status = s] \in DebateRows
  BY <1>1 DEF DebateRows
<1>3. debates' = [debates EXCEPT ![k] = [debates[k] EXCEPT !.status = s]]
  BY DEF Moved
<1>4. DOMAIN debates' = DOMAIN debates /\ debates' \in Seq(DebateRows)
  BY <1>1, <1>2, <1>3
<1>5. \A j \in DOMAIN debates :
        debates'[j] = IF j = k THEN [debates[k] EXCEPT !.status = s] ELSE debates[j]
  BY <1>3
<1>6. QED BY <1>1, <1>4, <1>5 DEF DebateRows

-----------------------------------------------------------------------------
(* The invariant, action by action.                                         *)

LEMMA MemberKeeps ==
  ASSUME CommunityInv, NEW m \in Members, MemberActs(m) PROVE CommunityInv'
<1> USE DEF CommunityInv, rowVars, mapVars, callVars
<1>1. UNCHANGED <<status, debates, mapVars, callVars, faults>>
  BY DEF MemberActs, JoinCommunity, LeaveCommunity, UpdateIntent
<1>2. /\ intent' \in [Members -> Intents \cup {"NONE"}]
      /\ \A n \in Members : n # m => intent'[n] = intent[n]
      /\ intent'[m] = "NONE" => MayLeave(m) \/ intent[m] = "NONE"
  <2>1. CASE JoinCommunity(m)
    BY <2>1 DEF JoinCommunity, TypeOK, Intents
  <2>2. CASE LeaveCommunity(m)
    BY <2>2 DEF LeaveCommunity, TypeOK, Intents
  <2>3. CASE UpdateIntent(m)
    <3>1. (CHOOSE i \in Intents : i # intent[m]) \in Intents
      BY DEF Intents
    <3>2. QED BY <2>3, <3>1 DEF UpdateIntent, TypeOK, Intents
  <2>4. QED BY <2>1, <2>2, <2>3 DEF MemberActs
<1>3. (TypeOK /\ OnePending /\ ActiveIsUnderway /\ OneUnderway)'
  BY <1>1, <1>2 DEF TypeOK, OnePending, ActiveIsUnderway, OneUnderway, Underway
<1>4. HostIsMember'
  BY <1>2, CommunityAssumption DEF HostIsMember, MayLeave, Members
<1>5. SpeakersAreMembers'
  <2>1. ASSUME NEW k \in DOMAIN debates, NEW n \in debates[k].speakers PROVE n \in Joined'
    <3>1. n \in Joined
      BY DEF SpeakersAreMembers
    <3>2. n = m => ~MayLeave(m)
      BY DEF MayLeave
    <3>3. QED BY <1>2, <3>1, <3>2 DEF Joined
  <2>2. QED BY <1>1, <2>1 DEF SpeakersAreMembers
<1>6. QED BY <1>3, <1>4, <1>5

\* What an action leaves alone that touches no row.
LEMMA RowsKeep ==
  ASSUME CommunityInv, UNCHANGED rowVars
  PROVE  (ActiveIsUnderway /\ HostIsMember /\ SpeakersAreMembers /\ OneUnderway)'
BY DEF CommunityInv, rowVars, ActiveIsUnderway, HostIsMember, SpeakersAreMembers, OneUnderway,
   Underway, Joined

LEMMA InviteKeeps ==
  ASSUME CommunityInv, NEW c \in Starts, HostInvites(c) PROVE CommunityInv'
<1> USE DEF CommunityInv, mapVars, callVars
<1>1. UNCHANGED <<rowVars, creating, faults>>
  BY DEF HostInvites, BeginInvitation, CheckInvitation, IssueInvitation
<1>2. /\ starting' \in [Starts -> [pc : {"idle", "check", "issue"}, opponent : Guests \cup {NoOne}]]
      /\ \A b \in Starts : starting'[b].pc # "idle" => starting'[b].opponent \in Guests
  <2>1. ASSUME NEW m \in Guests, BeginInvitation(c, m)
        PROVE  /\ starting' \in [Starts -> [pc : {"idle", "check", "issue"}, opponent : Guests \cup {NoOne}]]
               /\ \A b \in Starts : starting'[b].pc # "idle" => starting'[b].opponent \in Guests
    BY <2>1 DEF BeginInvitation, TypeOK
  <2>2. CASE CheckInvitation(c) \/ IssueInvitation(c)
    <3>1. CASE Goto(c, "issue")
      <4>1. starting[c].pc # "idle"
        BY <2>2 DEF CheckInvitation, IssueInvitation
      <4>2. \A b \in Starts : starting'[b].opponent = starting[b].opponent /\ (b # c => starting'[b].pc = starting[b].pc)
        BY <3>1 DEF Goto, TypeOK
      <4>3. starting' \in [Starts -> [pc : {"idle", "check", "issue"}, opponent : Guests \cup {NoOne}]]
        BY <3>1 DEF Goto, TypeOK
      <4>4. QED BY <4>1, <4>2, <4>3 DEF TypeOK
    <3>2. CASE starting' = [starting EXCEPT ![c] = Idle]
      BY <3>2 DEF Idle, TypeOK
    <3>3. QED BY <2>2, <3>1, <3>2 DEF CheckInvitation, IssueInvitation
  <2>3. QED BY <2>1, <2>2 DEF HostInvites
<1>3. CASE UNCHANGED mapVars
  <2>1. (TypeOK /\ OnePending)'
    BY <1>1, <1>2, <1>3 DEF TypeOK, OnePending, rowVars
  <2>2. QED BY <1>1, <2>1, RowsKeep
<1>4. CASE ~UNCHANGED mapVars
  <2>1. IssueInvitation(c) /\ MapIsFree
    BY <1>4 DEF HostInvites, BeginInvitation, CheckInvitation, IssueInvitation
  <2>2. starting[c].opponent \in Guests
    BY <2>1 DEF TypeOK, IssueInvitation
  <2>3. /\ invited' = Append(invited, starting[c].opponent) /\ outcome' = Append(outcome, "PENDING")
        /\ byCommunity' = Len(invited) + 1 /\ pending' = pending \cup {Len(invited) + 1}
    BY <1>4, <2>1 DEF IssueInvitation
  <2>4. invited \in Seq(Guests) /\ outcome \in Seq(Outcomes) /\ Len(invited) = Len(outcome)
    BY DEF TypeOK
  <2>5. "PENDING" \in Outcomes
    BY DEF Outcomes
  <2>6. /\ invited' \in Seq(Guests) /\ outcome' \in Seq(Outcomes) /\ Len(invited') = Len(outcome')
        /\ DOMAIN outcome' = DOMAIN outcome \cup {Len(invited) + 1}
        /\ \A i \in DOMAIN outcome : outcome'[i] = outcome[i] /\ i # Len(invited) + 1
        /\ outcome'[Len(invited) + 1] = "PENDING" /\ Len(invited) + 1 \in Nat \ {0}
    BY <2>2, <2>3, <2>4, <2>5
  <2>7. pending = {}
    BY <2>1 DEF MapIsFree, OnePending
  <2>8. TypeOK'
    BY <1>1, <1>2, <2>3, <2>6, <2>7 DEF TypeOK, rowVars
  <2>9. OnePending'
    BY <2>3, <2>6, <2>7 DEF OnePending
  <2>10. QED BY <1>1, <2>8, <2>9, RowsKeep
<1>5. QED BY <1>3, <1>4

\* An outcome that is written leaves the sequence as long as it was.
LEMMA OutcomeWritten ==
  ASSUME TypeOK, NEW i \in DOMAIN outcome, NEW o \in Outcomes, outcome' = [outcome EXCEPT ![i] = o]
  PROVE  /\ outcome' \in Seq(Outcomes) /\ Len(outcome') = Len(outcome)
         /\ DOMAIN outcome' = DOMAIN outcome
         /\ \A j \in DOMAIN outcome : outcome'[j] = IF j = i THEN o ELSE outcome[j]
BY DEF TypeOK

LEMMA TakeKeeps ==
  ASSUME CommunityInv, NEW i \in DOMAIN outcome, Answered(i) PROVE CommunityInv'
<1> USE DEF CommunityInv
<1>1. PICK o \in {"EXPIRED", "REJECTED", "TAKEN"} : Take(i, o)
  BY DEF Answered, ExpireInvitation, RejectInvitation, TakeInvitation
<1>2. UNCHANGED <<rowVars, callVars, faults, invited>>
  BY DEF Answered, ExpireInvitation, RejectInvitation, TakeInvitation, Take
<1>3. /\ outcome' \in Seq(Outcomes) /\ Len(outcome') = Len(outcome)
      /\ DOMAIN outcome' = DOMAIN outcome
      /\ \A j \in DOMAIN outcome : outcome'[j] = IF j = i THEN o ELSE outcome[j]
  BY <1>1, OutcomeWritten DEF Take, Outcomes
<1>4. byCommunity = i /\ pending' = {} /\ byCommunity' = 0
  BY <1>1 DEF Take, OnePending
<1>5. TypeOK'
  BY <1>2, <1>3, <1>4 DEF TypeOK, rowVars, callVars
<1>6. OnePending'
  BY <1>1, <1>3, <1>4 DEF OnePending, Take
<1>7. QED BY <1>2, <1>5, <1>6, RowsKeep

LEMMA AcceptKeeps ==
  ASSUME CommunityInv, NEW i \in DOMAIN outcome, AcceptInvitation(i) PROVE CommunityInv'
<1> USE DEF CommunityInv
<1> DEFINE d == DebateOf({Host, invited[i]}, "IN_PROGRESS", i)
<1>1. invited[i] \in Guests /\ i \in Nat \ {0}
  BY DEF TypeOK
<1>2. d \in DebateRows /\ Appended(d)
  BY <1>1 DEF AcceptInvitation, DebateOf, DebateRows, DebateStatuses, Active, Members, Appended
<1>3. d.speakers = {Host, invited[i]} /\ d.speakers \subseteq Joined /\ Underway(d)
  BY <1>1 DEF AcceptInvitation, MayAccept, DebateOf, HostIsMember, Joined, Members, Underway, Active
<1> HIDE DEF d
<1>4. /\ debates' \in Seq(DebateRows)
      /\ DOMAIN debates' = DOMAIN debates \cup {Len(debates) + 1}
      /\ \A j \in DOMAIN debates : debates'[j] = debates[j]
      /\ debates'[Len(debates) + 1] = d
  BY <1>2, AfterAppend
<1>5. \A j \in DOMAIN debates : ~Underway(debates[j])
  BY DEF AcceptInvitation, MayAccept, SomeActive, Underway
<1>6. /\ outcome' \in Seq(Outcomes) /\ Len(outcome') = Len(outcome)
      /\ DOMAIN outcome' = DOMAIN outcome
      /\ \A j \in DOMAIN outcome : outcome'[j] = IF j = i THEN "ACCEPTED" ELSE outcome[j]
  BY OutcomeWritten DEF AcceptInvitation, Outcomes
<1>7. UNCHANGED <<intent, pending, byCommunity, invited, callVars, faults>> /\ status' = "ACTIVE"
      /\ outcome[i] = "TAKEN"
  BY DEF AcceptInvitation
<1>8. TypeOK'
  BY <1>4, <1>6, <1>7 DEF TypeOK, callVars, DebateRows
<1>9. OnePending'
  BY <1>6, <1>7 DEF OnePending
<1>10. ActiveIsUnderway' /\ OneUnderway'
  BY <1>3, <1>4, <1>5 DEF ActiveIsUnderway, OneUnderway, Underway
<1>11. HostIsMember' /\ SpeakersAreMembers'
  BY <1>3, <1>4, <1>7 DEF HostIsMember, SpeakersAreMembers, Joined
<1>12. QED BY <1>8, <1>9, <1>10, <1>11

LEMMA RefuseKeeps ==
  ASSUME CommunityInv, NEW i \in DOMAIN outcome, RefuseInvitation(i) PROVE CommunityInv'
<1> USE DEF CommunityInv
<1>1. /\ outcome' \in Seq(Outcomes) /\ Len(outcome') = Len(outcome)
      /\ DOMAIN outcome' = DOMAIN outcome
      /\ \A j \in DOMAIN outcome : outcome'[j] = IF j = i THEN "REFUSED" ELSE outcome[j]
  BY OutcomeWritten DEF RefuseInvitation, Outcomes
<1>2. /\ UNCHANGED <<rowVars, pending, byCommunity, invited, callVars>> /\ outcome[i] = "TAKEN"
      /\ faults' \in 0..MaxFaults
  BY CommunityAssumption DEF RefuseInvitation, TypeOK
<1>3. TypeOK'
  BY <1>1, <1>2 DEF TypeOK, rowVars, callVars
<1>4. OnePending'
  BY <1>1, <1>2 DEF OnePending
<1>5. QED BY <1>2, <1>3, <1>4, RowsKeep

\* The debates that no invitation starts.
LEMMA CreateKeeps ==
  ASSUME CommunityInv, (\E S \in SUBSET Members : CheckSpeakers(S)) \/ InsertDebate PROVE CommunityInv'
<1> USE DEF CommunityInv
<1>1. UNCHANGED <<intent, status, mapVars, starting, faults>> /\ creating' \subseteq Members
  BY DEF CheckSpeakers, InsertDebate, rowVars, Joined
<1>2. CASE debates' = debates
  <2>1. (TypeOK /\ OnePending)'
    BY <1>1, <1>2 DEF TypeOK, OnePending, mapVars
  <2>2. QED BY <1>1, <1>2, <2>1, RowsKeep DEF rowVars
<1>3. CASE debates' # debates
  <2> DEFINE d == DebateOf(creating, "READY", 0)
  <2>1. InsertDebate /\ creating \subseteq Joined /\ Appended(d)
    BY <1>3 DEF CheckSpeakers, InsertDebate, rowVars, Appended
  <2>2. d \in DebateRows /\ ~Underway(d) /\ d.speakers \subseteq Joined
    BY <2>1 DEF DebateOf, DebateRows, DebateStatuses, Active, Underway, Joined
  <2> HIDE DEF d
  <2>3. /\ debates' \in Seq(DebateRows)
        /\ DOMAIN debates' = DOMAIN debates \cup {Len(debates) + 1}
        /\ \A j \in DOMAIN debates : debates'[j] = debates[j]
        /\ debates'[Len(debates) + 1] = d
    BY <2>1, <2>2, AfterAppend
  <2>4. (TypeOK /\ OnePending)'
    BY <1>1, <2>3 DEF TypeOK, OnePending, mapVars, DebateRows
  <2>5. ActiveIsUnderway' /\ OneUnderway'
    BY <1>1, <2>2, <2>3 DEF ActiveIsUnderway, OneUnderway, Underway
  <2>6. HostIsMember' /\ SpeakersAreMembers'
    BY <1>1, <2>2, <2>3 DEF HostIsMember, SpeakersAreMembers, Joined
  <2>7. QED BY <2>4, <2>5, <2>6
<1>4. QED BY <1>2, <1>3

LEMMA DebateKeeps ==
  ASSUME CommunityInv, NEW k \in DOMAIN debates, DebateMoves(k) PROVE CommunityInv'
<1> USE DEF CommunityInv
<1>1. PICK s \in DebateStatuses : Moved(k, s) /\ (s \in Active \/ status' = "WAITING")
  BY DEF DebateMoves, StartDebate, FinalizeDebate, CompleteDebate, TerminateDebate, AfterEnd,
     Moved, DebateStatuses, Active
<1>2. /\ debates' \in Seq(DebateRows)
      /\ DOMAIN debates' = DOMAIN debates
      /\ \A j \in DOMAIN debates :
           /\ j # k => debates'[j] = debates[j]
           /\ debates'[j].invitation = debates[j].invitation
           /\ debates'[j].speakers = debates[j].speakers
      /\ debates'[k].status = s
  BY <1>1, AfterMove
<1>3. /\ UNCHANGED <<intent, mapVars, callVars, faults>> /\ debates[k].status \in Active
      /\ status' = status \/ status' = "WAITING"
  BY DEF DebateMoves, StartDebate, FinalizeDebate, CompleteDebate, TerminateDebate, AfterEnd, Active
<1>4. \A j \in DOMAIN debates : Underway(debates'[j]) => Underway(debates[j])
  BY <1>2, <1>3 DEF Underway
<1>5. (TypeOK /\ OnePending)'
  <2>1. status' \in {"WAITING", "ACTIVE"}
    BY <1>3 DEF TypeOK
  <2>2. QED BY <1>2, <1>3, <2>1 DEF TypeOK, OnePending, mapVars, callVars, DebateRows
<1>6. ActiveIsUnderway'
  <2>1. ASSUME status' = "ACTIVE" PROVE \E j \in DOMAIN debates' : Underway(debates'[j])
    <3>1. status = "ACTIVE" /\ s \in Active
      BY <1>1, <1>3, <2>1
    <3>2. PICK j \in DOMAIN debates : Underway(debates[j])
      BY <3>1 DEF ActiveIsUnderway
    <3>3. Underway(debates'[j])
      BY <1>2, <3>1, <3>2 DEF Underway
    <3>4. QED BY <1>2, <3>3
  <2>2. QED BY <2>1 DEF ActiveIsUnderway, Underway
<1>7. OneUnderway'
  BY <1>2, <1>4 DEF OneUnderway, Underway
<1>8. HostIsMember' /\ SpeakersAreMembers'
  BY <1>2, <1>3 DEF HostIsMember, SpeakersAreMembers, Joined
<1>9. QED BY <1>5, <1>6, <1>7, <1>8

LEMMA RestartKeeps == ASSUME CommunityInv, Restart PROVE CommunityInv'
<1> USE DEF CommunityInv
<1>1. /\ UNCHANGED <<rowVars, invited>> /\ pending' = {} /\ byCommunity' = 0 /\ creating' = {}
      /\ faults' \in 0..MaxFaults
  BY CommunityAssumption DEF Restart, TypeOK
<1>2. /\ outcome' \in Seq(Outcomes) /\ Len(outcome') = Len(outcome)
      /\ DOMAIN outcome' = DOMAIN outcome
      /\ \A i \in DOMAIN outcome : outcome'[i] # "PENDING"
  <2>1. outcome \in Seq(Outcomes) /\ DOMAIN outcome = 1..Len(outcome) /\ Len(outcome) \in Nat
    BY DEF TypeOK
  <2>2. outcome' \in [1..Len(outcome) -> Outcomes]
    BY <2>1 DEF Restart, Outcomes
  <2>3. \A i \in DOMAIN outcome : outcome'[i] # "PENDING"
    BY <2>1 DEF Restart
  <2>4. QED BY <2>1, <2>2, <2>3
<1>3. /\ starting' \in [Starts -> [pc : {"idle", "check", "issue"}, opponent : Guests \cup {NoOne}]]
      /\ \A c \in Starts : starting'[c].pc # "idle" => starting'[c].opponent \in Guests
  BY DEF Restart, Idle
<1>4. TypeOK'
  BY <1>1, <1>2, <1>3 DEF TypeOK, rowVars
<1>5. OnePending'
  BY <1>1, <1>2 DEF OnePending
<1>6. QED BY <1>1, <1>4, <1>5, RowsKeep

LEMMA StepCommunity == CommunityInv /\ [Next]_vars => CommunityInv'
<1> SUFFICES ASSUME CommunityInv, [Next]_vars PROVE CommunityInv'
  OBVIOUS
<1>1. CASE UNCHANGED vars
  <2>1. (TypeOK /\ OnePending)'
    BY <1>1 DEF CommunityInv, TypeOK, OnePending, vars, rowVars, mapVars, callVars
  <2>2. QED BY <1>1, <2>1, RowsKeep DEF CommunityInv, vars
<1>2. ASSUME NEW i \in DOMAIN outcome, Answered(i) \/ Decided(i) PROVE CommunityInv'
  BY <1>2, TakeKeeps, AcceptKeeps, RefuseKeeps DEF Decided
<1>3. QED
  BY <1>1, <1>2, MemberKeeps, InviteKeeps, CreateKeeps, DebateKeeps, RestartKeeps DEF Next

LEMMA CommunityHolds == Spec => []CommunityInv
BY InitCommunity, StepCommunity, PTL DEF Spec

-----------------------------------------------------------------------------
\* Every variable holds what its column, map or handler may hold.
THEOREM TypeCorrect == Spec => []TypeOK
<1>1. CommunityInv => TypeOK
  BY DEF CommunityInv
<1>2. QED BY <1>1, CommunityHolds, PTL

\* pendingInvitations and pendingInvitationByCommunity never disagree, however
\* calls, answers, timers and restarts interleave.
THEOREM MapsAgree == Spec => []OnePending
<1>1. CommunityInv => OnePending
  BY DEF CommunityInv
<1>2. QED BY <1>1, CommunityHolds, PTL

\* A community is left ACTIVE only while a debate of an invitation is underway.
THEOREM ActiveCommunities == Spec => []ActiveIsUnderway
<1>1. CommunityInv => ActiveIsUnderway
  BY DEF CommunityInv
<1>2. QED BY <1>1, CommunityHolds, PTL

\* Nobody who speaks in a debate is without a membership.
THEOREM SpeakersStay == Spec => []SpeakersAreMembers
<1>1. CommunityInv => SpeakersAreMembers
  BY DEF CommunityInv
<1>2. QED BY <1>1, CommunityHolds, PTL

-----------------------------------------------------------------------------
(* The refinement.                                                          *)

RunningIn(D) ==
  LET R == {k \in DOMAIN D : Underway(D[k])}
  IN IF R = {} THEN 0 ELSE D[CHOOSE k \in R : TRUE].invitation

\* The debate underway tells the invitation that is running.
LEMMA RunningValue ==
  ASSUME NEW D, \A j, k \in DOMAIN D : Underway(D[j]) /\ Underway(D[k]) => j = k
  PROVE  /\ \A k \in DOMAIN D : Underway(D[k]) => RunningIn(D) = D[k].invitation
         /\ (\A k \in DOMAIN D : ~Underway(D[k])) => RunningIn(D) = 0
<1> DEFINE R == {k \in DOMAIN D : Underway(D[k])}
           r == CHOOSE k \in R : TRUE
<1>1. ASSUME NEW k \in DOMAIN D, Underway(D[k]) PROVE RunningIn(D) = D[k].invitation
  <2>1. k \in R /\ R # {}
    BY <1>1
  <2>2. r \in R
    BY <2>1
  <2>3. r = k
    BY <1>1, <2>2
  <2>4. QED BY <2>1, <2>3 DEF RunningIn
<1>2. ASSUME \A k \in DOMAIN D : ~Underway(D[k]) PROVE RunningIn(D) = 0
  <2>1. R = {}
    BY <1>2
  <2>2. QED BY <2>1 DEF RunningIn
<1>3. QED BY <1>1, <1>2

LEMMA RunningBoth ==
  ASSUME OneUnderway, OneUnderway'
  PROVE  /\ \A k \in DOMAIN debates : Underway(debates[k]) => Running = debates[k].invitation
         /\ (\A k \in DOMAIN debates : ~Underway(debates[k])) => Running = 0
         /\ \A k \in DOMAIN debates' : Underway(debates'[k]) => Running' = debates'[k].invitation
         /\ (\A k \in DOMAIN debates' : ~Underway(debates'[k])) => Running' = 0
<1>1. Running = RunningIn(debates) /\ Running' = RunningIn(debates')
  BY DEF Running, RunningIn, Underway
<1>2. \A j, k \in DOMAIN debates : Underway(debates[j]) /\ Underway(debates[k]) => j = k
  BY DEF OneUnderway
<1>3. \A j, k \in DOMAIN debates' : Underway(debates'[j]) /\ Underway(debates'[k]) => j = k
  BY DEF OneUnderway, Underway
<1>4. QED BY <1>1, <1>2, <1>3, RunningValue

LEMMA RunningStays == ASSUME UNCHANGED debates PROVE UNCHANGED Running
BY DEF Running, Underway

LEMMA InvitationAnswered ==
  ASSUME CommunityInv, NEW i \in DOMAIN outcome, Answered(i) PROVE Promise!Next
<1>1. PICK o \in {"EXPIRED", "REJECTED", "TAKEN"} : Take(i, o)
  BY DEF Answered, ExpireInvitation, RejectInvitation, TakeInvitation
<1>2. UNCHANGED Running
  <2>1. UNCHANGED debates
    BY DEF Answered, ExpireInvitation, RejectInvitation, TakeInvitation, rowVars
  <2>2. QED BY <2>1, RunningStays
<1>3. outcome[i] = "PENDING" /\ outcome' = [outcome EXCEPT ![i] = o]
  BY <1>1 DEF Take, CommunityInv, OnePending
<1>4. Promise!Answer(i)
  BY <1>1, <1>2, <1>3 DEF Promise!Answer
<1>5. QED BY <1>4 DEF Promise!Next

LEMMA InvitationDecided ==
  ASSUME CommunityInv, CommunityInv', NEW i \in DOMAIN outcome, Decided(i) PROVE Promise!Next
<1>1. CASE RefuseInvitation(i)
  <2>1. UNCHANGED Running
    BY <1>1 DEF RefuseInvitation, rowVars, Running, Underway
  <2>2. Promise!Refuse(i)
    BY <1>1, <2>1 DEF RefuseInvitation, Promise!Refuse
  <2>3. QED BY <2>2 DEF Promise!Next
<1>2. CASE AcceptInvitation(i)
  <2>1. /\ \A k \in DOMAIN debates : ~Underway(debates[k])
        /\ debates' = Append(debates, DebateOf({Host, invited[i]}, "IN_PROGRESS", i))
    BY <1>2 DEF AcceptInvitation, MayAccept, SomeActive, Underway
  <2>2. i \in Nat \ {0} /\ debates \in Seq(DebateRows)
    BY DEF CommunityInv, TypeOK, DebateRows
  <2>3. Len(debates) + 1 \in DOMAIN debates' /\
        debates'[Len(debates) + 1] = DebateOf({Host, invited[i]}, "IN_PROGRESS", i)
    BY <2>1, <2>2
  <2>4. Underway(debates'[Len(debates) + 1]) /\ debates'[Len(debates) + 1].invitation = i
    BY <2>2, <2>3 DEF Underway, DebateOf, Active
  <2>5. Running = 0 /\ Running' = i
    BY <2>1, <2>3, <2>4, RunningBoth DEF CommunityInv
  <2>6. Promise!Accept(i)
    BY <1>2, <2>5 DEF AcceptInvitation, Promise!Accept
  <2>7. QED BY <2>6 DEF Promise!Next
<1>3. QED BY <1>1, <1>2 DEF Decided

LEMMA InvitationIssued ==
  ASSUME CommunityInv, NEW c \in Starts, HostInvites(c) PROVE Promise!Next \/ UNCHANGED <<outcome, Running>>
<1>1. UNCHANGED Running
  <2>1. UNCHANGED debates
    BY DEF HostInvites, BeginInvitation, CheckInvitation, IssueInvitation, rowVars
  <2>2. QED BY <2>1, RunningStays
<1>2. CASE UNCHANGED outcome
  BY <1>1, <1>2
<1>3. CASE ~UNCHANGED outcome
  <2>1. outcome' = Append(outcome, "PENDING") /\ MapIsFree
    BY <1>3 DEF HostInvites, BeginInvitation, CheckInvitation, IssueInvitation, mapVars
  <2>2. \A i \in DOMAIN outcome : outcome[i] # "PENDING"
    BY <2>1 DEF MapIsFree, CommunityInv, OnePending
  <2>3. Promise!Issue
    BY <1>1, <2>1, <2>2 DEF Promise!Issue
  <2>4. QED BY <2>3 DEF Promise!Next
<1>4. QED BY <1>2, <1>3

\* A debate that moves either stays the one that runs, or ends.
LEMMA DebateEnds ==
  ASSUME CommunityInv, CommunityInv', NEW k \in DOMAIN debates, DebateMoves(k)
  PROVE  Promise!Next \/ UNCHANGED <<outcome, Running>>
<1> USE DEF CommunityInv
<1>1. PICK s \in DebateStatuses : Moved(k, s)
  BY DEF DebateMoves, StartDebate, FinalizeDebate, CompleteDebate, TerminateDebate, Moved,
     DebateStatuses, Active
<1>2. /\ DOMAIN debates' = DOMAIN debates
      /\ \A j \in DOMAIN debates :
           /\ j # k => debates'[j] = debates[j]
           /\ debates'[j].invitation = debates[j].invitation
  BY <1>1, AfterMove
<1>3. UNCHANGED outcome /\ debates[k].status \in Active
  BY DEF DebateMoves, StartDebate, FinalizeDebate, CompleteDebate, TerminateDebate, mapVars, Active
<1>4. \A j \in DOMAIN debates : Underway(debates'[j]) => Underway(debates[j])
  BY <1>2, <1>3 DEF Underway
<1>5. CASE \E j \in DOMAIN debates : Underway(debates'[j])
  <2>1. PICK j \in DOMAIN debates : Underway(debates'[j])
    BY <1>5
  <2>2. Running = debates[j].invitation /\ Running' = debates'[j].invitation
    BY <1>2, <1>4, <2>1, RunningBoth
  <2>3. QED BY <1>2, <1>3, <2>2
<1>6. CASE \A j \in DOMAIN debates : ~Underway(debates'[j])
  <2>1. Running' = 0
    BY <1>2, <1>6, RunningBoth
  <2>2. CASE Running = 0
    BY <1>3, <2>1, <2>2
  <2>3. CASE Running # 0
    BY <1>3, <2>1, <2>3 DEF Promise!Next, Promise!EndDebate
  <2>4. QED BY <2>2, <2>3
<1>7. QED BY <1>5, <1>6

\* createDebate inserts a debate of no invitation.
LEMMA CreationIsSilent ==
  ASSUME CommunityInv, CommunityInv', (\E S \in SUBSET Members : CheckSpeakers(S)) \/ InsertDebate
  PROVE  UNCHANGED <<outcome, Running>>
<1> USE DEF CommunityInv
<1>1. UNCHANGED outcome
  BY DEF CheckSpeakers, InsertDebate, mapVars
<1>2. CASE debates' = debates
  BY <1>1, <1>2 DEF Running, Underway
<1>3. CASE debates' # debates
  <2> DEFINE d == DebateOf(creating, "READY", 0)
  <2>1. Appended(d) /\ creating \subseteq Joined
    BY <1>3 DEF CheckSpeakers, InsertDebate, rowVars, Appended
  <2>2. d \in DebateRows /\ ~Underway(d)
    BY <2>1 DEF DebateOf, DebateRows, DebateStatuses, Active, Underway, Joined
  <2> HIDE DEF d
  <2>3. /\ DOMAIN debates' = DOMAIN debates \cup {Len(debates) + 1}
        /\ \A j \in DOMAIN debates : debates'[j] = debates[j]
        /\ debates'[Len(debates) + 1] = d
    BY <2>1, <2>2, AfterAppend
  <2>4. \A j \in DOMAIN debates' : Underway(debates'[j]) => j \in DOMAIN debates /\ Underway(debates[j])
    BY <2>2, <2>3
  <2>5. CASE \E j \in DOMAIN debates : Underway(debates[j])
    <3>1. PICK j \in DOMAIN debates : Underway(debates[j])
      BY <2>5
    <3>2. Running = debates[j].invitation /\ Running' = debates'[j].invitation
      BY <2>3, <3>1, RunningBoth
    <3>3. QED BY <1>1, <2>3, <3>1, <3>2
  <2>6. CASE \A j \in DOMAIN debates : ~Underway(debates[j])
    <3>1. Running = 0 /\ Running' = 0
      BY <2>4, <2>6, RunningBoth
    <3>2. QED BY <1>1, <3>1
  <2>7. QED BY <2>5, <2>6
<1>4. QED BY <1>2, <1>3

\* Community implements InvitationOutcome, without its fairness.
THEOREM InvitationsAreKept == Spec => FollowsInvitations
<1>1. Init => Promise!Init
  <2>1. Init => debates = <<>> /\ outcome = <<>>
    BY DEF Init
  <2>2. debates = <<>> => {k \in DOMAIN debates : Underway(debates[k])} = {}
    OBVIOUS
  <2>3. QED BY <2>1, <2>2 DEF Promise!Init, Running
<1>2. CommunityInv /\ CommunityInv' /\ [Next]_vars => [Promise!Next]_<<outcome, Running>>
  <2> SUFFICES ASSUME CommunityInv, CommunityInv', [Next]_vars
               PROVE  Promise!Next \/ UNCHANGED <<outcome, Running>>
    OBVIOUS
  <2>1. CASE UNCHANGED vars
    BY <2>1 DEF vars, rowVars, mapVars, Running, Underway
  <2>2. ASSUME NEW m \in Members, MemberActs(m) PROVE UNCHANGED <<outcome, Running>>
    BY <2>2, RunningStays DEF MemberActs, JoinCommunity, LeaveCommunity, UpdateIntent, mapVars
  <2>3. CASE Restart
    <3>1. UNCHANGED Running
      BY <2>3 DEF Restart, rowVars, Running, Underway
    <3>2. Promise!Restart
      BY <2>3, <3>1 DEF Restart, Promise!Restart
    <3>3. QED BY <3>2 DEF Promise!Next
  <2>4. QED
    BY <2>1, <2>2, <2>3, InvitationIssued, InvitationAnswered, InvitationDecided, CreationIsSilent,
       DebateEnds DEF Next
<1>3. QED BY <1>1, <1>2, CommunityHolds, PTL DEF Spec, FollowsInvitations, Promise!Spec
=============================================================================
