----------------------------- MODULE Community -----------------------------
(***************************************************************************)
(* One community: its members, the invitations of its host to debate and   *)
(* the debates it holds.  Members, debates and the status of the community *)
(* are rows; the invitations live in two maps in the memory of             *)
(* DebatesService, with a timer each.  Between two awaits a handler of the *)
(* service runs alone; a step is such a stretch, or one transaction.       *)
(* A debate is followed from its row to its end by its status only; its    *)
(* turns are the subject of DebateChat.                                    *)
(***************************************************************************)
EXTENDS Naturals, Sequences, FiniteSets

CONSTANTS
  Host, Guests,     \* the member who made the community, and the others
  Starts,           \* concurrent executions of startCommunityDebate
  NoOne,            \* no opponent, no call underway
  MaxInvitations,   \* bound: invitations issued
  MaxDebates,       \* bound: debates created
  MaxFaults         \* bound: failed transactions and restarts

ASSUME CommunityAssumption ==
  /\ Host \notin Guests /\ NoOne \notin Guests \cup {Host}
  /\ MaxInvitations \in Nat /\ MaxDebates \in Nat /\ MaxFaults \in Nat

Members == Guests \cup {Host}
Active == {"READY", "IN_PROGRESS", "JUDGING"}   \* JUDGING: DEBATE_FINALIZED too
DebateStatuses == Active \cup {"COMPLETED", "FAILED"}
Intents == {"OPEN_TO_DEBATE", "PREPARING"}

VARIABLES
  intent,        \* community_member.debate_intent, or NONE without a row
  status,        \* community.status
  debates,       \* debate rows of the community: speakers, status, and the
                 \* invitation they come from, or 0
  pending,       \* pendingInvitations: the invitations it holds
  byCommunity,   \* pendingInvitationByCommunity of the community, or 0
  invited,       \* the opponent of each invitation issued
  outcome,       \* history: what became of each invitation
  starting,      \* the calls of startCommunityDebate
  creating,      \* the call of createDebate: its speakers, or {}
  faults

rowVars == <<intent, status, debates>>
mapVars == <<pending, byCommunity, invited, outcome>>
callVars == <<starting, creating>>
vars == <<rowVars, mapVars, callVars, faults>>

-----------------------------------------------------------------------------
Joined == {m \in Members : intent[m] # "NONE"}
Idle == [pc |-> "idle", opponent |-> NoOne]
DebateOf(S, s, i) == [speakers |-> S, status |-> s, invitation |-> i]

\* The debate of an invitation that is underway; READY only without one.
Underway(d) == d.invitation # 0 /\ d.status \in Active
SomeActive == \E k \in DOMAIN debates : debates[k].status \in Active

\* createCommunity: the host is a member from the start.
Init ==
  /\ intent = [m \in Members |-> IF m = Host THEN "OPEN_TO_DEBATE" ELSE "NONE"]
  /\ status = "WAITING"
  /\ debates = <<>>
  /\ pending = {} /\ byCommunity = 0
  /\ invited = <<>> /\ outcome = <<>>
  /\ starting = [c \in Starts |-> Idle]
  /\ creating = {}
  /\ faults = 0

-----------------------------------------------------------------------------
(* CommunityChatService: membership.                                        *)

\* joinCommunity upserts the row: a member who joins again keeps the intent.
JoinCommunity(m) ==
  /\ intent[m] = "NONE"
  /\ intent' = [intent EXCEPT ![m] = "OPEN_TO_DEBATE"]
  /\ UNCHANGED <<status, debates, mapVars, callVars, faults>>

\* The host is refused by leaveCommunity, a speaker of any debate by the
\* foreign key of the debate (RESTRICT).
MayLeave(m) == m # Host /\ \A k \in DOMAIN debates : m \notin debates[k].speakers

LeaveCommunity(m) ==
  /\ m \in Joined /\ MayLeave(m)
  /\ intent' = [intent EXCEPT ![m] = "NONE"]
  /\ UNCHANGED <<status, debates, mapVars, callVars, faults>>

\* updateCommunityDebateIntent; nothing reads the host's.
UpdateIntent(m) ==
  /\ m \in Joined \ {Host}
  /\ intent' = [intent EXCEPT ![m] = CHOOSE i \in Intents : i # @]
  /\ UNCHANGED <<status, debates, mapVars, callVars, faults>>

-----------------------------------------------------------------------------
(* DebatesService.startCommunityDebate: the map is looked at, a transaction *)
(* checks the opponent and the debates, and the map is looked at again,     *)
(* together with the insertion.                                             *)

Goto(c, pc) == starting' = [starting EXCEPT ![c].pc = pc]

BeginInvitation(c, m) ==
  /\ starting[c] = Idle /\ m \in Guests
  /\ byCommunity = 0
  /\ starting' = [starting EXCEPT ![c] = [pc |-> "check", opponent |-> m]]
  /\ UNCHANGED <<rowVars, mapVars, creating, faults>>

CheckInvitation(c) ==
  /\ starting[c].pc = "check"
  /\ IF intent[starting[c].opponent] = "OPEN_TO_DEBATE" /\ ~SomeActive
     THEN Goto(c, "issue")
     ELSE starting' = [starting EXCEPT ![c] = Idle]
  /\ UNCHANGED <<rowVars, mapVars, creating, faults>>

\* Mutant: the check before the transaction is trusted after it.
M_MapIsFree == TRUE

MapIsFree == byCommunity = 0

\* The bound of the invitations stands for refusing the call.
IssueInvitation(c) ==
  /\ starting[c].pc = "issue"
  /\ starting' = [starting EXCEPT ![c] = Idle]
  /\ IF MapIsFree /\ Len(invited) < MaxInvitations
     THEN /\ invited' = Append(invited, starting[c].opponent)
          /\ outcome' = Append(outcome, "PENDING")
          /\ byCommunity' = Len(invited) + 1
          /\ pending' = pending \cup {Len(invited) + 1}
     ELSE UNCHANGED mapVars
  /\ UNCHANGED <<rowVars, creating, faults>>

-----------------------------------------------------------------------------
(* The answers to an invitation.                                            *)

\* takeDebateInvitation and expireDebateInvitation: both maps forget it.
Take(i, o) ==
  /\ i \in pending
  /\ pending' = pending \ {i}
  /\ byCommunity' = 0
  /\ outcome' = [outcome EXCEPT ![i] = o]
  /\ UNCHANGED invited

\* Mutant: the timer tells the members and leaves the maps as they are.
M_ExpireInvitation(i) == i \in pending /\ UNCHANGED vars

ExpireInvitation(i) == Take(i, "EXPIRED") /\ UNCHANGED <<rowVars, callVars, faults>>

RejectInvitation(i) == Take(i, "REJECTED") /\ UNCHANGED <<rowVars, callVars, faults>>

\* acceptCommunityDebateInvitation takes the invitation before it looks at
\* the database.
TakeInvitation(i) == Take(i, "TAKEN") /\ UNCHANGED <<rowVars, callVars, faults>>

\* Mutant: the check made when the invitation was issued is trusted.
M_MayAccept(i) == intent[invited[i]] = "OPEN_TO_DEBATE"

MayAccept(i) == intent[invited[i]] = "OPEN_TO_DEBATE" /\ ~SomeActive

\* The transaction, under the lock of the community.
AcceptInvitation(i) ==
  /\ outcome[i] = "TAKEN" /\ Len(debates) < MaxDebates
  /\ MayAccept(i)
  /\ debates' = Append(debates, DebateOf({Host, invited[i]}, "IN_PROGRESS", i))
  /\ status' = "ACTIVE"
  /\ outcome' = [outcome EXCEPT ![i] = "ACCEPTED"]
  /\ UNCHANGED <<intent, pending, byCommunity, invited, callVars, faults>>

\* The transaction is rolled back, and the invitation is gone.  The bound of
\* the debates stands for a failure.
RefuseInvitation(i) ==
  /\ outcome[i] = "TAKEN"
  /\ \/ ~MayAccept(i) /\ UNCHANGED faults
     \/ Len(debates) >= MaxDebates /\ UNCHANGED faults
     \/ faults < MaxFaults /\ faults' = faults + 1
  /\ outcome' = [outcome EXCEPT ![i] = "REFUSED"]
  /\ UNCHANGED <<rowVars, pending, byCommunity, invited, callVars>>

-----------------------------------------------------------------------------
(* Debates that no invitation brings about.                                 *)

\* createDebate: assertDebateSpeakersBelongToCommunity, then the insertion.
CheckSpeakers(S) ==
  /\ creating = {} /\ S \subseteq Joined
  /\ creating' = S
  /\ UNCHANGED <<rowVars, mapVars, starting, faults>>

\* The foreign keys refuse a speaker who has left in the meantime.
InsertDebate ==
  /\ creating # {}
  /\ debates' = IF creating \subseteq Joined /\ Len(debates) < MaxDebates
                THEN Append(debates, DebateOf(creating, "READY", 0)) ELSE debates
  /\ creating' = {}
  /\ UNCHANGED <<intent, status, mapVars, starting, faults>>

\* startDebate, which leaves the status of the community as it is.
StartDebate(k) ==
  /\ debates[k].status = "READY"
  /\ debates' = [debates EXCEPT ![k].status = "IN_PROGRESS"]
  /\ UNCHANGED <<intent, status, mapVars, callVars, faults>>

-----------------------------------------------------------------------------
(* The ends of a debate.                                                    *)

\* The last turn is finalized and the judge is started.
FinalizeDebate(k) ==
  /\ debates[k].status = "IN_PROGRESS"
  /\ debates' = [debates EXCEPT ![k].status = "JUDGING"]
  /\ UNCHANGED <<intent, status, mapVars, callVars, faults>>

\* Mutant: the community is left ACTIVE.
M_AfterEnd == status

AfterEnd == "WAITING"

\* judgeDebate: the verdict is stored.
CompleteDebate(k) ==
  /\ debates[k].status = "JUDGING"
  /\ debates' = [debates EXCEPT ![k].status = "COMPLETED"]
  /\ status' = AfterEnd
  /\ UNCHANGED <<intent, mapVars, callVars, faults>>

\* terminateDebate: forfeited, or out of time.
TerminateDebate(k) ==
  /\ debates[k].status \in {"IN_PROGRESS", "JUDGING"}
  /\ debates' = [debates EXCEPT ![k].status = "FAILED"]
  /\ status' = AfterEnd
  /\ UNCHANGED <<intent, mapVars, callVars, faults>>

-----------------------------------------------------------------------------
\* The process is restarted: the maps, the timers and the calls are gone.
Restart ==
  /\ faults < MaxFaults
  /\ pending' = {} /\ byCommunity' = 0
  /\ outcome' = [i \in DOMAIN outcome |->
                   IF outcome[i] \in {"PENDING", "TAKEN"} THEN "LOST" ELSE outcome[i]]
  /\ starting' = [c \in Starts |-> Idle]
  /\ creating' = {}
  /\ faults' = faults + 1
  /\ UNCHANGED <<rowVars, invited>>

MemberActs(m) == JoinCommunity(m) \/ LeaveCommunity(m) \/ UpdateIntent(m)

HostInvites(c) ==
  \/ \E m \in Guests : BeginInvitation(c, m)
  \/ CheckInvitation(c) \/ IssueInvitation(c)

Answered(i) == ExpireInvitation(i) \/ RejectInvitation(i) \/ TakeInvitation(i)

Decided(i) == AcceptInvitation(i) \/ RefuseInvitation(i)

DebateMoves(k) == StartDebate(k) \/ FinalizeDebate(k) \/ CompleteDebate(k) \/ TerminateDebate(k)

Next ==
  \/ \E m \in Members : MemberActs(m)
  \/ \E c \in Starts : HostInvites(c)
  \/ \E i \in DOMAIN outcome : Answered(i) \/ Decided(i)
  \/ \E S \in {T \in SUBSET Members : Cardinality(T) = 2} : CheckSpeakers(S)
  \/ InsertDebate
  \/ \E k \in DOMAIN debates : DebateMoves(k)
  \/ Restart

Spec == Init /\ [][Next]_vars

\* Timers fire and transactions end.  Nobody has to invite or to answer.
Fairness ==
  \A i \in 1..MaxInvitations :
    /\ WF_vars(i \in DOMAIN outcome /\ ExpireInvitation(i))
    /\ WF_vars(i \in DOMAIN outcome /\ Decided(i))

LiveSpec == Spec /\ Fairness

-----------------------------------------------------------------------------
Outcomes == {"PENDING", "TAKEN", "ACCEPTED", "REFUSED", "REJECTED", "EXPIRED", "LOST"}

\* Every variable holds what its column, map or handler may hold.
TypeOK ==
  /\ intent \in [Members -> Intents \cup {"NONE"}]
  /\ status \in {"WAITING", "ACTIVE"}
  /\ debates \in Seq([speakers : SUBSET Members, status : DebateStatuses, invitation : Nat])
  /\ pending \subseteq DOMAIN outcome
  /\ byCommunity \in Nat
  /\ invited \in Seq(Guests) /\ outcome \in Seq(Outcomes) /\ Len(invited) = Len(outcome)
  /\ starting \in [Starts -> [pc : {"idle", "check", "issue"}, opponent : Guests \cup {NoOne}]]
  /\ \A c \in Starts : starting[c].pc # "idle" => starting[c].opponent \in Guests
  /\ creating \subseteq Members
  /\ faults \in 0..MaxFaults

\* The two maps agree: the community's entry names the one invitation that
\* waits, whatever calls overlap with the checks of startCommunityDebate.
OnePending ==
  /\ pending = IF byCommunity = 0 THEN {} ELSE {byCommunity}
  /\ \A i \in DOMAIN outcome : outcome[i] = "PENDING" <=> i \in pending

\* A community is ACTIVE only while a debate that an invitation started is
\* underway: however a debate ends, its community can be seen to wait again.
ActiveIsUnderway == status = "ACTIVE" => \E k \in DOMAIN debates : Underway(debates[k])

\* The speakers of every debate are members, who may leave between the
\* check of createDebate and its insertion, or before accepting.
SpeakersAreMembers == \A k \in DOMAIN debates : debates[k].speakers \subseteq Joined

Running == LET R == {k \in DOMAIN debates : Underway(debates[k])}
           IN IF R = {} THEN 0 ELSE debates[CHOOSE k \in R : TRUE].invitation

Promise == INSTANCE InvitationOutcome WITH running <- Running

\* Community implements InvitationOutcome: an invitation is decided once, and
\* of two that are accepted at the same time one starts a debate.
FollowsInvitations == Promise!Spec

Undecided(i) == i \in DOMAIN outcome /\ outcome[i] \in {"PENDING", "TAKEN"}

\* Every invitation is decided: by its opponent, its timer or a restart.
InvitationsAreDecided ==
  \A i \in 1..MaxInvitations : Undecided(i) ~> ~Undecided(i)
=============================================================================
