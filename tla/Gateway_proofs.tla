--------------------------- MODULE Gateway_proofs ---------------------------
(***************************************************************************)
(* For any number of refreshes, tokens, members, sockets, messages and     *)
(* handlers.                                                               *)
(* Sessions: the tokens of a family form a chain, and a family that has    *)
(* ended stays ended.  FamilyIsAChain is inductive once a new family is    *)
(* known to be new, which is what FamilyIsOld says.                        *)
(* Community room: who has connected misses no opinion and none of the     *)
(* newest messages.  A socket is in its room before it reads anything, so  *)
(* that what its two reads lack is still to be told, has reached it, or    *)
(* has been left untold by a handler that failed (CommunityCovered).  A    *)
(* message that is stored may push older ones out of the newest, and lets  *)
(* no other in (NewestOfMore).                                             *)
(* Debate room: who has been sent a snapshot knows every draft in the      *)
(* buffer, and the turn.  The snapshot may be older than the events that   *)
(* follow it; what it lacks reaches the socket through its room, which it  *)
(* entered before the first read (DebateInTheRoom, DebateCovered).  The    *)
(* lock of the turn plays no part in it.                                   *)
(***************************************************************************)
EXTENDS Gateway, FiniteSetTheorems, TLAPS

-----------------------------------------------------------------------------
(* The sessions.                                                            *)

Rows == [family : Nat, revoked : BOOLEAN, replacedBy : Nat]
CallRecords == [pc : {"idle", "lock", "revoke"}, token : Nat, found : SUBSET Nat]

SessionsInv == TypeOK /\ FamilyIsOld /\ FamilyIsAChain

LEMMA RowTypes ==
  ASSUME SessionsInv
  PROVE  /\ sessions \in Seq(Rows) /\ Len(sessions) \in Nat /\ Tokens = 1..Len(sessions)
         /\ \A t \in Tokens : sessions[t] \in Rows
<1>1. sessions \in Seq(Rows)
  BY DEF SessionsInv, TypeOK, Rows
<1>2. QED BY <1>1 DEF Tokens

\* A step that keeps the rows and moves the calls within their type.
LEMMA CallsMove ==
  ASSUME SessionsInv, UNCHANGED sessions, expired' \subseteq Tokens,
         call' \in [Calls -> CallRecords],
         \A c \in Calls : call'[c] = Idle \/ call'[c].token \in Tokens
  PROVE  SessionsInv'
BY DEF SessionsInv, TypeOK, FamilyIsOld, FamilyIsAChain, Tokens, Family, Live, Idle, CallRecords

\* A step that only revokes tokens.
LEMMA RevocationKeepsChains ==
  ASSUME SessionsInv, NEW S, sessions' = Revoked(S), UNCHANGED expired,
         call' \in [Calls -> CallRecords],
         \A c \in Calls : call'[c] = Idle \/ call'[c].token \in Tokens
  PROVE  SessionsInv'
<1> DEFINE row(t) == [sessions[t] EXCEPT !.revoked = @ \/ t \in S]
<1>0. \A t \in Tokens : sessions[t] \in Rows
  BY RowTypes
<1>1. \A t \in Tokens : /\ row(t) \in Rows
                        /\ row(t).family = sessions[t].family
                        /\ row(t).replacedBy = sessions[t].replacedBy
                        /\ sessions[t].revoked => row(t).revoked
  <2> TAKE t \in Tokens
  <2>1. (sessions[t].revoked \/ t \in S) \in BOOLEAN
    OBVIOUS
  <2>2. row(t) = [family |-> sessions[t].family, revoked |-> (sessions[t].revoked \/ t \in S),
                  replacedBy |-> sessions[t].replacedBy]
    BY <1>0 DEF Rows
  <2>3. QED BY <1>0, <2>1, <2>2 DEF Rows
<1>2. sessions' = [t \in 1..Len(sessions) |-> row(t)] /\ Len(sessions) \in Nat
      /\ Tokens = 1..Len(sessions)
  BY RowTypes DEF Revoked
<1> HIDE DEF row
<1>3. sessions' \in Seq(Rows) /\ Len(sessions') = Len(sessions) /\ Tokens' = Tokens
  BY <1>1, <1>2 DEF Tokens
<1>4. \A t \in Tokens : /\ sessions'[t].family = sessions[t].family
                        /\ sessions'[t].replacedBy = sessions[t].replacedBy
                        /\ sessions[t].revoked => sessions'[t].revoked
  BY <1>1, <1>2
<1>5. TypeOK'
  BY <1>3 DEF SessionsInv, TypeOK, Rows, CallRecords, Idle
<1>6. FamilyIsOld' /\ FamilyIsAChain'
  BY <1>3, <1>4 DEF SessionsInv, FamilyIsOld, FamilyIsAChain, Family, Live
<1>7. QED BY <1>5, <1>6 DEF SessionsInv

LEMMA LoginKeepsChains ==
  ASSUME SessionsInv, Login PROVE SessionsInv'
<1> DEFINE n == Len(sessions) + 1
<1>1. /\ sessions \in Seq(Rows) /\ Session(n) \in Rows
      /\ sessions' = Append(sessions, Session(n))
  BY DEF SessionsInv, TypeOK, Login, Session, Rows
<1>2. /\ sessions' \in Seq(Rows) /\ Len(sessions') = n /\ n \in Nat
      /\ Tokens' = Tokens \cup {n} /\ n \notin Tokens /\ Tokens = 1..Len(sessions)
      /\ sessions'[n] = Session(n) /\ \A t \in Tokens : sessions'[t] = sessions[t]
  BY <1>1 DEF Tokens
<1>3. TypeOK'
  BY <1>2 DEF SessionsInv, TypeOK, Login, Rows, Idle
<1>4. FamilyIsOld'
  BY <1>2 DEF SessionsInv, FamilyIsOld, Session
<1>5. FamilyIsAChain'
  <2> SUFFICES ASSUME NEW t \in Tokens', NEW u \in Tokens', (u \in Family(t))', t < u
               PROVE  (~Live(t))' /\ sessions'[t].replacedBy \in (t + 1)..u
    BY DEF FamilyIsAChain
  <2>1. u # n
    BY <1>2 DEF SessionsInv, FamilyIsOld, Family, Session
  <2>2. t \in Tokens /\ u \in Tokens
    BY <1>2, <2>1
  <2>3. QED BY <1>2, <2>2 DEF SessionsInv, FamilyIsAChain, Family, Live
<1>6. QED BY <1>3, <1>4, <1>5 DEF SessionsInv

\* What Rotate does to the rows.
LEMMA RotateRows ==
  ASSUME SessionsInv, NEW c \in Calls, Rotate(c),
         NEW t, t = call[c].token, NEW n, n = Len(sessions) + 1
  PROVE  /\ t \in Tokens /\ Live(t) /\ n \in Nat /\ t < n
         /\ sessions' \in Seq(Rows) /\ Len(sessions') = n
         /\ Tokens' = Tokens \cup {n} /\ n \notin Tokens /\ Tokens = 1..Len(sessions)
         /\ sessions'[n] = Session(sessions[t].family)
         /\ sessions'[t] = [sessions[t] EXCEPT !.revoked = TRUE, !.replacedBy = n]
         /\ \A u \in Tokens \ {t} : sessions'[u] = sessions[u]
<1>1. t \in Tokens /\ Live(t) /\ n \in Nat
  BY DEF SessionsInv, TypeOK, Rotate, Valid, Idle
<1> DEFINE old == [sessions EXCEPT ![t] = [@ EXCEPT !.revoked = TRUE, !.replacedBy = n]]
<1>2. /\ old \in Seq(Rows) /\ Len(old) = Len(sessions)
      /\ old[t] = [sessions[t] EXCEPT !.revoked = TRUE, !.replacedBy = n]
      /\ \A u \in Tokens \ {t} : old[u] = sessions[u]
  <2>1. sessions \in Seq(Rows) /\ Tokens = 1..Len(sessions) /\ sessions[t] \in Rows
    BY <1>1, RowTypes
  <2>2. [sessions[t] EXCEPT !.revoked = TRUE, !.replacedBy = n] \in Rows
    BY <1>1, <2>1 DEF Rows
  <2>3. old = [u \in 1..Len(sessions) |->
                 IF u = t THEN [sessions[t] EXCEPT !.revoked = TRUE, !.replacedBy = n] ELSE sessions[u]]
    BY <1>1, <2>1
  <2>4. \A u \in 1..Len(sessions) : old[u] \in Rows
    BY <1>1, <2>1, <2>2, <2>3
  <2>5. old \in Seq(Rows) /\ Len(old) = Len(sessions)
    <3> HIDE DEF old
    <3>1. Len(sessions) \in Nat
      BY <2>1
    <3>2. DOMAIN old = 1..Len(sessions) /\ old = [u \in 1..Len(sessions) |-> old[u]]
      BY <2>3
    <3>3. QED BY <2>4, <3>1, <3>2
  <2>6. QED BY <1>1, <2>1, <2>3, <2>5
<1>3. sessions' = Append(old, Session(sessions[t].family)) /\ Session(sessions[t].family) \in Rows
  <2>1. sessions[t] \in Rows
    BY <1>1, RowTypes
  <2>2. Session(sessions[t].family) \in Rows
    BY <2>1 DEF Session, Rows
  <2>3. QED BY <1>1, <2>2 DEF Rotate
<1> HIDE DEF old
<1>4. QED BY <1>1, <1>2, <1>3 DEF SessionsInv, TypeOK, Tokens

LEMMA RotateKeepsChains ==
  ASSUME SessionsInv, NEW c \in Calls, Rotate(c) PROVE SessionsInv'
<1> DEFINE t == call[c].token
           n == Len(sessions) + 1
<1>1. /\ t \in Tokens /\ Live(t) /\ n \in Nat /\ t < n
      /\ sessions' \in Seq(Rows) /\ Len(sessions') = n
      /\ Tokens' = Tokens \cup {n} /\ n \notin Tokens /\ Tokens = 1..Len(sessions)
      /\ sessions'[n] = Session(sessions[t].family)
      /\ sessions'[t] = [sessions[t] EXCEPT !.revoked = TRUE, !.replacedBy = n]
      /\ \A u \in Tokens \ {t} : sessions'[u] = sessions[u]
  BY RotateRows
<1>2. expired' = expired /\ call' = [call EXCEPT ![c] = Idle]
  BY DEF Rotate
<1> HIDE DEF t, n
<1>3. TypeOK'
  BY <1>1, <1>2 DEF SessionsInv, TypeOK, Rows, Idle
<1>4. /\ \A u \in Tokens : sessions'[u].family = sessions[u].family
      /\ sessions'[n].family = sessions[t].family
      /\ sessions'[t].revoked /\ sessions'[t].replacedBy = n
  <2>1. t # n /\ sessions[t] \in Rows /\ sessions'[t] = [sessions[t] EXCEPT !.revoked = TRUE, !.replacedBy = n]
    BY <1>1, RowTypes
  <2>2. sessions'[t].family = sessions[t].family /\ sessions'[t].revoked /\ sessions'[t].replacedBy = n
    BY <2>1 DEF Rows
  <2>3. sessions'[n].family = sessions[t].family
    BY <1>1 DEF Session
  <2>4. QED BY <1>1, <2>2, <2>3
<1>5. FamilyIsOld'
  BY <1>1, <1>4 DEF SessionsInv, FamilyIsOld
<1>6. \A u \in Tokens : sessions[u].family = sessions[t].family => u <= t
  BY <1>1 DEF SessionsInv, FamilyIsAChain, Family
<1>7. FamilyIsAChain'
  <2> SUFFICES ASSUME NEW p \in Tokens', NEW q \in Tokens', (q \in Family(p))', p < q
               PROVE  (~Live(p))' /\ sessions'[p].replacedBy \in (p + 1)..q
    BY DEF FamilyIsAChain
  <2>1. p \in Tokens
    BY <1>1
  <2>2. CASE p = t
    <3>1. q = n
      BY <1>1, <1>4, <1>6, <2>2 DEF Family
    <3>2. n \in (t + 1)..n
      BY <1>1, RowTypes
    <3>3. QED BY <1>4, <2>2, <3>1, <3>2 DEF Live
  <2>3. CASE p # t /\ q = n
    <3>1. t \in Family(p) /\ p < t
      BY <1>1, <1>4, <1>6, <2>1, <2>3 DEF Family
    <3>2. ~Live(p) /\ sessions[p].replacedBy \in (p + 1)..t
      BY <1>1, <2>1, <3>1 DEF SessionsInv, FamilyIsAChain
    <3>3. QED BY <1>1, <2>1, <2>3, <3>2 DEF Live
  <2>4. CASE p # t /\ q # n
    <3>1. q \in Tokens /\ q \in Family(p)
      BY <1>1, <1>4, <2>1, <2>4 DEF Family
    <3>2. QED BY <1>1, <2>1, <2>4, <3>1 DEF SessionsInv, FamilyIsAChain, Live
  <2>5. QED BY <2>2, <2>3, <2>4
<1>8. QED BY <1>3, <1>5, <1>7 DEF SessionsInv

LEMMA InitSessions == Init => SessionsInv
BY DEF Init, SessionsInv, TypeOK, FamilyIsOld, FamilyIsAChain, Tokens, Idle

LEMMA StepSessions == SessionsInv /\ [Next]_vars => SessionsInv'
<1> SUFFICES ASSUME SessionsInv, [Next]_vars PROVE SessionsInv'
  OBVIOUS
<1>1. CASE UNCHANGED vars
  BY <1>1 DEF vars, SessionsInv, TypeOK, FamilyIsOld, FamilyIsAChain, Tokens, Family, Live
<1>2. CASE Login
  BY <1>2, LoginKeepsChains
<1>3. ASSUME NEW t \in Tokens, Expire(t) PROVE SessionsInv'
  BY <1>3, CallsMove DEF Expire, SessionsInv, TypeOK, CallRecords
<1>4. ASSUME NEW t \in Tokens, Logout(t) PROVE SessionsInv'
  BY <1>4, RevocationKeepsChains DEF Logout, SessionsInv, TypeOK, CallRecords
<1>5. ASSUME NEW t \in Tokens, NEW c \in Calls, BeginRefresh(c, t) PROVE SessionsInv'
  <2>1. t \in Nat
    BY DEF SessionsInv, TypeOK, Tokens
  <2>2. /\ call' \in [Calls -> CallRecords]
        /\ \A d \in Calls : call'[d] = Idle \/ call'[d].token \in Tokens
    BY <1>5, <2>1 DEF BeginRefresh, SessionsInv, TypeOK, CallRecords, Idle
  <2>3. QED BY <1>5, <2>2, CallsMove DEF BeginRefresh, SessionsInv, TypeOK
<1>6. ASSUME NEW c \in Calls, Rotate(c) PROVE SessionsInv'
  BY <1>6, RotateKeepsChains
<1>7. ASSUME NEW c \in Calls, Refuse(c) PROVE SessionsInv'
  <2> DEFINE found == {u \in Family(call[c].token) : Live(u)}
  <2>1. call[c].token \in Tokens /\ call[c].token \in Nat /\ found \in SUBSET Nat
    BY <1>7 DEF Refuse, SessionsInv, TypeOK, Tokens, Family, Idle
  <2>2. \/ call' = [call EXCEPT ![c] = Idle]
        \/ call' = [call EXCEPT ![c] = [pc |-> "revoke", token |-> call[c].token, found |-> found]]
    BY <1>7 DEF Refuse
  <2> HIDE DEF found
  <2>3. /\ Idle \in CallRecords
        /\ [pc |-> "revoke", token |-> call[c].token, found |-> found] \in CallRecords
    BY <2>1 DEF CallRecords, Idle
  <2>4. /\ call \in [Calls -> CallRecords]
        /\ \A d \in Calls : call[d] = Idle \/ call[d].token \in Tokens
    BY DEF SessionsInv, TypeOK, CallRecords
  <2>5. call' \in [Calls -> CallRecords]
    BY <2>2, <2>3, <2>4
  <2>6. \A d \in Calls : call'[d] = Idle \/ call'[d].token \in Tokens
    BY <2>1, <2>2, <2>4
  <2>7. QED BY <1>7, <2>5, <2>6, CallsMove DEF Refuse, SessionsInv, TypeOK
<1>8. ASSUME NEW c \in Calls, call' = [call EXCEPT ![c] = Idle]
      PROVE  /\ call' \in [Calls -> CallRecords]
             /\ \A d \in Calls : call'[d] = Idle \/ call'[d].token \in Tokens
  BY <1>8 DEF SessionsInv, TypeOK, CallRecords, Idle
<1>9. ASSUME NEW c \in Calls, RevokeFamily(c) PROVE SessionsInv'
  BY <1>8, <1>9, RevocationKeepsChains DEF RevokeFamily
<1>10. ASSUME NEW c \in Calls, RefreshFails(c) PROVE SessionsInv'
  BY <1>8, <1>10, CallsMove DEF RefreshFails, SessionsInv, TypeOK
<1>11. QED
  BY <1>1, <1>2, <1>3, <1>4, <1>5, <1>6, <1>7, <1>9, <1>10 DEF Next

LEMMA SessionsInvariant == Spec => []SessionsInv
BY InitSessions, StepSessions, PTL DEF Spec

\* The tokens of a family form one chain of which only the last may be live,
\* for any number of refreshes of the same token at the same time.
THEOREM FamiliesAreChains == Spec => []FamilyIsAChain
<1>1. SessionsInv => FamilyIsAChain
  BY DEF SessionsInv
<1>2. QED BY <1>1, SessionsInvariant, PTL

-----------------------------------------------------------------------------
\* What a step does to a family that has ended.
Ended(t) == \A u \in Family(t) : ~Live(u)
EndedAfter(t) == \A u \in DOMAIN sessions' : sessions'[u].family = sessions[t].family => sessions'[u].revoked

LEMMA StepKeepsEnd ==
  ASSUME SessionsInv, Next, NEW t \in Tokens, Ended(t) PROVE EndedAfter(t)
<1>0. \A u \in Tokens : sessions[u].family = sessions[t].family => sessions[u].revoked
  BY DEF Ended, Family, Live
<1>1. CASE UNCHANGED sessions
  BY <1>0, <1>1 DEF EndedAfter, Tokens
<1>2. ASSUME NEW S, sessions' = Revoked(S) PROVE EndedAfter(t)
  <2>1. DOMAIN sessions' = Tokens
    BY <1>2 DEF Revoked
  <2>2. ASSUME NEW u \in Tokens, sessions'[u].family = sessions[t].family PROVE sessions'[u].revoked
    <3>1. sessions'[u] = [sessions[u] EXCEPT !.revoked = @ \/ u \in S] /\ sessions[u] \in Rows
      BY <1>2, RowTypes DEF Revoked
    <3>2. sessions'[u].family = sessions[u].family
      BY <3>1 DEF Rows
    <3>3. sessions[u].revoked
      BY <1>0, <2>2, <3>2
    <3>4. sessions'[u] = [family |-> sessions[u].family, revoked |-> (sessions[u].revoked \/ u \in S),
                          replacedBy |-> sessions[u].replacedBy]
      BY <3>1 DEF Rows
    <3>5. sessions'[u].revoked = (sessions[u].revoked \/ u \in S)
      BY <3>4
    <3>6. QED BY <3>3, <3>5
  <2>3. QED BY <2>1, <2>2 DEF EndedAfter
<1>3. CASE Login
  <2>1. /\ sessions' = Append(sessions, Session(Len(sessions) + 1)) /\ sessions \in Seq(Rows)
    BY <1>3 DEF Login, SessionsInv, TypeOK, Rows
  <2>2. sessions[t].family <= Len(sessions) /\ sessions[t].family \in Nat
    BY DEF SessionsInv, TypeOK, FamilyIsOld, Tokens
  <2>3. ASSUME NEW u \in DOMAIN sessions', sessions'[u].family = sessions[t].family PROVE sessions'[u].revoked
    <3>1. u \in 1..(Len(sessions) + 1)
      BY <2>1
    <3>2. u # Len(sessions) + 1
      BY <2>1, <2>2, <2>3 DEF Session
    <3>3. u \in Tokens /\ sessions'[u] = sessions[u]
      BY <2>1, <3>1, <3>2 DEF Tokens
    <3>4. QED BY <1>0, <2>3, <3>3
  <2>4. QED BY <2>3 DEF EndedAfter
<1>4. ASSUME NEW c \in Calls, Rotate(c) PROVE EndedAfter(t)
  <2> DEFINE r == call[c].token
             n == Len(sessions) + 1
  <2>1. /\ r \in Tokens /\ Live(r) /\ Tokens' = Tokens \cup {n}
        /\ sessions'[n] = Session(sessions[r].family)
        /\ \A u \in Tokens \ {r} : sessions'[u] = sessions[u]
        /\ sessions'[r] = [sessions[r] EXCEPT !.revoked = TRUE, !.replacedBy = n]
    BY <1>4, RotateRows, ZenonT(30)
  <2> HIDE DEF r, n
  <2>2. sessions[r].family # sessions[t].family
    BY <1>0, <2>1 DEF Live
  <2>3. sessions'[r].family = sessions[r].family /\ sessions'[n].family = sessions[r].family
    BY <2>1 DEF SessionsInv, TypeOK, Tokens, Session
  <2>4. QED BY <1>0, <2>1, <2>2, <2>3 DEF EndedAfter, Tokens
<1>5. QED
  BY <1>1, <1>2, <1>3, <1>4
  DEF Next, Expire, Logout, BeginRefresh, Refuse, RevokeFamily, RefreshFails

\* A family without a live token never has one again.
THEOREM EndedFamiliesStayEnded == Spec => EndedStaysEnded
<1>1. SessionsInv /\ [Next]_vars
        => [\A t \in Tokens : (\A u \in Family(t) : ~Live(u))
              => \A u \in DOMAIN sessions' : sessions'[u].family = sessions[t].family => sessions'[u].revoked]_vars
  BY StepKeepsEnd DEF Ended, EndedAfter
<1>2. QED BY <1>1, SessionsInvariant, PTL DEF Spec, EndedStaysEnded

-----------------------------------------------------------------------------
(* The room of a community.                                                 *)

CommunityInTheRoom ==
  \A s \in communityOpen :
    communitySocket[s].pc \in {"messages", "opinions", "finish", "ready"} => s \in communityRoom

\* What a socket knows, has read, or will be told.
CommunityKnown(s, i) ==
  i \in communityGot[s] \/ i \in communitySocket[s].read \/ C!Telling(i) \/ i \in communityUntold

CommunityCoveredFor(s) ==
  /\ communitySocket[s].pc \in {"opinions", "finish", "ready"} => \A i \in C!Newest : CommunityKnown(s, i)
  /\ communitySocket[s].pc \in {"finish", "ready"} => \A i \in C!OpinionRows : CommunityKnown(s, i)

CommunityCovered == \A s \in communityOpen : CommunityCoveredFor(s)

CommunityReadyHasAll == \A s \in Sockets : communitySocket[s].pc = "ready" => communitySocket[s].read = {}

CommunityRoomInv == C!TypeOK /\ IsFiniteSet(stored) /\ CommunityInTheRoom /\ CommunityReadyHasAll /\ CommunityCovered

-----------------------------------------------------------------------------
LEMMA CommunityRowTypes ==
  ASSUME C!TypeOK, C!RoomAssumption
  PROVE  /\ C!OpinionRows \subseteq C!Opinions
         /\ \A m \in Members : opinion[m] # 0 => C!OpinionOf(m) \in C!OpinionRows
         /\ \A x \in stored, m \in Members, v \in Nat : x # [author |-> m, version |-> v]
<1>1. \A m \in Members : opinion[m] \in Nat
  BY DEF C!TypeOK
<1>2. ASSUME NEW x \in stored, NEW m \in Members, NEW v \in Nat
      PROVE  x # [author |-> m, version |-> v]
  <2>1. [author |-> m, version |-> v] \in [author : Members, version : Nat]
    OBVIOUS
  <2>2. QED BY <2>1 DEF C!TypeOK, C!RoomAssumption
<1>3. QED BY <1>1, <1>2 DEF C!OpinionRows, C!OpinionOf, C!Opinions

\* The three kinds of a handler at work.
LEMMA CommunityHandlerKinds ==
  ASSUME C!TypeOK, C!RoomAssumption, NEW h \in Handlers
  PROVE  /\ communityHandler[h].pc # "idle"
              => communityHandler[h].by \in Sockets /\ Owner(communityHandler[h].by) \in Members
         /\ communityHandler[h].pc \in {"check", "insert", "reread"} => communityHandler[h].item \in Messages
         /\ communityHandler[h].pc = "tell" => communityHandler[h].item \in C!Opinions
         /\ communityHandler[h].pc \in {"idle", "check", "insert", "reread", "upsert", "find", "tell"}
<1>1. communityHandler[h] \in C!HandlerRecords /\ C!Holds(communityHandler[h])
  BY DEF C!TypeOK
<1>2. QED BY <1>1 DEF C!HandlerRecords, C!Holds, C!RoomAssumption

\* One more message lets no message but itself into the newest.
LEMMA NewestOfMore ==
  ASSUME IsFiniteSet(stored), NEW x, stored' = stored \cup {x}
  PROVE  C!Newest' \subseteq C!Newest \cup {x}
<1> DEFINE newer(z) == {y \in stored \ {z} : CreatedAt(y) >= CreatedAt(z)}
           newerNow(z) == {y \in stored' \ {z} : CreatedAt(y) >= CreatedAt(z)}
<1> SUFFICES ASSUME NEW z \in C!Newest', z # x PROVE z \in C!Newest
  OBVIOUS
<1>0. \A S : C!Cardinality(S) = Cardinality(S)
  BY DEF C!Cardinality, Cardinality
<1>1. z \in stored /\ Cardinality(newerNow(z)) < ListLimit
  BY <1>0 DEF C!Newest
<1>2. IsFiniteSet(stored')
  BY FS_AddElement
<1>3. IsFiniteSet(newerNow(z))
  BY <1>2, FS_Subset
<1>4. newer(z) \subseteq newerNow(z)
  OBVIOUS
<1>5. /\ Cardinality(newer(z)) \in Nat /\ Cardinality(newerNow(z)) \in Nat
      /\ Cardinality(newer(z)) <= Cardinality(newerNow(z))
  BY <1>3, <1>4, FS_Subset, FS_CardinalityType
<1>6. Cardinality(newer(z)) < ListLimit
  BY <1>1, <1>5, RoomsAssumption DEF C!RoomAssumption
<1>7. QED BY <1>0, <1>1, <1>6 DEF C!Newest

LEMMA CommunityInit == ASSUME C!RoomAssumption PROVE C!Init => CommunityRoomInv
BY FS_EmptySet DEF C!Init, C!RoomAssumption, CommunityRoomInv, C!TypeOK, CommunityInTheRoom, CommunityReadyHasAll,
   CommunityCovered, C!NewSocket, C!IdleHandler, C!Items,
   C!HandlerRecords, C!Holds

-----------------------------------------------------------------------------
(* Type correctness.                                                        *)

LEMMA CommunitySendTypes ==
  ASSUME C!TypeOK, NEW S, NEW items \in SUBSET C!Items, C!SendTo(S, items)
  PROVE  communityGot' \in [Sockets -> SUBSET C!Items]
BY DEF C!SendTo, C!TypeOK

LEMMA CommunityConnectionTypes ==
  ASSUME C!TypeOK, C!RoomAssumption, NEW s \in Sockets, C!ConnectionStep(s) PROVE C!TypeOK'
<1> USE DEF C!TypeOK, C!rowVars, C!roomVars, C!historyVars, C!Goto
<1>0. C!Newest \subseteq C!Items /\ C!OpinionRows \subseteq C!Items
  BY CommunityRowTypes DEF C!Items, C!Newest
<1>1. CASE C!Connect(s)
  BY <1>1 DEF C!Connect
<1>2. CASE C!JoinAndEnter(s)
  BY <1>2 DEF C!JoinAndEnter, C!Enter, C!RoomAssumption
<1>3. CASE C!ListMessages(s)
  <2>1. PICK others \in SUBSET stored :
          communitySocket' = [communitySocket EXCEPT ![s] = [pc |-> "opinions", read |-> C!Newest \cup others]]
    BY <1>3 DEF C!ListMessages
  <2>2. C!Newest \cup others \in SUBSET C!Items
    BY <1>0 DEF C!Items
  <2> HIDE DEF C!Newest
  <2>3. QED BY <1>3, <2>1, <2>2 DEF C!ListMessages
<1>4. CASE C!SendMessages(s)
  <2>1. communityGot' \in [Sockets -> SUBSET C!Items]
    BY <1>4, CommunitySendTypes DEF C!SendMessages
  <2>2. QED BY <1>0, <1>4, <2>1 DEF C!SendMessages
<1>5. CASE C!SendOpinions(s)
  <2>1. communityGot' \in [Sockets -> SUBSET C!Items]
    BY <1>5, CommunitySendTypes DEF C!SendOpinions
  <2>2. QED BY <1>5, <2>1 DEF C!SendOpinions, C!Enter
<1>6. CASE C!ConnectionFails(s)
  BY <1>6 DEF C!ConnectionFails, C!RoomAssumption
<1>7. CASE C!CloseSocket(s)
  BY <1>7 DEF C!CloseSocket
<1>8. QED BY <1>1, <1>2, <1>3, <1>4, <1>5, <1>6, <1>7 DEF C!ConnectionStep

LEMMA CommunityHandlerTypes ==
  ASSUME C!TypeOK, C!RoomAssumption, NEW h \in Handlers, C!HandlerStep(h) PROVE C!TypeOK'
<1> USE DEF C!TypeOK, C!rowVars, C!roomVars, C!historyVars
<1> DEFINE Sound(r) == r \in C!HandlerRecords /\ C!Holds(r)
<1>0. Sound(C!IdleHandler) /\ Sound(communityHandler[h])
  BY DEF C!HandlerRecords, C!Holds, C!IdleHandler
<1> DEFINE HandlersSound == /\ communityHandler \in [Handlers -> C!HandlerRecords]
                            /\ \A g \in Handlers : C!Holds(communityHandler[g])
<1>1. ASSUME NEW r, Sound(r), communityHandler' = [communityHandler EXCEPT ![h] = r] PROVE HandlersSound'
  BY <1>1
<1>2. ASSUME NEW s \in Sockets, C!ReceiveMessage(h, s) PROVE C!TypeOK'
  <2>1. PICK x \in Messages : C!Receives(h, s, "check", x)
    BY <1>2 DEF C!ReceiveMessage
  <2>2. Sound([C!IdleHandler EXCEPT !.pc = "check", !.by = s, !.item = x])
    BY DEF C!HandlerRecords, C!Holds, C!IdleHandler, C!Items
  <2>3. HandlersSound'
    BY <1>1, <2>1, <2>2 DEF C!Receives
  <2>4. QED BY <2>1, <2>3 DEF C!Receives, C!RoomAssumption
<1>3. ASSUME NEW s \in Sockets, C!ReceiveOpinion(h, s) PROVE C!TypeOK'
  <2>1. Sound([C!IdleHandler EXCEPT !.pc = "upsert", !.by = s, !.item = Nothing])
    BY DEF C!HandlerRecords, C!Holds, C!IdleHandler, C!Items
  <2>2. HandlersSound'
    BY <1>1, <1>3, <2>1 DEF C!ReceiveOpinion, C!Receives
  <2>3. QED BY <1>3, <2>2 DEF C!ReceiveOpinion, C!Receives, C!RoomAssumption
<1>4. CASE C!CheckOpinion(h)
  <2>1. communityHandler[h].pc = "check" => Sound([communityHandler[h] EXCEPT !.pc = "insert"])
    BY DEF C!HandlerRecords, C!Holds, C!Items
  <2>2. HandlersSound'
    BY <1>0, <1>1, <1>4, <2>1 DEF C!CheckOpinion, C!Step, C!Ends
  <2>3. QED BY <1>4, <2>2 DEF C!CheckOpinion
<1>5. CASE C!InsertMessage(h)
  <2>1. /\ communityHandler[h].item \in Messages
        /\ Sound([communityHandler[h] EXCEPT !.pc = "reread",
                                              !.created = communityHandler[h].item \notin stored])
    BY <1>5, CommunityHandlerKinds DEF C!InsertMessage, C!HandlerRecords, C!Holds, C!Items
  <2>2. HandlersSound'
    BY <1>1, <1>5, <2>1 DEF C!InsertMessage
  <2>3. QED BY <1>5, <2>1, <2>2 DEF C!InsertMessage
<1>6. CASE C!UpsertOpinion(h)
  <2>1. communityHandler[h].pc = "upsert" => Sound([communityHandler[h] EXCEPT !.pc = "find"])
    BY DEF C!HandlerRecords, C!Holds, C!Items
  <2>2. HandlersSound'
    BY <1>0, <1>1, <1>6, <2>1 DEF C!UpsertOpinion, C!Step, C!Ends
  <2>3. Owner(communityHandler[h].by) \in Members
    BY <1>6, CommunityHandlerKinds DEF C!UpsertOpinion
  <2>4. /\ opinion' \in [Members -> Nat] /\ written' \in [Members -> Nat]
        /\ \A m \in Members : opinion'[m] \in {0, written'[m]} /\ written'[m] <= Versions(m)
    BY <1>6, <2>3 DEF C!UpsertOpinion, C!RoomAssumption
  <2>5. QED BY <1>6, <2>2, <2>4 DEF C!UpsertOpinion
<1>7. CASE C!FindOpinion(h)
  <2>1. Owner(communityHandler[h].by) \in Members
    BY <1>7, CommunityHandlerKinds DEF C!FindOpinion
  <2>2. opinion[Owner(communityHandler[h].by)] # 0 => C!OpinionOf(Owner(communityHandler[h].by)) \in C!Opinions
    BY <2>1 DEF C!OpinionOf, C!Opinions
  <2>3. opinion[Owner(communityHandler[h].by)] # 0 =>
          Sound([communityHandler[h] EXCEPT !.pc = "tell", !.item = C!OpinionOf(Owner(communityHandler[h].by))])
    BY <1>7, <2>2 DEF C!FindOpinion, C!HandlerRecords, C!Holds, C!Items
  <2>4. HandlersSound'
    BY <1>0, <1>1, <1>7, <2>3 DEF C!FindOpinion, C!Ends
  <2>5. QED BY <1>7, <2>4 DEF C!FindOpinion
<1>8. CASE C!TellOpinion(h) \/ C!TellMessage(h)
  <2>1. communityHandler[h].item \in C!Items
    BY <1>8, CommunityHandlerKinds DEF C!TellOpinion, C!TellMessage, C!Items
  <2>2. communityGot' \in [Sockets -> SUBSET C!Items]
    BY <1>8, <2>1, CommunitySendTypes DEF C!TellOpinion, C!TellMessage
  <2>3. HandlersSound'
    BY <1>0, <1>1, <1>8 DEF C!TellOpinion, C!TellMessage, C!Ends
  <2>4. QED BY <1>8, <2>2, <2>3 DEF C!TellOpinion, C!TellMessage
<1>9. CASE C!HandlerFails(h)
  <2>1. C!Untold(h) \subseteq C!Items
    BY CommunityRowTypes, CommunityHandlerKinds DEF C!Untold, C!Items
  <2>2. HandlersSound'
    BY <1>0, <1>1, <1>9 DEF C!HandlerFails, C!Ends
  <2>3. QED BY <1>9, <2>1, <2>2 DEF C!HandlerFails, C!RoomAssumption
<1>10. QED BY <1>2, <1>3, <1>4, <1>5, <1>6, <1>7, <1>8, <1>9 DEF C!HandlerStep

LEMMA CommunityStepTypes ==
  ASSUME C!TypeOK, C!RoomAssumption, [C!Next]_(C!vars) PROVE C!TypeOK'
<1>1. CASE UNCHANGED C!vars
  BY <1>1 DEF C!vars, C!rowVars, C!roomVars, C!historyVars, C!TypeOK
<1>2. ASSUME NEW m \in Members, C!LeaveCommunity(m) PROVE C!TypeOK'
  BY <1>2 DEF C!LeaveCommunity, C!TypeOK, C!roomVars, C!historyVars
<1>3. CASE C!Restart
  <2>1. /\ communityHandler' \in [Handlers -> C!HandlerRecords]
        /\ \A h \in Handlers : C!Holds(communityHandler'[h])
    BY <1>3 DEF C!Restart, C!HandlerRecords, C!Holds, C!IdleHandler
  <2>2. QED BY <1>3, <2>1 DEF C!Restart, C!TypeOK, C!NewSocket, C!rowVars, C!historyVars, C!RoomAssumption
<1>4. QED BY <1>1, <1>2, <1>3, CommunityConnectionTypes, CommunityHandlerTypes DEF C!Next

-----------------------------------------------------------------------------
LEMMA CommunityStepPlaces ==
  ASSUME C!TypeOK, CommunityInTheRoom, CommunityReadyHasAll, [C!Next]_(C!vars)
  PROVE  (CommunityInTheRoom /\ CommunityReadyHasAll)'
<1> USE DEF C!TypeOK, CommunityInTheRoom, CommunityReadyHasAll, C!Goto, C!Enter, C!EntersAt
<1>1. CASE UNCHANGED <<communitySocket, communityOpen, communityRoom>>
  BY <1>1
<1>2. ASSUME NEW s \in Sockets, C!ConnectionStep(s) PROVE (CommunityInTheRoom /\ CommunityReadyHasAll)'
  <2>1. CASE C!Connect(s)
    BY <2>1 DEF C!Connect
  <2>2. CASE C!JoinAndEnter(s)
    BY <2>2 DEF C!JoinAndEnter
  <2>3. CASE C!ListMessages(s) \/ C!SendMessages(s)
    <3>1. /\ communitySocket[s].pc \in {"messages", "opinions"}
          /\ UNCHANGED <<communityOpen, communityRoom>>
      BY <2>3 DEF C!ListMessages, C!SendMessages
    <3>2. /\ communitySocket'[s].pc \in {"opinions", "finish"}
          /\ communitySocket' = [communitySocket EXCEPT ![s] = communitySocket'[s]]
      <4>1. CASE C!SendMessages(s)
        BY <4>1 DEF C!SendMessages
      <4>2. CASE C!ListMessages(s)
        <5>1. PICK others : C!Goto(s, "opinions", C!Newest \cup others)
          BY <4>2 DEF C!ListMessages
        <5>2. QED BY <5>1
      <4>3. QED BY <2>3, <4>1, <4>2
    <3>3. \A x \in Sockets : x # s => communitySocket'[x] = communitySocket[x]
      BY <3>2
    <3>4. communityOpen \subseteq Sockets /\ (s \in communityOpen => s \in communityRoom)
      BY <3>1
    <3>5. QED BY <3>1, <3>2, <3>3, <3>4
  <2>4. CASE C!SendOpinions(s)
    BY <2>4 DEF C!SendOpinions
  <2>5. CASE C!ConnectionFails(s)
    BY <2>5 DEF C!ConnectionFails
  <2>6. CASE C!CloseSocket(s)
    BY <2>6 DEF C!CloseSocket
  <2>7. QED BY <1>2, <2>1, <2>2, <2>3, <2>4, <2>5, <2>6 DEF C!ConnectionStep
<1>3. CASE C!Restart
  BY <1>3 DEF C!Restart, C!NewSocket
<1>4. ASSUME NEW h \in Handlers, C!HandlerStep(h)
      PROVE  UNCHANGED <<communitySocket, communityOpen, communityRoom>>
  BY <1>4 DEF C!HandlerStep, C!ReceiveMessage, C!ReceiveOpinion, C!Receives, C!CheckOpinion, C!InsertMessage,
     C!UpsertOpinion, C!FindOpinion, C!TellOpinion, C!TellMessage, C!HandlerFails, C!roomVars
<1>5. QED
  BY <1>1, <1>2, <1>3, <1>4 DEF C!Next, C!vars, C!roomVars, C!LeaveCommunity

-----------------------------------------------------------------------------
LEMMA CommunityConnectionCovers ==
  ASSUME CommunityRoomInv, NEW s \in Sockets, C!ConnectionStep(s) PROVE CommunityCovered'
<1> USE DEF CommunityRoomInv, C!TypeOK, C!Goto
<1>0. UNCHANGED <<opinion, stored, communityHandler, communityUntold>>
  BY DEF C!ConnectionStep, C!Connect, C!JoinAndEnter, C!ListMessages, C!SendMessages, C!SendOpinions,
     C!ConnectionFails, C!CloseSocket, C!rowVars, C!historyVars
<1>1. /\ C!OpinionRows' = C!OpinionRows /\ C!Newest' = C!Newest
      /\ \A i : C!Telling(i)' <=> C!Telling(i)
  BY <1>0 DEF C!Telling, C!OpinionRows, C!OpinionOf, C!Newest
<1>2. ASSUME NEW r \in communityOpen, r # s, r \in communityOpen' PROVE CommunityCoveredFor(r)'
  <2>1. communitySocket'[r] = communitySocket[r] /\ communityGot[r] = communityGot'[r]
    BY <1>2 DEF C!ConnectionStep, C!Connect, C!JoinAndEnter, C!ListMessages, C!SendMessages, C!SendOpinions,
       C!ConnectionFails, C!CloseSocket, C!SendTo
  <2>2. CommunityCoveredFor(r)
    BY DEF CommunityCovered
  <2>3. QED BY <1>0, <1>1, <2>1, <2>2 DEF CommunityCoveredFor, CommunityKnown
<1>3. \A r \in communityOpen' : r \in communityOpen \/ r = s
  BY DEF C!ConnectionStep, C!Connect, C!JoinAndEnter, C!ListMessages, C!SendMessages, C!SendOpinions,
     C!ConnectionFails, C!CloseSocket
<1>4. CASE C!Connect(s) \/ C!JoinAndEnter(s) \/ C!ConnectionFails(s)
  <2>1. communitySocket'[s].pc \in {"join", "messages", "failed"}
    BY <1>4 DEF C!Connect, C!JoinAndEnter, C!ConnectionFails
  <2>2. QED BY <1>2, <1>3, <2>1 DEF CommunityCovered, CommunityCoveredFor
<1>5. ASSUME C!ListMessages(s) PROVE CommunityCoveredFor(s)'
  <2>1. PICK others : communitySocket' =
          [communitySocket EXCEPT ![s] = [pc |-> "opinions", read |-> C!Newest \cup others]]
    BY <1>5 DEF C!ListMessages
  <2>2. C!Newest \subseteq communitySocket'[s].read /\ communitySocket'[s].pc = "opinions"
    BY <2>1
  <2>3. QED BY <1>1, <2>2 DEF CommunityCoveredFor, CommunityKnown
<1>6. ASSUME C!SendMessages(s), s \in communityOpen PROVE CommunityCoveredFor(s)'
  <2>1. CommunityCoveredFor(s) /\ communitySocket[s].pc = "opinions"
    BY <1>6 DEF CommunityCovered, C!SendMessages
  <2>2. /\ communitySocket'[s].read = C!OpinionRows /\ communitySocket'[s].pc = "finish"
        /\ communityGot'[s] = communityGot[s] \cup communitySocket[s].read
    BY <1>6 DEF C!SendMessages, C!SendTo
  <2>3. \A i : CommunityKnown(s, i) => CommunityKnown(s, i)'
    BY <1>0, <1>1, <2>2 DEF CommunityKnown
  <2>4. \A i \in C!OpinionRows : CommunityKnown(s, i)'
    BY <2>2 DEF CommunityKnown
  <2>5. QED BY <1>0, <1>1, <2>1, <2>3, <2>4 DEF CommunityCoveredFor
<1>7. ASSUME C!SendOpinions(s), s \in communityOpen PROVE CommunityCoveredFor(s)'
  <2>1. CommunityCoveredFor(s) /\ communitySocket[s].pc = "finish"
    BY <1>7 DEF CommunityCovered, C!SendOpinions
  <2>2. communityGot'[s] = communityGot[s] \cup communitySocket[s].read
    BY <1>7 DEF C!SendOpinions, C!SendTo
  <2>3. \A i : CommunityKnown(s, i) => CommunityKnown(s, i)'
    BY <1>0, <1>1, <2>2 DEF CommunityKnown
  <2>4. QED BY <1>0, <1>1, <2>1, <2>3 DEF CommunityCoveredFor
<1>8. CASE C!ListMessages(s) \/ C!SendMessages(s) \/ C!SendOpinions(s)
  <2>1. communityOpen' = communityOpen
    BY <1>8 DEF C!ListMessages, C!SendMessages, C!SendOpinions
  <2>2. QED BY <1>2, <1>5, <1>6, <1>7, <1>8, <2>1 DEF CommunityCovered
<1>9. CASE C!CloseSocket(s)
  <2>1. s \notin communityOpen'
    BY <1>9 DEF C!CloseSocket
  <2>2. QED BY <1>2, <1>3, <2>1 DEF CommunityCovered
<1>10. QED BY <1>4, <1>8, <1>9 DEF C!ConnectionStep

\* A step that lets no socket forget what is stored: each row after it was a
\* row before, and stays known, or is about to be told.
LEMMA CommunityRowsStayKnown ==
  ASSUME CommunityRoomInv, UNCHANGED <<communitySocket, communityOpen, communityRoom>>,
         communityUntold \subseteq communityUntold',
         \A s \in communityOpen : communityGot[s] \subseteq communityGot'[s],
         stored' = stored \/ (\E x : stored' = stored \cup {x} /\ C!Telling(x)'),
         \A i \in C!OpinionRows' : i \in C!OpinionRows \/ C!Telling(i)',
         \A i \in (stored \cup C!OpinionRows) \cap (stored' \cup C!OpinionRows'),
            s \in communityOpen \cap communityRoom :
           C!Telling(i) => C!Telling(i)' \/ i \in communityGot'[s] \/ i \in communityUntold'
  PROVE  CommunityCovered'
<1> SUFFICES ASSUME NEW s \in communityOpen,
                    CommunityCoveredFor(s), communitySocket[s].pc \in {"opinions", "finish", "ready"},
                    s \in communityRoom
             PROVE  CommunityCoveredFor(s)'
  BY DEF CommunityRoomInv, CommunityCovered, CommunityCoveredFor, CommunityInTheRoom
<1>1. \A i \in (stored \cup C!OpinionRows) \cap (stored' \cup C!OpinionRows') :
       CommunityKnown(s, i) => CommunityKnown(s, i)'
  BY DEF CommunityKnown
<1>2. \A i : C!Telling(i)' => CommunityKnown(s, i)'
  BY DEF CommunityKnown
<1>3. \A i \in C!Newest' : CommunityKnown(s, i)'
  <2>1. \A i \in C!Newest' : i \in C!Newest \/ C!Telling(i)'
    <3>1. CASE stored' = stored
      BY <3>1 DEF C!Newest
    <3>2. CASE \E x : stored' = stored \cup {x} /\ C!Telling(x)'
      BY <3>2, NewestOfMore DEF CommunityRoomInv
    <3>3. QED BY <3>1, <3>2
  <2>2. C!Newest \subseteq stored /\ C!Newest' \subseteq stored'
    BY DEF C!Newest
  <2>3. QED BY <1>1, <1>2, <2>1, <2>2 DEF CommunityCoveredFor
<1>4. \A i \in C!OpinionRows' : communitySocket[s].pc \in {"finish", "ready"} => CommunityKnown(s, i)'
  BY <1>1, <1>2 DEF CommunityCoveredFor
<1>5. QED BY <1>3, <1>4 DEF CommunityCoveredFor

\* The opinions and who tells them, before and after a member's row changes.
LEMMA CommunityOpinionMoves ==
  ASSUME C!TypeOK, C!RoomAssumption, NEW m \in Members, NEW v \in Nat, opinion' = [opinion EXCEPT ![m] = v]
  PROVE  /\ \A i \in C!OpinionRows' : i \in C!OpinionRows \/ (v # 0 /\ i = C!OpinionOf(m)')
         /\ \A w \in Members : w # m => C!OpinionOf(w)' = C!OpinionOf(w)
         /\ C!OpinionOf(m)' = [author |-> m, version |-> v]
<1>1. \A w \in Members : C!OpinionOf(w)' = [author |-> w, version |-> IF w = m THEN v ELSE opinion[w]]
  BY DEF C!TypeOK, C!OpinionOf
<1>2. \A w \in Members : w # m => C!OpinionOf(w)' = C!OpinionOf(w) /\ opinion'[w] = opinion[w]
  BY <1>1 DEF C!TypeOK, C!OpinionOf
<1>3. opinion'[m] = v
  BY DEF C!TypeOK
<1>4. ASSUME NEW i \in C!OpinionRows' PROVE i \in C!OpinionRows \/ (v # 0 /\ i = C!OpinionOf(m)')
  <2>1. PICK w \in Members : opinion'[w] # 0 /\ i = C!OpinionOf(w)'
    BY DEF C!OpinionRows
  <2>2. QED BY <1>2, <1>3, <2>1 DEF C!OpinionRows
<1>5. QED BY <1>1, <1>2, <1>4

LEMMA CommunityHandlerCovers ==
  ASSUME C!RoomAssumption, CommunityRoomInv, NEW h \in Handlers, C!HandlerStep(h) PROVE CommunityCovered'
<1>0. C!TypeOK /\ communityHandler \in [Handlers -> C!HandlerRecords]
  BY DEF CommunityRoomInv, C!TypeOK
<1>1. CASE (\E s \in Sockets : C!ReceiveMessage(h, s) \/ C!ReceiveOpinion(h, s)) \/ C!CheckOpinion(h)
  <2>1. UNCHANGED <<opinion, stored, C!roomVars, communityUntold>>
    BY <1>1 DEF C!ReceiveMessage, C!ReceiveOpinion, C!Receives, C!CheckOpinion, C!rowVars, C!historyVars
  <2>2. /\ \A g \in Handlers : g # h => communityHandler'[g] = communityHandler[g]
        /\ communityHandler[h].pc \in {"idle", "check"}
    <3>1. CASE \E s \in Sockets : C!ReceiveMessage(h, s) \/ C!ReceiveOpinion(h, s)
      <4>1. PICK s, pc, item : C!Receives(h, s, pc, item)
        BY <3>1 DEF C!ReceiveMessage, C!ReceiveOpinion
      <4>2. QED BY <1>0, <4>1 DEF C!Receives, C!IdleHandler
    <3>2. CASE C!CheckOpinion(h)
      BY <1>0, <3>2 DEF C!CheckOpinion, C!Step, C!Ends
    <3>3. QED BY <1>1, <3>1, <3>2
  <2>3. \A i : C!Telling(i) => C!Telling(i)'
    BY <2>1, <2>2 DEF C!Telling, C!OpinionOf
  <2>4. C!OpinionRows' = C!OpinionRows
    BY <2>1 DEF C!OpinionRows, C!OpinionOf
  <2>5. QED BY <2>1, <2>3, <2>4, CommunityRowsStayKnown DEF C!roomVars
<1>2. CASE C!InsertMessage(h)
  <2>0. PICK x : x = communityHandler[h].item
    OBVIOUS
  <2>1. UNCHANGED <<opinion, C!roomVars, communityUntold>> /\ stored' = stored \cup {x}
    BY <1>2, <2>0 DEF C!InsertMessage, C!historyVars
  <2>2. /\ communityHandler[h].pc = "insert"
        /\ \A g \in Handlers : g # h => communityHandler'[g] = communityHandler[g]
        /\ communityHandler'[h].pc = "reread" /\ communityHandler'[h].item = x
        /\ (communityHandler'[h].created <=> x \notin stored)
    BY <1>0, <1>2, <2>0 DEF C!InsertMessage, C!HandlerRecords
  <2>3. \A i : C!Telling(i) => C!Telling(i)'
    BY <2>1, <2>2 DEF C!Telling, C!OpinionOf
  <2>4. ASSUME x \notin stored PROVE C!Telling(x)'
    <3>1. communityHandler'[h].created
      BY <2>2, <2>4
    <3>2. QED BY <2>2, <3>1 DEF C!Telling
  <2>5. C!OpinionRows' = C!OpinionRows
    BY <2>1 DEF C!OpinionRows, C!OpinionOf
  <2>6. stored' = stored \/ (\E z : stored' = stored \cup {z} /\ C!Telling(z)')
    BY <2>1, <2>4
  <2>7. QED BY <2>1, <2>3, <2>5, <2>6, CommunityRowsStayKnown DEF C!roomVars
<1>3. CASE C!UpsertOpinion(h)
  <2>0. PICK m : m = Owner(communityHandler[h].by)
    OBVIOUS
  <2>1. UNCHANGED <<stored, C!roomVars, communityUntold>> /\ communityHandler[h].pc = "upsert" /\ m \in Members
    BY <1>0, <1>3, <2>0, CommunityHandlerKinds DEF C!UpsertOpinion
  <2>2. CASE opinion' = opinion
    <3>1. \A g \in Handlers :
            communityHandler'[g] = communityHandler[g] \/ (g = h /\ communityHandler[h].pc = "upsert")
      BY <1>0, <1>3 DEF C!UpsertOpinion, C!Step, C!Ends
    <3>2. \A i : C!Telling(i) => C!Telling(i)'
      BY <2>1, <2>2, <3>1 DEF C!Telling, C!OpinionOf
    <3>3. C!OpinionRows' = C!OpinionRows
      BY <2>2 DEF C!OpinionRows, C!OpinionOf
    <3>4. QED BY <2>1, <3>2, <3>3, CommunityRowsStayKnown DEF C!roomVars
  <2>3. CASE opinion' # opinion
    <3>0. PICK v : v = written[m] + 1
      OBVIOUS
    <3>1. opinion' = [opinion EXCEPT ![m] = v] /\ v \in Nat /\ v # 0 /\ v > opinion[m]
      BY <1>0, <1>3, <2>0, <2>1, <2>3, <3>0 DEF C!UpsertOpinion, C!TypeOK
    <3>2. /\ \A g \in Handlers : g # h => communityHandler'[g] = communityHandler[g]
          /\ communityHandler'[h].pc = "find" /\ communityHandler'[h].by = communityHandler[h].by
      BY <1>0, <1>3, <2>3 DEF C!UpsertOpinion, C!Step, C!HandlerRecords
    <3>3. /\ \A i \in C!OpinionRows' : i \in C!OpinionRows \/ i = C!OpinionOf(m)'
          /\ \A w \in Members : w # m => C!OpinionOf(w)' = C!OpinionOf(w)
          /\ C!OpinionOf(m)' = [author |-> m, version |-> v]
      BY <1>0, <2>1, <3>1, CommunityOpinionMoves
    <3>4. C!Telling(C!OpinionOf(m))'
      BY <2>0, <3>2 DEF C!Telling
    <3>5. ASSUME NEW i \in (stored \cup C!OpinionRows) \cap (stored' \cup C!OpinionRows'), C!Telling(i)
          PROVE  C!Telling(i)'
      <4>1. PICK g \in Handlers :
              \/ communityHandler[g].pc = "reread" /\ communityHandler[g].created /\ communityHandler[g].item = i
              \/ communityHandler[g].pc = "find" /\ i = C!OpinionOf(Owner(communityHandler[g].by))
              \/ communityHandler[g].pc = "tell" /\ i = communityHandler[g].item
        BY <3>5 DEF C!Telling
      <4>2. g # h /\ communityHandler'[g] = communityHandler[g]
        BY <2>1, <3>2, <4>1
      <4>3. CASE communityHandler[g].pc # "find"
        BY <4>1, <4>2, <4>3 DEF C!Telling
      <4>4. CASE communityHandler[g].pc = "find" /\ Owner(communityHandler[g].by) # m
        <5>1. Owner(communityHandler[g].by) \in Members
          BY <1>0, <4>4, CommunityHandlerKinds
        <5>2. QED BY <3>3, <4>1, <4>2, <4>4, <5>1 DEF C!Telling
      <4>5. CASE communityHandler[g].pc = "find" /\ Owner(communityHandler[g].by) = m
        <5>1. i = [author |-> m, version |-> opinion[m]] /\ opinion[m] \in Nat
          BY <1>0, <2>1, <4>1, <4>5 DEF C!OpinionOf, C!TypeOK
        <5>2. i \notin stored /\ i \notin stored'
          BY <1>0, <2>1, <5>1, CommunityRowTypes
        <5>3. ~ \E w \in Members : opinion'[w] # 0 /\ i = [author |-> w, version |-> opinion'[w]]
          <6>1. opinion'[m] = v
            BY <1>0, <2>1, <3>1 DEF C!TypeOK
          <6>2. \A w \in Members : i = [author |-> w, version |-> opinion'[w]] => w = m
            BY <5>1
          <6>3. v # opinion[m]
            BY <3>1, <5>1
          <6>4. i # [author |-> m, version |-> v]
            BY <5>1, <6>3
          <6>5. QED BY <6>1, <6>2, <6>4
        <5>4. QED BY <5>2, <5>3 DEF C!OpinionRows, C!OpinionOf
      <4>6. QED BY <4>3, <4>4, <4>5
    <3>6. QED BY <2>1, <3>3, <3>4, <3>5, CommunityRowsStayKnown DEF C!roomVars
  <2>4. QED BY <2>2, <2>3
<1>4. CASE C!FindOpinion(h)
  <2>0. PICK m : m = Owner(communityHandler[h].by)
    OBVIOUS
  <2>1. UNCHANGED <<C!rowVars, C!roomVars, communityUntold>> /\ communityHandler[h].pc = "find" /\ m \in Members
    BY <1>0, <1>4, <2>0, CommunityHandlerKinds DEF C!FindOpinion, C!historyVars
  <2>2. /\ \A g \in Handlers : g # h => communityHandler'[g] = communityHandler[g]
        /\ opinion[m] # 0 => communityHandler'[h].pc = "tell" /\ communityHandler'[h].item = C!OpinionOf(m)
    BY <1>0, <1>4, <2>0 DEF C!FindOpinion, C!Ends, C!HandlerRecords
  <2>3. C!OpinionRows' = C!OpinionRows /\ stored' = stored
    BY <2>1 DEF C!rowVars, C!OpinionRows, C!OpinionOf
  <2>4. opinion[m] = 0 => C!OpinionOf(m) \notin stored \cup C!OpinionRows
    BY <1>0, <2>1, CommunityRowTypes DEF C!OpinionRows, C!OpinionOf
  <2>5. ASSUME NEW i \in stored \cup C!OpinionRows, C!Telling(i) PROVE C!Telling(i)'
    <3>1. PICK g \in Handlers :
            \/ communityHandler[g].pc = "reread" /\ communityHandler[g].created /\ communityHandler[g].item = i
            \/ communityHandler[g].pc = "find" /\ i = C!OpinionOf(Owner(communityHandler[g].by))
            \/ communityHandler[g].pc = "tell" /\ i = communityHandler[g].item
      BY <2>5 DEF C!Telling
    <3>2. CASE g # h
      <4>1. communityHandler'[g] = communityHandler[g] /\ opinion' = opinion
        BY <2>1, <2>2, <3>2 DEF C!rowVars
      <4>2. QED BY <3>1, <4>1 DEF C!Telling, C!OpinionOf
    <3>3. CASE g = h
      <4>1. i = C!OpinionOf(m)
        BY <2>0, <2>1, <3>1, <3>3
      <4>2. QED BY <2>2, <2>4, <2>5, <4>1 DEF C!Telling
    <3>4. QED BY <3>2, <3>3
  <2>6. QED BY <2>1, <2>3, <2>5, CommunityRowsStayKnown DEF C!roomVars
<1>5. CASE C!TellOpinion(h) \/ C!TellMessage(h)
  <2>1. UNCHANGED <<opinion, stored, communitySocket, communityOpen, communityRoom, communityUntold>>
    BY <1>5 DEF C!TellOpinion, C!TellMessage, C!rowVars, C!historyVars
  <2>2. /\ \A g \in Handlers : g # h => communityHandler'[g] = communityHandler[g]
        /\ communityHandler[h].pc = "tell" \/ communityHandler[h].pc = "reread"
    BY <1>0, <1>5 DEF C!TellOpinion, C!TellMessage, C!Ends
  <2>3. /\ \A s \in communityOpen : communityGot[s] \subseteq communityGot'[s]
        /\ communityHandler[h].pc = "tell" \/ communityHandler[h].created
             => \A s \in communityOpen \cap communityRoom : communityHandler[h].item \in communityGot'[s]
    BY <1>0, <1>5 DEF C!TellOpinion, C!TellMessage, C!SendTo, C!TypeOK
  <2>4. \A s \in communityOpen \cap communityRoom : \A i : C!Telling(i) => C!Telling(i)' \/ i \in communityGot'[s]
    BY <2>1, <2>2, <2>3 DEF C!Telling, C!OpinionOf
  <2>5. C!OpinionRows' = C!OpinionRows
    BY <2>1 DEF C!OpinionRows, C!OpinionOf
  <2>6. QED BY <2>1, <2>3, <2>4, <2>5, CommunityRowsStayKnown
<1>6. CASE C!HandlerFails(h)
  <2>1. UNCHANGED <<C!rowVars, C!roomVars>> /\ communityUntold' = communityUntold \cup C!Untold(h)
    BY <1>6 DEF C!HandlerFails
  <2>2. /\ \A g \in Handlers : g # h => communityHandler'[g] = communityHandler[g]
        /\ communityHandler[h].pc # "tell"
    BY <1>0, <1>6 DEF C!HandlerFails, C!Ends
  <2>3. C!OpinionRows' = C!OpinionRows /\ stored' = stored
    BY <2>1 DEF C!rowVars, C!OpinionRows, C!OpinionOf
  <2>4. ASSUME NEW i \in stored \cup C!OpinionRows, C!Telling(i) PROVE C!Telling(i)' \/ i \in communityUntold'
    <3>1. PICK g \in Handlers :
            \/ communityHandler[g].pc = "reread" /\ communityHandler[g].created /\ communityHandler[g].item = i
            \/ communityHandler[g].pc = "find" /\ i = C!OpinionOf(Owner(communityHandler[g].by))
            \/ communityHandler[g].pc = "tell" /\ i = communityHandler[g].item
      BY <2>4 DEF C!Telling
    <3>2. CASE g # h
      <4>1. communityHandler'[g] = communityHandler[g] /\ opinion' = opinion
        BY <2>1, <2>2, <3>2 DEF C!rowVars
      <4>2. QED BY <3>1, <4>1 DEF C!Telling, C!OpinionOf
    <3>3. CASE g = h /\ communityHandler[h].pc = "reread"
      BY <2>1, <3>1, <3>3 DEF C!Untold
    <3>4. CASE g = h /\ communityHandler[h].pc = "find"
      <4>1. i = C!OpinionOf(Owner(communityHandler[h].by)) /\ Owner(communityHandler[h].by) \in Members
        BY <1>0, <3>1, <3>4, CommunityHandlerKinds
      <4>2. i \notin stored
        BY <1>0, <4>1, CommunityRowTypes DEF C!OpinionOf, C!TypeOK
      <4>3. QED BY <2>1, <2>4, <3>4, <4>1, <4>2 DEF C!Untold
    <3>5. QED BY <2>2, <3>1, <3>2, <3>3, <3>4
  <2>5. QED BY <2>1, <2>3, <2>4, CommunityRowsStayKnown DEF C!roomVars
<1>7. QED BY <1>1, <1>2, <1>3, <1>4, <1>5, <1>6 DEF C!HandlerStep

LEMMA CommunityLeaveCovers ==
  ASSUME C!RoomAssumption, CommunityRoomInv, NEW m \in Members, C!LeaveCommunity(m) PROVE CommunityCovered'
<1>0. C!TypeOK
  BY DEF CommunityRoomInv
<1>1. /\ UNCHANGED <<stored, C!roomVars, communityHandler, communityUntold>>
      /\ opinion' = [opinion EXCEPT ![m] = 0]
  BY DEF C!LeaveCommunity, C!historyVars
<1>2. /\ \A i \in C!OpinionRows' : i \in C!OpinionRows
      /\ \A w \in Members : w # m => C!OpinionOf(w)' = C!OpinionOf(w)
  BY <1>0, <1>1, CommunityOpinionMoves
<1>3. ASSUME NEW i \in stored' \cup C!OpinionRows', C!Telling(i) PROVE C!Telling(i)'
  <2>1. PICK g \in Handlers :
          \/ communityHandler[g].pc = "reread" /\ communityHandler[g].created /\ communityHandler[g].item = i
          \/ communityHandler[g].pc = "find" /\ i = C!OpinionOf(Owner(communityHandler[g].by))
          \/ communityHandler[g].pc = "tell" /\ i = communityHandler[g].item
    BY <1>3 DEF C!Telling
  <2>2. CASE communityHandler[g].pc # "find"
    BY <1>1, <2>1, <2>2 DEF C!Telling
  <2>3. CASE communityHandler[g].pc = "find" /\ Owner(communityHandler[g].by) # m
    <3>1. Owner(communityHandler[g].by) \in Members
      BY <1>0, <2>3, CommunityHandlerKinds
    <3>2. QED BY <1>1, <1>2, <2>1, <2>3, <3>1 DEF C!Telling
  <2>4. CASE communityHandler[g].pc = "find" /\ Owner(communityHandler[g].by) = m
    <3>1. i = [author |-> m, version |-> opinion[m]] /\ opinion[m] \in Nat
      BY <1>0, <2>1, <2>4 DEF C!OpinionOf, C!TypeOK
    <3>2. i \notin stored'
      BY <1>0, <1>1, <3>1, CommunityRowTypes
    <3>3. ~ \E w \in Members : opinion'[w] # 0 /\ i = [author |-> w, version |-> opinion'[w]]
      BY <1>0, <1>1, <3>1 DEF C!TypeOK
    <3>4. QED BY <3>2, <3>3, <1>3 DEF C!OpinionRows, C!OpinionOf
  <2>5. QED BY <2>2, <2>3, <2>4
<1>4. QED BY <1>1, <1>2, <1>3, CommunityRowsStayKnown DEF C!roomVars

LEMMA CommunityStep == ASSUME C!RoomAssumption PROVE CommunityRoomInv /\ [C!Next]_(C!vars) => CommunityRoomInv'
<1> SUFFICES ASSUME CommunityRoomInv, [C!Next]_(C!vars) PROVE CommunityRoomInv'
  OBVIOUS
<1>1. C!TypeOK' /\ (CommunityInTheRoom /\ CommunityReadyHasAll)'
  BY CommunityStepTypes, CommunityStepPlaces DEF CommunityRoomInv
<1>0. IsFiniteSet(stored')
  <2>1. stored' = stored \/ \E x : stored' = stored \cup {x}
    BY DEF C!Next, C!vars, C!rowVars, C!ConnectionStep, C!Connect, C!JoinAndEnter, C!ListMessages,
       C!SendMessages, C!SendOpinions, C!ConnectionFails, C!CloseSocket, C!HandlerStep, C!ReceiveMessage,
       C!ReceiveOpinion, C!Receives, C!CheckOpinion, C!InsertMessage, C!TellMessage, C!UpsertOpinion,
       C!FindOpinion, C!TellOpinion, C!HandlerFails, C!LeaveCommunity, C!Restart
  <2>2. QED BY <2>1, FS_AddElement DEF CommunityRoomInv
<1>2. CommunityCovered'
  <2>1. CASE UNCHANGED C!vars
    BY <2>1 DEF CommunityRoomInv, C!vars, C!rowVars, C!roomVars, C!historyVars, CommunityCovered,
       CommunityCoveredFor, CommunityKnown, C!Telling,
       C!OpinionRows, C!OpinionOf, C!Newest
  <2>2. ASSUME NEW s \in Sockets, C!ConnectionStep(s) PROVE CommunityCovered'
    BY <2>2, CommunityConnectionCovers
  <2>3. CASE C!Restart
    BY <2>3 DEF C!Restart, CommunityCovered
  <2>4. QED BY <2>1, <2>2, <2>3, CommunityHandlerCovers, CommunityLeaveCovers DEF C!Next
<1>3. QED BY <1>0, <1>1, <1>2 DEF CommunityRoomInv

\* However connections, messages, opinions, departures, failures and restarts
\* interleave, who has connected has been sent every opinion and each of the
\* newest messages, as many as listMessages reads, or is about to be told, or
\* the handler that stored it has failed.
THEOREM NothingIsMissed == C!Spec => []NothingMissed
<1>1. CommunityRoomInv => NothingMissed
  BY DEF NothingMissed, CommunityRoomInv, CommunityCovered, CommunityCoveredFor, CommunityReadyHasAll,
     CommunityKnown,
     C!NothingMissed, C!TypeOK
<1>2. C!Spec => []CommunityRoomInv
  BY RoomsAssumption, CommunityInit, CommunityStep, PTL DEF C!Spec
<1>3. QED BY <1>1, <1>2, PTL

-----------------------------------------------------------------------------
(* The room of a debate.                                                    *)

\* A socket that has not entered its room has everything still to read.
DebateUnread == \A s \in Sockets : debateSocket[s].pc \in {"new", "verify"} => debateSocket[s].reads = D!Reads

\* A socket reads the snapshot in its room.
DebateInTheRoom == \A s \in debateOpen : debateSocket[s].pc \in {"snapshot", "ready"} => s \in debateRoom

\* What a socket knows, has read, or will be told.
DebateKnown(s, i) == i \in debateGot[s] \/ i \in debateSocket[s].read \/ D!Telling(i) \/ i \in debateUntold

DebateCoveredFor(s) ==
  /\ debateSocket[s].pc \in {"snapshot", "ready"} /\ "turns" \notin debateSocket[s].reads
       => \A i \in turns : DebateKnown(s, i)
  /\ debateSocket[s].pc \in {"snapshot", "ready"} /\ "drafts" \notin debateSocket[s].reads
       => \A i \in drafts : DebateKnown(s, i)

DebateCovered == \A s \in debateOpen : DebateCoveredFor(s)

\* A socket that is ready has nothing left to read, and has been sent it all.
DebateReadyHasAll ==
  \A s \in Sockets : debateSocket[s].pc = "ready" => debateSocket[s].reads = {} /\ debateSocket[s].read = {}

DebateRoomInv == D!TypeOK /\ DebateUnread /\ DebateInTheRoom /\ DebateReadyHasAll /\ DebateCovered

-----------------------------------------------------------------------------
LEMMA DebateInit == ASSUME D!DebateRoomAssumption PROVE D!Init => DebateRoomInv
BY DEF D!Init, D!DebateRoomAssumption, DebateRoomInv, D!TypeOK, DebateUnread, DebateInTheRoom,
   DebateReadyHasAll, DebateCovered,
   D!NewSocket, D!Idle, D!Reads, D!Items, D!HandlerRecords, D!Holds

\* A step that moves one handler, or none.
LEMMA DebateHandlerMoves ==
  ASSUME D!TypeOK, NEW h \in Handlers, NEW r \in D!HandlerRecords, D!Holds(r),
         debateHandler' = [debateHandler EXCEPT ![h] = r]
  PROVE  debateHandler' \in [Handlers -> D!HandlerRecords] /\ \A g \in Handlers : D!Holds(debateHandler'[g])
BY DEF D!TypeOK

\* What a handler may hold, at the points where it matters.
LEMMA DebateHandlerKinds ==
  ASSUME D!TypeOK, NEW h \in Handlers
  PROVE  /\ debateHandler[h] \in D!HandlerRecords
         /\ debateHandler[h].pc \in {"append", "ack"} => debateHandler[h].item \in Drafts
         /\ debateHandler[h].pc = "save" => debateHandler[h].item = Nothing
         /\ debateHandler[h].pc \in {"delete", "enqueue"} => debateHandler[h].item = Turn
         /\ debateHandler[h].pc = "release" => debateHandler[h].item \in {Turn, Nothing}
         /\ debateHandler[h].pc = "tell" => debateHandler[h].item \in D!Items
BY DEF D!TypeOK, D!Holds

LEMMA DebateHandlerTypes ==
  ASSUME D!DebateRoomAssumption, D!TypeOK, NEW h \in Handlers, D!HandlerStep(h) PROVE D!TypeOK'
<1> DEFINE HandlersSound == /\ debateHandler \in [Handlers -> D!HandlerRecords]
                            /\ \A g \in Handlers : D!Holds(debateHandler[g])
           Sound(r) == r \in D!HandlerRecords /\ D!Holds(r)
<1>0. debateHandler[h] \in D!HandlerRecords /\ D!Holds(debateHandler[h]) /\ Sound(D!Idle)
  BY DEF D!TypeOK, D!HandlerRecords, D!Holds, D!Idle
<1> USE DEF D!Items
<1>1. ASSUME NEW s \in Sockets, NEW x \in Drafts, D!ReceiveDraft(h, s, x) PROVE D!TypeOK'
  <2>1. Sound([D!Idle EXCEPT !.pc = "append", !.by = s, !.item = x])
    BY DEF D!HandlerRecords, D!Holds, D!Idle
  <2>2. HandlersSound'
    BY <1>1, <2>1, DebateHandlerMoves DEF D!ReceiveDraft
  <2>3. QED BY <1>1, <2>2 DEF D!ReceiveDraft, D!TypeOK, D!dataVars, D!roomVars
<1>2. ASSUME NEW id \in CommandIds, D!LockTurn(h, id) PROVE D!TypeOK'
  <2>1. Sound([D!Idle EXCEPT !.pc = "save", !.id = id])
    BY DEF D!HandlerRecords, D!Holds, D!Idle
  <2>2. HandlersSound'
    BY <1>2, <2>1, DebateHandlerMoves DEF D!LockTurn
  <2>3. QED BY <1>2, <2>2 DEF D!LockTurn, D!TypeOK, D!roomVars
<1>3. ASSUME D!AppendScript(h) \/ D!SaveTurn(h) \/ D!DeleteDrafts(h) \/ D!ReleaseLock(h) \/ UNCHANGED D!dataVars
      PROVE  drafts' \subseteq Drafts /\ turns' \subseteq {Turn} /\ turnLock' \in CommandIds \cup {Nothing}
  BY <1>3, DebateHandlerKinds DEF D!AppendScript, D!SaveTurn, D!DeleteDrafts, D!ReleaseLock, D!dataVars, D!TypeOK
<1>4. CASE D!CallReturns(h)
  <2>1. drafts' \subseteq Drafts /\ turns' \subseteq {Turn} /\ turnLock' \in CommandIds \cup {Nothing}
    BY <1>3, <1>4 DEF D!CallReturns
  <2>2. PICK r : Sound(r) /\ debateHandler' = [debateHandler EXCEPT ![h] = r]
    <3>1. CASE D!AppendScript(h) /\ D!Step(h, IF debateHandler[h].item \in drafts THEN "ack" ELSE "tell")
      <4>1. Sound([debateHandler[h] EXCEPT !.pc = IF debateHandler[h].item \in drafts THEN "ack" ELSE "tell"])
        BY <1>0, <3>1, DebateHandlerKinds DEF D!AppendScript, D!HandlerRecords, D!Holds
      <4>2. QED BY <3>1, <4>1 DEF D!Step
    <3>2. CASE /\ D!SaveTurn(h)
               /\ debateHandler' = [debateHandler EXCEPT ![h] = [@ EXCEPT !.pc = "delete", !.item = Turn]]
      <4>1. Sound([debateHandler[h] EXCEPT !.pc = "delete", !.item = Turn])
        BY <1>0 DEF D!HandlerRecords, D!Holds
      <4>2. QED BY <3>2, <4>1
    <3>3. CASE D!DeleteDrafts(h) /\ D!Step(h, "enqueue")
      <4>1. Sound([debateHandler[h] EXCEPT !.pc = "enqueue"])
        BY <1>0, <3>3, DebateHandlerKinds DEF D!DeleteDrafts, D!HandlerRecords, D!Holds
      <4>2. QED BY <3>3, <4>1 DEF D!Step
    <3>4. CASE debateHandler[h].pc = "enqueue" /\ D!Step(h, "release")
      <4>1. Sound([debateHandler[h] EXCEPT !.pc = "release"])
        BY <1>0, <3>4, DebateHandlerKinds DEF D!HandlerRecords, D!Holds
      <4>2. QED BY <3>4, <4>1 DEF D!Step
    <3>5. CASE debateHandler[h].item = Turn /\ D!Step(h, "tell")
      <4>1. Sound([debateHandler[h] EXCEPT !.pc = "tell"])
        BY <1>0, <3>5 DEF D!HandlerRecords, D!Holds
      <4>2. QED BY <3>5, <4>1 DEF D!Step
    <3>6. CASE D!Ends(h)
      BY <1>0, <3>6 DEF D!Ends
    <3>7. QED BY <1>4, <3>1, <3>2, <3>3, <3>4, <3>5, <3>6 DEF D!CallReturns
  <2>3. HandlersSound'
    BY <2>2, DebateHandlerMoves
  <2>4. QED BY <1>4, <2>1, <2>3 DEF D!CallReturns, D!TypeOK, D!roomVars
<1>5. CASE D!CallRefused(h)
  <2>1. HandlersSound'
    <3>1. CASE debateHandler[h].pc = "append"
      BY <1>0, <1>5, <3>1, DebateHandlerMoves DEF D!CallRefused, D!Ends
    <3>2. CASE debateHandler[h].pc = "save"
      <4>1. Sound([debateHandler[h] EXCEPT !.pc = "release"])
        BY <1>0, <3>2, DebateHandlerKinds DEF D!HandlerRecords, D!Holds
      <4>2. QED BY <1>5, <3>2, <4>1, DebateHandlerMoves DEF D!CallRefused, D!Step
    <3>3. QED BY <1>5, <3>1, <3>2 DEF D!CallRefused
  <2>2. QED BY <1>5, <2>1 DEF D!CallRefused, D!TypeOK, D!dataVars, D!roomVars
<1>6. CASE D!CallFails(h)
  <2>1. drafts' \subseteq Drafts /\ turns' \subseteq {Turn} /\ turnLock' \in CommandIds \cup {Nothing}
    BY <1>3, <1>6 DEF D!CallFails
  <2>2. HandlersSound'
    <3>1. Sound([debateHandler[h] EXCEPT !.pc = "release", !.item = Nothing])
      BY <1>0 DEF D!HandlerRecords, D!Holds
    <3>2. CASE D!Ends(h)
      BY <1>0, <3>2, DebateHandlerMoves DEF D!Ends
    <3>3. CASE debateHandler' = [debateHandler EXCEPT ![h] = [@ EXCEPT !.pc = "release", !.item = Nothing]]
      BY <3>1, <3>3, DebateHandlerMoves
    <3>4. QED BY <1>6, <3>2, <3>3 DEF D!CallFails
  <2>3. debateUntold' \subseteq D!Items
    BY <1>6, <2>1 DEF D!CallFails, D!TypeOK
  <2>4. debateFaults' \in 0..MaxFaults
    BY <1>6 DEF D!CallFails, D!TypeOK, D!DebateRoomAssumption
  <2>5. QED BY <1>6, <2>1, <2>2, <2>3, <2>4 DEF D!CallFails, D!TypeOK, D!roomVars
<1>7. CASE D!Tell(h)
  <2>1. HandlersSound'
    BY <1>0, <1>7, DebateHandlerMoves DEF D!Tell, D!Ends
  <2>2. debateHandler[h].item \in D!Items
    BY <1>7, DebateHandlerKinds DEF D!Tell
  <2>3. debateGot' \in [Sockets -> SUBSET D!Items]
    BY <1>7, <2>2 DEF D!Tell, D!SendTo, D!TypeOK
  <2>4. QED BY <1>7, <2>1, <2>3 DEF D!Tell, D!TypeOK, D!dataVars
<1>8. QED BY <1>1, <1>2, <1>4, <1>5, <1>6, <1>7 DEF D!HandlerStep

LEMMA DebateStepTypeOK == ASSUME D!DebateRoomAssumption, D!TypeOK, [D!Next]_(D!vars) PROVE D!TypeOK'
<1> USE DEF D!TypeOK, D!Items, D!Reads
<1>1. CASE UNCHANGED D!vars
  BY <1>1 DEF D!vars, D!dataVars, D!roomVars
<1>2. ASSUME NEW S \in SUBSET Sockets, NEW items \in SUBSET D!Items, D!SendTo(S, items)
      PROVE  debateGot' \in [Sockets -> SUBSET D!Items]
  BY <1>2 DEF D!SendTo
<1>3. ASSUME NEW s \in Sockets, D!ConnectionStep(s) PROVE D!TypeOK'
  <2>1. CASE D!Connect(s)
    BY <2>1 DEF D!Connect, D!dataVars
  <2>2. CASE D!EnterRoom(s)
    BY <2>2 DEF D!EnterRoom, D!Enter, D!dataVars
  <2>3. ASSUME NEW what \in D!Reads, D!Read(s, what) PROVE D!TypeOK'
    <3>1. D!Stored(what) \subseteq D!Items
      BY DEF D!Stored
    <3>2. QED BY <2>3, <3>1 DEF D!Read, D!dataVars
  <2>4. CASE D!SendSnapshot(s)
    <3>1. debateGot' \in [Sockets -> SUBSET D!Items]
      BY <1>2, <2>4 DEF D!SendSnapshot
    <3>2. QED BY <2>4, <3>1 DEF D!SendSnapshot, D!Enter, D!dataVars
  <2>5. CASE D!SnapshotFails(s)
    BY <2>5 DEF D!SnapshotFails, D!dataVars, D!DebateRoomAssumption
  <2>6. CASE D!CloseSocket(s)
    BY <2>6 DEF D!CloseSocket, D!dataVars
  <2>7. QED BY <1>3, <2>1, <2>2, <2>3, <2>4, <2>5, <2>6 DEF D!ConnectionStep
<1>4. ASSUME NEW h \in Handlers, D!HandlerStep(h) PROVE D!TypeOK'
  BY <1>4, DebateHandlerTypes
<1>5. CASE D!LockExpires \/ D!ClearDrafts
  BY <1>5 DEF D!LockExpires, D!ClearDrafts, D!roomVars
<1>8. CASE D!Restart
  <2>1. /\ debateHandler' \in [Handlers -> D!HandlerRecords]
        /\ \A h \in Handlers : D!Holds(debateHandler'[h])
    BY <1>8 DEF D!Restart, D!Idle, D!HandlerRecords, D!Holds
  <2>2. QED BY <1>8, <2>1 DEF D!Restart, D!NewSocket, D!dataVars, D!DebateRoomAssumption
<1>9. QED BY <1>1, <1>3, <1>4, <1>5, <1>8 DEF D!Next

LEMMA DebateStepPlaces ==
  ASSUME D!TypeOK, DebateUnread, DebateInTheRoom, DebateReadyHasAll, [D!Next]_(D!vars)
  PROVE  (DebateUnread /\ DebateInTheRoom /\ DebateReadyHasAll)'
<1> USE DEF D!TypeOK, DebateUnread, DebateInTheRoom, DebateReadyHasAll, D!Reads
<1>1. CASE UNCHANGED <<debateSocket, debateOpen, debateRoom>>
  BY <1>1
<1>2. ASSUME NEW s \in Sockets, D!ConnectionStep(s)
      PROVE  (DebateUnread /\ DebateInTheRoom /\ DebateReadyHasAll)'
  <2>1. CASE D!Connect(s)
    BY <2>1 DEF D!Connect
  <2>2. CASE D!EnterRoom(s)
    BY <2>2 DEF D!EnterRoom, D!Enter, D!EntersAt
  <2>3. ASSUME NEW what \in D!Reads, D!Read(s, what)
        PROVE  (DebateUnread /\ DebateInTheRoom /\ DebateReadyHasAll)'
    BY <2>3 DEF D!Read
  <2>4. CASE D!SendSnapshot(s)
    BY <2>4 DEF D!SendSnapshot, D!Enter, D!EntersAt
  <2>5. CASE D!SnapshotFails(s)
    BY <2>5 DEF D!SnapshotFails
  <2>6. CASE D!CloseSocket(s)
    BY <2>6 DEF D!CloseSocket
  <2>7. QED BY <1>2, <2>1, <2>2, <2>3, <2>4, <2>5, <2>6 DEF D!ConnectionStep
<1>3. CASE D!Restart
  BY <1>3 DEF D!Restart, D!NewSocket
<1>4. QED
  BY <1>1, <1>2, <1>3
  DEF D!Next, D!vars, D!roomVars, D!HandlerStep, D!ReceiveDraft, D!LockTurn, D!CallReturns, D!CallRefused,
      D!CallFails, D!Tell, D!LockExpires, D!ClearDrafts

-----------------------------------------------------------------------------
LEMMA DebateConnectionCovers ==
  ASSUME DebateRoomInv, NEW s \in Sockets, D!ConnectionStep(s) PROVE DebateCovered'
<1> USE DEF DebateRoomInv, D!TypeOK
<1>0. UNCHANGED <<D!dataVars, debateHandler, debateUntold>>
  BY DEF D!ConnectionStep, D!Connect, D!EnterRoom, D!Read, D!SendSnapshot, D!SnapshotFails, D!CloseSocket
<1>1. \A i : D!Telling(i)' <=> D!Telling(i)
  BY <1>0 DEF D!Telling
<1>2. ASSUME NEW r \in debateOpen, r # s, r \in debateOpen' PROVE DebateCoveredFor(r)'
  <2>1. debateSocket'[r] = debateSocket[r] /\ debateGot[r] = debateGot'[r]
    BY <1>2 DEF D!ConnectionStep, D!Connect, D!EnterRoom, D!Read, D!SendSnapshot, D!SnapshotFails,
       D!CloseSocket, D!SendTo
  <2>2. DebateCoveredFor(r)
    BY DEF DebateCovered
  <2>3. QED BY <1>0, <1>1, <2>1, <2>2 DEF DebateCoveredFor, DebateKnown, D!dataVars
<1>3. \A r \in debateOpen' : r \in debateOpen \/ r = s
  BY DEF D!ConnectionStep, D!Connect, D!EnterRoom, D!Read, D!SendSnapshot, D!SnapshotFails, D!CloseSocket
<1>4. CASE D!Connect(s) \/ D!SnapshotFails(s)
  <2>1. debateSocket'[s].pc \in {"verify", "failed"}
    BY <1>4 DEF D!Connect, D!SnapshotFails
  <2>2. QED BY <1>2, <1>3, <2>1 DEF DebateCovered, DebateCoveredFor
<1>5. CASE D!EnterRoom(s)
  <2>1. debateSocket'[s].reads = D!Reads
    BY <1>5 DEF D!EnterRoom, DebateUnread
  <2>2. QED BY <1>2, <1>3, <2>1 DEF DebateCovered, DebateCoveredFor, D!Reads
<1>6. ASSUME NEW what \in D!Reads, D!Read(s, what), s \in debateOpen PROVE DebateCoveredFor(s)'
  <2>1. DebateCoveredFor(s) /\ debateSocket[s].pc = "snapshot"
    BY <1>6 DEF DebateCovered, D!Read
  <2>2. /\ debateSocket'[s].reads = debateSocket[s].reads \ {what}
        /\ debateSocket'[s].read = debateSocket[s].read \cup D!Stored(what)
        /\ debateGot' = debateGot
    BY <1>6 DEF D!Read
  <2>3. what = "turns" \/ what = "drafts"
    BY DEF D!Reads
  <2>4. \A i : DebateKnown(s, i) => DebateKnown(s, i)'
    BY <1>0, <1>1, <2>2 DEF DebateKnown
  <2>5. \A i \in D!Stored(what) : DebateKnown(s, i)'
    BY <2>2 DEF DebateKnown
  <2>6. turns' = turns /\ drafts' = drafts
    BY <1>0 DEF D!dataVars
  <2>7. QED BY <2>1, <2>2, <2>3, <2>4, <2>5, <2>6 DEF DebateCoveredFor, D!Stored
<1>7. ASSUME D!SendSnapshot(s), s \in debateOpen PROVE DebateCoveredFor(s)'
  <2>1. DebateCoveredFor(s) /\ debateSocket[s].pc = "snapshot" /\ debateSocket[s].reads = {}
    BY <1>7 DEF DebateCovered, D!SendSnapshot
  <2>2. debateGot'[s] = debateGot[s] \cup debateSocket[s].read
    BY <1>7 DEF D!SendSnapshot, D!SendTo
  <2>3. \A i : DebateKnown(s, i) => DebateKnown(s, i)'
    BY <1>0, <1>1, <2>2 DEF DebateKnown
  <2>4. turns' = turns /\ drafts' = drafts
    BY <1>0 DEF D!dataVars
  <2>5. QED BY <2>1, <2>3, <2>4 DEF DebateCoveredFor
<1>8. CASE (\E what \in D!Reads : D!Read(s, what)) \/ D!SendSnapshot(s)
  <2>1. debateOpen' = debateOpen
    BY <1>8 DEF D!Read, D!SendSnapshot
  <2>2. QED BY <1>2, <1>6, <1>7, <1>8, <2>1 DEF DebateCovered
<1>9. CASE D!CloseSocket(s)
  <2>1. s \notin debateOpen'
    BY <1>9 DEF D!CloseSocket
  <2>2. QED BY <1>2, <1>3, <2>1 DEF DebateCovered
<1>10. QED BY <1>4, <1>5, <1>8, <1>9 DEF D!ConnectionStep

\* A step that lets no socket forget the turn and the drafts: what it stores
\* is to be told or left untold, and who was about to tell something still is,
\* has told it, or leaves it untold.
LEMMA DebateItemsStayKnown ==
  ASSUME DebateRoomInv, UNCHANGED <<debateSocket, debateOpen, debateRoom>>,
         debateUntold \subseteq debateUntold',
         \A s \in debateOpen : debateGot[s] \subseteq debateGot'[s],
         \A i \in turns' : i \in turns \/ D!Telling(i)' \/ i \in debateUntold',
         \A i \in drafts' : i \in drafts \/ D!Telling(i)' \/ i \in debateUntold',
         \A i \in turns' \cup drafts', s \in debateOpen \cap debateRoom :
           D!Telling(i) => D!Telling(i)' \/ i \in debateGot'[s] \/ i \in debateUntold'
  PROVE  DebateCovered'
<1> SUFFICES ASSUME NEW s \in debateOpen, DebateCoveredFor(s), debateSocket[s].pc \in {"snapshot", "ready"},
                    s \in debateRoom
             PROVE  DebateCoveredFor(s)'
  BY DEF DebateRoomInv, DebateCovered, DebateCoveredFor, DebateInTheRoom
<1>1. \A i \in turns' \cup drafts' : DebateKnown(s, i) => DebateKnown(s, i)'
  BY DEF DebateKnown
<1>2. \A i : D!Telling(i)' \/ i \in debateUntold' => DebateKnown(s, i)'
  BY DEF DebateKnown
<1>3. QED BY <1>1, <1>2 DEF DebateCoveredFor

LEMMA DebateHandlerCovers ==
  ASSUME D!DebateRoomAssumption, DebateRoomInv, NEW h \in Handlers, D!HandlerStep(h)
  PROVE  DebateCovered'
<1>0. D!TypeOK /\ debateHandler \in [Handlers -> D!HandlerRecords]
  BY DEF DebateRoomInv, D!TypeOK
<1> DEFINE Tells(r, i) == r.pc \in {"delete", "enqueue", "release", "tell"} /\ r.item = i
\* Who else is about to tell something still is.
<1>1. ASSUME NEW r, debateHandler' = [debateHandler EXCEPT ![h] = r]
      PROVE  /\ \A i : Tells(r, i) => D!Telling(i)'
             /\ \A i : D!Telling(i) => D!Telling(i)' \/ Tells(debateHandler[h], i)
  <2>1. debateHandler'[h] = r /\ \A g \in Handlers : g # h => debateHandler'[g] = debateHandler[g]
    BY <1>0, <1>1
  <2>2. QED BY <2>1 DEF D!Telling
<1>2. CASE (\E s \in Sockets, x \in Drafts : D!ReceiveDraft(h, s, x)) \/ (\E id \in CommandIds : D!LockTurn(h, id))
  <2>1. UNCHANGED <<drafts, turns, D!roomVars, debateUntold>>
    BY <1>2 DEF D!ReceiveDraft, D!LockTurn, D!dataVars
  <2>0. debateHandler[h].pc = "idle"
    <3>1. debateHandler[h] = D!Idle
      BY <1>2 DEF D!ReceiveDraft, D!LockTurn
    <3>2. QED BY <3>1 DEF D!Idle
  <2>2. PICK r : debateHandler' = [debateHandler EXCEPT ![h] = r]
    BY <1>2 DEF D!ReceiveDraft, D!LockTurn
  <2>3. \A i : D!Telling(i) => D!Telling(i)'
    BY <1>1, <2>0, <2>2
  <2>4. QED BY <2>1, <2>3, DebateItemsStayKnown DEF D!roomVars
<1>3. CASE D!CallReturns(h)
  <2>0. UNCHANGED <<D!roomVars, debateUntold>>
    BY <1>3 DEF D!CallReturns
  <2>6. PICK x : x = debateHandler[h].item
    OBVIOUS
  <2>1. CASE D!AppendScript(h) /\ D!Step(h, IF x \in drafts THEN "ack" ELSE "tell")
    <3>1. debateHandler[h].pc = "append" /\ turns' = turns /\ drafts' = drafts \cup {x}
      BY <2>1, <2>6 DEF D!AppendScript
    <3>2. debateHandler' = [debateHandler EXCEPT ![h] = [@ EXCEPT !.pc = IF x \in drafts THEN "ack" ELSE "tell"]]
      BY <2>1 DEF D!Step
    <3>3. x \notin drafts => Tells([debateHandler[h] EXCEPT !.pc = IF x \in drafts THEN "ack" ELSE "tell"], x)
      BY <1>0, <2>6 DEF D!HandlerRecords
    <3>4. \A i : D!Telling(i) => D!Telling(i)'
      BY <1>1, <3>1, <3>2
    <3>5. x \notin drafts => D!Telling(x)'
      BY <1>1, <3>2, <3>3
    <3>6. \A i \in drafts' : i \in drafts \/ D!Telling(i)'
      BY <3>1, <3>5
    <3>7. QED BY <2>0, <3>1, <3>4, <3>6, DebateItemsStayKnown DEF D!roomVars
  <2>2. CASE /\ D!SaveTurn(h)
             /\ debateHandler' = [debateHandler EXCEPT ![h] = [@ EXCEPT !.pc = "delete", !.item = Turn]]
    <3>1. debateHandler[h].pc = "save" /\ turns' = {Turn} /\ drafts' = drafts
      BY <2>2 DEF D!SaveTurn
    <3>2. Tells([debateHandler[h] EXCEPT !.pc = "delete", !.item = Turn], Turn)
      BY <1>0 DEF D!HandlerRecords
    <3>3. D!Telling(Turn)' /\ \A i : D!Telling(i) => D!Telling(i)'
      BY <1>1, <2>2, <3>1, <3>2
    <3>4. QED BY <2>0, <3>1, <3>3, DebateItemsStayKnown DEF D!roomVars
  <2>3. ASSUME NEW pc \in {"enqueue", "release", "tell"}, D!Step(h, pc),
               UNCHANGED turns, drafts' \subseteq drafts
        PROVE  DebateCovered'
    <3>1. debateHandler' = [debateHandler EXCEPT ![h] = [@ EXCEPT !.pc = pc]]
      BY <2>3 DEF D!Step
    <3>2. \A i : Tells(debateHandler[h], i) => Tells([debateHandler[h] EXCEPT !.pc = pc], i)
      BY <1>0 DEF D!HandlerRecords
    <3>3. \A i : D!Telling(i) => D!Telling(i)'
      BY <1>1, <3>1, <3>2
    <3>4. QED BY <2>0, <2>3, <3>3, DebateItemsStayKnown DEF D!roomVars
  <2>4. CASE D!ReleaseLock(h) /\ x # Turn /\ D!Ends(h)
    <3>1. debateHandler[h].pc = "release" /\ UNCHANGED <<turns, drafts>>
      BY <2>4 DEF D!ReleaseLock
    <3>2. x = Nothing
      BY <1>0, <2>4, <2>6, <3>1, DebateHandlerKinds
    <3>3. \A i \in turns' \cup drafts' : i # Nothing
      BY <1>0, <3>1 DEF D!TypeOK, D!DebateRoomAssumption
    <3>4. debateHandler' = [debateHandler EXCEPT ![h] = D!Idle]
      BY <2>4 DEF D!Ends
    <3>5. \A i \in turns' \cup drafts' : D!Telling(i) => D!Telling(i)'
      BY <1>1, <2>6, <3>2, <3>3, <3>4
    <3>6. QED BY <2>0, <3>1, <3>5, DebateItemsStayKnown DEF D!roomVars
  <2>5. QED
    BY <1>3, <2>1, <2>2, <2>3, <2>4, <2>6 DEF D!CallReturns, D!DeleteDrafts, D!ReleaseLock, D!dataVars
<1>4. CASE D!CallRefused(h)
  <2>1. UNCHANGED <<drafts, turns, D!roomVars, debateUntold>> /\ debateHandler[h].pc \in {"append", "save"}
    BY <1>4 DEF D!CallRefused, D!dataVars
  <2>2. PICK r : debateHandler' = [debateHandler EXCEPT ![h] = r]
    BY <1>4 DEF D!CallRefused, D!Ends, D!Step
  <2>3. \A i : D!Telling(i) => D!Telling(i)'
    BY <1>1, <2>1, <2>2
  <2>4. QED BY <2>1, <2>3, DebateItemsStayKnown DEF D!roomVars
<1>5. CASE D!CallFails(h)
  <2>1. /\ UNCHANGED D!roomVars
        /\ debateHandler[h].pc \in {"append", "save", "delete", "enqueue", "release"}
        /\ debateUntold' = debateUntold \cup (drafts' \ drafts) \cup (turns' \ turns)
                                       \cup ({debateHandler[h].item} \cap turns)
    BY <1>5 DEF D!CallFails
  <2>2. PICK r : debateHandler' = [debateHandler EXCEPT ![h] = r]
    BY <1>5 DEF D!CallFails, D!Ends
  <2>3. drafts' \subseteq Drafts /\ Turn \notin Drafts /\ Nothing \notin Drafts \cup {Turn} /\ turns' \subseteq {Turn}
    BY <1>0, <1>5, DebateHandlerTypes DEF D!TypeOK, D!DebateRoomAssumption
  <2>4. ASSUME NEW i \in turns' \cup drafts', D!Telling(i) PROVE D!Telling(i)' \/ i \in debateUntold'
    <3>1. CASE Tells(debateHandler[h], i)
      <4>1. i \in {Turn, Nothing}
        BY <1>0, <2>1, <3>1, DebateHandlerKinds
      <4>2. i \in turns'
        BY <2>3, <2>4, <4>1
      <4>3. QED BY <2>1, <3>1, <4>2
    <3>2. QED BY <1>1, <2>2, <2>4, <3>1
  <2>5. QED BY <2>1, <2>4, DebateItemsStayKnown DEF D!roomVars
<1>6. CASE D!Tell(h)
  <2>1. UNCHANGED <<drafts, turns, debateSocket, debateOpen, debateRoom, debateUntold>>
    BY <1>6 DEF D!Tell, D!dataVars
  <2>2. \A s \in debateOpen :
          /\ debateGot[s] \subseteq debateGot'[s]
          /\ s \in debateRoom /\ debateHandler[h].pc = "tell" => debateHandler[h].item \in debateGot'[s]
    BY <1>0, <1>6 DEF D!Tell, D!SendTo, D!TypeOK
  <2>3. debateHandler' = [debateHandler EXCEPT ![h] = D!Idle] /\ debateHandler[h].pc \in {"ack", "tell"}
    BY <1>6 DEF D!Tell, D!Ends
  <2>4. \A i : \A s \in debateOpen \cap debateRoom : D!Telling(i) => D!Telling(i)' \/ i \in debateGot'[s]
    BY <1>1, <2>2, <2>3
  <2>5. QED BY <2>1, <2>2, <2>4, DebateItemsStayKnown
<1>7. QED BY <1>2, <1>3, <1>4, <1>5, <1>6 DEF D!HandlerStep

LEMMA DebateStep == ASSUME D!DebateRoomAssumption PROVE DebateRoomInv /\ [D!Next]_(D!vars) => DebateRoomInv'
<1> SUFFICES ASSUME DebateRoomInv, [D!Next]_(D!vars) PROVE DebateRoomInv'
  OBVIOUS
<1>1. D!TypeOK' /\ (DebateUnread /\ DebateInTheRoom /\ DebateReadyHasAll)'
  BY DebateStepTypeOK, DebateStepPlaces DEF DebateRoomInv
<1>2. DebateCovered'
  <2>1. CASE UNCHANGED D!vars
    BY <2>1 DEF DebateRoomInv, D!vars, D!dataVars, D!roomVars, DebateCovered, DebateCoveredFor, DebateKnown,
       D!Telling
  <2>2. ASSUME NEW s \in Sockets, D!ConnectionStep(s) PROVE DebateCovered'
    BY <2>2, DebateConnectionCovers
  <2>3. ASSUME NEW h \in Handlers, D!HandlerStep(h) PROVE DebateCovered'
    BY <2>3, DebateHandlerCovers
  <2>4. CASE D!LockExpires \/ D!ClearDrafts
    <3>1. UNCHANGED <<turns, D!roomVars, debateHandler, debateUntold>> /\ drafts' \subseteq drafts
      BY <2>4 DEF D!LockExpires, D!ClearDrafts
    <3>2. \A i : D!Telling(i) => D!Telling(i)'
      BY <3>1 DEF D!Telling
    <3>3. QED BY <3>1, <3>2, DebateItemsStayKnown DEF D!roomVars
  <2>5. CASE D!Restart
    BY <2>5 DEF D!Restart, DebateCovered
  <2>6. QED BY <2>1, <2>2, <2>3, <2>4, <2>5 DEF D!Next
<1>3. QED BY <1>1, <1>2 DEF DebateRoomInv

\* However reads, drafts, late drafts of a saved turn, overlapping
\* finalizations, expiring locks, lost answers, failures and restarts
\* interleave, who has been sent its snapshot knows the turn once it is saved
\* and every draft in the buffer, or is about to be told, or who stored it has
\* failed.
THEOREM SnapshotsCover == D!Spec => []SnapshotCovers
<1>1. DebateRoomInv => SnapshotCovers
  BY DEF SnapshotCovers, DebateRoomInv, DebateCovered, DebateCoveredFor, DebateReadyHasAll, DebateKnown,
     D!SnapshotCovers,
     D!TypeOK
<1>2. D!Spec => []DebateRoomInv
  BY RoomsAssumption, DebateInit, DebateStep, PTL DEF D!Spec
<1>3. QED BY <1>1, <1>2, PTL

-----------------------------------------------------------------------------
\* In the composition each part behaves as it does alone, so that what is
\* proved of the parts holds of it.
THEOREM PartsBehaveAsAlone == GatewaySpec => Spec /\ C!Spec /\ D!Spec
<1>1. GatewayInit => Init /\ C!Init /\ D!Init
  BY DEF GatewayInit
<1>2. [GatewayNext]_<<vars, communityVars, debateVars>> => [Next]_vars /\ [C!Next]_(C!vars) /\ [D!Next]_(D!vars)
  <2>1. UNCHANGED communityVars => UNCHANGED C!vars
    BY DEF communityVars, C!vars, C!rowVars, C!roomVars, C!historyVars
  <2>2. UNCHANGED debateVars => UNCHANGED D!vars
    BY DEF debateVars, D!vars, D!dataVars, D!roomVars
  <2>3. QED BY <2>1, <2>2 DEF GatewayNext
<1>3. QED BY <1>1, <1>2, PTL DEF GatewaySpec, Spec, C!Spec, D!Spec
=============================================================================
