------------------------------ MODULE Sessions ------------------------------
(***************************************************************************)
(* The refresh-token sessions of one member.  AuthService starts a family  *)
(* with each sign-up or login, rotates its token at each refresh, and      *)
(* revokes the family when a token comes back that was revoked before.     *)
(* A refresh runs under the lock of its token's row; the UPDATE of the     *)
(* family takes the rows that a snapshot of the table names, and a         *)
(* rotation may commit in between.                                         *)
(***************************************************************************)
EXTENDS Naturals, Sequences, FiniteSets

CONSTANTS
  Calls,        \* concurrent executions of refresh
  MaxTokens     \* bound: rows of refresh_token_session

VARIABLES
  sessions,     \* refresh_token_session rows, in the order of insertion
  expired,      \* tokens past expires_at
  call          \* the executions of refresh: the token, and the rows that
                \* the UPDATE of its family has found

vars == <<sessions, expired, call>>

-----------------------------------------------------------------------------
Tokens == DOMAIN sessions
Family(t) == {u \in Tokens : sessions[u].family = sessions[t].family}
Live(t) == ~sessions[t].revoked

Idle == [pc |-> "idle", token |-> 0, found |-> {}]
\* A family is known by its first token; 0 is no replacement.
Session(f) == [family |-> f, revoked |-> FALSE, replacedBy |-> 0]

Init == sessions = <<>> /\ expired = {} /\ call = [c \in Calls |-> Idle]

\* signUp and login: issueNewSession.
Login ==
  /\ Len(sessions) < MaxTokens
  /\ sessions' = Append(sessions, Session(Len(sessions) + 1))
  /\ UNCHANGED <<expired, call>>

Expire(t) == expired' = expired \cup {t} /\ UNCHANGED <<sessions, call>>

\* The token's signature and the member have been checked.
BeginRefresh(c, t) ==
  /\ call[c] = Idle /\ t \notin expired
  /\ call' = [call EXCEPT ![c] = [Idle EXCEPT !.pc = "lock", !.token = t]]
  /\ UNCHANGED <<sessions, expired>>

\* Mutant: whether the token was revoked is not looked at under the lock.
M_Valid(t) == t \notin expired

Valid(t) == Live(t) /\ t \notin expired

\* The transaction of a valid token revokes it and inserts its successor.
Rotate(c) ==
  LET t == call[c].token  n == Len(sessions) + 1 IN
  /\ call[c].pc = "lock" /\ Valid(t) /\ n <= MaxTokens
  /\ sessions' = Append([sessions EXCEPT ![t] = [@ EXCEPT !.revoked = TRUE, !.replacedBy = n]],
                        Session(sessions[t].family))
  /\ call' = [call EXCEPT ![c] = Idle]
  /\ UNCHANGED expired

\* A token that has expired is refused, and so is one that was revoked, after
\* the UPDATE of its family has found what to revoke.
Refuse(c) ==
  LET t == call[c].token IN
  /\ call[c].pc = "lock" /\ ~Valid(t)
  /\ call' = [call EXCEPT ![c] = IF Live(t) THEN Idle
                                 ELSE [pc |-> "revoke", token |-> t, found |-> {u \in Family(t) : Live(u)}]]
  /\ UNCHANGED <<sessions, expired>>

Revoked(S) == [t \in Tokens |-> [sessions[t] EXCEPT !.revoked = @ \/ t \in S]]

RevokeFamily(c) ==
  /\ call[c].pc = "revoke"
  /\ sessions' = Revoked(call[c].found)
  /\ call' = [call EXCEPT ![c] = Idle]
  /\ UNCHANGED expired

\* The transaction is rolled back.
RefreshFails(c) ==
  /\ call[c] # Idle
  /\ call' = [call EXCEPT ![c] = Idle]
  /\ UNCHANGED <<sessions, expired>>

Logout(t) ==
  /\ sessions' = Revoked({t})
  /\ UNCHANGED <<expired, call>>

Next ==
  \/ Login
  \/ \E t \in Tokens : Expire(t) \/ Logout(t) \/ \E c \in Calls : BeginRefresh(c, t)
  \/ \E c \in Calls : Rotate(c) \/ Refuse(c) \/ RevokeFamily(c) \/ RefreshFails(c)

Spec == Init /\ [][Next]_vars

-----------------------------------------------------------------------------
\* Every variable holds what its column or handler may hold.
TypeOK ==
  /\ sessions \in Seq([family : Nat, revoked : BOOLEAN, replacedBy : Nat])
  /\ expired \subseteq Tokens
  /\ call \in [Calls -> [pc : {"idle", "lock", "revoke"}, token : Nat, found : SUBSET Nat]]
  /\ \A c \in Calls : call[c] = Idle \/ call[c].token \in Tokens

\* A family is no younger than its tokens.
FamilyIsOld == \A t \in Tokens : sessions[t].family \in 1..t

\* The tokens of a family form one chain in which each replaces the one
\* before it, and only the last may be live, although several refreshes of
\* the same token, its logout and the revocation of the family overlap.
FamilyIsAChain ==
  \A t, u \in Tokens : u \in Family(t) /\ t < u =>
    ~Live(t) /\ sessions[t].replacedBy \in (t + 1)..u

\* A family without a live token never has one again: no refresh that was
\* underway brings back what a logout or a revocation has ended.
EndedStaysEnded ==
  [][\A t \in Tokens : (\A u \in Family(t) : ~Live(u))
       => \A u \in DOMAIN sessions' : sessions'[u].family = sessions[t].family => sessions'[u].revoked]_vars
=============================================================================
