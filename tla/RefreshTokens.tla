---------------------------- MODULE RefreshTokens ---------------------------
(* Refresh-token rotation, the detection of a token that is used again, and *)
(* logout (TokenService). The key of a request is the number of the token   *)
(* the client presents, 0 for one the service does not know.                *)
EXTENDS IdentityDatabase

Row(t) == IF t = 0 THEN {} ELSE {<<"token", t>>}

\* rotate reads the clock before it waits for the row.
AskRotate(s, t) ==
  /\ t # 0 /\ ~tokens[t].revoked => RoomForToken
  /\ Begin(s, [Request("rotate", t, TRUE, clock) EXCEPT !.want = Row(t)])

AskLogout(s, t) == Begin(s, [Request("logout", t, TRUE, 0) EXCEPT !.want = Row(t)])

Valid(s) == job[s].read # Null /\ ~job[s].read.revoked

\* Mutant: a token that was used before is not noticed.
RotatableAgain(s) ==
  LET read == job[s].read
  IN read # Null /\ read.expires > job[s].now /\ read.user \notin Inactive

Rotatable(s) ==
  LET read == job[s].read
  IN /\ Valid(s)
     /\ read.expires > job[s].now
     /\ read.user \notin Inactive

\* Mutant: the audit row names the token that was replaced.
RotateNamesTheOld(s) ==
  LET t == job[s].key  new == Len(tokens) + 1
  IN /\ Serving(s, "rotate") /\ Rotatable(s)
     /\ tokens' = Append([tokens EXCEPT ![t].revoked = TRUE, ![t].by = new],
                         NewToken(tokens[t].user, job[s].now, tokens[t].login))
     /\ Recorded({<<"AUTH_TOKEN_REFRESHED", t>>})
     /\ End(s)
     /\ UNCHANGED <<users, codes, clock, ended, mix>>

Rotate(s) ==
  LET t == job[s].key  new == Len(tokens) + 1
  IN /\ Serving(s, "rotate") /\ Rotatable(s)
     /\ tokens' = Append([tokens EXCEPT ![t].revoked = TRUE, ![t].by = new],
                         NewToken(tokens[t].user, job[s].now, tokens[t].login))
     /\ Recorded({<<"AUTH_TOKEN_REFRESHED", new>>})
     /\ End(s)
     /\ UNCHANGED <<users, codes, clock, ended, mix>>

Reused(s) == job[s].read # Null /\ job[s].read.revoked /\ job[s].read.by # 0

\* Mutant: a refusal that leaves its transaction open.
RefuseTokenOpen(s) ==
  /\ Serving(s, "rotate")
  /\ ~Rotatable(s) /\ ~Reused(s)
  /\ UNCHANGED vars

RefuseToken(s) ==
  /\ Serving(s, "rotate")
  /\ ~Rotatable(s) /\ ~Reused(s)
  /\ Rollback(s)

\* Mutant: only the token that replaced a reused one is revoked.
OnlyTheSuccessor(u) == {i \in DOMAIN tokens : tokens[i].user = u /\ ~tokens[i].revoked
                           /\ \E k \in DOMAIN tokens : tokens[k].by = i
                                                        /\ tokens[k].login = k}

\* revoke_all_active finds the rows it will revoke when it starts: a token
\* whose rotation commits later is not among them.
ToRevoke(u) == {i \in DOMAIN tokens : tokens[i].user = u /\ ~tokens[i].revoked}

NoticeReuse(s) ==
  /\ Serving(s, "rotate") /\ Reused(s)
  /\ job' = [job EXCEPT ![s].op = "reuse", ![s].mark = Len(tokens),
               ![s].want = {<<"token", i>> : i \in ToRevoke(job[s].read.user)}]
  /\ UNCHANGED <<users, tokens, codes, audit, clock, faults, ended, mix>>

EndSessions(s) ==
  /\ Serving(s, "reuse")
  /\ tokens' = [i \in DOMAIN tokens |->
                 [tokens[i] EXCEPT !.revoked = @ \/ <<"token", i>> \in job[s].have]]
  /\ ended' = ended \cup {i \in 1..job[s].mark : tokens[i].user = job[s].read.user}
  /\ Recorded({<<"AUTH_TOKEN_REUSE_DETECTED", job[s].key>>})
  /\ End(s)
  /\ UNCHANGED <<users, codes, clock, mix>>

Logout(s) ==
  /\ Serving(s, "logout") /\ Valid(s)
  /\ tokens' = [tokens EXCEPT ![job[s].key].revoked = TRUE]
  /\ Recorded({<<"AUTH_LOGOUT", job[s].key>>})
  /\ End(s)
  /\ UNCHANGED <<users, codes, clock, ended, mix>>

\* An unknown or a revoked token is logged out already.
LogoutAgain(s) ==
  /\ Serving(s, "logout") /\ ~Valid(s)
  /\ Rollback(s)

AskToken(s) == \E t \in 0..Len(tokens) : AskRotate(s, t) \/ AskLogout(s, t)
FinishToken(s) == \/ Rotate(s) \/ RefuseToken(s) \/ NoticeReuse(s)
                  \/ EndSessions(s) \/ Logout(s) \/ LogoutAgain(s)
=============================================================================
