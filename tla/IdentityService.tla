--------------------------- MODULE IdentityService --------------------------
(* The Identity Service: every state-changing endpoint, on shared tables.   *)
EXTENDS OneTimeCodes

Ask(s) == AskToken(s) \/ AskStaff(s) \/ AskCustomer(s)
Finish(s) == FinishToken(s) \/ FinishStaff(s) \/ FinishCustomer(s)

Next == \/ \E s \in Session :
             Ask(s) \/ Lock(s) \/ Finish(s) \/ DeadlockVictim(s) \/ Crash(s)
        \/ Tick

\* PostgreSQL grants a lock that is released again and again; a handler that
\* has its rows runs on; a circle of waiting sessions is found
\* (deadlock_timeout) and one of them fails.
Fairness == /\ \A s \in Session : SF_vars(Lock(s)) /\ WF_vars(Finish(s))
            /\ WF_vars(\E s \in Session : DeadlockVictim(s))
Spec == Init /\ [][Next]_vars
FairSpec == Spec /\ Fairness

----------------------------------------------------------------------------
(* Properties *)

\* However often a refresh token is sent, and by however many clients at
\* once, a login never has two tokens that can be used: a token has one
\* successor, and loses its own validity with it. Nobody else's token is its
\* successor, nor an earlier one, so that a chain of them leads to the last
\* (TokenService.rotate, RefreshToken.replaced_by_token_id).
OneLiveTokenPerLogin ==
  \A i, k \in DOMAIN tokens :
    /\ i < k /\ tokens[i].login = tokens[k].login => tokens[i].revoked
    /\ tokens[i].by = k => i < k /\ tokens[i].login = tokens[k].login

\* Once a reused token was answered with TOKEN_REUSE_DETECTED, every token
\* that its user had when the reuse was noticed stays revoked, those of other
\* logins included, whatever was being rotated or logged out at the time
\* (TokenService.rotate, revoke_all_active). Tokens of rotations that commit
\* later are not among them.
ReuseEndsSessions == \A i \in ended : tokens[i].revoked

\* Wrong passwords sent at the same time are all counted, and an account is
\* locked by exactly LOCK_THRESHOLD of them in a row, not one earlier or
\* later; a success or a lock that has run out starts from nothing
\* (AuthService.staff_login).
MissesAreCounted ==
  \A u \in User : Exists(u) =>
    /\ users[u].misses = users[u].wrong
    /\ users[u].until # Null <=> users[u].wrong = LockThreshold

\* A code is good for one success and MAX_FAILED_ATTEMPTS failures, however
\* many requests try it at once; and every customer and every customer login
\* has a used code of its own, so that a registration which fails after its
\* code was verified leaves the code unused (OtpService.verify,
\* CustomerService.register, AuthService.customer_login).
CodesWorkOnce ==
  LET Successes(purpose) == {i \in DOMAIN codes : codes[i].purpose = purpose
                                                   /\ codes[i].used > 0}
  IN /\ \A i \in DOMAIN codes : /\ codes[i].used <= 1
                                /\ codes[i].tried = codes[i].failed
     /\ Cardinality(Successes("REGISTER")) =
          Cardinality({u \in Customers \ mix.registered : Exists(u)})
     /\ Cardinality(Successes("LOGIN")) =
          Cardinality({i \in DOMAIN tokens : tokens[i].login = i
                                             /\ tokens[i].user \in Customers})

\* The audit log says nothing that was rolled back, and leaves out at most as
\* many of the logins and refreshes as there were failures to write it
\* (AuditService.record's savepoint in the transaction of the request).
AuditTellsTheTruth ==
  LET Happened == {<<"AUTH_LOGIN_SUCCESS", i>> : i \in {k \in DOMAIN tokens : tokens[k].login = k}}
          \cup {<<"AUTH_TOKEN_REFRESHED", i>> : i \in {k \in DOMAIN tokens : tokens[k].login # k}}
      Holds(row) == CASE row[1] = "AUTH_LOGOUT" ->
                           tokens[row[2]].revoked /\ tokens[row[2]].by = 0
                      [] row[1] = "AUTH_TOKEN_REUSE_DETECTED" -> row[2] \in ended
                      [] row[1] = "STAFF_ACCOUNT_CREATED" -> Exists(row[2])
                      [] row[1] \in {"AUTH_LOGIN_SUCCESS", "AUTH_TOKEN_REFRESHED"} ->
                           row \in Happened
                      [] OTHER -> TRUE
  IN /\ \A row \in audit : Holds(row)
     /\ Cardinality(Happened \ audit) <= faults

\* Every request ends and releases its rows, whichever way it leaves its
\* handler, although requests wait for each other's rows, and those that
\* revoke the tokens of one user even in a circle: each holds the token it
\* found reused while it waits for the others (TokenService.rotate).
EveryRequestEnds == \A s \in Session : job[s] # Null ~> job[s] = Null
=============================================================================
