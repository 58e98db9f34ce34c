-------------------------- MODULE IdentityDatabase --------------------------
(* The tables of the Identity Service and the sessions that work on them.   *)
(* A request is one transaction at READ COMMITTED: it begins with the reads *)
(* it makes without a lock, then locks the rows of its statements one by    *)
(* one, and finishes by committing what it computed from the rows it read   *)
(* or by rolling back. The rows a session has locked, those of an earlier   *)
(* statement included, are released when it ends: sessions can wait for     *)
(* each other in a circle, of which PostgreSQL fails one. Waits that only   *)
(* delay a commit (the foreign keys to users) are not modelled.             *)
EXTENDS Integers, Sequences, FiniteSets

CONSTANTS
  Session,          \* request handlers, each with its own database session
  User,             \* the accounts that exist or may be created
  Null,
  RoleOf, GsmOf, EmailOf,   \* what each account is created with
  Inactive,         \* accounts with is_active = FALSE (no endpoint changes it)
  RefreshLife, AccessLife, CodeLife, LockLife,  \* lifetimes, in clock steps
  LockThreshold, MaxFailed,                     \* LOCK_THRESHOLD, MAX_FAILED_ATTEMPTS
  Mixes,            \* the workloads: which endpoints are in use, by whom, with
                    \* right or wrong secrets, which accounts exist already,
                    \* who has logged in just before, how far the clock runs
                    \* and how many tokens and codes there may be (bounds)
  MaxFaults         \* bound of the model

VARIABLES
  users,    \* users: account -> its login counters, Null while it does not exist
  tokens,   \* refresh_tokens, in the order of their commits
  codes,    \* otp_challenges, in the order of their commits
  audit,    \* audit_logs: the rows written, as <<action, what it is about>>
  job,      \* job[s]: the request session s is serving, or Null
  clock,
  faults,   \* failures so far
  ended,    \* ghost: the tokens that existed when a reuse was noticed
  mix       \* the workload of this behaviour

vars == <<users, tokens, codes, audit, job, clock, faults, ended, mix>>

\* The login counters of an account (auth_users); wrong is a ghost: the wrong
\* passwords since the last reset.
AccountRow == [misses : Nat, until : Nat \cup {Null}, wrong : Nat]

\* Customers are created with a gsm number, staff with an e-mail address.
\* Those who have logged in just before are staff.
ASSUME IdentityConstants ==
  /\ IsFiniteSet(Session)
  /\ Null \notin Nat /\ Null \notin AccountRow
  /\ \A u \in User : IF RoleOf[u] = "CUSTOMER" THEN GsmOf[u] # Null
                    ELSE GsmOf[u] = Null /\ EmailOf[u] # Null
  /\ {RefreshLife, CodeLife, LockLife} \subseteq Nat
  /\ LockThreshold \in Nat \ {0}
  /\ \A m \in Mixes :
       /\ m.registered \subseteq User /\ m.users \subseteq User
       /\ m.purposes \subseteq {"LOGIN", "REGISTER"}
       /\ m.loggedIn \in Seq({u \in User : RoleOf[u] # "CUSTOMER"})

Exists(u) == users[u] # Null
NewAccount == [misses |-> 0, until |-> Null, wrong |-> 0]

\* uq_users_gsm and uq_users_email: u cannot be stored beside an equal contact.
Clash(u) == \E v \in User : /\ Exists(v)
                            /\ \/ GsmOf[u] # Null /\ GsmOf[u] = GsmOf[v]
                               \/ EmailOf[u] # Null /\ EmailOf[u] = EmailOf[v]

----------------------------------------------------------------------------
(* Requests *)

\* now: the clock as the request has read it, 0 if it needs no clock.
Request(op, key, right, now) ==
  [op |-> op, key |-> key, right |-> right, free |-> TRUE, now |-> now,
   want |-> {}, have |-> {}, read |-> Null, mark |-> 0]

Begin(s, request) ==
  /\ job[s] = Null
  /\ request.op \in mix.ops
  /\ job' = [job EXCEPT ![s] = request]
  /\ UNCHANGED <<users, tokens, codes, audit, clock, faults, ended, mix>>

Serving(s, op) == job[s] # Null /\ job[s].op = op /\ job[s].want = {}

Stored(row) == CASE row[1] = "user"  -> users[row[2]]
                 [] row[1] = "token" -> tokens[row[2]]
                 [] row[1] = "code"  -> codes[row[2]]

\* The statements that update every row with a property look at the row again
\* once they have its lock: it may have been revoked or consumed meanwhile.
StillMatches(s, row) == CASE job[s].op = "reuse"   -> ~tokens[row[2]].revoked
                          [] job[s].op = "askCode" -> ~codes[row[2]].consumed
                          [] OTHER -> TRUE

\* Mutant: the rows are read without with_for_update.
NobodyHolds(row) == TRUE

Free(row) == \A s \in Session : job[s] # Null => row \notin job[s].have

\* A staff login reads the clock after it has the row, the others before.
LockRow(s, row) ==
  /\ Free(row)
  /\ job' = [job EXCEPT
       ![s].want = @ \ {row},
       ![s].have = IF StillMatches(s, row) THEN @ \cup {row} ELSE @,
       ![s].read = IF job[s].op \in {"reuse", "askCode"} THEN @ ELSE Stored(row),
       ![s].now  = IF job[s].op = "staffLogin" THEN clock ELSE @]
  /\ UNCHANGED <<users, tokens, codes, audit, clock, faults, ended, mix>>

\* PostgreSQL promises no order among the rows of an UPDATE.
Lock(s) == job[s] # Null /\ \E row \in job[s].want : LockRow(s, row)

End(s) == job' = [job EXCEPT ![s] = Null]

\* An audit row is written in a savepoint of the request's transaction. If
\* that fails the request goes on and commits without it.
Recorded(rows) == \E written \in SUBSET rows :
  /\ audit' = audit \cup written
  /\ faults' = faults + Cardinality(rows \ written)
  /\ faults' <= MaxFaults

\* A rollback: nothing the request did is kept.
Rollback(s) == /\ End(s)
               /\ UNCHANGED <<users, tokens, codes, audit, clock, faults, ended, mix>>

\* A refusal that is committed, because its audit row must be kept.
Denied(s, rows) == /\ End(s)
                   /\ Recorded(rows)
                   /\ UNCHANGED <<users, tokens, codes, clock, ended, mix>>

----------------------------------------------------------------------------
(* A circle of sessions that wait for each other. PostgreSQL finds it and   *)
(* fails one of them, whose request is rolled back.                         *)

Waits(p, q) == /\ job[p] # Null /\ job[q] # Null
               /\ job[p].want \cap job[q].have # {}

Deadlocked(s) ==
  \E C \in SUBSET Session : \E waitsFor \in [C -> C] :
    /\ s \in C
    /\ {waitsFor[p] : p \in C} = C
    /\ \A p \in C : Waits(p, waitsFor[p])

DeadlockVictim(s) == Deadlocked(s) /\ Rollback(s)

----------------------------------------------------------------------------
(* Refresh tokens that are issued; an access token is valid for AccessLife  *)
(* from the same moment, whatever becomes of the refresh token.             *)

NewToken(u, now, login) ==
  [user |-> u, expires |-> now + RefreshLife, revoked |-> FALSE, by |-> 0,
   login |-> login]
LoggedIn(u, now) == Append(tokens, NewToken(u, now, Len(tokens) + 1))

HasAccess(u) == \E i \in DOMAIN tokens :
  tokens[i].user = u /\ tokens[i].expires - RefreshLife + AccessLife > clock

\* The bound on tokens keeps room for every request that may still issue one.
Issuing(s) ==
  \/ job[s].op \in {"staffLogin", "customerLogin"}
  \/ job[s].op = "rotate" /\ job[s].key # 0 /\ ~tokens[job[s].key].revoked
RoomForToken ==
  Len(tokens) + Cardinality({s \in Session : job[s] # Null /\ Issuing(s)}) < mix.maxTokens

----------------------------------------------------------------------------
(* The environment *)

\* The process dies or the database fails before the commit.
Crash(s) ==
  /\ job[s] # Null
  /\ faults < MaxFaults
  /\ faults' = faults + 1
  /\ End(s)
  /\ UNCHANGED <<users, tokens, codes, audit, clock, ended, mix>>

Tick ==
  /\ clock < mix.time
  /\ clock' = clock + 1
  /\ UNCHANGED <<users, tokens, codes, audit, job, faults, ended, mix>>

Init ==
  /\ mix \in Mixes
  /\ users = [u \in User |-> IF u \in mix.registered THEN NewAccount ELSE Null]
  /\ tokens = [i \in DOMAIN mix.loggedIn |-> NewToken(mix.loggedIn[i], 0, i)]
  /\ audit = {<<"AUTH_LOGIN_SUCCESS", i>> : i \in DOMAIN mix.loggedIn}
  /\ codes = <<>>
  /\ job = [s \in Session |-> Null]
  /\ clock = 0 /\ faults = 0 /\ ended = {}
=============================================================================
