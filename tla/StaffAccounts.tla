---------------------------- MODULE StaffAccounts ---------------------------
(* Staff login with the account lock (AuthService.staff_login) and the      *)
(* creation of staff accounts by an Admin or from the command line          *)
(* (StaffService). A request is right when its password is.                 *)
EXTENDS RefreshTokens

Staff == {u \in User : RoleOf[u] # "CUSTOMER"}

AskStaffLogin(s, u, right) ==
  /\ EmailOf[u] # Null
  /\ RoomForToken
  /\ Begin(s, [Request("staffLogin", u, right, 0) EXCEPT
                 !.want = IF Exists(u) THEN {<<"user", u>>} ELSE {}])

MayLogIn(s) == /\ job[s].read # Null
               /\ job[s].key \in Staff \ Inactive

DenyLogin(s) ==
  /\ Serving(s, "staffLogin") /\ ~MayLogIn(s)
  /\ Denied(s, {<<"AUTH_LOGIN_FAILED", job[s].key>>})

LockedAt(account, now) == account.until # Null /\ account.until > now

DenyLocked(s) ==
  /\ Serving(s, "staffLogin") /\ MayLogIn(s)
  /\ LockedAt(job[s].read, job[s].now)
  /\ Denied(s, {<<"AUTH_ACCOUNT_LOCKED", job[s].key>>})

\* The misses that count: a lock that has run out is forgotten with them.
Misses(account) == IF account.until = Null THEN account.misses ELSE 0

AfterMiss(account, now) ==
  LET misses == Misses(account) + 1
  IN IF misses >= LockThreshold
     THEN [misses |-> LockThreshold, until |-> now + LockLife]
     ELSE [misses |-> misses, until |-> Null]

\* What the wrong passwords since the last reset come to, whatever was read.
WrongAgain(u) == (IF users[u].until = Null THEN users[u].wrong ELSE 0) + 1

MissPassword(s) ==
  LET u == job[s].key  after == AfterMiss(job[s].read, job[s].now)
  IN /\ Serving(s, "staffLogin") /\ MayLogIn(s)
     /\ ~LockedAt(job[s].read, job[s].now)
     /\ ~job[s].right
     /\ users' = [users EXCEPT ![u] = [misses |-> after.misses, until |-> after.until,
                                       wrong |-> WrongAgain(u)]]
     /\ Recorded({<<"AUTH_LOGIN_FAILED", u>>}
                  \cup IF after.until = Null THEN {} ELSE {<<"AUTH_ACCOUNT_LOCKED", u>>})
     /\ End(s)
     /\ UNCHANGED <<tokens, codes, clock, ended, mix>>

StaffLogin(s) ==
  LET u == job[s].key
  IN /\ Serving(s, "staffLogin") /\ MayLogIn(s)
     /\ ~LockedAt(job[s].read, job[s].now)
     /\ job[s].right
     /\ users' = [users EXCEPT ![u] = NewAccount]
     /\ tokens' = LoggedIn(u, job[s].now)
     /\ Recorded({<<"AUTH_LOGIN_SUCCESS", Len(tokens) + 1>>})
     /\ End(s)
     /\ UNCHANGED <<codes, clock, ended, mix>>

----------------------------------------------------------------------------
(* Creating staff. The e-mail is looked up without a lock; the unique       *)
(* constraint has the last word when the row is inserted.                   *)

Taken(u) == \E v \in User : Exists(v) /\ EmailOf[v] # Null /\ EmailOf[v] = EmailOf[u]

AskCreateStaff(s, admin, u) ==
  /\ HasAccess(admin)
  /\ Begin(s, [Request("createStaff", <<admin, u>>, RoleOf[admin] = "ADMIN", 0) EXCEPT
                 !.free = ~Taken(u)])

AskBootstrap(s, u) ==
  /\ RoleOf[u] = "ADMIN"
  /\ Begin(s, [Request("bootstrap", u, TRUE, 0) EXCEPT !.free = ~Taken(u)])

\* require_roles
DenyAccess(s) ==
  /\ Serving(s, "createStaff") /\ ~job[s].right
  /\ Denied(s, {<<"ACCESS_DENIED", job[s].key[1]>>})

CreateStaff(s) ==
  LET u == job[s].key[2]
  IN /\ Serving(s, "createStaff") /\ job[s].right
     /\ job[s].free /\ ~Clash(u)
     /\ users' = [users EXCEPT ![u] = NewAccount]
     /\ Recorded({<<"STAFF_ACCOUNT_CREATED", u>>})
     /\ End(s)
     /\ UNCHANGED <<tokens, codes, clock, ended, mix>>

BootstrapAdmin(s) ==
  LET u == job[s].key
  IN /\ Serving(s, "bootstrap")
     /\ job[s].free /\ ~Clash(u)
     /\ users' = [users EXCEPT ![u] = NewAccount]
     /\ End(s)
     /\ UNCHANGED <<tokens, codes, audit, clock, faults, ended, mix>>

\* STAFF_ALREADY_EXISTS, or for the bootstrap the Admin that is there already.
RefuseStaff(s) ==
  /\ \/ /\ Serving(s, "createStaff") /\ job[s].right
        /\ ~job[s].free \/ Clash(job[s].key[2])
     \/ /\ Serving(s, "bootstrap")
        /\ ~job[s].free \/ Clash(job[s].key)
  /\ Rollback(s)

AskStaff(s) == \/ \E u \in mix.users, right \in mix.rights : AskStaffLogin(s, u, right)
               \/ \E admin \in mix.users, u \in Staff \cap mix.users : AskCreateStaff(s, admin, u)
               \/ \E u \in mix.users : AskBootstrap(s, u)
FinishStaff(s) == \/ DenyLogin(s) \/ DenyLocked(s) \/ MissPassword(s) \/ StaffLogin(s)
                  \/ DenyAccess(s) \/ CreateStaff(s) \/ BootstrapAdmin(s)
                  \/ RefuseStaff(s)
=============================================================================
