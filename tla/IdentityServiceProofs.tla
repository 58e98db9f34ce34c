------------------------ MODULE IdentityServiceProofs ------------------------
(***************************************************************************)
(* What holds of IdentityService for every number of sessions, accounts,   *)
(* tokens, codes and failures.  The heart of the proofs is that what a     *)
(* request has read under a lock is still so: whoever changes a row holds  *)
(* its lock, and no two requests hold the same one.                        *)
(***************************************************************************)
EXTENDS IdentityService, FiniteSetTheorems, TLAPS

(* The row a request may look at: none, or one that it waits for, or has.  *)
NoRow(s) == job[s].want = {} /\ job[s].have = {} /\ job[s].read = Null

OneRow(s, row) ==
  \/ job[s].want = {row} /\ job[s].have = {} /\ job[s].read = Null
  \/ job[s].want = {} /\ job[s].have = {row} /\ job[s].read = Stored(row)

TokenRequest(s) == LET t == job[s].key IN
  \/ t = 0 /\ NoRow(s)
  \/ t \in DOMAIN tokens /\ OneRow(s, <<"token", t>>)

(* While the sessions of a user are ended, each of the tokens that existed *)
(* when it began is revoked, or locked, or waited for.                     *)
ReuseRequest(s) == LET k == job[s].key  u == job[s].read.user IN
  /\ job[s].want \cup job[s].have \subseteq {<<"token", i>> : i \in DOMAIN tokens}
  /\ k \in DOMAIN tokens /\ tokens[k].user = u
  /\ job[s].mark \in k..Len(tokens)
  /\ \A i \in 1..job[s].mark : tokens[i].user = u =>
       tokens[i].revoked \/ <<"token", i>> \in job[s].want \cup job[s].have

LoginRequest(s) == LET u == job[s].key IN
  /\ u \in User
  /\ NoRow(s) \/ (Exists(u) /\ OneRow(s, <<"user", u>>))

Purpose(s) == IF job[s].op = "register" THEN "REGISTER" ELSE "LOGIN"

CustomerRequest(s) ==
  /\ job[s].key \in Customers
  /\ \/ NoRow(s)
     \/ \E i \in DOMAIN codes : codes[i].purpose = Purpose(s) /\ OneRow(s, <<"code", i>>)

Gsm == {GsmOf[u] : u \in User}
Purposes == {"LOGIN", "REGISTER"}

CodeRequest(s) ==
  /\ job[s].key[1] \in Gsm /\ job[s].key[2] \in Purposes
  /\ job[s].want \cup job[s].have \subseteq {<<"code", i>> : i \in DOMAIN codes}

JobOK(s) ==
  /\ job[s] = [op |-> job[s].op, key |-> job[s].key, right |-> job[s].right,
               free |-> job[s].free, now |-> job[s].now, want |-> job[s].want,
               have |-> job[s].have, read |-> job[s].read, mark |-> job[s].mark]
  /\ job[s].now \in Nat /\ job[s].mark \in Nat
  /\ CASE job[s].op \in {"rotate", "logout"} -> TokenRequest(s)
       [] job[s].op = "reuse" -> ReuseRequest(s)
       [] job[s].op = "staffLogin" -> LoginRequest(s)
       [] job[s].op = "createStaff" -> job[s].key[2] \in Staff /\ NoRow(s)
       [] job[s].op = "bootstrap" ->
            job[s].key \in User /\ RoleOf[job[s].key] = "ADMIN" /\ NoRow(s)
       [] job[s].op \in {"register", "customerLogin"} -> CustomerRequest(s)
       [] job[s].op = "askCode" -> CodeRequest(s)
       [] OTHER -> FALSE

JobsOK == /\ DOMAIN job = Session
          /\ \A s \in Session : job[s] # Null => JobOK(s)

OneHolder ==
  \A s, q \in Session : s # q /\ job[s] # Null /\ job[q] # Null =>
    job[s].have \cap job[q].have = {}

TokenRow == [user : User, expires : Nat, revoked : BOOLEAN, by : Nat, login : Nat]

(* The tokens of a login form a chain, of which only the last may be valid.*)
TokensOK ==
  /\ tokens \in Seq(TokenRow)
  /\ \A i \in DOMAIN tokens :
       /\ tokens[i].login \in 1..i
       /\ tokens[i].by # 0 => /\ tokens[i].revoked
                              /\ tokens[i].by \in i+1..Len(tokens)
                              /\ tokens[tokens[i].by].login = tokens[i].login
  /\ \A i, k \in DOMAIN tokens :
       i < k /\ tokens[i].login = tokens[k].login => tokens[i].revoked
  /\ \A i \in ended : i \in DOMAIN tokens /\ tokens[i].revoked

AccountsOK ==
  /\ DOMAIN users = User
  /\ \A u \in User : Exists(u) =>
       /\ users[u] \in AccountRow
       /\ users[u].misses = users[u].wrong
       /\ users[u].wrong <= LockThreshold
       /\ users[u].until # Null <=> users[u].wrong = LockThreshold
  /\ \A u \in mix.registered : Exists(u)
  /\ mix \in Mixes /\ clock \in Nat /\ faults \in Nat

CodeRow == [gsm : Gsm, purpose : Purposes, expires : Nat, consumed : BOOLEAN,
            failed : Nat, made : Nat, tried : Nat, used : Nat]

CodesOK ==
  /\ codes \in Seq(CodeRow)
  /\ \A i \in DOMAIN codes :
       /\ codes[i].tried = codes[i].failed
       /\ codes[i].used \in 0..1 /\ (codes[i].used = 1 => codes[i].consumed)

(* No two codes, made or being made, have the same created_at.             *)
Asking(s) == job[s] # Null /\ job[s].op = "askCode"

MadeOnce ==
  /\ \A i, k \in DOMAIN codes : codes[i].made = codes[k].made => i = k
  /\ \A s \in Session : Asking(s) /\ job[s].mark # 0 =>
       /\ \A i \in DOMAIN codes : codes[i].made # job[s].mark
       /\ \A q \in Session : Asking(q) /\ job[q].mark = job[s].mark => q = s

Inv == JobsOK /\ OneHolder /\ TokensOK /\ AccountsOK /\ CodesOK /\ MadeOnce

(* The successes of codes, and what they are for.                          *)
Successes(purpose) == {i \in DOMAIN codes : codes[i].purpose = purpose /\ codes[i].used > 0}
NewCustomers == {u \in Customers \ mix.registered : Exists(u)}
CustomerLogins == {i \in DOMAIN tokens : tokens[i].login = i /\ tokens[i].user \in Customers}

EachHasACode ==
  /\ IsFiniteSet(NewCustomers) /\ IsFiniteSet(CustomerLogins)
  /\ IsFiniteSet(Successes("REGISTER")) /\ IsFiniteSet(Successes("LOGIN"))
  /\ Cardinality(Successes("REGISTER")) = Cardinality(NewCustomers)
  /\ Cardinality(Successes("LOGIN")) = Cardinality(CustomerLogins)

(* What the audit log says, and what it may leave out.                     *)
Happened == {<<"AUTH_LOGIN_SUCCESS", i>> : i \in {k \in DOMAIN tokens : tokens[k].login = k}}
       \cup {<<"AUTH_TOKEN_REFRESHED", i>> : i \in {k \in DOMAIN tokens : tokens[k].login # k}}

IsTrue(row) ==
  /\ row[1] = "AUTH_LOGOUT" => /\ row[2] \in DOMAIN tokens
                               /\ tokens[row[2]].revoked /\ tokens[row[2]].by = 0
  /\ row[1] = "AUTH_TOKEN_REUSE_DETECTED" => row[2] \in ended
  /\ row[1] = "STAFF_ACCOUNT_CREATED" => row[2] \in User /\ Exists(row[2])
  /\ row[1] \in {"AUTH_LOGIN_SUCCESS", "AUTH_TOKEN_REFRESHED"} => row \in Happened

AuditOK ==
  /\ \A row \in audit : IsTrue(row)
  /\ IsFiniteSet(Happened \ audit) /\ Cardinality(Happened \ audit) <= faults
------------------------------------------------------------------------------
LEMMA NewAccountType == NewAccount \in AccountRow /\ NewAccount # Null
  BY IdentityConstants DEF NewAccount, AccountRow

(* A contact that is free belongs to nobody, its own account included.     *)
LEMMA ClashIfExists ==
  ASSUME NEW u \in User, Exists(u)
  PROVE  Clash(u)
  BY IdentityConstants DEF Clash

LEMMA CustomersAreNotStaff ==
  /\ Customers \subseteq User /\ Staff \subseteq User
  /\ Customers \cap Staff = {}
  /\ \A u \in User : RoleOf[u] = "ADMIN" => u \in Staff
  BY IdentityConstants DEF Customers, Staff

LEMMA InitInv == Init => Inv
  <1> SUFFICES ASSUME Init PROVE Inv
    OBVIOUS
  <1>1. mix \in Mixes /\ mix.registered \subseteq User
        /\ mix.loggedIn \in Seq({u \in User : RoleOf[u] # "CUSTOMER"})
    BY IdentityConstants DEF Init
  <1>2. PICK logins : logins = mix.loggedIn
    OBVIOUS
  <1>3. /\ tokens = [i \in 1..Len(logins) |-> NewToken(logins[i], 0, i)] /\ Len(logins) \in Nat
        /\ \A i \in 1..Len(logins) : logins[i] \in User
    BY <1>1, <1>2 DEF Init
  <1>4. \A i \in 1..Len(logins) : /\ NewToken(logins[i], 0, i) \in TokenRow
                                  /\ NewToken(logins[i], 0, i).login = i
                                  /\ NewToken(logins[i], 0, i).by = 0
    BY <1>3, IdentityConstants DEF NewToken, TokenRow
  <1>5. TokensOK
    <2>1. ended = {}
      BY DEF Init
    <2>2. PICK n \in Nat : n = Len(logins)
      BY <1>3
    <2>3. /\ tokens \in [1..n -> TokenRow] /\ DOMAIN tokens = 1..n
          /\ \A i \in 1..n : tokens[i].login = i /\ tokens[i].by = 0
      BY <1>3, <1>4, <2>2
    <2>4. tokens \in Seq(TokenRow)
      BY <2>2, <2>3
    <2> QED
      BY <2>1, <2>3, <2>4 DEF TokensOK
  <1>6. AccountsOK
    BY <1>1, NewAccountType, IdentityConstants DEF AccountsOK, Init, Exists, NewAccount, AccountRow
  <1> QED
    BY <1>5, <1>6 DEF Inv, Init, JobsOK, OneHolder, CodesOK, MadeOnce, Asking
------------------------------------------------------------------------------
(* What a step of s may do to rows: those it has no lock on stay as they   *)
(* are, and no row goes back on what others rely on.                       *)
Keeps(s) ==
  /\ DOMAIN tokens \subseteq DOMAIN tokens' /\ DOMAIN codes \subseteq DOMAIN codes'
  /\ \A i \in DOMAIN tokens :
       /\ tokens'[i].user = tokens[i].user /\ tokens'[i].login = tokens[i].login
       /\ tokens[i].revoked => tokens'[i].revoked /\ tokens'[i].by = tokens[i].by
       /\ <<"token", i>> \notin job[s].have => tokens'[i] = tokens[i]
  /\ \A u \in User : Exists(u) =>
       /\ users'[u] # Null
       /\ <<"user", u>> \notin job[s].have => users'[u] = users[u]
  /\ \A i \in DOMAIN codes :
       /\ codes'[i].purpose = codes[i].purpose /\ codes'[i].made = codes[i].made
       /\ <<"code", i>> \notin job[s].have => codes'[i] = codes[i]

LEMMA Numbered ==
  ASSUME Inv
  PROVE  /\ DOMAIN tokens = 1..Len(tokens) /\ Len(tokens) \in Nat
         /\ DOMAIN codes = 1..Len(codes) /\ Len(codes) \in Nat
         /\ \A i \in DOMAIN tokens : tokens[i] \in TokenRow
         /\ \A i \in DOMAIN codes : codes[i] \in CodeRow
  BY DEF Inv, TokensOK, CodesOK

(* One row stays what a request read, and what it relies on stays true.    *)
LEMMA OneRowStays ==
  ASSUME Inv, NEW s \in Session, job[s] # Null, Keeps(s), NEW q \in Session, q # s, job[q] # Null,
         job'[q] = job[q], NEW row, OneRow(q, row),
         \/ \E i \in DOMAIN tokens : row = <<"token", i>>
         \/ \E u \in User : Exists(u) /\ row = <<"user", u>>
         \/ \E i \in DOMAIN codes : row = <<"code", i>>
  PROVE  OneRow(q, row)'
  <1>1. CASE job[q].have = {row}
    <2>1. row \notin job[s].have
      BY <1>1 DEF Inv, OneHolder
    <2>2. Stored(row)' = Stored(row)
      BY <2>1 DEF Keeps, Stored
    <2> QED
      BY <2>2 DEF OneRow
  <1>2. CASE job[q].have # {row}
    BY <1>2 DEF OneRow
  <1> QED
    BY <1>1, <1>2

LEMMA OthersStay ==
  ASSUME Inv, NEW s \in Session, job[s] # Null, Keeps(s), Len(tokens) <= Len(tokens)', Len(tokens') \in Nat,
         NEW q \in Session, q # s, job[q] # Null, job'[q] = job[q]
  PROVE  JobOK(q)'
  <1>1. JobOK(q)
    BY DEF Inv, JobsOK
  <1>2. NoRow(q) => NoRow(q)'
    BY DEF NoRow
  <1>3. ASSUME job[q].op \in {"rotate", "logout"} PROVE TokenRequest(q)'
    <2>1. TokenRequest(q)
      BY <1>1, <1>3 DEF JobOK
    <2>2. CASE job[q].key = 0 /\ NoRow(q)
      BY <1>2, <2>2 DEF TokenRequest
    <2>3. CASE job[q].key \in DOMAIN tokens /\ OneRow(q, <<"token", job[q].key>>)
      <3>1. OneRow(q, <<"token", job[q].key>>)'
        <4>1. PICK row : row = <<"token", job[q].key>>
          OBVIOUS
        <4>2. OneRow(q, row)'
          BY <2>3, <4>1, OneRowStays
        <4> QED
          BY <4>1, <4>2
      <3> QED
        BY <2>3, <3>1 DEF TokenRequest, Keeps
    <2> QED
      BY <2>1, <2>2, <2>3 DEF TokenRequest
  <1>4. ASSUME job[q].op = "reuse" PROVE ReuseRequest(q)'
    <2>1. ReuseRequest(q)
      BY <1>1, <1>4 DEF JobOK
    <2>2. job[q].mark \in Nat /\ \A i \in 1..job[q].mark : i \in DOMAIN tokens
      BY <1>1, <2>1, Numbered DEF JobOK, ReuseRequest
    <2>3. (job[q].want \cup job[q].have \subseteq {<<"token", i>> : i \in DOMAIN tokens})'
      BY <2>1 DEF ReuseRequest, Keeps
    <2>4. job[q].key \in DOMAIN tokens /\ tokens[job[q].key].user = job[q].read.user
          /\ job[q].mark \in job[q].key..Len(tokens)
      BY <2>1 DEF ReuseRequest
    <2>5. (job[q].key \in DOMAIN tokens /\ tokens[job[q].key].user = job[q].read.user)'
      BY <2>4 DEF Keeps
    <2>6. (job[q].mark \in job[q].key..Len(tokens))'
      BY <2>4, Numbered
    <2>7. ASSUME NEW i \in 1..job[q].mark, tokens'[i].user = job[q].read.user
          PROVE  tokens'[i].revoked \/ <<"token", i>> \in job[q].want \cup job[q].have
      BY <2>1, <2>2, <2>7 DEF ReuseRequest, Keeps
    <2> QED
      BY <2>3, <2>5, <2>6, <2>7 DEF ReuseRequest
  <1>5. ASSUME job[q].op = "staffLogin" PROVE LoginRequest(q)'
    <2>1. LoginRequest(q)
      BY <1>1, <1>5 DEF JobOK
    <2>2. CASE Exists(job[q].key) /\ OneRow(q, <<"user", job[q].key>>)
      <3>1. PICK row : row = <<"user", job[q].key>>
        OBVIOUS
      <3>2. OneRow(q, row)'
        BY <2>1, <2>2, <3>1, OneRowStays DEF LoginRequest
      <3> QED
        BY <2>1, <2>2, <3>1, <3>2 DEF LoginRequest, Exists, Keeps
    <2> QED
      BY <1>2, <2>1, <2>2 DEF LoginRequest
  <1>6. ASSUME job[q].op \in {"register", "customerLogin"} PROVE CustomerRequest(q)'
    <2>1. CustomerRequest(q)
      BY <1>1, <1>6 DEF JobOK
    <2>2. CASE ~NoRow(q)
      <3>1. PICK i \in DOMAIN codes : codes[i].purpose = Purpose(q) /\ OneRow(q, <<"code", i>>)
        BY <2>1, <2>2 DEF CustomerRequest
      <3>2. OneRow(q, <<"code", i>>)'
        <4>1. PICK row : row = <<"code", i>>
          OBVIOUS
        <4>2. OneRow(q, row)'
          BY <3>1, <4>1, OneRowStays
        <4> QED
          BY <4>1, <4>2
      <3>3. i \in DOMAIN codes' /\ codes'[i].purpose = Purpose(q)'
        BY <3>1 DEF Keeps, Purpose
      <3> QED
        BY <2>1, <3>2, <3>3 DEF CustomerRequest
    <2> QED
      BY <1>2, <2>1, <2>2 DEF CustomerRequest
  <1>7. ASSUME job[q].op = "askCode" PROVE CodeRequest(q)'
    BY <1>1, <1>7 DEF JobOK, CodeRequest, Keeps
  <1> HIDE <1>1
  <1> QED
    <2>1. JobOK(q)
      BY <1>1
    <2> QED
      BY <1>2, <1>3, <1>4, <1>5, <1>6, <1>7, <2>1 DEF JobOK
(* A session that ends leaves the requests of the others as they are.      *)
LEMMA EndOK ==
  ASSUME Inv, NEW s \in Session, job[s] # Null, End(s), Keeps(s),
         Len(tokens) <= Len(tokens)', Len(tokens') \in Nat
  PROVE  (JobsOK /\ OneHolder)'
  <1>1. /\ DOMAIN job' = Session /\ job'[s] = Null
        /\ \A q \in Session \ {s} : job'[q] = job[q]
    BY DEF End, Inv, JobsOK
  <1>2. ASSUME NEW q \in Session, job'[q] # Null PROVE JobOK(q)'
    <2>1. q # s /\ job[q] # Null /\ job'[q] = job[q]
      BY <1>1, <1>2
    <2> QED
      BY <2>1, OthersStay
  <1>3. OneHolder'
    BY <1>1 DEF Inv, OneHolder
  <1> QED
    BY <1>1, <1>2, <1>3 DEF JobsOK

(* Nor does a step that changes no row, if all is well with its own.       *)
LEMMA SameRows ==
  ASSUME UNCHANGED <<users, tokens, codes>>, NEW q, job'[q] = job[q], JobOK(q)
  PROVE  JobOK(q)'
  BY DEF JobOK, TokenRequest, ReuseRequest, LoginRequest, CustomerRequest, CodeRequest,
         NoRow, OneRow, Stored, Purpose, Exists

LEMMA OwnJobOK ==
  ASSUME Inv, NEW s \in Session, UNCHANGED <<users, tokens, codes>>,
         DOMAIN job' = Session, \A q \in Session \ {s} : job'[q] = job[q], JobOK(s)',
         \A q \in Session \ {s} : job[q] # Null => job'[s].have \cap job[q].have = {}
  PROVE  (JobsOK /\ OneHolder)'
  <1>1. ASSUME NEW q \in Session, q # s, job'[q] # Null PROVE JobOK(q)'
    <2>1. JobOK(q) /\ job'[q] = job[q]
      BY <1>1 DEF Inv, JobsOK
    <2> QED
      BY <2>1, SameRows
  <1>2. OneHolder'
    BY DEF Inv, OneHolder
  <1> QED
    BY <1>1, <1>2 DEF JobsOK

(* The tables' own invariants, while the tables stay as they are.          *)
LEMMA SameTables ==
  ASSUME Inv, UNCHANGED <<users, tokens, codes, ended, mix>>, clock' \in Nat, faults' \in Nat
  PROVE  (TokensOK /\ AccountsOK /\ CodesOK)'
  BY DEF Inv, TokensOK, AccountsOK, CodesOK, Exists

(* created_at stays unique when nobody gets a new one.                     *)
LEMMA SameMade ==
  ASSUME Inv, NEW s \in Session, DOMAIN codes' = DOMAIN codes,
         \A i \in DOMAIN codes : codes'[i].made = codes[i].made,
         \A q \in Session \ {s} : job'[q] = job[q],
         Asking(s)' => job'[s].mark = 0 \/ (Asking(s) /\ job'[s].mark = job[s].mark)
  PROVE  MadeOnce'
  <1>1. \A q \in Session : Asking(q)' /\ job'[q].mark # 0 =>
                             Asking(q) /\ job'[q].mark = job[q].mark
    BY DEF Asking
  <1> QED
    BY <1>1 DEF Inv, MadeOnce

(* A rollback, and a refusal that is committed, end a request and nothing  *)
(* else.                                                                   *)
LEMMA RowsType ==
  ASSUME NEW rows, IsFiniteSet(rows), NEW written \in SUBSET rows
  PROVE  Cardinality(rows \ written) \in Nat
  <1>1. rows \ written \in SUBSET rows
    OBVIOUS
  <1>2. IsFiniteSet(rows \ written)
    BY <1>1, FS_Subset
  <1> QED
    BY <1>2, FS_CardinalityType

LEMMA RecordedType ==
  ASSUME Inv, NEW rows, IsFiniteSet(rows), Recorded(rows)
  PROVE  faults' \in Nat /\ faults <= faults' /\ audit \subseteq audit' /\ audit' \subseteq audit \cup rows
  <1>1. PICK written \in SUBSET rows : /\ audit' = audit \cup written
                                       /\ faults' = faults + Cardinality(rows \ written)
    BY DEF Recorded
  <1>2. Cardinality(rows \ written) \in Nat /\ faults \in Nat
    BY RowsType DEF Inv, AccountsOK
  <1> QED
    BY <1>1, <1>2

LEMMA EndOnly ==
  ASSUME Inv, NEW s \in Session, job[s] # Null, End(s), UNCHANGED <<users, tokens, codes, ended, clock, mix>>,
         faults' \in Nat
  PROVE  Inv'
  <1>1. Keeps(s) /\ Len(tokens) <= Len(tokens)' /\ Len(tokens') \in Nat
    BY Numbered DEF Keeps, Exists
  <1>2. (JobsOK /\ OneHolder)'
    BY <1>1, EndOK
  <1>3. (TokensOK /\ AccountsOK /\ CodesOK)'
    BY SameTables DEF Inv, AccountsOK
  <1>4. MadeOnce'
    <2>1. job'[s] = Null /\ \A q \in Session \ {s} : job'[q] = job[q]
      BY DEF End, Inv, JobsOK
    <2> QED
      BY <2>1, SameMade DEF Asking
  <1> QED
    BY <1>2, <1>3, <1>4 DEF Inv

LEMMA RollbackKeeps ==
  ASSUME Inv, NEW s \in Session, job[s] # Null, Rollback(s)
  PROVE  Inv'
  BY EndOnly DEF Rollback, Inv, AccountsOK

LEMMA DeniedKeeps ==
  ASSUME Inv, NEW s \in Session, job[s] # Null, NEW rows, IsFiniteSet(rows), Denied(s, rows)
  PROVE  Inv'
  BY EndOnly, RecordedType DEF Denied

LEMMA CrashKeeps ==
  ASSUME Inv, NEW s \in Session, Crash(s)
  PROVE  Inv'
  BY EndOnly DEF Crash, Inv, AccountsOK

LEMMA VictimKeeps ==
  ASSUME Inv, NEW s \in Session, DeadlockVictim(s)
  PROVE  Inv'
  BY RollbackKeeps DEF DeadlockVictim, Deadlocked, Waits

LEMMA TickKeeps ==
  ASSUME Inv, Tick
  PROVE  Inv'
  <1>1. (TokensOK /\ AccountsOK /\ CodesOK)'
    BY SameTables DEF Tick, Inv, AccountsOK
  <1>2. (JobsOK /\ OneHolder)'
    BY SameRows DEF Tick, Inv, JobsOK, OneHolder
  <1>3. MadeOnce'
    BY DEF Tick, Inv, MadeOnce, Asking
  <1> QED
    BY <1>1, <1>2, <1>3 DEF Inv
------------------------------------------------------------------------------
(* Requests that begin, and take their locks                               *)

(* What a request is when it begins.                                       *)
Asks(op, key, right, free, now, want) ==
  [op |-> op, key |-> key, right |-> right, free |-> free, now |-> now,
   want |-> want, have |-> {}, read |-> Null, mark |-> 0]

Wanting(r, want) == [r EXCEPT !.want = want]
Freed(r, free) == [r EXCEPT !.free = free]
Both(r, free, want) == [r EXCEPT !.free = free, !.want = want]

LEMMA RequestAsks ==
  ASSUME NEW op, NEW key, NEW right, NEW now, NEW free, NEW want
  PROVE  /\ \E f : Wanting(Request(op, key, right, now), want) =
                      Asks(op, key, right, f, now, want)
         /\ Freed(Request(op, key, right, now), free) =
              Asks(op, key, right, free, now, {})
         /\ Both(Request(op, key, right, now), free, want) =
              Asks(op, key, right, free, now, want)
  <1>1. PICK yes : yes = TRUE
    OBVIOUS
  <1>2. Request(op, key, right, now) = Asks(op, key, right, yes, now, {})
    BY <1>1 DEF Request, Asks
  <1>3. [Asks(op, key, right, yes, now, {}) EXCEPT !.want = want] =
          Asks(op, key, right, yes, now, want)
    BY DEF Asks
  <1>4. [Asks(op, key, right, yes, now, {}) EXCEPT !.free = free] =
          Asks(op, key, right, free, now, {})
    BY DEF Asks
  <1>5. [Asks(op, key, right, yes, now, {}) EXCEPT !.free = free, !.want = want] =
          Asks(op, key, right, free, now, want)
    <2>1. \A r : [r EXCEPT !.free = free, !.want = want] = [[r EXCEPT !.free = free] EXCEPT !.want = want]
      OBVIOUS
    <2>2. [Asks(op, key, right, free, now, {}) EXCEPT !.want = want] = Asks(op, key, right, free, now, want)
      BY DEF Asks
    <2> QED
      BY <1>4, <2>1, <2>2
  <1> QED
    BY <1>2, <1>3, <1>4, <1>5 DEF Wanting, Freed, Both

(* A request holds no row yet when it begins.                              *)
LEMMA BeginKeeps ==
  ASSUME Inv, NEW s \in Session, NEW op, NEW key, NEW right, NEW free, NEW now, NEW want,
         Begin(s, Asks(op, key, right, free, now, want)),
         job'[s] = Asks(op, key, right, free, now, want) => JobOK(s)'
  PROVE  Inv'
  <1> DEFINE request == Asks(op, key, right, free, now, want)
  <1>0. request.have = {} /\ request.mark = 0
    BY DEF Asks
  <1> HIDE DEF request
  <1>1. job' = [job EXCEPT ![s] = request] /\ job'[s] = request
        /\ UNCHANGED <<users, tokens, codes, audit, clock, faults, ended, mix>>
    BY DEF Begin, Inv, JobsOK, request
  <1>2. (JobsOK /\ OneHolder)'
    <2>1. DOMAIN job' = Session /\ \A q \in Session \ {s} : job'[q] = job[q]
      BY <1>1 DEF Inv, JobsOK
    <2>2. JobOK(s)' /\ job'[s].have = {}
      BY <1>0, <1>1 DEF request
    <2> QED
      BY <1>1, <2>1, <2>2, OwnJobOK
  <1>3. (TokensOK /\ AccountsOK /\ CodesOK)'
    BY <1>1, SameTables DEF Inv, AccountsOK
  <1>4. MadeOnce'
    <2>1. \A q \in Session \ {s} : job'[q] = job[q]
      BY <1>1 DEF Inv, JobsOK
    <2> QED
      BY <1>0, <1>1, <2>1, SameMade
  <1> QED
    BY <1>2, <1>3, <1>4 DEF Inv

LEMMA AskTokenKeeps ==
  ASSUME Inv, NEW s \in Session, NEW t \in 0..Len(tokens), AskRotate(s, t) \/ AskLogout(s, t)
  PROVE  Inv'
  <1>0. PICK yes : \E op \in {"rotate", "logout"}, now \in Nat :
          Begin(s, Wanting(Request(op, t, yes, now), Row(t)))
    <2>1. PICK yes : yes = TRUE
      OBVIOUS
    <2> QED
      BY <2>1 DEF AskRotate, AskLogout, Inv, AccountsOK, Wanting
  <1>1. PICK op \in {"rotate", "logout"}, now \in Nat :
          Begin(s, Wanting(Request(op, t, yes, now), Row(t)))
    BY <1>0
  <1>2. PICK free : Begin(s, Asks(op, t, yes, free, now, Row(t)))
    <2>1. PICK f : Wanting(Request(op, t, yes, now), Row(t))
                     = Asks(op, t, yes, f, now, Row(t))
      BY RequestAsks
    <2> QED
      BY <1>1, <2>1
  <1>3. UNCHANGED tokens /\ (t # 0 => t \in DOMAIN tokens)
    BY <1>2, Numbered DEF Begin
  <1>4. ASSUME job'[s] = Asks(op, t, yes, free, now, Row(t)) PROVE JobOK(s)'
    <2>1. TokenRequest(s)'
      BY <1>3, <1>4 DEF TokenRequest, NoRow, OneRow, Row, Asks
    <2> QED
      BY <1>4, <2>1 DEF JobOK, Asks
  <1> QED
    BY <1>2, <1>4, BeginKeeps

LEMMA AskStaffLoginKeeps ==
  ASSUME Inv, NEW s \in Session, NEW u \in User, NEW right, AskStaffLogin(s, u, right)
  PROVE  Inv'
  <1> DEFINE want == IF Exists(u) THEN {<<"user", u>>} ELSE {}
  <1>1. PICK free : Begin(s, Asks("staffLogin", u, right, free, 0, want)) /\ UNCHANGED users
    <2>1. PICK f : Wanting(Request("staffLogin", u, right, 0), want)
                     = Asks("staffLogin", u, right, f, 0, want)
      BY RequestAsks
    <2>2. Begin(s, Wanting(Request("staffLogin", u, right, 0), want)) /\ UNCHANGED users
      BY DEF AskStaffLogin, Begin, Wanting
    <2> QED
      BY <2>1, <2>2
  <1>2. ASSUME job'[s] = Asks("staffLogin", u, right, free, 0, want) PROVE JobOK(s)'
    <2>1. LoginRequest(s)'
      BY <1>1, <1>2 DEF LoginRequest, NoRow, OneRow, Exists, Asks
    <2> QED
      BY <1>2, <2>1 DEF JobOK, Asks
  <1> QED
    BY <1>1, <1>2, BeginKeeps

LEMMA AskCreateStaffKeeps ==
  ASSUME Inv, NEW s \in Session, NEW admin, NEW u \in Staff, AskCreateStaff(s, admin, u)
  PROVE  Inv'
  <1>1. PICK right, free : Begin(s, Asks("createStaff", <<admin, u>>, right, free, 0, {}))
    <2>1. PICK right, free :
            Begin(s, Freed(Request("createStaff", <<admin, u>>, right, 0), free))
      BY DEF AskCreateStaff, Freed
    <2>2. Freed(Request("createStaff", <<admin, u>>, right, 0), free)
            = Asks("createStaff", <<admin, u>>, right, free, 0, {})
      BY RequestAsks
    <2> QED
      BY <2>1, <2>2
  <1>2. ASSUME job'[s] = Asks("createStaff", <<admin, u>>, right, free, 0, {}) PROVE JobOK(s)'
    BY <1>2 DEF JobOK, NoRow, Asks
  <1> QED
    BY <1>1, <1>2, BeginKeeps

LEMMA AskBootstrapKeeps ==
  ASSUME Inv, NEW s \in Session, NEW u \in User, AskBootstrap(s, u)
  PROVE  Inv'
  <1>1. PICK right, free : Begin(s, Asks("bootstrap", u, right, free, 0, {}))
    <2>1. PICK yes, free : Begin(s, Freed(Request("bootstrap", u, yes, 0), free))
      <3>1. PICK yes : yes = TRUE
        OBVIOUS
      <3> QED
        BY <3>1 DEF AskBootstrap, Freed
    <2>2. Freed(Request("bootstrap", u, yes, 0), free)
            = Asks("bootstrap", u, yes, free, 0, {})
      BY RequestAsks
    <2> QED
      BY <2>1, <2>2
  <1>2. ASSUME job'[s] = Asks("bootstrap", u, right, free, 0, {}) PROVE JobOK(s)'
    BY <1>2 DEF JobOK, NoRow, AskBootstrap, Asks
  <1> QED
    BY <1>1, <1>2, BeginKeeps

LEMMA AskCodeKeeps ==
  ASSUME Inv, NEW s \in Session, NEW gsm \in Gsm, NEW purpose \in Purposes, AskCode(s, gsm, purpose)
  PROVE  Inv'
  <1>1. PICK right, free, want :
          /\ want \subseteq {<<"code", i>> : i \in DOMAIN codes}
          /\ Begin(s, Asks("askCode", <<gsm, purpose>>, right, free, clock, want))
    <2>1. PICK yes, want : /\ want \subseteq {<<"code", i>> : i \in DOMAIN codes}
                           /\ Begin(s, Wanting(Request("askCode", <<gsm, purpose>>, yes, clock), want))
      <3>1. PICK yes : yes = TRUE
        OBVIOUS
      <3> QED
        BY <3>1 DEF AskCode, AskedFor, Wanting
    <2>2. PICK f : Wanting(Request("askCode", <<gsm, purpose>>, yes, clock), want)
                     = Asks("askCode", <<gsm, purpose>>, yes, f, clock, want)
      BY RequestAsks
    <2> QED
      BY <2>1, <2>2
  <1>2. UNCHANGED codes /\ clock \in Nat
    BY <1>1 DEF Begin, Inv, AccountsOK
  <1>3. ASSUME job'[s] = Asks("askCode", <<gsm, purpose>>, right, free, clock, want)
        PROVE  JobOK(s)'
    BY <1>1, <1>2, <1>3 DEF JobOK, CodeRequest, Asks
  <1> QED
    BY <1>1, <1>3, BeginKeeps

(* The newest code is one code: no two have the same created_at.           *)
LEMMA LatestIsOne ==
  ASSUME Inv, NEW gsm, NEW purpose
  PROVE  \/ Latest(gsm, purpose) = {}
         \/ \E i \in DOMAIN codes : codes[i].purpose = purpose
                                    /\ Latest(gsm, purpose) = {<<"code", i>>}
  <1> SUFFICES ASSUME Latest(gsm, purpose) # {}
               PROVE  \E i \in DOMAIN codes : codes[i].purpose = purpose
                                              /\ Latest(gsm, purpose) = {<<"code", i>>}
    OBVIOUS
  <1>1. PICK i \in AskedFor(gsm, purpose) : /\ <<"code", i>> \in Latest(gsm, purpose)
            /\ \A l \in AskedFor(gsm, purpose) : codes[l].made <= codes[i].made
    BY DEF Latest
  <1>2. i \in DOMAIN codes /\ codes[i].purpose = purpose
    BY DEF AskedFor
  <1>3. ASSUME NEW k \in AskedFor(gsm, purpose),
               \A l \in AskedFor(gsm, purpose) : codes[l].made <= codes[k].made
        PROVE  k = i
    <2>1. k \in DOMAIN codes /\ codes[k].made \in Nat /\ codes[i].made \in Nat
      BY <1>2, Numbered DEF AskedFor, CodeRow
    <2>2. codes[k].made = codes[i].made
      BY <1>1, <1>3, <2>1
    <2> QED
      BY <1>2, <2>1, <2>2 DEF Inv, MadeOnce
  <1>4. Latest(gsm, purpose) = {<<"code", i>>}
    BY <1>1, <1>3 DEF Latest
  <1> QED
    BY <1>2, <1>4

LEMMA AskCustomerKeeps ==
  ASSUME Inv, NEW s \in Session, NEW u \in Customers, NEW right,
         AskRegister(s, u, right) \/ AskCustomerLogin(s, u, right)
  PROVE  Inv'
  <1>0. PICK op \in {"register", "customerLogin"} : \E free, want :
          /\ want = {} \/ want = Latest(GsmOf[u], IF op = "register" THEN "REGISTER" ELSE "LOGIN")
          /\ Begin(s, Both(Request(op, u, right, clock), free, want))
    BY DEF AskRegister, AskCustomerLogin, Both
  <1>1. PICK free, want :
          /\ want = {} \/ want = Latest(GsmOf[u], IF op = "register" THEN "REGISTER" ELSE "LOGIN")
          /\ Begin(s, Asks(op, u, right, free, clock, want))
    <2>1. PICK free, want :
          /\ want = {} \/ want = Latest(GsmOf[u], IF op = "register" THEN "REGISTER" ELSE "LOGIN")
          /\ Begin(s, Both(Request(op, u, right, clock), free, want))
      BY <1>0
    <2>2. Both(Request(op, u, right, clock), free, want)
            = Asks(op, u, right, free, clock, want)
      BY RequestAsks
    <2> QED
      BY <2>1, <2>2
  <1>2. UNCHANGED codes /\ clock \in Nat
    BY <1>1 DEF Begin, Inv, AccountsOK
  <1>3. ASSUME job'[s] = Asks(op, u, right, free, clock, want) PROVE JobOK(s)'
    <2>1. CASE want = {}
      BY <1>3, <1>2, <2>1 DEF Asks, JobOK, CustomerRequest, NoRow
    <2>2. CASE want # {}
      <3>1. PICK i \in DOMAIN codes :
              /\ codes[i].purpose = IF op = "register" THEN "REGISTER" ELSE "LOGIN"
              /\ want = {<<"code", i>>}
        BY <1>1, <2>2, LatestIsOne
      <3>2. OneRow(s, <<"code", i>>)' /\ Purpose(s)' = codes'[i].purpose
        BY <1>2, <1>3, <3>1 DEF Asks, OneRow, Purpose
      <3>3. CustomerRequest(s)'
        BY <1>2, <1>3, <3>2 DEF Asks, CustomerRequest
      <3> QED
        BY <1>2, <1>3, <3>3 DEF Asks, JobOK
    <2> QED
      BY <2>1, <2>2
  <1> QED
    BY <1>1, <1>3, BeginKeeps

LEMMA AskKeeps ==
  ASSUME Inv, NEW s \in Session, Ask(s)
  PROVE  Inv'
  <1>1. mix.users \subseteq User /\ mix.purposes \subseteq Purposes
    BY IdentityConstants DEF Inv, AccountsOK, Purposes
  <1>2. CASE AskToken(s)
    BY <1>2, AskTokenKeeps DEF AskToken
  <1>3. CASE AskStaff(s)
    BY <1>1, <1>3, AskStaffLoginKeeps, AskCreateStaffKeeps, AskBootstrapKeeps DEF AskStaff
  <1>4. CASE AskCustomer(s)
    BY <1>1, <1>4, AskCodeKeeps, AskCustomerKeeps DEF AskCustomer, Gsm, Customers
  <1> QED
    BY <1>2, <1>3, <1>4 DEF Ask
(* What a request has once it gets the next row it waits for.              *)
Now(s) == IF job[s].op = "staffLogin" THEN clock ELSE job[s].now
Have(s, row) == IF StillMatches(s, row) THEN job[s].have \cup {row} ELSE job[s].have
Read(s, row) == IF job[s].op \in {"reuse", "askCode"} THEN job[s].read ELSE Stored(row)
Locked(s, row) ==
  [op |-> job[s].op, key |-> job[s].key, right |-> job[s].right, free |-> job[s].free,
   now |-> Now(s), want |-> job[s].want \ {row}, have |-> Have(s, row),
   read |-> Read(s, row), mark |-> job[s].mark]

LEMMA LockFields ==
  ASSUME Inv, NEW s \in Session, job[s] # Null,
         NEW row \in job[s].want, LockRow(s, row)
  PROVE  /\ job' = [job EXCEPT ![s] = Locked(s, row)]
         /\ Free(row) /\ job[s] # Null /\ job[s].want # {}
         /\ UNCHANGED <<users, tokens, codes, audit, clock, faults, ended, mix>>
  <1>1. job[s] = [op |-> job[s].op, key |-> job[s].key, right |-> job[s].right,
                  free |-> job[s].free, now |-> job[s].now, want |-> job[s].want,
                  have |-> job[s].have, read |-> job[s].read, mark |-> job[s].mark]
        /\ DOMAIN job = Session
    BY DEF LockRow, Inv, JobsOK, JobOK
  <1> DEFINE want == job[s].want \ {row}
             have == Have(s, row)
             read == Read(s, row)
             now == Now(s)
  <1>2. job' = [job EXCEPT ![s].want = want, ![s].have = have, ![s].read = read, ![s].now = now]
    BY DEF LockRow, Have, Read, Now
  <1> HIDE DEF want, have, read, now
  <1>3. /\ DOMAIN job' = Session /\ \A q \in Session \ {s} : job'[q] = job[q]
        /\ job'[s] = [job[s] EXCEPT !.want = want, !.have = have, !.read = read, !.now = now]
    BY <1>1, <1>2
  <1>4. job'[s] = [op |-> job[s].op, key |-> job[s].key, right |-> job[s].right,
                   free |-> job[s].free, now |-> now, want |-> want, have |-> have,
                   read |-> read, mark |-> job[s].mark]
    BY <1>1, <1>3
  <1>5. job'[s] = Locked(s, row)
    BY <1>4 DEF Locked, want, have, read, now
  <1>6. job' = [job EXCEPT ![s] = Locked(s, row)]
    BY <1>1, <1>2, <1>3, <1>5
  <1> QED
    BY <1>6 DEF LockRow
LEMMA LockOneRow ==
  ASSUME Inv, NEW s \in Session, job[s] # Null, job[s].op \notin {"reuse", "askCode"},
         NEW only, OneRow(s, only), NEW row \in job[s].want, LockRow(s, row)
  PROVE  OneRow(s, only)'
  <1>1. job[s].want = {row} /\ job[s].have = {} /\ only = row
    BY DEF OneRow
  <1>2. StillMatches(s, row)
    BY DEF StillMatches
  <1>3. /\ job'[s] = Locked(s, row) /\ UNCHANGED <<users, tokens, codes>>
    BY LockFields DEF Inv, JobsOK
  <1>4. job'[s].want = {} /\ job'[s].have = {row} /\ job'[s].read = Stored(row)
    BY <1>1, <1>2, <1>3 DEF Locked, Have, Read
  <1>5. Stored(row)' = Stored(row)
    BY <1>3 DEF Stored
  <1> QED
    BY <1>1, <1>4, <1>5 DEF OneRow

LEMMA LockReuse ==
  ASSUME Inv, NEW s \in Session, job[s] # Null, job[s].op = "reuse",
         NEW row \in job[s].want, LockRow(s, row)
  PROVE  ReuseRequest(s)'
  <1>1. ReuseRequest(s) /\ job[s].mark \in Nat
    BY DEF Inv, JobsOK, JobOK
  <1>2. PICK k \in DOMAIN tokens : row = <<"token", k>>
    BY <1>1 DEF ReuseRequest
  <1>3. /\ job'[s] = Locked(s, row) /\ UNCHANGED <<users, tokens, codes>>
    BY LockFields DEF Inv, JobsOK
  <1>4. StillMatches(s, row) <=> ~tokens[k].revoked
    BY <1>2 DEF StillMatches
  <1>5. /\ job'[s].key = job[s].key /\ job'[s].mark = job[s].mark /\ job'[s].read = job[s].read
        /\ job'[s].want = job[s].want \ {row}
        /\ job'[s].have = IF tokens[k].revoked THEN job[s].have ELSE job[s].have \cup {row}
    BY <1>3, <1>4 DEF Locked, Have, Read
  <1>6. job'[s].want \cup job'[s].have \subseteq {<<"token", i>> : i \in DOMAIN tokens}
    BY <1>1, <1>2, <1>5 DEF ReuseRequest
  <1>7. ASSUME NEW i \in 1..job[s].mark, tokens[i].user = job[s].read.user, ~tokens[i].revoked
        PROVE  <<"token", i>> \in job'[s].want \cup job'[s].have
    <2>1. <<"token", i>> \in job[s].want \cup job[s].have
      BY <1>1, <1>7 DEF ReuseRequest
    <2>2. CASE <<"token", i>> = row
      <3>1. i = k
        BY <1>2, <2>2
      <3> QED
        BY <1>5, <1>7, <2>2, <3>1
    <2>3. CASE <<"token", i>> # row
      BY <1>5, <2>1, <2>3
    <2> QED
      BY <2>2, <2>3
  <1> QED
    BY <1>1, <1>3, <1>5, <1>6, <1>7 DEF ReuseRequest

LEMMA LockCode ==
  ASSUME Inv, NEW s \in Session, job[s] # Null, job[s].op = "askCode",
         NEW row \in job[s].want, LockRow(s, row)
  PROVE  CodeRequest(s)'
  <1>1. CodeRequest(s)
    BY DEF Inv, JobsOK, JobOK
  <1>2. /\ job'[s] = Locked(s, row) /\ UNCHANGED codes
    BY LockFields DEF Inv, JobsOK
  <1>3. job'[s].key = job[s].key /\ job'[s].want \cup job'[s].have \subseteq job[s].want \cup job[s].have
    BY <1>2 DEF Locked, Have
  <1> QED
    BY <1>1, <1>2, <1>3 DEF CodeRequest

LEMMA LockKeeps ==
  ASSUME Inv, NEW s \in Session, Lock(s)
  PROVE  Inv'
  <1>1. PICK row \in job[s].want : job[s] # Null /\ LockRow(s, row)
    BY DEF Lock
  <1>2. /\ job' = [job EXCEPT ![s] = Locked(s, row)] /\ job'[s] = Locked(s, row)
        /\ Free(row) /\ job[s] # Null /\ job[s].want # {}
        /\ UNCHANGED <<users, tokens, codes, audit, clock, faults, ended, mix>>
    BY <1>1, LockFields DEF Inv, JobsOK
  <1>3. JobOK(s) /\ ~NoRow(s)
    BY <1>2 DEF Inv, JobsOK, NoRow
  <1>4. job'[s].op = job[s].op /\ job'[s].key = job[s].key /\ job'[s].mark = job[s].mark
        /\ job'[s].now \in Nat /\ job'[s].have = Have(s, row)
    BY <1>2, <1>3 DEF Locked, Now, JobOK, Inv, AccountsOK
  <1>5. JobOK(s)'
    <2>1. ASSUME job[s].op \in {"rotate", "logout"} PROVE TokenRequest(s)'
      <3>1. PICK token : token = <<"token", job[s].key>>
        OBVIOUS
      <3>2. job[s].key \in DOMAIN tokens /\ OneRow(s, token)
        BY <1>3, <2>1, <3>1 DEF JobOK, TokenRequest
      <3>3. OneRow(s, token)'
        BY <1>1, <2>1, <3>2, LockOneRow
      <3> QED
        BY <1>2, <1>4, <3>1, <3>2, <3>3 DEF TokenRequest
    <2>2. ASSUME job[s].op = "staffLogin" PROVE LoginRequest(s)'
      <3>1. PICK user : user = <<"user", job[s].key>>
        OBVIOUS
      <3>2. job[s].key \in User /\ Exists(job[s].key) /\ OneRow(s, user)
        BY <1>3, <2>2, <3>1 DEF JobOK, LoginRequest
      <3>3. OneRow(s, user)'
        BY <1>1, <2>2, <3>2, LockOneRow
      <3> QED
        BY <1>2, <1>4, <3>1, <3>2, <3>3 DEF LoginRequest, Exists
    <2>3. ASSUME job[s].op \in {"register", "customerLogin"} PROVE CustomerRequest(s)'
      <3>1. PICK i \in DOMAIN codes : codes[i].purpose = Purpose(s) /\ OneRow(s, <<"code", i>>)
        BY <1>3, <2>3 DEF JobOK, CustomerRequest
      <3>2. PICK code : code = <<"code", i>>
        OBVIOUS
      <3>3. OneRow(s, code)'
        BY <1>1, <2>3, <3>1, <3>2, LockOneRow
      <3>4. job[s].key \in Customers
        BY <1>3, <2>3 DEF JobOK, CustomerRequest
      <3> QED
        BY <1>2, <1>4, <3>1, <3>2, <3>3, <3>4 DEF CustomerRequest, Purpose
    <2>4. job[s].op \notin {"createStaff", "bootstrap"}
      BY <1>3 DEF JobOK
    <2>5. job'[s] = [op |-> job'[s].op, key |-> job'[s].key, right |-> job'[s].right,
                     free |-> job'[s].free, now |-> job'[s].now, want |-> job'[s].want,
                     have |-> job'[s].have, read |-> job'[s].read, mark |-> job'[s].mark]
      BY <1>2 DEF Locked
    <2> QED
      BY <1>1, <1>3, <1>4, <2>1, <2>2, <2>3, <2>4, <2>5, LockReuse, LockCode DEF JobOK
  <1>6. \A q \in Session \ {s} : job[q] # Null => job'[s].have \cap job[q].have = {}
    BY <1>2, <1>4 DEF Have, Free, Inv, OneHolder
  <1>7. DOMAIN job' = Session /\ \A q \in Session \ {s} : job'[q] = job[q]
    BY <1>2 DEF Inv, JobsOK
  <1>8. (JobsOK /\ OneHolder)'
    BY <1>2, <1>5, <1>6, <1>7, OwnJobOK
  <1>9. (TokensOK /\ AccountsOK /\ CodesOK)'
    BY <1>2, SameTables DEF Inv, AccountsOK
  <1>10. MadeOnce'
    <2>1. \A q \in Session \ {s} : job'[q] = job[q]
      BY <1>2 DEF Inv, JobsOK
    <2> QED
      BY <1>2, <1>4, <2>1, SameMade DEF Asking
  <1> QED
    BY <1>8, <1>9, <1>10 DEF Inv
------------------------------------------------------------------------------
(* A finite set of numbers has a greatest element: the one with the fewest *)
(* numbers above it.                                                       *)
LEMMA GreatestNumber ==
  ASSUME NEW S, \A n \in S : n \in Nat, IsFiniteSet(S), S # {}
  PROVE  \E m \in S : \A n \in S : n <= m
  <1> DEFINE Above(n) == {k \in S : k > n}
             Cuts == {Above(n) : n \in S}
  <1>1. Cuts \in SUBSET (SUBSET S) /\ Cuts # {}
    OBVIOUS
  <1>2. \E T \in Cuts : \A U \in Cuts : ~(<<U, T>> \in StrictSubsetOrdering(S))
    <2>1. IsWellFoundedOn(StrictSubsetOrdering(S), SUBSET S)
      BY FS_StrictSubsetOrderingWellFounded, FS_FiniteSubsetsOfFinite
    <2> HIDE DEF Cuts
    <2> QED
      BY <1>1, <2>1, WFMin
  <1>3. PICK m \in S : \A n \in S : ~(<<Above(n), Above(m)>> \in StrictSubsetOrdering(S))
    BY <1>2
  <1>4. ASSUME NEW n \in S, n > m PROVE FALSE
    <2>1. Above(n) \subseteq Above(m)
      BY <1>4
    <2>2. n \in Above(m) /\ n \notin Above(n)
      BY <1>4
    <2>3. <<Above(n), Above(m)>> \in StrictSubsetOrdering(S)
      BY <2>1, <2>2 DEF StrictSubsetOrdering
    <2> QED
      BY <1>3, <2>3
  <1> QED
    BY <1>4

(* created_at: what a new code gets is later than all there is.            *)
StoredTimes == {codes[i].made : i \in DOMAIN codes}
FlushedTimes == {job[s].mark : s \in {q \in Session : job[q] # Null /\ job[q].op = "askCode"}}

LEMMA ImageIsFinite ==
  ASSUME NEW S, IsFiniteSet(S), NEW f, DOMAIN f = S
  PROVE  IsFiniteSet({f[x] : x \in S})
  <1> DEFINE T == {f[x] : x \in S}
             g == [x \in S |-> f[x]]
  <1>1. g \in Surjection(S, T)
    BY DEF Surjection
  <1> HIDE DEF T, g
  <1>2. IsFiniteSet(T)
    BY <1>1, FS_Surjection
  <1> QED
    BY <1>2 DEF T

LEMMA LastMadeIsLast ==
  ASSUME Inv
  PROVE  /\ LastMade \in Nat
         /\ \A i \in DOMAIN codes : codes[i].made <= LastMade
         /\ \A q \in Session : Asking(q) => job[q].mark <= LastMade
  <1>1. IsFiniteSet(StoredTimes)
    <2> DEFINE f == [i \in DOMAIN codes |-> codes[i].made]
    <2>1. IsFiniteSet(DOMAIN codes)
      BY Numbered, FS_Interval
    <2>2. IsFiniteSet({f[i] : i \in DOMAIN codes})
      <3>1. DOMAIN f = DOMAIN codes
        OBVIOUS
      <3> HIDE DEF f
      <3> QED
        BY <2>1, <3>1, ImageIsFinite
    <2>3. StoredTimes = {f[i] : i \in DOMAIN codes}
      BY DEF StoredTimes
    <2> QED
      BY <2>2, <2>3
  <1>2. IsFiniteSet(FlushedTimes)
    <2> DEFINE asking == {q \in Session : job[q] # Null /\ job[q].op = "askCode"}
               f == [q \in asking |-> job[q].mark]
    <2>1. IsFiniteSet(asking)
      <3>1. asking \in SUBSET Session
        OBVIOUS
      <3> HIDE DEF asking
      <3> QED
        BY <3>1, FS_Subset, IdentityConstants
    <2>2. IsFiniteSet({f[q] : q \in asking})
      <3>1. DOMAIN f = asking
        OBVIOUS
      <3> HIDE DEF f, asking
      <3> QED
        BY <2>1, <3>1, ImageIsFinite
    <2>3. FlushedTimes = {f[q] : q \in asking}
      BY DEF FlushedTimes
    <2> QED
      BY <2>2, <2>3
  <1> DEFINE Made == StoredTimes \cup FlushedTimes
  <1>3. IsFiniteSet(Made)
    BY <1>1, <1>2, FS_Union
  <1>4. \A n \in Made : n \in Nat
    <2>1. \A i \in DOMAIN codes : codes[i].made \in Nat
      BY Numbered DEF CodeRow
    <2>2. \A q \in Session : job[q] # Null => job[q].mark \in Nat
      BY DEF Inv, JobsOK, JobOK
    <2> QED
      BY <2>1, <2>2 DEF StoredTimes, FlushedTimes
  <1>5. /\ \A i \in DOMAIN codes : codes[i].made \in Made
        /\ \A q \in Session : Asking(q) => job[q].mark \in Made
    BY DEF StoredTimes, FlushedTimes, Asking
  <1>6. LastMade = IF Made = {} THEN 0 ELSE CHOOSE m \in Made : \A n \in Made : n <= m
    BY DEF LastMade, StoredTimes, FlushedTimes
  <1> HIDE DEF Made
  <1>7. LastMade \in Nat /\ \A n \in Made : n <= LastMade
    <2>1. CASE Made = {}
      BY <1>6, <2>1
    <2>2. CASE Made # {}
      <3>1. \E m \in Made : \A n \in Made : n <= m
        BY <1>3, <1>4, <2>2, GreatestNumber
      <3> QED
        BY <1>4, <1>6, <2>2, <3>1
    <2> QED
      BY <2>1, <2>2
  <1> QED
    BY <1>5, <1>7

LEMMA FlushCodeKeeps ==
  ASSUME Inv, NEW s \in Session, FlushCode(s)
  PROVE  Inv'
  <1>1. PICK mark : mark = LastMade + 1
    OBVIOUS
  <1>2. /\ job[s] # Null /\ job[s].op = "askCode" /\ JobOK(s)
        /\ job' = [job EXCEPT ![s].mark = mark]
        /\ UNCHANGED <<users, tokens, codes, audit, clock, faults, ended, mix>>
    BY <1>1 DEF FlushCode, Serving, Inv, JobsOK
  <1>3. mark \in Nat /\ mark # 0
        /\ (\A i \in DOMAIN codes : codes[i].made # mark)
        /\ (\A q \in Session : Asking(q) => job[q].mark # mark)
    <2>1. PICK last : last = LastMade
      OBVIOUS
    <2>2. last \in Nat /\ (\A i \in DOMAIN codes : codes[i].made <= last)
          /\ (\A q \in Session : Asking(q) => job[q].mark <= last)
      BY <2>1, LastMadeIsLast
    <2>3. \A i \in DOMAIN codes : codes[i].made \in Nat
      BY Numbered DEF CodeRow
    <2>4. \A q \in Session : Asking(q) => job[q].mark \in Nat
      BY DEF Inv, JobsOK, JobOK, Asking
    <2> QED
      BY <1>1, <2>1, <2>2, <2>3, <2>4
  <1>4. PICK request : request = [job[s] EXCEPT !.mark = mark]
    OBVIOUS
  <1>5. request = [op |-> job[s].op, key |-> job[s].key, right |-> job[s].right,
                   free |-> job[s].free, now |-> job[s].now, want |-> job[s].want,
                   have |-> job[s].have, read |-> job[s].read, mark |-> mark]
    BY <1>2, <1>4 DEF JobOK
  <1>6. DOMAIN job' = Session /\ job'[s] = request /\ \A q \in Session \ {s} : job'[q] = job[q]
    BY <1>2, <1>4 DEF Inv, JobsOK
  <1>7. JobOK(s)'
    BY <1>2, <1>3, <1>5, <1>6 DEF JobOK, CodeRequest
  <1>8. (JobsOK /\ OneHolder)'
    <2>1. \A q \in Session \ {s} : job[q] # Null => job'[s].have \cap job[q].have = {}
      <3>1. job'[s].have = job[s].have
        BY <1>5, <1>6
      <3> QED
        BY <1>2, <3>1 DEF Inv, OneHolder
    <2> QED
      BY <1>2, <1>6, <1>7, <2>1, OwnJobOK
  <1>9. (TokensOK /\ AccountsOK /\ CodesOK)'
    BY <1>2, SameTables DEF Inv, AccountsOK
  <1>10. MadeOnce'
    <2>1. \A q \in Session \ {s} : Asking(q)' <=> Asking(q)
      BY <1>6 DEF Asking
    <2>2. job'[s].mark = mark /\ codes' = codes
      BY <1>2, <1>5, <1>6
    <2> QED
      BY <1>3, <1>6, <2>1, <2>2 DEF Inv, MadeOnce
  <1> QED
    BY <1>8, <1>9, <1>10 DEF Inv

(* Of a request that has its rows, and what it read.                       *)
LEMMA HasToken ==
  ASSUME Inv, NEW s \in Session, job[s] # Null, job[s].want = {}, job[s].read # Null,
         job[s].op \in {"rotate", "logout"}
  PROVE  /\ job[s].key \in DOMAIN tokens /\ job[s].read = tokens[job[s].key]
         /\ job[s].have = {<<"token", job[s].key>>}
  <1>1. TokenRequest(s)
    BY DEF Inv, JobsOK, JobOK
  <1>2. job[s].key \in DOMAIN tokens /\ OneRow(s, <<"token", job[s].key>>)
    BY <1>1 DEF TokenRequest, NoRow
  <1>3. Stored(<<"token", job[s].key>>) = tokens[job[s].key]
    BY DEF Stored
  <1> QED
    BY <1>2, <1>3 DEF OneRow

LEMMA NoticeReuseKeeps ==
  ASSUME Inv, NEW s \in Session, NoticeReuse(s)
  PROVE  Inv'
  <1>1. /\ job[s] # Null /\ job[s].want = {} /\ job[s].op = "rotate" /\ job[s].read # Null
        /\ JobOK(s) /\ DOMAIN job = Session
    BY DEF NoticeReuse, Serving, Reused, Inv, JobsOK
  <1>2. /\ job[s].key \in DOMAIN tokens /\ job[s].read = tokens[job[s].key]
        /\ job[s].have = {<<"token", job[s].key>>}
    BY <1>1, HasToken
  <1> DEFINE want == {<<"token", i>> : i \in ToRevoke(job[s].read.user)}
  <1>3. PICK length : length = Len(tokens)
    OBVIOUS
  <1>4. /\ job' = [job EXCEPT ![s].op = "reuse", ![s].mark = length, ![s].want = want]
        /\ UNCHANGED <<users, tokens, codes, audit, clock, faults, ended, mix>>
    BY <1>3 DEF NoticeReuse
  <1>5. /\ want \subseteq {<<"token", i>> : i \in DOMAIN tokens}
        /\ \A i \in DOMAIN tokens : tokens[i].user = job[s].read.user =>
                                      tokens[i].revoked \/ <<"token", i>> \in want
    BY DEF ToRevoke
  <1> HIDE DEF want
  <1>6. PICK request : request = [job[s] EXCEPT !.op = "reuse", !.mark = length, !.want = want]
    OBVIOUS
  <1>7. request = [op |-> "reuse", key |-> job[s].key, right |-> job[s].right,
                   free |-> job[s].free, now |-> job[s].now, want |-> want,
                   have |-> job[s].have, read |-> job[s].read, mark |-> length]
    BY <1>1, <1>6 DEF JobOK
  <1>8. DOMAIN job' = Session /\ job'[s] = request /\ \A q \in Session \ {s} : job'[q] = job[q]
    BY <1>1, <1>4, <1>6
  <1>9. ReuseRequest(s)'
    <2>1. /\ job'[s].want = want /\ job'[s].have = job[s].have /\ job'[s].mark = length
          /\ job'[s].key = job[s].key /\ job'[s].read = job[s].read
      BY <1>7, <1>8
    <2>2. job[s].key \in DOMAIN tokens /\ DOMAIN tokens = 1..length /\ length \in Nat
      BY <1>2, <1>3, Numbered
    <2>3. tokens' = tokens
      BY <1>4
    <2>4. job'[s].want \cup job'[s].have \subseteq {<<"token", i>> : i \in DOMAIN tokens}
      BY <1>2, <1>5, <2>1
    <2>5. tokens[job[s].key].user = job[s].read.user /\ length \in job[s].key..length
      BY <1>2, <2>2
    <2>6. \A i \in 1..length : tokens[i].user = job[s].read.user =>
            tokens[i].revoked \/ <<"token", i>> \in job'[s].want \cup job'[s].have
      BY <1>5, <2>1, <2>2
    <2> QED
      BY <1>3, <2>1, <2>2, <2>3, <2>4, <2>5, <2>6 DEF ReuseRequest
  <1>10. JobOK(s)'
    BY <1>1, <1>3, <1>7, <1>8, <1>9, Numbered DEF JobOK
  <1>11. (JobsOK /\ OneHolder)'
    <2>1. \A q \in Session \ {s} : job[q] # Null => job'[s].have \cap job[q].have = {}
      BY <1>1, <1>7, <1>8 DEF Inv, OneHolder
    <2> QED
      BY <1>4, <1>8, <1>10, <2>1, OwnJobOK
  <1>12. (TokensOK /\ AccountsOK /\ CodesOK)'
    BY <1>4, SameTables DEF Inv, AccountsOK
  <1>13. MadeOnce'
    <2>1. ~Asking(s)'
      BY <1>7, <1>8 DEF Asking
    <2> QED
      BY <1>4, <1>8, <2>1, SameMade
  <1> QED
    BY <1>11, <1>12, <1>13 DEF Inv
------------------------------------------------------------------------------
(* Requests that finish                                                    *)

LEMMA FinishKeeps ==
  ASSUME Inv, NEW s \in Session, job[s] # Null, End(s), Keeps(s),
         (TokensOK /\ AccountsOK /\ CodesOK)', DOMAIN codes' = DOMAIN codes
  PROVE  Inv'
  <1>1. Len(tokens) <= Len(tokens)' /\ Len(tokens') \in Nat
    <2>1. tokens \in Seq(TokenRow) /\ tokens' \in Seq(TokenRow)
      BY DEF Inv, TokensOK
    <2>2. PICK m, n : m = Len(tokens) /\ n = Len(tokens') /\ m \in Nat /\ n \in Nat
                      /\ DOMAIN tokens = 1..m /\ DOMAIN tokens' = 1..n
      BY <2>1
    <2>3. 1..m \subseteq 1..n
      BY <2>2 DEF Keeps
    <2>4. m <= n
      BY <2>2, <2>3
    <2> QED
      BY <2>2, <2>4
  <1>2. (JobsOK /\ OneHolder)'
    BY <1>1, EndOK
  <1>3. MadeOnce'
    <2>1. job'[s] = Null /\ \A q \in Session \ {s} : job'[q] = job[q]
      BY DEF End, Inv, JobsOK
    <2>2. \A i \in DOMAIN codes : codes'[i].made = codes[i].made
      BY DEF Keeps
    <2> QED
      BY <2>1, <2>2, SameMade DEF Asking
  <1> QED
    BY <1>2, <1>3 DEF Inv

(* A login's first token has no other before it.                           *)
LEMMA LoggedInTokens ==
  ASSUME Inv, NEW u \in User, NEW now \in Nat, tokens' = LoggedIn(u, now), UNCHANGED ended
  PROVE  /\ TokensOK' /\ DOMAIN tokens' = 1..Len(tokens) + 1
         /\ \A i \in DOMAIN tokens : tokens'[i] = tokens[i]
         /\ tokens'[Len(tokens) + 1].login = Len(tokens) + 1
         /\ tokens'[Len(tokens) + 1].user = u
  <1>1. PICK n \in Nat : n = Len(tokens) /\ DOMAIN tokens = 1..n
    BY Numbered
  <1>2. PICK new : new = NewToken(u, now, n + 1)
    OBVIOUS
  <1>3. new \in TokenRow /\ new.login = n + 1 /\ new.by = 0 /\ new.user = u
    BY <1>2, IdentityConstants DEF NewToken, TokenRow
  <1>4. tokens \in Seq(TokenRow) /\ tokens' = Append(tokens, new)
    BY <1>1, <1>2 DEF LoggedIn, Inv, TokensOK
  <1>5. /\ tokens' \in Seq(TokenRow) /\ Len(tokens') = n + 1 /\ DOMAIN tokens' = 1..n + 1
        /\ \A i \in 1..n : tokens'[i] = tokens[i]
        /\ tokens'[n + 1] = new
    BY <1>1, <1>3, <1>4
  <1>6. \A i \in DOMAIN tokens' :
          /\ tokens'[i].login \in 1..i
          /\ tokens'[i].by # 0 => /\ tokens'[i].revoked
                                  /\ tokens'[i].by \in i + 1..n + 1
                                  /\ tokens'[tokens'[i].by].login = tokens'[i].login
    <2> SUFFICES ASSUME NEW i \in 1..n + 1
                 PROVE  /\ tokens'[i].login \in 1..i
                        /\ tokens'[i].by # 0 => /\ tokens'[i].revoked
                                                /\ tokens'[i].by \in i + 1..n + 1
                                                /\ tokens'[tokens'[i].by].login = tokens'[i].login
      BY <1>5
    <2>1. CASE i = n + 1
      BY <1>3, <1>5, <2>1
    <2>2. CASE i \in 1..n
      <3>1. /\ tokens[i].login \in 1..i
            /\ tokens[i].by # 0 => /\ tokens[i].revoked
                                   /\ tokens[i].by \in i + 1..n
                                   /\ tokens[tokens[i].by].login = tokens[i].login
        BY <1>1, <2>2 DEF Inv, TokensOK
      <3>2. tokens[i].by # 0 => tokens[i].by \in 1..n
        BY <3>1, <1>1, <2>2
      <3> QED
        BY <1>1, <1>5, <2>2, <3>1, <3>2
    <2> QED
      BY <2>1, <2>2
  <1>7. ASSUME NEW i \in DOMAIN tokens', NEW k \in DOMAIN tokens', i < k,
               tokens'[i].login = tokens'[k].login
        PROVE  tokens'[i].revoked
    <2>1. i \in 1..n
      BY <1>5, <1>7
    <2>2. CASE k = n + 1
      <3>1. tokens[i].login \in 1..i
        BY <1>1, <2>1 DEF Inv, TokensOK
      <3> QED
        BY <1>1, <1>3, <1>5, <1>7, <2>1, <2>2, <3>1
    <2>3. CASE k \in 1..n
      BY <1>1, <1>5, <1>7, <2>1, <2>3 DEF Inv, TokensOK
    <2> QED
      BY <1>5, <2>2, <2>3
  <1>8. \A i \in ended' : i \in DOMAIN tokens' /\ tokens'[i].revoked
    BY <1>1, <1>5 DEF Inv, TokensOK
  <1> QED
    BY <1>1, <1>3, <1>5, <1>6, <1>7, <1>8 DEF TokensOK
(* Tokens may be revoked whenever it pleases somebody.                     *)
LEMMA RevokedTokens ==
  ASSUME Inv, tokens' \in Seq(TokenRow), Len(tokens') = Len(tokens),
         \A i \in DOMAIN tokens :
           /\ tokens'[i].user = tokens[i].user /\ tokens'[i].login = tokens[i].login
           /\ tokens'[i].by = tokens[i].by /\ (tokens[i].revoked => tokens'[i].revoked),
         \A i \in ended' : i \in ended \/ (i \in DOMAIN tokens /\ tokens'[i].revoked)
  PROVE  TokensOK'
  <1>1. PICK n \in Nat : n = Len(tokens) /\ DOMAIN tokens = 1..n /\ n = Len(tokens') /\ DOMAIN tokens' = 1..n
    BY Numbered
  <1>2. ASSUME NEW i \in 1..n
        PROVE  /\ tokens'[i].login \in 1..i
               /\ tokens'[i].by # 0 => /\ tokens'[i].revoked
                                       /\ tokens'[i].by \in i + 1..n
                                       /\ tokens'[tokens'[i].by].login = tokens'[i].login
    <2>1. /\ tokens[i].login \in 1..i
          /\ tokens[i].by # 0 => /\ tokens[i].revoked
                                 /\ tokens[i].by \in i + 1..n
                                 /\ tokens[tokens[i].by].login = tokens[i].login
      BY <1>1 DEF Inv, TokensOK
    <2>2. tokens[i].by # 0 => tokens[i].by \in 1..n
      BY <1>1, <2>1
    <2> QED
      BY <1>1, <2>1, <2>2
  <1>3. ASSUME NEW i \in 1..n, NEW k \in 1..n, i < k, tokens'[i].login = tokens'[k].login
        PROVE  tokens'[i].revoked
    BY <1>1, <1>3 DEF Inv, TokensOK
  <1>4. \A i \in ended' : i \in DOMAIN tokens' /\ tokens'[i].revoked
    BY <1>1 DEF Inv, TokensOK
  <1> QED
    BY <1>1, <1>2, <1>3, <1>4 DEF TokensOK

LEMMA LogoutKeeps ==
  ASSUME Inv, NEW s \in Session, Logout(s)
  PROVE  Inv'
  <1>1. PICK t : t = job[s].key
    OBVIOUS
  <1>2. /\ job[s] # Null /\ job[s].want = {} /\ job[s].op = "logout" /\ job[s].read # Null
        /\ tokens' = [tokens EXCEPT ![t].revoked = TRUE] /\ End(s)
        /\ UNCHANGED <<users, codes, clock, ended, mix>>
        /\ Recorded({<<"AUTH_LOGOUT", t>>})
    BY <1>1 DEF Logout, Serving, Valid
  <1>3. t \in DOMAIN tokens /\ job[s].have = {<<"token", t>>}
    BY <1>1, <1>2, HasToken
  <1>4. tokens \in Seq(TokenRow) /\ tokens[t] \in TokenRow
    BY <1>3 DEF Inv, TokensOK
  <1>5. [tokens[t] EXCEPT !.revoked = TRUE] \in TokenRow
        /\ [tokens[t] EXCEPT !.revoked = TRUE].user = tokens[t].user
        /\ [tokens[t] EXCEPT !.revoked = TRUE].login = tokens[t].login
        /\ [tokens[t] EXCEPT !.revoked = TRUE].by = tokens[t].by
        /\ [tokens[t] EXCEPT !.revoked = TRUE].revoked
    BY <1>4 DEF TokenRow
  <1>6. PICK row : row = [tokens[t] EXCEPT !.revoked = TRUE]
    OBVIOUS
  <1>7. tokens' = [tokens EXCEPT ![t] = row]
    BY <1>2, <1>6
  <1>8. row \in TokenRow /\ row.user = tokens[t].user /\ row.login = tokens[t].login
        /\ row.by = tokens[t].by /\ row.revoked
    BY <1>5, <1>6
  <1>9. /\ tokens' \in Seq(TokenRow) /\ Len(tokens') = Len(tokens) /\ DOMAIN tokens' = DOMAIN tokens
        /\ \A i \in DOMAIN tokens : tokens'[i] = IF i = t THEN row ELSE tokens[i]
    BY <1>3, <1>4, <1>7, <1>8
  <1>10. TokensOK'
    <2>1. \A i \in DOMAIN tokens :
           /\ tokens'[i].user = tokens[i].user /\ tokens'[i].login = tokens[i].login
           /\ tokens'[i].by = tokens[i].by /\ (tokens[i].revoked => tokens'[i].revoked)
      BY <1>8, <1>9
    <2> QED
      BY <1>2, <1>9, <2>1, RevokedTokens
  <1>11. Keeps(s)
    BY <1>2, <1>3, <1>8, <1>9 DEF Keeps, Exists
  <1>12. (AccountsOK /\ CodesOK)'
    <2>1. faults' \in Nat
      BY <1>2, RecordedType, FS_Singleton
    <2> QED
      BY <1>2, <2>1 DEF Inv, AccountsOK, CodesOK, Exists
  <1> QED
    BY <1>2, <1>10, <1>11, <1>12, FinishKeeps
LEMMA RevokedRow ==
  ASSUME NEW row \in TokenRow, NEW yes \in BOOLEAN
  PROVE  /\ [row EXCEPT !.revoked = yes] \in TokenRow
         /\ [row EXCEPT !.revoked = yes].user = row.user
         /\ [row EXCEPT !.revoked = yes].login = row.login
         /\ [row EXCEPT !.revoked = yes].by = row.by
         /\ [row EXCEPT !.revoked = yes].revoked = yes
         /\ yes = row.revoked => [row EXCEPT !.revoked = yes] = row
  BY DEF TokenRow

LEMMA EndSessionsKeeps ==
  ASSUME Inv, NEW s \in Session, EndSessions(s)
  PROVE  Inv'
  <1>1. /\ job[s] # Null /\ job[s].want = {} /\ job[s].op = "reuse" /\ End(s)
        /\ UNCHANGED <<users, codes, clock, mix>>
        /\ Recorded({<<"AUTH_TOKEN_REUSE_DETECTED", job[s].key>>})
    BY DEF EndSessions, Serving
  <1>2. ReuseRequest(s) /\ job[s].mark \in Nat
    BY <1>1 DEF Inv, JobsOK, JobOK
  <1> DEFINE revoked(i) == tokens[i].revoked \/ <<"token", i>> \in job[s].have
             row(i) == [tokens[i] EXCEPT !.revoked = revoked(i)]
  <1>3. tokens' = [i \in DOMAIN tokens |-> row(i)]
    BY DEF EndSessions
  <1>4. ASSUME NEW i \in DOMAIN tokens
        PROVE  /\ row(i) \in TokenRow /\ row(i).user = tokens[i].user
               /\ row(i).login = tokens[i].login /\ row(i).by = tokens[i].by
               /\ row(i).revoked = revoked(i)
               /\ revoked(i) = tokens[i].revoked => row(i) = tokens[i]
    <2>1. tokens[i] \in TokenRow /\ revoked(i) \in BOOLEAN
      BY Numbered
    <2> HIDE DEF revoked
    <2> QED
      BY <2>1, RevokedRow
  <1> HIDE DEF row
  <1>5. /\ tokens' \in Seq(TokenRow) /\ Len(tokens') = Len(tokens) /\ DOMAIN tokens' = DOMAIN tokens
        /\ \A i \in DOMAIN tokens : tokens'[i] = row(i)
    <2>1. PICK n \in Nat : n = Len(tokens) /\ DOMAIN tokens = 1..n
      BY Numbered
    <2>2. tokens' = [i \in 1..n |-> row(i)]
      BY <1>3, <2>1
    <2>3. tokens' \in [1..n -> TokenRow]
      BY <1>4, <2>1, <2>2
    <2>4. tokens' \in Seq(TokenRow) /\ Len(tokens') = n
      BY <2>1, <2>3
    <2> QED
      BY <2>1, <2>2, <2>4
  <1>6. \A i \in DOMAIN tokens :
          /\ tokens'[i].user = tokens[i].user /\ tokens'[i].login = tokens[i].login
          /\ tokens'[i].by = tokens[i].by
          /\ (tokens[i].revoked \/ <<"token", i>> \in job[s].have => tokens'[i].revoked)
          /\ (tokens[i].revoked \/ <<"token", i>> \notin job[s].have => tokens'[i] = tokens[i])
    <2> SUFFICES ASSUME NEW i \in DOMAIN tokens
                 PROVE  /\ tokens'[i].user = tokens[i].user /\ tokens'[i].login = tokens[i].login
                        /\ tokens'[i].by = tokens[i].by
                        /\ (tokens[i].revoked \/ <<"token", i>> \in job[s].have => tokens'[i].revoked)
                        /\ (tokens[i].revoked \/ <<"token", i>> \notin job[s].have => tokens'[i] = tokens[i])
      OBVIOUS
    <2>1. tokens[i].revoked \in BOOLEAN
      BY Numbered DEF TokenRow
    <2> QED
      BY <1>4, <1>5, <2>1
  <1>7. ended' = ended \cup {i \in 1..job[s].mark : tokens[i].user = job[s].read.user}
    BY DEF EndSessions
  <1>8. TokensOK'
    <2>1. ASSUME NEW i \in 1..job[s].mark, tokens[i].user = job[s].read.user
          PROVE  i \in DOMAIN tokens /\ tokens'[i].revoked
      <3>1. i \in DOMAIN tokens
        BY <1>2, Numbered DEF ReuseRequest
      <3>2. tokens[i].revoked \/ <<"token", i>> \in job[s].have
        BY <1>1, <1>2, <2>1 DEF ReuseRequest
      <3> QED
        BY <1>6, <3>1, <3>2
    <2> QED
      BY <1>5, <1>6, <1>7, <2>1, RevokedTokens
  <1>9. Keeps(s)
    BY <1>1, <1>5, <1>6 DEF Keeps, Exists
  <1>10. (AccountsOK /\ CodesOK)'
    <2>1. faults' \in Nat
      BY <1>1, RecordedType, FS_Singleton
    <2> QED
      BY <1>1, <2>1 DEF Inv, AccountsOK, CodesOK, Exists
  <1> QED
    BY <1>1, <1>8, <1>9, <1>10, FinishKeeps

(* A rotation gives the chain of a login its next token.                   *)
LEMMA RotateFields ==
  ASSUME Inv, NEW s \in Session, Rotate(s), NEW t, t = job[s].key, NEW n, n = Len(tokens)
  PROVE  /\ n \in Nat /\ DOMAIN tokens = 1..n /\ t \in 1..n /\ DOMAIN tokens' = 1..n + 1
         /\ job[s] # Null /\ job[s].have = {<<"token", t>>}
         /\ tokens' \in Seq(TokenRow)
         /\ \A i \in 1..n : i # t => tokens'[i] = tokens[i]
         /\ ~tokens[t].revoked /\ tokens'[t].revoked /\ tokens'[t].by = n + 1
         /\ tokens'[t].user = tokens[t].user /\ tokens'[t].login = tokens[t].login
         /\ tokens'[n + 1].user = tokens[t].user /\ tokens'[n + 1].login = tokens[t].login
         /\ tokens'[n + 1].by = 0
  <1>1. n \in Nat /\ DOMAIN tokens = 1..n /\ tokens \in Seq(TokenRow)
    BY Numbered DEF Inv, TokensOK
  <1>2. /\ job[s] # Null /\ job[s].want = {} /\ job[s].op = "rotate" /\ job[s].read # Null
        /\ ~job[s].read.revoked /\ job[s].now \in Nat
    BY DEF Rotate, Rotatable, Valid, Serving, Inv, JobsOK, JobOK
  <1>3. t \in 1..n /\ job[s].read = tokens[t] /\ job[s].have = {<<"token", t>>}
    BY <1>1, <1>2, HasToken
  <1>4. tokens[t] \in TokenRow
    BY <1>1, <1>3, Numbered
  <1>5. PICK yes : yes = TRUE
    OBVIOUS
  <1> DEFINE used == [[tokens[t] EXCEPT !.revoked = yes] EXCEPT !.by = n + 1]
             new == NewToken(tokens[t].user, job[s].now, tokens[t].login)
  <1>6. tokens' = Append([tokens EXCEPT ![t] = used], new)
    BY <1>3, <1>5 DEF Rotate
  <1>7. /\ used \in TokenRow /\ used.revoked = yes /\ used.by = n + 1
        /\ used.user = tokens[t].user /\ used.login = tokens[t].login
    <2>1. yes \in BOOLEAN
      BY <1>5
    <2>2. PICK row : row = [tokens[t] EXCEPT !.revoked = yes]
      OBVIOUS
    <2>3. row \in TokenRow /\ row.user = tokens[t].user /\ row.login = tokens[t].login
          /\ row.revoked = yes
      BY <1>4, <2>1, <2>2, RevokedRow
    <2>4. used = [row EXCEPT !.by = n + 1]
      BY <2>2
    <2>5. PICK next \in Nat : next = n + 1
      BY <1>1
    <2>6. /\ [row EXCEPT !.by = next] \in TokenRow /\ [row EXCEPT !.by = next].by = next
          /\ [row EXCEPT !.by = next].user = row.user /\ [row EXCEPT !.by = next].login = row.login
          /\ [row EXCEPT !.by = next].revoked = row.revoked
      BY <2>3, <2>5 DEF TokenRow
    <2> HIDE DEF used
    <2> QED
      BY <2>3, <2>4, <2>5, <2>6
  <1>8. new \in TokenRow /\ new.user = tokens[t].user /\ new.login = tokens[t].login /\ new.by = 0
    <2>1. RefreshLife \in Nat
      BY IdentityConstants
    <2>2. PICK expires \in Nat : expires = job[s].now + RefreshLife
      BY <1>2, <1>4, <2>1
    <2>3. tokens[t].user \in User /\ tokens[t].login \in Nat
      BY <1>4 DEF TokenRow
    <2>4. new = [user |-> tokens[t].user, expires |-> expires, revoked |-> FALSE, by |-> 0,
                 login |-> tokens[t].login]
      BY <2>2 DEF NewToken
    <2> QED
      BY <2>2, <2>3, <2>4 DEF TokenRow
  <1> HIDE DEF used, new
  <1>9. PICK replaced : replaced = [tokens EXCEPT ![t] = used]
    OBVIOUS
  <1>10. /\ replaced \in Seq(TokenRow) /\ Len(replaced) = n
         /\ \A i \in 1..n : replaced[i] = IF i = t THEN used ELSE tokens[i]
    BY <1>1, <1>3, <1>7, <1>9
  <1>11. /\ tokens' \in Seq(TokenRow) /\ DOMAIN tokens' = 1..n + 1 /\ tokens'[n + 1] = new
         /\ \A i \in 1..n : tokens'[i] = replaced[i]
    BY <1>1, <1>6, <1>8, <1>9, <1>10
  <1> QED
    BY <1>1, <1>2, <1>3, <1>5, <1>7, <1>8, <1>10, <1>11

LEMMA RotateKeeps ==
  ASSUME Inv, NEW s \in Session, Rotate(s)
  PROVE  Inv'
  <1>1. PICK t, n : t = job[s].key /\ n = Len(tokens)
    OBVIOUS
  <1>2. /\ n \in Nat /\ DOMAIN tokens = 1..n /\ t \in 1..n /\ DOMAIN tokens' = 1..n + 1
        /\ job[s] # Null /\ job[s].have = {<<"token", t>>}
        /\ tokens' \in Seq(TokenRow)
        /\ \A i \in 1..n : i # t => tokens'[i] = tokens[i]
        /\ ~tokens[t].revoked /\ tokens'[t].revoked /\ tokens'[t].by = n + 1
        /\ tokens'[t].user = tokens[t].user /\ tokens'[t].login = tokens[t].login
        /\ tokens'[n + 1].user = tokens[t].user /\ tokens'[n + 1].login = tokens[t].login
        /\ tokens'[n + 1].by = 0
    BY <1>1, RotateFields
  <1>3. /\ End(s) /\ UNCHANGED <<users, codes, clock, ended, mix>>
        /\ Recorded({<<"AUTH_TOKEN_REFRESHED", n + 1>>})
    BY <1>1 DEF Rotate
  <1>4. \A i \in 1..n : /\ tokens[i].login \in 1..i
                        /\ tokens[i].by # 0 => /\ tokens[i].revoked
                                               /\ tokens[i].by \in i + 1..n
                                               /\ tokens[tokens[i].by].login = tokens[i].login
    BY <1>1, <1>2 DEF Inv, TokensOK
  <1>5. \A i \in 1..n : tokens'[i].login = tokens[i].login /\ tokens'[i].user = tokens[i].user
                        /\ (tokens[i].revoked => tokens'[i].revoked /\ tokens'[i].by = tokens[i].by)
    BY <1>2
  <1>6. ASSUME NEW i \in 1..n + 1
        PROVE  /\ tokens'[i].login \in 1..i
               /\ tokens'[i].by # 0 => /\ tokens'[i].revoked
                                       /\ tokens'[i].by \in i + 1..n + 1
                                       /\ tokens'[tokens'[i].by].login = tokens'[i].login
    <2>1. CASE i = n + 1
      <3>1. tokens[t].login \in 1..t
        BY <1>2, <1>4
      <3> QED
        BY <1>2, <2>1, <3>1
    <2>2. CASE i = t
      BY <1>2, <1>4, <2>2
    <2>3. CASE i \in 1..n /\ i # t
      <3>1. tokens'[i] = tokens[i]
        BY <1>2, <2>3
      <3>2. tokens[i].by # 0 => tokens[i].by \in 1..n
        BY <1>2, <1>4, <2>3
      <3> QED
        BY <1>2, <1>4, <1>5, <2>3, <3>1, <3>2
    <2> QED
      BY <1>2, <2>1, <2>2, <2>3
  <1>7. ASSUME NEW i \in 1..n + 1, NEW k \in 1..n + 1, i < k, tokens'[i].login = tokens'[k].login
        PROVE  tokens'[i].revoked
    <2>1. i \in 1..n
      BY <1>2, <1>7
    <2>2. \A j \in 1..n : i < j /\ tokens[i].login = tokens[j].login => tokens[i].revoked
      BY <1>2, <2>1 DEF Inv, TokensOK
    <2>3. CASE k = n + 1
      <3>1. tokens[i].login = tokens[t].login
        BY <1>2, <1>5, <1>7, <2>1, <2>3
      <3>2. CASE i < t
        BY <1>2, <1>5, <2>1, <2>2, <3>1, <3>2
      <3>3. CASE i > t
        <4>1. \A j \in 1..n : t < j /\ tokens[t].login = tokens[j].login => tokens[t].revoked
          BY <1>2 DEF Inv, TokensOK
        <4> QED
          BY <1>2, <2>1, <3>1, <3>3, <4>1
      <3>4. CASE i = t
        BY <1>2, <3>4
      <3> QED
        BY <1>2, <2>1, <3>2, <3>3, <3>4
    <2>4. CASE k \in 1..n
      BY <1>5, <1>7, <2>1, <2>2, <2>4
    <2> QED
      BY <1>2, <2>3, <2>4
  <1>8. \A i \in ended' : i \in 1..n + 1 /\ tokens'[i].revoked
    <2>1. \A i \in ended : i \in 1..n /\ tokens[i].revoked
      BY <1>2 DEF Inv, TokensOK
    <2> QED
      BY <1>2, <1>3, <1>5, <2>1
  <1>9. TokensOK'
    <2>1. Len(tokens') = n + 1
      BY <1>2
    <2> QED
      BY <1>2, <1>6, <1>7, <1>8, <2>1 DEF TokensOK
  <1>10. Keeps(s)
    BY <1>2, <1>3, <1>5 DEF Keeps, Exists
  <1>11. (AccountsOK /\ CodesOK)'
    <2>1. faults' \in Nat
      BY <1>3, RecordedType, FS_Singleton
    <2> QED
      BY <1>3, <2>1 DEF Inv, AccountsOK, CodesOK, Exists
  <1> QED
    BY <1>2, <1>3, <1>9, <1>10, <1>11, FinishKeeps

LEMMA FinishTokenKeeps ==
  ASSUME Inv, NEW s \in Session, FinishToken(s)
  PROVE  Inv'
  <1>1. CASE RefuseToken(s) \/ LogoutAgain(s)
    BY <1>1, RollbackKeeps DEF RefuseToken, LogoutAgain, Serving
  <1> QED
    BY <1>1, RotateKeeps, NoticeReuseKeeps, EndSessionsKeeps, LogoutKeeps DEF FinishToken
------------------------------------------------------------------------------
(* Staff                                                                   *)
LEMMA HasAccount ==
  ASSUME Inv, NEW s \in Session, job[s] # Null, job[s].want = {}, job[s].read # Null,
         job[s].op = "staffLogin"
  PROVE  /\ job[s].key \in User /\ Exists(job[s].key) /\ job[s].read = users[job[s].key]
         /\ job[s].have = {<<"user", job[s].key>>} /\ job[s].now \in Nat
  <1>1. LoginRequest(s) /\ job[s].now \in Nat
    BY DEF Inv, JobsOK, JobOK
  <1>2. job[s].key \in User /\ Exists(job[s].key) /\ OneRow(s, <<"user", job[s].key>>)
    BY <1>1 DEF LoginRequest, NoRow
  <1>3. Stored(<<"user", job[s].key>>) = users[job[s].key]
    BY DEF Stored
  <1> QED
    BY <1>1, <1>2, <1>3 DEF OneRow

(* An account that is written counts its misses.                           *)
LEMMA WrittenAccount ==
  ASSUME Inv, NEW s \in Session, NEW u \in User, NEW account \in AccountRow,
         account.misses = account.wrong, account.wrong <= LockThreshold,
         account.until # Null <=> account.wrong = LockThreshold,
         users' = [users EXCEPT ![u] = account], ~Exists(u) \/ job[s].have = {<<"user", u>>},
         UNCHANGED <<codes, clock, ended, mix>>, faults' \in Nat
  PROVE  /\ (AccountsOK /\ CodesOK)'
         /\ \A v \in User : Exists(v) => /\ users'[v] # Null
                                         /\ <<"user", v>> \notin job[s].have => users'[v] = users[v]
  <1>1. DOMAIN users = User /\ account # Null
    BY IdentityConstants DEF Inv, AccountsOK
  <1>2. DOMAIN users' = User /\ users'[u] = account /\ \A v \in User \ {u} : users'[v] = users[v]
    BY <1>1
  <1>3. AccountsOK'
    <2>1. \A v \in mix.registered : v \in User /\ Exists(v)
      BY IdentityConstants DEF Inv, AccountsOK
    <2>2. \A v \in User : Exists(v)' =>
            /\ users'[v] \in AccountRow
            /\ users'[v].misses = users'[v].wrong
            /\ users'[v].wrong <= LockThreshold
            /\ users'[v].until # Null <=> users'[v].wrong = LockThreshold
      BY <1>2 DEF Inv, AccountsOK, Exists
    <2>3. \A v \in mix'.registered : Exists(v)'
      BY <1>1, <1>2, <2>1 DEF Exists
    <2> QED
      BY <1>2, <2>2, <2>3 DEF Inv, AccountsOK
  <1>4. CodesOK'
    BY DEF Inv, CodesOK
  <1>5. ASSUME NEW v \in User, Exists(v)
        PROVE  users'[v] # Null /\ (<<"user", v>> \notin job[s].have => users'[v] = users[v])
    <2>1. CASE v = u
      BY <1>1, <1>2, <1>5, <2>1
    <2>2. CASE v # u
      BY <1>2, <1>5, <2>2 DEF Exists
    <2> QED
      BY <2>1, <2>2
  <1> QED
    BY <1>3, <1>4, <1>5

LEMMA MissIsCounted ==
  ASSUME NEW account \in AccountRow, account.misses = account.wrong, account.wrong <= LockThreshold,
         account.until # Null <=> account.wrong = LockThreshold, NEW now \in Nat,
         NEW wrong, wrong = (IF account.until = Null THEN account.wrong ELSE 0) + 1,
         NEW row, row = [misses |-> AfterMiss(account, now).misses,
                         until |-> AfterMiss(account, now).until, wrong |-> wrong]
  PROVE  /\ row \in AccountRow /\ row.misses = row.wrong /\ row.wrong <= LockThreshold
         /\ row.until # Null <=> row.wrong = LockThreshold
  <1>1. /\ account.misses \in Nat /\ account.wrong \in Nat
        /\ LockThreshold \in Nat \ {0} /\ LockLife \in Nat /\ Null \notin Nat
    BY IdentityConstants DEF AccountRow
  <1>2. Misses(account) + 1 = wrong /\ wrong \in Nat /\ wrong <= LockThreshold
    BY <1>1 DEF Misses
  <1>3. AfterMiss(account, now) = IF wrong >= LockThreshold
          THEN [misses |-> LockThreshold, until |-> now + LockLife]
          ELSE [misses |-> wrong, until |-> Null]
    BY <1>2 DEF AfterMiss
  <1>4. CASE wrong >= LockThreshold
    <2>1. AfterMiss(account, now).misses = LockThreshold /\ AfterMiss(account, now).until = now + LockLife
      BY <1>3, <1>4
    <2>2. now + LockLife \in Nat /\ now + LockLife # Null /\ wrong = LockThreshold
      BY <1>1, <1>2, <1>4
    <2> QED
      BY <1>1, <1>2, <2>1, <2>2 DEF AccountRow
  <1>5. CASE ~(wrong >= LockThreshold)
    <2>1. AfterMiss(account, now).misses = wrong /\ AfterMiss(account, now).until = Null
      BY <1>3, <1>5
    <2>2. wrong # LockThreshold
      BY <1>1, <1>2, <1>5
    <2> QED
      BY <1>1, <1>2, <2>1, <2>2 DEF AccountRow
  <1> QED
    BY <1>4, <1>5

LEMMA MissPasswordKeeps ==
  ASSUME Inv, NEW s \in Session, MissPassword(s)
  PROVE  Inv'
  <1>1. PICK u : u = job[s].key
    OBVIOUS
  <1>2. /\ job[s] # Null /\ job[s].want = {} /\ job[s].op = "staffLogin" /\ job[s].read # Null
        /\ End(s) /\ UNCHANGED <<tokens, codes, clock, ended, mix>>
    BY DEF MissPassword, Serving, MayLogIn
  <1>3. /\ u \in User /\ Exists(u) /\ job[s].read = users[u] /\ job[s].now \in Nat
        /\ job[s].have = {<<"user", u>>}
    BY <1>1, <1>2, HasAccount
  <1>4. PICK account : account = users[u]
    OBVIOUS
  <1>5. /\ account \in AccountRow /\ account.misses = account.wrong /\ account.wrong <= LockThreshold
        /\ account.until # Null <=> account.wrong = LockThreshold
    BY <1>3, <1>4 DEF Inv, AccountsOK
  <1>6. PICK now, row : /\ now = job[s].now
          /\ row = [misses |-> AfterMiss(account, now).misses,
                    until |-> AfterMiss(account, now).until,
                    wrong |-> (IF account.until = Null THEN account.wrong ELSE 0) + 1]
    OBVIOUS
  <1>7. users' = [users EXCEPT ![u] = row]
    BY <1>1, <1>3, <1>4, <1>6 DEF MissPassword, WrongAgain
  <1>8. /\ row \in AccountRow /\ row.misses = row.wrong /\ row.wrong <= LockThreshold
        /\ row.until # Null <=> row.wrong = LockThreshold
    <2>1. PICK wrong : wrong = (IF account.until = Null THEN account.wrong ELSE 0) + 1
      OBVIOUS
    <2> QED
      BY <1>3, <1>5, <1>6, <2>1, MissIsCounted
  <1>9. faults' \in Nat
    <2> DEFINE rows == {<<"AUTH_LOGIN_FAILED", u>>}
                        \cup (IF AfterMiss(job[s].read, job[s].now).until = Null THEN {}
                              ELSE {<<"AUTH_ACCOUNT_LOCKED", u>>})
    <2>1. IsFiniteSet(rows)
      BY FS_Singleton, FS_EmptySet, FS_Union
    <2>2. Recorded(rows)
      BY <1>1 DEF MissPassword
    <2> HIDE DEF rows
    <2> QED
      BY <2>1, <2>2, RecordedType
  <1>10. /\ (AccountsOK /\ CodesOK)'
         /\ \A v \in User : Exists(v) => /\ users'[v] # Null
                                         /\ <<"user", v>> \notin job[s].have => users'[v] = users[v]
    BY <1>2, <1>3, <1>7, <1>8, <1>9, WrittenAccount
  <1>11. Keeps(s)
    BY <1>2, <1>10 DEF Keeps
  <1>12. TokensOK'
    BY <1>2 DEF Inv, TokensOK
  <1> QED
    BY <1>2, <1>10, <1>11, <1>12, FinishKeeps

LEMMA FreshAccount ==
  /\ NewAccount \in AccountRow /\ NewAccount.misses = NewAccount.wrong
  /\ NewAccount.wrong <= LockThreshold
  /\ NewAccount.until # Null <=> NewAccount.wrong = LockThreshold
  BY NewAccountType, IdentityConstants DEF NewAccount

LEMMA StaffLoginKeeps ==
  ASSUME Inv, NEW s \in Session, StaffLogin(s)
  PROVE  Inv'
  <1>1. PICK u, now : u = job[s].key /\ now = job[s].now
    OBVIOUS
  <1>2. /\ job[s] # Null /\ job[s].want = {} /\ job[s].op = "staffLogin" /\ job[s].read # Null
        /\ End(s) /\ UNCHANGED <<codes, clock, ended, mix>>
        /\ users' = [users EXCEPT ![u] = NewAccount]
        /\ tokens' = LoggedIn(u, now)
        /\ Recorded({<<"AUTH_LOGIN_SUCCESS", Len(tokens) + 1>>})
    BY <1>1 DEF StaffLogin, Serving, MayLogIn
  <1>3. /\ u \in User /\ now \in Nat /\ job[s].have = {<<"user", u>>}
    BY <1>1, <1>2, HasAccount
  <1>4. /\ TokensOK' /\ DOMAIN tokens' = 1..Len(tokens) + 1
        /\ \A i \in DOMAIN tokens : tokens'[i] = tokens[i]
    BY <1>2, <1>3, LoggedInTokens
  <1>5. faults' \in Nat
    BY <1>2, RecordedType, FS_Singleton
  <1>6. /\ (AccountsOK /\ CodesOK)'
        /\ \A v \in User : Exists(v) => /\ users'[v] # Null
                                        /\ <<"user", v>> \notin job[s].have => users'[v] = users[v]
    BY <1>2, <1>3, <1>5, FreshAccount, WrittenAccount
  <1>7. Keeps(s)
    BY <1>2, <1>4, <1>6, Numbered DEF Keeps
  <1> QED
    BY <1>2, <1>4, <1>6, <1>7, FinishKeeps

(* Whoever creates an account takes a contact that is free.                *)
LEMMA NewAccountKeeps ==
  ASSUME Inv, NEW s \in Session, job[s] # Null, End(s), NEW u \in User, ~Clash(u),
         users' = [users EXCEPT ![u] = NewAccount], faults' \in Nat,
         UNCHANGED <<tokens, codes, clock, ended, mix>>
  PROVE  Inv'
  <1>1. ~Exists(u)
    BY ClashIfExists
  <1>2. /\ (AccountsOK /\ CodesOK)'
        /\ \A v \in User : Exists(v) => /\ users'[v] # Null
                                        /\ <<"user", v>> \notin job[s].have => users'[v] = users[v]
    BY <1>1, FreshAccount, WrittenAccount
  <1>3. Keeps(s)
    BY <1>2 DEF Keeps
  <1>4. TokensOK'
    BY DEF Inv, TokensOK
  <1> QED
    BY <1>2, <1>3, <1>4, FinishKeeps

LEMMA FinishStaffKeeps ==
  ASSUME Inv, NEW s \in Session, FinishStaff(s)
  PROVE  Inv'
  <1>1. CASE DenyLogin(s) \/ DenyLocked(s) \/ DenyAccess(s)
    <2>1. PICK row : job[s] # Null /\ Denied(s, {row})
      BY <1>1 DEF DenyLogin, DenyLocked, DenyAccess, Serving
    <2>2. IsFiniteSet({row})
      BY FS_Singleton
    <2> QED
      BY <2>1, <2>2, DeniedKeeps
  <1>2. CASE CreateStaff(s)
    <2>1. PICK u : u = job[s].key[2]
      OBVIOUS
    <2>2. /\ job[s] # Null /\ job[s].op = "createStaff" /\ End(s) /\ ~Clash(u)
          /\ users' = [users EXCEPT ![u] = NewAccount]
          /\ Recorded({<<"STAFF_ACCOUNT_CREATED", u>>})
          /\ UNCHANGED <<tokens, codes, clock, ended, mix>>
      BY <1>2, <2>1 DEF CreateStaff, Serving
    <2>3. u \in User
      BY <2>1, <2>2, CustomersAreNotStaff DEF Inv, JobsOK, JobOK
    <2>4. faults' \in Nat
      BY <2>2, RecordedType, FS_Singleton
    <2> QED
      BY <2>2, <2>3, <2>4, NewAccountKeeps
  <1>3. CASE BootstrapAdmin(s)
    <2>1. PICK u : u = job[s].key
      OBVIOUS
    <2>2. /\ job[s] # Null /\ job[s].op = "bootstrap" /\ End(s) /\ ~Clash(u)
          /\ users' = [users EXCEPT ![u] = NewAccount]
          /\ UNCHANGED <<tokens, codes, audit, clock, faults, ended, mix>>
      BY <1>3, <2>1 DEF BootstrapAdmin, Serving
    <2>3. u \in User /\ faults' \in Nat
      BY <2>1, <2>2 DEF Inv, JobsOK, JobOK, AccountsOK
    <2> QED
      BY <2>2, <2>3, NewAccountKeeps
  <1>4. CASE RefuseStaff(s)
    BY <1>4, RollbackKeeps DEF RefuseStaff, Serving
  <1> QED
    BY <1>1, <1>2, <1>3, <1>4, MissPasswordKeeps, StaffLoginKeeps DEF FinishStaff
------------------------------------------------------------------------------
(* Customers and their codes                                               *)
LEMMA HasCode ==
  ASSUME Inv, NEW s \in Session, job[s] # Null, job[s].want = {}, job[s].read # Null,
         job[s].op \in {"register", "customerLogin"}
  PROVE  \E i \in DOMAIN codes :
           /\ codes[i].purpose = Purpose(s) /\ job[s].read = codes[i]
           /\ job[s].have = {<<"code", i>>} /\ Used(s) = i
           /\ job[s].key \in Customers /\ job[s].now \in Nat
  <1>1. CustomerRequest(s) /\ job[s].now \in Nat
    BY DEF Inv, JobsOK, JobOK
  <1>2. PICK i \in DOMAIN codes : codes[i].purpose = Purpose(s) /\ OneRow(s, <<"code", i>>)
    BY <1>1 DEF CustomerRequest, NoRow
  <1>3. job[s].have = {<<"code", i>>} /\ job[s].read = Stored(<<"code", i>>)
    BY <1>2 DEF OneRow
  <1>4. Stored(<<"code", i>>) = codes[i]
    BY DEF Stored
  <1>5. \A k \in DOMAIN codes : <<"code", k>> \in job[s].have <=> k = i
    BY <1>3
  <1>6. Used(s) = i
    BY <1>5 DEF Used
  <1> QED
    BY <1>1, <1>2, <1>3, <1>4, <1>6 DEF CustomerRequest

LEMMA WrittenCode ==
  ASSUME Inv, NEW s \in Session, NEW i \in DOMAIN codes, job[s].have = {<<"code", i>>},
         NEW row \in CodeRow, row.purpose = codes[i].purpose, row.made = codes[i].made,
         row.tried = row.failed, row.used \in 0..1, row.used = 1 => row.consumed,
         codes' = [codes EXCEPT ![i] = row]
  PROVE  /\ CodesOK' /\ DOMAIN codes' = DOMAIN codes
         /\ \A k \in DOMAIN codes :
              /\ codes'[k].purpose = codes[k].purpose /\ codes'[k].made = codes[k].made
              /\ <<"code", k>> \notin job[s].have => codes'[k] = codes[k]
  <1>1. codes \in Seq(CodeRow)
    BY DEF Inv, CodesOK
  <1>2. /\ codes' \in Seq(CodeRow) /\ DOMAIN codes' = DOMAIN codes
        /\ \A k \in DOMAIN codes : codes'[k] = IF k = i THEN row ELSE codes[k]
    BY <1>1
  <1>3. CodesOK'
    BY <1>2 DEF Inv, CodesOK
  <1> QED
    BY <1>2, <1>3

(* What becomes of a code that is tried: it stays the code of its purpose. *)
LEMMA TriedRow ==
  ASSUME NEW row \in CodeRow, row.tried = row.failed, row.used = 0, NEW yes \in BOOLEAN,
         NEW new, new = [row EXCEPT !.failed = row.failed + 1, !.tried = row.tried + 1,
                                    !.consumed = yes]
  PROVE  /\ new \in CodeRow /\ new.purpose = row.purpose /\ new.made = row.made
         /\ new.tried = new.failed /\ new.used = 0
  <1>1. PICK k \in Nat : k = row.failed + 1 /\ k = row.tried + 1
    BY DEF CodeRow
  <1>2. new = [row EXCEPT !.failed = k, !.tried = k, !.consumed = yes]
    BY <1>1
  <1> QED
    BY <1>1, <1>2 DEF CodeRow

UsedUp(row, yes) == [row EXCEPT !.consumed = yes, !.used = row.used + 1]

LEMMA UsedRow ==
  ASSUME NEW row \in CodeRow, row.used = 0, row.tried = row.failed, NEW yes \in BOOLEAN,
         NEW new, new = UsedUp(row, yes)
  PROVE  /\ new \in CodeRow /\ new.purpose = row.purpose /\ new.made = row.made
         /\ new.tried = new.failed /\ new.used = 1 /\ new.consumed = yes
  <1>1. PICK mid : mid = [row EXCEPT !.consumed = yes]
    OBVIOUS
  <1>2. /\ mid \in CodeRow /\ mid.purpose = row.purpose /\ mid.made = row.made
        /\ mid.tried = mid.failed /\ mid.consumed = yes
    BY <1>1 DEF CodeRow
  <1>3. new = [mid EXCEPT !.used = 1]
    BY <1>1 DEF UsedUp
  <1> QED
    BY <1>2, <1>3 DEF CodeRow

LEMMA UnusedCode ==
  ASSUME Inv, NEW i \in DOMAIN codes, ~codes[i].consumed
  PROVE  codes[i] \in CodeRow /\ codes[i].used = 0 /\ codes[i].tried = codes[i].failed
  BY Numbered DEF Inv, CodesOK

(* A success uses up the code of its request.                              *)
LEMMA ConsumedCode ==
  ASSUME Inv, NEW s \in Session, job[s] # Null, job[s].want = {},
         job[s].op \in {"register", "customerLogin"}, Usable(s), codes' = Consumed(Used(s))
  PROVE  /\ CodesOK' /\ DOMAIN codes' = DOMAIN codes
         /\ \A k \in DOMAIN codes :
              /\ codes'[k].purpose = codes[k].purpose /\ codes'[k].made = codes[k].made
              /\ <<"code", k>> \notin job[s].have => codes'[k] = codes[k]
         /\ \E i \in DOMAIN codes : /\ codes[i].purpose = Purpose(s)
                                    /\ codes[i].used = 0 /\ codes'[i].used = 1
                                    /\ \A k \in DOMAIN codes : k # i => codes'[k] = codes[k]
         /\ job[s].key \in Customers /\ job[s].now \in Nat
  <1>1. job[s].read # Null /\ ~job[s].read.consumed
    BY DEF Usable
  <1>2. PICK i \in DOMAIN codes :
           /\ codes[i].purpose = Purpose(s) /\ job[s].read = codes[i]
           /\ job[s].have = {<<"code", i>>} /\ Used(s) = i
           /\ job[s].key \in Customers /\ job[s].now \in Nat
    BY <1>1, HasCode
  <1>3. codes[i] \in CodeRow /\ codes[i].used = 0 /\ codes[i].tried = codes[i].failed
    BY <1>1, <1>2, UnusedCode
  <1>4. PICK yes : yes = TRUE
    OBVIOUS
  <1>5. PICK row : row = [codes[i] EXCEPT !.consumed = yes, !.used = codes[i].used + 1]
    OBVIOUS
  <1>6. codes' = [codes EXCEPT ![i] = row]
    BY <1>2, <1>4, <1>5 DEF Consumed
  <1>7. /\ row \in CodeRow /\ row.purpose = codes[i].purpose /\ row.made = codes[i].made
        /\ row.tried = row.failed /\ row.used = 1 /\ row.consumed
    <2>1. yes \in BOOLEAN
      BY <1>4
    <2>2. /\ row \in CodeRow /\ row.purpose = codes[i].purpose /\ row.made = codes[i].made
          /\ row.tried = row.failed /\ row.used = 1 /\ row.consumed = yes
      <3>1. PICK old : old = codes[i]
        OBVIOUS
      <3>2. old \in CodeRow /\ old.used = 0 /\ old.tried = old.failed
            /\ row = UsedUp(old, yes)
        BY <1>3, <1>5, <3>1 DEF UsedUp
      <3>3. /\ row \in CodeRow /\ row.purpose = old.purpose /\ row.made = old.made
            /\ row.tried = row.failed /\ row.used = 1 /\ row.consumed = yes
        BY <2>1, <3>2, UsedRow
      <3> QED
        BY <3>1, <3>3
    <2> QED
      BY <1>4, <2>2
  <1>8. /\ CodesOK' /\ DOMAIN codes' = DOMAIN codes
        /\ \A k \in DOMAIN codes :
              /\ codes'[k].purpose = codes[k].purpose /\ codes'[k].made = codes[k].made
              /\ <<"code", k>> \notin job[s].have => codes'[k] = codes[k]
    BY <1>2, <1>6, <1>7, WrittenCode
  <1>9. codes'[i].used = 1 /\ \A k \in DOMAIN codes : k # i => codes'[k] = codes[k]
    BY <1>6, <1>7
  <1> QED
    BY <1>2, <1>3, <1>8, <1>9

LEMMA MissCodeKeeps ==
  ASSUME Inv, NEW s \in Session, MissCode(s)
  PROVE  Inv'
  <1>1. /\ job[s] # Null /\ job[s].want = {} /\ job[s].op \in {"register", "customerLogin"}
        /\ Usable(s) /\ job[s].read # Null /\ ~job[s].read.consumed
        /\ End(s) /\ UNCHANGED <<users, tokens, clock, ended, mix>>
    BY DEF MissCode, Serving, Usable
  <1>2. PICK i \in DOMAIN codes :
           /\ codes[i].purpose = Purpose(s) /\ job[s].read = codes[i]
           /\ job[s].have = {<<"code", i>>} /\ Used(s) = i
    BY <1>1, HasCode
  <1>3. codes[i] \in CodeRow /\ codes[i].used = 0 /\ codes[i].tried = codes[i].failed
    BY <1>1, <1>2, UnusedCode
  <1>4. PICK yes \in BOOLEAN : codes' =
          [codes EXCEPT ![i].failed = codes[i].failed + 1, ![i].tried = codes[i].tried + 1,
                        ![i].consumed = yes]
    <2>1. PICK failed : failed = codes[i].failed + 1
      OBVIOUS
    <2>2. codes' = [codes EXCEPT ![i].failed = failed, ![i].tried = codes[i].tried + 1,
                     ![i].consumed = IF failed >= MaxFailed THEN TRUE ELSE codes[i].consumed]
      BY <1>2, <2>1 DEF MissCode
    <2>3. (IF failed >= MaxFailed THEN TRUE ELSE codes[i].consumed) \in BOOLEAN
      BY <1>3 DEF CodeRow
    <2> QED
      BY <2>1, <2>2, <2>3
  <1>5. PICK row : row = [codes[i] EXCEPT !.failed = codes[i].failed + 1,
                            !.tried = codes[i].tried + 1, !.consumed = yes]
    OBVIOUS
  <1>6. codes' = [codes EXCEPT ![i] = row]
    BY <1>4, <1>5
  <1>7. /\ row \in CodeRow /\ row.purpose = codes[i].purpose /\ row.made = codes[i].made
        /\ row.tried = row.failed /\ row.used = 0
    BY <1>3, <1>5, TriedRow
  <1>8. /\ CodesOK' /\ DOMAIN codes' = DOMAIN codes
        /\ \A k \in DOMAIN codes :
              /\ codes'[k].purpose = codes[k].purpose /\ codes'[k].made = codes[k].made
              /\ <<"code", k>> \notin job[s].have => codes'[k] = codes[k]
    <2>1. row.used \in 0..1 /\ row.used # 1
      BY <1>7
    <2> QED
      BY <1>2, <1>6, <1>7, <2>1, WrittenCode
  <1>9. faults' \in Nat
    <2> DEFINE rows == IF job[s].op = "register" THEN {} ELSE {<<"AUTH_LOGIN_FAILED", job[s].key>>}
    <2>1. Recorded(rows)
      BY DEF MissCode
    <2>2. IsFiniteSet(rows)
      BY FS_EmptySet, FS_Singleton
    <2> HIDE DEF rows
    <2> QED
      BY <2>1, <2>2, RecordedType
  <1>10. (TokensOK /\ AccountsOK)' /\ Keeps(s)
    BY <1>1, <1>8, <1>9 DEF Inv, TokensOK, AccountsOK, Exists, Keeps
  <1> QED
    BY <1>1, <1>8, <1>10, FinishKeeps

LEMMA CustomerLoginKeeps ==
  ASSUME Inv, NEW s \in Session, CustomerLogin(s)
  PROVE  Inv'
  <1>1. PICK u, now : u = job[s].key /\ now = job[s].now
    OBVIOUS
  <1>2. /\ job[s] # Null /\ job[s].want = {} /\ job[s].op = "customerLogin"
        /\ Usable(s) /\ codes' = Consumed(Used(s)) /\ tokens' = LoggedIn(u, now)
        /\ Recorded({<<"AUTH_LOGIN_SUCCESS", Len(tokens) + 1>>})
        /\ End(s) /\ UNCHANGED <<users, clock, ended, mix>>
    BY <1>1 DEF CustomerLogin, Serving
  <1>3. /\ CodesOK' /\ DOMAIN codes' = DOMAIN codes
        /\ \A k \in DOMAIN codes :
              /\ codes'[k].purpose = codes[k].purpose /\ codes'[k].made = codes[k].made
              /\ <<"code", k>> \notin job[s].have => codes'[k] = codes[k]
        /\ u \in User /\ now \in Nat
    BY <1>1, <1>2, ConsumedCode, CustomersAreNotStaff
  <1>4. /\ TokensOK' /\ DOMAIN tokens' = 1..Len(tokens) + 1
        /\ \A i \in DOMAIN tokens : tokens'[i] = tokens[i]
    BY <1>2, <1>3, LoggedInTokens
  <1>5. faults' \in Nat
    BY <1>2, RecordedType, FS_Singleton
  <1>6. AccountsOK'
    BY <1>2, <1>5 DEF Inv, AccountsOK, Exists
  <1>7. Keeps(s)
    BY <1>2, <1>3, <1>4, Numbered DEF Keeps, Exists
  <1> QED
    BY <1>2, <1>3, <1>4, <1>6, <1>7, FinishKeeps

LEMMA RegisterKeeps ==
  ASSUME Inv, NEW s \in Session, Register(s)
  PROVE  Inv'
  <1>1. PICK u : u = job[s].key
    OBVIOUS
  <1>2. /\ job[s] # Null /\ job[s].want = {} /\ job[s].op = "register"
        /\ Usable(s) /\ ~Clash(u) /\ codes' = Consumed(Used(s))
        /\ users' = [users EXCEPT ![u] = NewAccount]
        /\ End(s) /\ UNCHANGED <<tokens, audit, clock, faults, ended, mix>>
    BY <1>1 DEF Register, Serving
  <1>3. /\ CodesOK' /\ DOMAIN codes' = DOMAIN codes
        /\ \A k \in DOMAIN codes :
              /\ codes'[k].purpose = codes[k].purpose /\ codes'[k].made = codes[k].made
              /\ <<"code", k>> \notin job[s].have => codes'[k] = codes[k]
        /\ u \in User
    BY <1>1, <1>2, ConsumedCode, CustomersAreNotStaff
  <1>4. ~Exists(u) /\ faults' \in Nat /\ DOMAIN users = User
    BY <1>2, <1>3, ClashIfExists DEF Inv, AccountsOK
  <1>5. \A v \in User : Exists(v) => users'[v] = users[v]
    BY <1>2, <1>4
  <1>6. AccountsOK'
    <2>1. \A v \in User : Exists(v)' =>
            /\ users'[v] \in AccountRow
            /\ users'[v].misses = users'[v].wrong
            /\ users'[v].wrong <= LockThreshold
            /\ users'[v].until # Null <=> users'[v].wrong = LockThreshold
      <3> SUFFICES ASSUME NEW v \in User, Exists(v)'
                   PROVE  /\ users'[v] \in AccountRow
                          /\ users'[v].misses = users'[v].wrong
                          /\ users'[v].wrong <= LockThreshold
                          /\ users'[v].until # Null <=> users'[v].wrong = LockThreshold
        OBVIOUS
      <3>1. CASE v = u
        BY <1>2, <1>4, <3>1, FreshAccount
      <3>2. CASE v # u
        <4>1. users'[v] = users[v] /\ Exists(v)
          BY <1>2, <3>2 DEF Exists
        <4> QED
          BY <4>1 DEF Inv, AccountsOK
      <3> QED
        BY <3>1, <3>2
    <2>2. \A v \in mix'.registered : Exists(v)'
      <3>1. \A v \in mix.registered : v \in User /\ Exists(v)
        BY IdentityConstants DEF Inv, AccountsOK
      <3> QED
        BY <1>2, <1>5, <3>1 DEF Exists
    <2> QED
      BY <1>2, <1>4, <2>1, <2>2 DEF Inv, AccountsOK
  <1>7. Keeps(s)
    BY <1>2, <1>3, <1>5 DEF Keeps, Exists
  <1>8. TokensOK'
    BY <1>2 DEF Inv, TokensOK
  <1> QED
    BY <1>2, <1>3, <1>6, <1>7, <1>8, FinishKeeps

(* Of the codes of a contact only the newest can be used.                  *)
LEMMA SupersededRow ==
  ASSUME NEW row \in CodeRow, row.tried = row.failed, row.used \in 0..1, row.used = 1 => row.consumed,
         NEW yes \in BOOLEAN, row.consumed => yes
  PROVE  /\ [row EXCEPT !.consumed = yes] \in CodeRow
         /\ [row EXCEPT !.consumed = yes].purpose = row.purpose
         /\ [row EXCEPT !.consumed = yes].made = row.made
         /\ [row EXCEPT !.consumed = yes].tried = [row EXCEPT !.consumed = yes].failed
         /\ [row EXCEPT !.consumed = yes].used = row.used
         /\ [row EXCEPT !.consumed = yes].consumed = yes
         /\ yes = row.consumed => [row EXCEPT !.consumed = yes] = row
  BY DEF CodeRow

Superseded(have) ==
  [i \in DOMAIN codes |-> [codes[i] EXCEPT !.consumed = @ \/ <<"code", i>> \in have]]

LEMMA SupersededCodes ==
  ASSUME Inv, NEW have, NEW rows, rows = Superseded(have)
  PROVE  /\ rows \in Seq(CodeRow) /\ Len(rows) = Len(codes) /\ DOMAIN rows = DOMAIN codes
         /\ \A i \in DOMAIN codes :
              /\ rows[i].purpose = codes[i].purpose /\ rows[i].made = codes[i].made
              /\ rows[i].tried = rows[i].failed /\ rows[i].used = codes[i].used
              /\ rows[i].used = 1 => rows[i].consumed
              /\ <<"code", i>> \notin have => rows[i] = codes[i]
  <1> DEFINE gone(i) == codes[i].consumed \/ <<"code", i>> \in have
             row(i) == [codes[i] EXCEPT !.consumed = gone(i)]
  <1>1. ASSUME NEW i \in DOMAIN codes
        PROVE  /\ row(i) \in CodeRow
               /\ row(i).purpose = codes[i].purpose /\ row(i).made = codes[i].made
               /\ row(i).tried = row(i).failed /\ row(i).used = codes[i].used
               /\ row(i).consumed = gone(i)
               /\ gone(i) = codes[i].consumed => row(i) = codes[i]
    <2>1. codes[i] \in CodeRow /\ gone(i) \in BOOLEAN /\ (codes[i].consumed => gone(i))
          /\ codes[i].tried = codes[i].failed /\ codes[i].used \in 0..1
          /\ (codes[i].used = 1 => codes[i].consumed)
      BY Numbered DEF Inv, CodesOK
    <2> HIDE DEF gone
    <2> QED
      BY <2>1, SupersededRow
  <1>2. rows = [i \in DOMAIN codes |-> row(i)]
    BY DEF Superseded
  <1> HIDE DEF row
  <1>3. /\ rows \in Seq(CodeRow) /\ Len(rows) = Len(codes) /\ DOMAIN rows = DOMAIN codes
        /\ \A i \in DOMAIN codes : rows[i] = row(i)
    <2>1. PICK n \in Nat : n = Len(codes) /\ DOMAIN codes = 1..n
      BY Numbered
    <2>2. rows \in [1..n -> CodeRow]
      BY <1>1, <1>2, <2>1
    <2>3. rows \in Seq(CodeRow) /\ Len(rows) = n
      BY <2>1, <2>2
    <2> QED
      BY <1>2, <2>1, <2>3
  <1>4. \A i \in DOMAIN codes : codes[i].used = 1 => codes[i].consumed
    BY DEF Inv, CodesOK
  <1>5. \A i \in DOMAIN codes : /\ codes[i].consumed => gone(i)
                                /\ <<"code", i>> \notin have => gone(i) = codes[i].consumed
    BY Numbered DEF CodeRow
  <1> HIDE DEF gone
  <1> QED
    BY <1>1, <1>3, <1>4, <1>5

LEMMA StoredCodes ==
  ASSUME Inv, NEW s \in Session, StoreCode(s)
  PROVE  /\ CodesOK' /\ DOMAIN codes' = 1..Len(codes) + 1
         /\ \A i \in DOMAIN codes :
              /\ codes'[i].purpose = codes[i].purpose /\ codes'[i].made = codes[i].made
              /\ codes'[i].used = codes[i].used
              /\ <<"code", i>> \notin job[s].have => codes'[i] = codes[i]
         /\ codes'[Len(codes) + 1].made = job[s].mark
         /\ codes'[Len(codes) + 1].used = 0
  <1>1. PICK n \in Nat : n = Len(codes) /\ DOMAIN codes = 1..n
    BY Numbered
  <1>2. PICK no : no = FALSE
    OBVIOUS
  <1>3. PICK rows, new :
          /\ rows = Superseded(job[s].have)
          /\ new = [gsm |-> job[s].key[1], purpose |-> job[s].key[2],
                    expires |-> job[s].now + CodeLife, consumed |-> no, failed |-> 0,
                    made |-> job[s].mark, tried |-> 0, used |-> 0]
    OBVIOUS
  <1>4. codes' = Append(rows, new)
    BY <1>2, <1>3 DEF StoreCode, Superseded
  <1>5. no \in BOOLEAN
    BY <1>2
  <1>6. /\ job[s].key[1] \in Gsm /\ job[s].key[2] \in Purposes
        /\ job[s].now \in Nat /\ job[s].mark \in Nat
    BY DEF StoreCode, Serving, Inv, JobsOK, JobOK, CodeRequest
  <1>7. new \in CodeRow /\ new.tried = new.failed /\ new.used = 0 /\ new.made = job[s].mark
    BY <1>3, <1>5, <1>6, IdentityConstants DEF CodeRow
  <1>8. /\ rows \in Seq(CodeRow) /\ Len(rows) = Len(codes) /\ DOMAIN rows = DOMAIN codes
        /\ \A i \in DOMAIN codes :
              /\ rows[i].purpose = codes[i].purpose /\ rows[i].made = codes[i].made
              /\ rows[i].tried = rows[i].failed /\ rows[i].used = codes[i].used
              /\ rows[i].used = 1 => rows[i].consumed
              /\ <<"code", i>> \notin job[s].have => rows[i] = codes[i]
    BY <1>3, SupersededCodes
  <1>9. /\ codes' \in Seq(CodeRow) /\ Len(codes') = n + 1 /\ DOMAIN codes' = 1..n + 1
        /\ \A i \in 1..n : codes'[i] = rows[i]
        /\ codes'[n + 1] = new
    BY <1>1, <1>4, <1>7, <1>8
  <1>10. \A i \in DOMAIN codes : codes[i].used \in 0..1
    BY DEF Inv, CodesOK
  <1>11. CodesOK'
    <2> SUFFICES ASSUME NEW i \in 1..n + 1
                 PROVE  /\ codes'[i].tried = codes'[i].failed
                        /\ codes'[i].used \in 0..1 /\ (codes'[i].used = 1 => codes'[i].consumed)
      BY <1>9 DEF CodesOK
    <2>1. CASE i = n + 1
      BY <1>7, <1>9, <2>1
    <2>2. CASE i \in 1..n
      BY <1>1, <1>8, <1>9, <1>10, <2>2
    <2> QED
      BY <2>1, <2>2
  <1> QED
    BY <1>1, <1>7, <1>8, <1>9, <1>11

LEMMA StoreCodeKeeps ==
  ASSUME Inv, NEW s \in Session, StoreCode(s)
  PROVE  Inv'
  <1>1. /\ job[s] # Null /\ Asking(s) /\ job[s].mark # 0 /\ End(s)
        /\ UNCHANGED <<users, tokens, audit, clock, faults, ended, mix>>
    BY DEF StoreCode, Serving, Asking, Inv, JobsOK, JobOK
  <1>2. PICK n \in Nat : n = Len(codes) /\ DOMAIN codes = 1..n
    BY Numbered
  <1>3. /\ CodesOK' /\ DOMAIN codes' = 1..n + 1
        /\ \A i \in DOMAIN codes :
              /\ codes'[i].purpose = codes[i].purpose /\ codes'[i].made = codes[i].made
              /\ <<"code", i>> \notin job[s].have => codes'[i] = codes[i]
        /\ codes'[n + 1].made = job[s].mark
    BY <1>2, StoredCodes
  <1>4. Keeps(s)
    BY <1>1, <1>2, <1>3 DEF Keeps, Exists
  <1>5. (TokensOK /\ AccountsOK)'
    BY <1>1 DEF Inv, TokensOK, AccountsOK, Exists
  <1>6. (JobsOK /\ OneHolder)'
    BY <1>1, <1>4, EndOK, Numbered
  <1>7. MadeOnce'
    <2>1. job'[s] = Null /\ \A q \in Session \ {s} : job'[q] = job[q]
      BY <1>1 DEF End, Inv, JobsOK
    <2>2. \A i \in 1..n : codes'[i].made = codes[i].made /\ codes[i].made # job[s].mark
      BY <1>1, <1>2, <1>3 DEF Inv, MadeOnce
    <2>3. \A i, k \in 1..n : codes[i].made = codes[k].made => i = k
      BY <1>2 DEF Inv, MadeOnce
    <2>4. \A i, k \in DOMAIN codes' : codes'[i].made = codes'[k].made => i = k
      <3> SUFFICES ASSUME NEW i \in 1..n + 1, NEW k \in 1..n + 1, codes'[i].made = codes'[k].made
                   PROVE  i = k
        BY <1>3
      <3>1. i \in 1..n \/ i = n + 1
        OBVIOUS
      <3>2. k \in 1..n \/ k = n + 1
        OBVIOUS
      <3> QED
        BY <1>3, <2>2, <2>3, <3>1, <3>2
    <2>5. ASSUME NEW q \in Session, Asking(q)', job'[q].mark # 0
          PROVE  /\ \A i \in DOMAIN codes' : codes'[i].made # job'[q].mark
                 /\ \A r \in Session : Asking(r)' /\ job'[r].mark = job'[q].mark => r = q
      <3>1. q # s /\ job'[q] = job[q] /\ Asking(q)
        BY <2>1, <2>5 DEF Asking
      <3>2. /\ \A i \in DOMAIN codes : codes[i].made # job[q].mark
            /\ \A r \in Session : Asking(r) /\ job[r].mark = job[q].mark => r = q
        BY <2>5, <3>1 DEF Inv, MadeOnce
      <3>3. job[s].mark # job[q].mark
        BY <1>1, <3>1, <3>2
      <3>4. \A i \in 1..n + 1 : codes'[i].made # job[q].mark
        <4> SUFFICES ASSUME NEW i \in 1..n + 1 PROVE codes'[i].made # job[q].mark
          OBVIOUS
        <4>1. i \in 1..n \/ i = n + 1
          OBVIOUS
        <4> QED
          BY <1>2, <1>3, <2>2, <3>2, <3>3, <4>1
      <3>5. \A r \in Session : Asking(r)' => Asking(r) /\ job'[r] = job[r]
        BY <2>1 DEF Asking
      <3> QED
        BY <1>3, <3>1, <3>2, <3>4, <3>5
    <2> QED
      BY <2>4, <2>5 DEF MadeOnce
  <1> QED
    BY <1>3, <1>5, <1>6, <1>7 DEF Inv

LEMMA FinishCustomerKeeps ==
  ASSUME Inv, NEW s \in Session, FinishCustomer(s)
  PROVE  Inv'
  <1>1. CASE DenyCustomer(s)
    <2>1. PICK row : job[s] # Null /\ Denied(s, {row})
      BY <1>1 DEF DenyCustomer, Serving
    <2>2. IsFiniteSet({row})
      BY FS_Singleton
    <2> QED
      BY <2>1, <2>2, DeniedKeeps
  <1>2. CASE RefuseRegister(s)
    BY <1>2, RollbackKeeps DEF RefuseRegister, Serving
  <1> QED
    BY <1>1, <1>2, FlushCodeKeeps, StoreCodeKeeps, MissCodeKeeps, CustomerLoginKeeps, RegisterKeeps
       DEF FinishCustomer
------------------------------------------------------------------------------
(* Each step keeps the invariant.                                          *)
LEMMA NextKeeps ==
  ASSUME Inv, [Next]_vars
  PROVE  Inv'
  <1>1. CASE Next
    <2>1. CASE Tick
      BY <2>1, TickKeeps
    <2>2. CASE \E s \in Session :
                 Ask(s) \/ Lock(s) \/ Finish(s) \/ DeadlockVictim(s) \/ Crash(s)
      <3>1. PICK s \in Session :
              Ask(s) \/ Lock(s) \/ Finish(s) \/ DeadlockVictim(s) \/ Crash(s)
        BY <2>2
      <3> QED
        BY <3>1, AskKeeps, LockKeeps, VictimKeeps, CrashKeeps, FinishTokenKeeps, FinishStaffKeeps,
           FinishCustomerKeeps DEF Finish
    <2> QED
      BY <1>1, <2>1, <2>2 DEF Next
  <1>2. CASE UNCHANGED vars
    <2>1. (TokensOK /\ AccountsOK /\ CodesOK)'
      BY <1>2, SameTables DEF vars, Inv, AccountsOK
    <2>2. (JobsOK /\ OneHolder)'
      BY <1>2, SameRows DEF vars, Inv, JobsOK, OneHolder
    <2>3. MadeOnce'
      BY <1>2 DEF vars, Inv, MadeOnce, Asking
    <2> QED
      BY <2>1, <2>2, <2>3 DEF Inv
  <1> QED
    BY <1>1, <1>2

(* Every request is one its handler can serve: it waits for rows that      *)
(* exist, what it has read under a lock is what is stored, and nobody else *)
(* holds its rows; the tables have the shape that the code relies on.      *)
THEOREM Invariance == Spec => []Inv
  <1>1. Inv /\ [Next]_vars => Inv'
    BY NextKeeps
  <1> QED
    BY <1>1, InitInv, PTL DEF Spec

(* A login never has two tokens that can be used, however many clients     *)
(* rotate them at once (TokenService.rotate).                              *)
THEOREM OneLiveToken == Spec => []OneLiveTokenPerLogin
  <1>1. Inv => OneLiveTokenPerLogin
    <2> SUFFICES ASSUME Inv, NEW i \in DOMAIN tokens, NEW k \in DOMAIN tokens
                 PROVE  /\ i < k /\ tokens[i].login = tokens[k].login => tokens[i].revoked
                        /\ tokens[i].by = k => i < k /\ tokens[i].login = tokens[k].login
      BY DEF OneLiveTokenPerLogin
    <2>1. tokens[i].by = k => k \in i + 1..Len(tokens) /\ tokens[k].login = tokens[i].login
      BY Numbered DEF Inv, TokensOK
    <2> QED
      BY <2>1, Numbered DEF Inv, TokensOK
  <1> QED
    BY <1>1, Invariance, PTL

(* Whatever was locked or under way when a reuse was noticed, every token  *)
(* the user had then stays revoked (revoke_all_active).                    *)
THEOREM ReusedSessionsStayEnded == Spec => []ReuseEndsSessions
  <1>1. Inv => ReuseEndsSessions
    BY DEF Inv, TokensOK, ReuseEndsSessions
  <1> QED
    BY <1>1, Invariance, PTL

(* No wrong password is lost to a concurrent one, and an account is locked *)
(* by LOCK_THRESHOLD of them exactly (AuthService.staff_login).            *)
THEOREM EveryMissCounts == Spec => []MissesAreCounted
  <1>1. Inv => MissesAreCounted
    BY DEF Inv, AccountsOK, MissesAreCounted
  <1> QED
    BY <1>1, Invariance, PTL
------------------------------------------------------------------------------
(* Codes and what they were used for, and the audit log, as history: what  *)
(* the log can say of a token or an account stays true of it.              *)
Grows ==
  /\ DOMAIN tokens \subseteq DOMAIN tokens'
  /\ \A i \in DOMAIN tokens :
       /\ tokens'[i].user = tokens[i].user /\ tokens'[i].login = tokens[i].login
       /\ tokens[i].revoked => tokens'[i].revoked /\ tokens'[i].by = tokens[i].by
  /\ ended \subseteq ended'
  /\ \A u \in User : Exists(u) => users'[u] # Null
  /\ mix' = mix

LEMMA SameSuccesses ==
  ASSUME DOMAIN codes \subseteq DOMAIN codes',
         \A i \in DOMAIN codes : codes'[i].purpose = codes[i].purpose /\ codes'[i].used = codes[i].used,
         \A i \in DOMAIN codes' \ DOMAIN codes : codes'[i].used = 0
  PROVE  \A purpose : Successes(purpose)' = Successes(purpose)
  <1> SUFFICES ASSUME NEW purpose PROVE Successes(purpose)' = Successes(purpose)
    OBVIOUS
  <1>1. \A i \in DOMAIN codes' : codes'[i].used > 0 => i \in DOMAIN codes
    OBVIOUS
  <1>2. Successes(purpose)' = {i \in DOMAIN codes' : codes'[i].purpose = purpose /\ codes'[i].used > 0}
    BY DEF Successes
  <1> QED
    BY <1>1, <1>2 DEF Successes

LEMMA SameLogins ==
  ASSUME Grows, \A i \in DOMAIN tokens' \ DOMAIN tokens :
                  tokens'[i].login # i \/ tokens'[i].user \notin Customers
  PROVE  CustomerLogins' = CustomerLogins
  <1>1. CustomerLogins' = {i \in DOMAIN tokens' : tokens'[i].login = i /\ tokens'[i].user \in Customers}
    BY DEF CustomerLogins, Customers
  <1> QED
    BY <1>1 DEF Grows, CustomerLogins

LEMMA SameCustomers ==
  ASSUME mix' = mix, \A u \in Customers : users'[u] = users[u]
  PROVE  NewCustomers' = NewCustomers
  <1>1. NewCustomers' = {u \in Customers \ mix.registered : users'[u] # Null}
    BY DEF NewCustomers, Customers, Exists
  <1> QED
    BY <1>1 DEF NewCustomers, Exists

LEMMA StillEven ==
  ASSUME EachHasACode, \A purpose : Successes(purpose)' = Successes(purpose),
         NewCustomers' = NewCustomers, CustomerLogins' = CustomerLogins
  PROVE  EachHasACode'
  BY DEF EachHasACode

(* A step that writes no account, token or code.                           *)
Quiet == UNCHANGED <<users, tokens, codes, ended, mix>>

LEMMA QuietGrows ==
  ASSUME Quiet
  PROVE  Grows /\ Happened' = Happened /\ (EachHasACode => EachHasACode')
  BY DEF Quiet, Grows, Exists, Happened, EachHasACode, Successes, NewCustomers, CustomerLogins, Customers

LEMMA StaysTrue ==
  ASSUME Grows, NEW row, IsTrue(row)
  PROVE  IsTrue(row)'
  <1>1. Happened \subseteq Happened'
    BY DEF Grows, Happened
  <1>2. row[1] = "STAFF_ACCOUNT_CREATED" => row[2] \in User /\ users'[row[2]] # Null
    BY DEF Grows, IsTrue
  <1>3. row[1] = "AUTH_LOGOUT" => /\ row[2] \in DOMAIN tokens'
                                  /\ tokens'[row[2]].revoked /\ tokens'[row[2]].by = 0
    BY DEF Grows, IsTrue
  <1>4. row[1] = "AUTH_TOKEN_REUSE_DETECTED" => row[2] \in ended'
    BY DEF Grows, IsTrue
  <1>5. row[1] \in {"AUTH_LOGIN_SUCCESS", "AUTH_TOKEN_REFRESHED"} => row \in Happened'
    BY <1>1 DEF IsTrue
  <1> QED
    BY <1>2, <1>3, <1>4, <1>5 DEF IsTrue, Exists

(* What happens is in the log, or one failure to write it is counted.      *)
LEMMA RecordedIsTrue ==
  ASSUME Inv, AuditOK, Grows, NEW rows, IsFiniteSet(rows), Recorded(rows),
         \A row \in rows : IsTrue(row)', Happened' \subseteq Happened \cup rows
  PROVE  AuditOK'
  <1>1. PICK written \in SUBSET rows : /\ audit' = audit \cup written
                                       /\ faults' = faults + Cardinality(rows \ written)
    BY DEF Recorded
  <1>2. \A row \in audit' : IsTrue(row)'
    <2>1. \A row \in audit : IsTrue(row)'
      BY StaysTrue DEF AuditOK
    <2> QED
      BY <1>1, <2>1
  <1> DEFINE missed == Happened \ audit
             failed == rows \ written
             missing == Happened' \ audit'
  <1>3. IsFiniteSet(missed) /\ Cardinality(missed) <= faults /\ Cardinality(missed) \in Nat
    BY FS_CardinalityType DEF AuditOK
  <1>4. IsFiniteSet(failed) /\ Cardinality(failed) \in Nat
    <2>1. failed \in SUBSET rows
      OBVIOUS
    <2> QED
      BY <2>1, FS_Subset, FS_CardinalityType
  <1>5. missing \in SUBSET (missed \cup failed)
    BY <1>1
  <1>6. faults' = faults + Cardinality(failed) /\ faults \in Nat
    BY <1>1 DEF Inv, AccountsOK
  <1> HIDE DEF missed, failed, missing
  <1>7. IsFiniteSet(missed \cup failed) /\ Cardinality(missed \cap failed) \in Nat
        /\ Cardinality(missed \cup failed)
             = Cardinality(missed) + Cardinality(failed) - Cardinality(missed \cap failed)
    <2>1. missed \cap failed \in SUBSET missed
      OBVIOUS
    <2>2. IsFiniteSet(missed \cap failed)
      BY <1>3, <2>1, FS_Subset
    <2> QED
      BY <1>3, <1>4, <2>2, FS_Union, FS_CardinalityType
  <1>8. IsFiniteSet(missing) /\ Cardinality(missing) <= Cardinality(missed \cup failed)
        /\ Cardinality(missing) \in Nat
    BY <1>5, <1>7, FS_Subset, FS_CardinalityType
  <1>9. Cardinality(missing) <= faults'
    BY <1>3, <1>4, <1>6, <1>7, <1>8
  <1> QED
    BY <1>2, <1>8, <1>9 DEF AuditOK, missing

LEMMA SilentIsTrue ==
  ASSUME Inv, AuditOK, Grows, audit' = audit, Happened' = Happened,
         faults' \in Nat, faults <= faults'
  PROVE  AuditOK'
  <1>1. \A row \in audit' : IsTrue(row)'
    BY StaysTrue DEF AuditOK
  <1>2. PICK missed : missed = Happened \ audit
    OBVIOUS
  <1>3. IsFiniteSet(missed) /\ Cardinality(missed) <= faults /\ Cardinality(missed) \in Nat
    BY <1>2, FS_CardinalityType DEF AuditOK
  <1>4. Cardinality(missed) <= faults' /\ faults \in Nat
    BY <1>3 DEF Inv, AccountsOK
  <1>5. missed = Happened' \ audit'
    BY <1>2
  <1> QED
    BY <1>1, <1>3, <1>4, <1>5 DEF AuditOK

(* The rows that say nothing of what happened.                             *)
Remarks == {"AUTH_LOGIN_FAILED", "AUTH_ACCOUNT_LOCKED", "ACCESS_DENIED"}

LEMMA RemarkIsTrue ==
  ASSUME NEW row, row[1] \in Remarks
  PROVE  IsTrue(row)'
  BY DEF Remarks, IsTrue

History == EachHasACode /\ AuditOK

LEMMA QuietKeepsHistory ==
  ASSUME Inv, History, Quiet, audit' = audit, faults' \in Nat, faults <= faults'
  PROVE  History'
  BY QuietGrows, SilentIsTrue DEF History

LEMMA DeniedKeepsHistory ==
  ASSUME Inv, History, NEW s, NEW row, row[1] \in Remarks, Denied(s, {row})
  PROVE  History'
  <1>1. Quiet /\ Recorded({row})
    BY DEF Denied, Quiet
  <1>2. Grows /\ Happened' = Happened /\ EachHasACode'
    BY <1>1, QuietGrows DEF History
  <1>3. \A r \in {row} : IsTrue(r)'
    BY RemarkIsTrue
  <1>4. AuditOK'
    <2> DEFINE rows == {row}
    <2>1. IsFiniteSet(rows)
      BY FS_Singleton
    <2> HIDE DEF rows
    <2> QED
      BY <1>1, <1>2, <1>3, <2>1, RecordedIsTrue DEF History, rows
  <1> QED
    BY <1>2, <1>4 DEF History

LEMMA TokensHappened ==
  ASSUME Grows, NEW n \in Nat, DOMAIN tokens = 1..n, DOMAIN tokens' = 1..n + 1
  PROVE  /\ tokens'[n + 1].login = n + 1 =>
              Happened' = Happened \cup {<<"AUTH_LOGIN_SUCCESS", n + 1>>}
         /\ tokens'[n + 1].login # n + 1 =>
              Happened' = Happened \cup {<<"AUTH_TOKEN_REFRESHED", n + 1>>}
  <1>1. \A i \in 1..n + 1 : i \in 1..n \/ i = n + 1
    OBVIOUS
  <1>2. \A i \in 1..n : tokens'[i].login = tokens[i].login /\ i \in 1..n + 1 /\ i # n + 1
    BY DEF Grows
  <1>3. n + 1 \in 1..n + 1
    OBVIOUS
  <1>4. CASE tokens'[n + 1].login = n + 1
    <2>1. {k \in 1..n + 1 : tokens'[k].login = k} = {k \in 1..n : tokens[k].login = k} \cup {n + 1}
      BY <1>1, <1>2, <1>3, <1>4
    <2>2. {k \in 1..n + 1 : tokens'[k].login # k} = {k \in 1..n : tokens[k].login # k}
      BY <1>1, <1>2, <1>3, <1>4
    <2> QED
      BY <1>4, <2>1, <2>2 DEF Happened
  <1>5. CASE tokens'[n + 1].login # n + 1
    <2>1. {k \in 1..n + 1 : tokens'[k].login # k} = {k \in 1..n : tokens[k].login # k} \cup {n + 1}
      BY <1>1, <1>2, <1>3, <1>5
    <2>2. {k \in 1..n + 1 : tokens'[k].login = k} = {k \in 1..n : tokens[k].login = k}
      BY <1>1, <1>2, <1>3, <1>5
    <2> QED
      BY <1>5, <2>1, <2>2 DEF Happened
  <1> QED
    BY <1>4, <1>5

LEMMA SameTokensHappened ==
  ASSUME Grows, DOMAIN tokens' = DOMAIN tokens
  PROVE  Happened' = Happened /\ CustomerLogins' = CustomerLogins
  BY SameLogins DEF Grows, Happened

(* One row is recorded, and it is true.                                    *)
LEMMA OneIsTrue ==
  ASSUME Inv, AuditOK, Grows, NEW row, Recorded({row}), IsTrue(row)',
         Happened' \subseteq Happened \cup {row}
  PROVE  AuditOK'
  <1> DEFINE rows == {row}
  <1>1. IsFiniteSet(rows)
    BY FS_Singleton
  <1>2. \A r \in rows : IsTrue(r)'
    OBVIOUS
  <1> HIDE DEF rows
  <1> QED
    BY <1>1, <1>2, RecordedIsTrue DEF rows

LEMMA RotateKeepsHistory ==
  ASSUME Inv, History, NEW s \in Session, Rotate(s)
  PROVE  History'
  <1>1. PICK t, n : t = job[s].key /\ n = Len(tokens)
    OBVIOUS
  <1>2. /\ n \in Nat /\ DOMAIN tokens = 1..n /\ t \in 1..n /\ DOMAIN tokens' = 1..n + 1
        /\ \A i \in 1..n : i # t => tokens'[i] = tokens[i]
        /\ ~tokens[t].revoked
        /\ tokens'[t].user = tokens[t].user /\ tokens'[t].login = tokens[t].login
        /\ tokens'[n + 1].login = tokens[t].login
    BY <1>1, RotateFields
  <1>3. /\ UNCHANGED <<users, codes, clock, ended, mix>>
        /\ Recorded({<<"AUTH_TOKEN_REFRESHED", n + 1>>})
    BY <1>1 DEF Rotate
  <1>4. Grows
    BY <1>2, <1>3 DEF Grows, Exists
  <1>5. tokens'[n + 1].login # n + 1
    <2>1. tokens[t].login \in 1..t
      BY <1>2 DEF Inv, TokensOK
    <2> QED
      BY <1>2, <2>1
  <1>6. Happened' = Happened \cup {<<"AUTH_TOKEN_REFRESHED", n + 1>>}
    BY <1>2, <1>4, <1>5, TokensHappened
  <1>7. AuditOK'
    <2>1. PICK row : row = <<"AUTH_TOKEN_REFRESHED", n + 1>>
      OBVIOUS
    <2>2. IsTrue(row)'
      BY <1>6, <2>1 DEF IsTrue
    <2> QED
      BY <1>3, <1>4, <1>6, <2>1, <2>2, OneIsTrue DEF History
  <1>8. EachHasACode'
    <2>1. CustomerLogins' = CustomerLogins
      BY <1>2, <1>4, <1>5, SameLogins
    <2>2. \A purpose : Successes(purpose)' = Successes(purpose)
      BY <1>3, SameSuccesses
    <2>3. NewCustomers' = NewCustomers
      BY <1>3, SameCustomers
    <2> QED
      BY <2>1, <2>2, <2>3, StillEven DEF History
  <1> QED
    BY <1>7, <1>8 DEF History

LEMMA EndSessionsKeepsHistory ==
  ASSUME Inv, History, NEW s \in Session, EndSessions(s)
  PROVE  History'
  <1>1. PICK k : k = job[s].key
    OBVIOUS
  <1>2. /\ job[s] # Null /\ job[s].op = "reuse"
        /\ UNCHANGED <<users, codes, clock, mix>>
        /\ ended' = ended \cup {i \in 1..job[s].mark : tokens[i].user = job[s].read.user}
        /\ Recorded({<<"AUTH_TOKEN_REUSE_DETECTED", k>>})
    BY <1>1 DEF EndSessions, Serving
  <1>3. /\ k \in DOMAIN tokens /\ tokens[k].user = job[s].read.user
        /\ job[s].mark \in k..Len(tokens)
    BY <1>1, <1>2 DEF Inv, JobsOK, JobOK, ReuseRequest
  <1>4. k \in ended'
    BY <1>2, <1>3, Numbered
  <1> DEFINE revoked(i) == tokens[i].revoked \/ <<"token", i>> \in job[s].have
             row(i) == [tokens[i] EXCEPT !.revoked = revoked(i)]
  <1>5. tokens' = [i \in DOMAIN tokens |-> row(i)]
    BY DEF EndSessions
  <1>6. ASSUME NEW i \in DOMAIN tokens
        PROVE  /\ row(i).user = tokens[i].user /\ row(i).login = tokens[i].login
               /\ row(i).by = tokens[i].by /\ row(i).revoked = revoked(i)
    <2>1. tokens[i] \in TokenRow /\ revoked(i) \in BOOLEAN
      BY Numbered
    <2> HIDE DEF revoked
    <2> QED
      BY <2>1, RevokedRow
  <1> HIDE DEF row
  <1>7. DOMAIN tokens' = DOMAIN tokens /\ Grows
    BY <1>2, <1>5, <1>6 DEF Grows, Exists
  <1>8. Happened' = Happened /\ CustomerLogins' = CustomerLogins
    BY <1>7, SameTokensHappened
  <1>9. AuditOK'
    <2>1. PICK told : told = <<"AUTH_TOKEN_REUSE_DETECTED", k>>
      OBVIOUS
    <2>2. IsTrue(told)'
      BY <1>4, <2>1 DEF IsTrue
    <2> QED
      BY <1>2, <1>7, <1>8, <2>1, <2>2, OneIsTrue DEF History
  <1>10. EachHasACode'
    <2>1. \A purpose : Successes(purpose)' = Successes(purpose)
      BY <1>2, SameSuccesses
    <2>2. NewCustomers' = NewCustomers
      BY <1>2, SameCustomers
    <2> QED
      BY <1>8, <2>1, <2>2, StillEven DEF History
  <1> QED
    BY <1>9, <1>10 DEF History

LEMMA LogoutKeepsHistory ==
  ASSUME Inv, History, NEW s \in Session, Logout(s)
  PROVE  History'
  <1>1. PICK t : t = job[s].key
    OBVIOUS
  <1>2. /\ job[s] # Null /\ job[s].want = {} /\ job[s].op = "logout" /\ job[s].read # Null
        /\ ~job[s].read.revoked
        /\ tokens' = [tokens EXCEPT ![t].revoked = TRUE]
        /\ UNCHANGED <<users, codes, clock, ended, mix>>
        /\ Recorded({<<"AUTH_LOGOUT", t>>})
    BY <1>1 DEF Logout, Serving, Valid
  <1>3. t \in DOMAIN tokens /\ job[s].read = tokens[t]
    BY <1>1, <1>2, HasToken
  <1>4. tokens[t] \in TokenRow /\ tokens[t].by = 0
    BY <1>2, <1>3, Numbered DEF Inv, TokensOK
  <1>5. PICK row : row = [tokens[t] EXCEPT !.revoked = TRUE]
    OBVIOUS
  <1>6. row.user = tokens[t].user /\ row.login = tokens[t].login /\ row.by = 0 /\ row.revoked
    BY <1>4, <1>5 DEF TokenRow
  <1>7. /\ DOMAIN tokens' = DOMAIN tokens /\ tokens'[t] = row
        /\ \A i \in DOMAIN tokens : i # t => tokens'[i] = tokens[i]
    BY <1>2, <1>3, <1>5
  <1>8. Grows
    BY <1>2, <1>4, <1>6, <1>7 DEF Grows, Exists
  <1>9. Happened' = Happened /\ CustomerLogins' = CustomerLogins
    BY <1>7, <1>8, SameTokensHappened
  <1>10. AuditOK'
    <2>1. PICK told : told = <<"AUTH_LOGOUT", t>>
      OBVIOUS
    <2>2. IsTrue(told)'
      BY <1>3, <1>6, <1>7, <2>1 DEF IsTrue
    <2> QED
      BY <1>2, <1>8, <1>9, <2>1, <2>2, OneIsTrue DEF History
  <1>11. EachHasACode'
    <2>1. \A purpose : Successes(purpose)' = Successes(purpose)
      BY <1>2, SameSuccesses
    <2>2. NewCustomers' = NewCustomers
      BY <1>2, SameCustomers
    <2> QED
      BY <1>9, <2>1, <2>2, StillEven DEF History
  <1> QED
    BY <1>10, <1>11 DEF History

(* A login of u, of staff or of a customer, as far as tokens go.           *)
LEMMA LoginIsTrue ==
  ASSUME Inv, History, NEW u \in User, NEW now \in Nat, tokens' = LoggedIn(u, now),
         \A v \in User : Exists(v) => users'[v] # Null, UNCHANGED <<ended, mix>>,
         Recorded({<<"AUTH_LOGIN_SUCCESS", Len(tokens) + 1>>})
  PROVE  /\ AuditOK'
         /\ u \notin Customers => CustomerLogins' = CustomerLogins
         /\ u \in Customers => /\ CustomerLogins' = CustomerLogins \cup {Len(tokens) + 1}
                               /\ Len(tokens) + 1 \notin CustomerLogins
  <1>1. PICK n \in Nat : n = Len(tokens) /\ DOMAIN tokens = 1..n
    BY Numbered
  <1>2. /\ DOMAIN tokens' = 1..n + 1
        /\ \A i \in DOMAIN tokens : tokens'[i] = tokens[i]
        /\ tokens'[n + 1].login = n + 1 /\ tokens'[n + 1].user = u
    BY <1>1, LoggedInTokens
  <1>3. Grows
    BY <1>1, <1>2 DEF Grows
  <1>4. Happened' = Happened \cup {<<"AUTH_LOGIN_SUCCESS", n + 1>>}
    BY <1>1, <1>2, <1>3, TokensHappened
  <1>5. AuditOK'
    <2>1. PICK row : row = <<"AUTH_LOGIN_SUCCESS", n + 1>>
      OBVIOUS
    <2>2. IsTrue(row)'
      BY <1>4, <2>1 DEF IsTrue
    <2> QED
      BY <1>1, <1>3, <1>4, <2>1, <2>2, OneIsTrue DEF History
  <1>6. CASE u \notin Customers
    <2>1. CustomerLogins' = CustomerLogins
      BY <1>1, <1>2, <1>3, <1>6, SameLogins
    <2> QED
      BY <1>5, <1>6, <2>1
  <1>7. CASE u \in Customers
    <2>1. CustomerLogins' = {i \in 1..n + 1 : tokens'[i].login = i /\ tokens'[i].user \in Customers}
      BY <1>2 DEF CustomerLogins, Customers
    <2>2. CustomerLogins = {i \in 1..n : tokens[i].login = i /\ tokens[i].user \in Customers}
      BY <1>1 DEF CustomerLogins
    <2>3. \A i \in 1..n + 1 : i \in 1..n \/ i = n + 1
      OBVIOUS
    <2>4. \A i \in 1..n : i \in 1..n + 1 /\ i # n + 1
      OBVIOUS
    <2>5. CustomerLogins' = CustomerLogins \cup {n + 1} /\ n + 1 \notin CustomerLogins
      BY <1>1, <1>2, <1>7, <2>1, <2>2, <2>3, <2>4
    <2> QED
      BY <1>1, <1>5, <1>7, <2>5
  <1> QED
    BY <1>6, <1>7

LEMMA StaffLoginKeepsHistory ==
  ASSUME Inv, History, NEW s \in Session, StaffLogin(s)
  PROVE  History'
  <1>1. PICK u, now : u = job[s].key /\ now = job[s].now
    OBVIOUS
  <1>2. /\ job[s] # Null /\ job[s].want = {} /\ job[s].op = "staffLogin" /\ job[s].read # Null
        /\ u \in Staff /\ UNCHANGED <<codes, clock, ended, mix>>
        /\ users' = [users EXCEPT ![u] = NewAccount]
        /\ tokens' = LoggedIn(u, now)
        /\ Recorded({<<"AUTH_LOGIN_SUCCESS", Len(tokens) + 1>>})
    BY <1>1 DEF StaffLogin, Serving, MayLogIn
  <1>3. u \in User /\ now \in Nat /\ u \notin Customers
    BY <1>1, <1>2, HasAccount, CustomersAreNotStaff
  <1>4. DOMAIN users = User /\ NewAccount # Null
    BY NewAccountType DEF Inv, AccountsOK
  <1>5. \A v \in User : Exists(v) => users'[v] # Null
    BY <1>2, <1>4 DEF Exists
  <1>6. AuditOK' /\ CustomerLogins' = CustomerLogins
    BY <1>2, <1>3, <1>5, LoginIsTrue
  <1>7. EachHasACode'
    <2>1. \A purpose : Successes(purpose)' = Successes(purpose)
      BY <1>2, SameSuccesses
    <2>2. NewCustomers' = NewCustomers
      <3>1. \A v \in Customers : users'[v] = users[v]
        BY <1>2, <1>3, <1>4, CustomersAreNotStaff
      <3> QED
        BY <1>2, <3>1, SameCustomers
    <2> QED
      BY <1>6, <2>1, <2>2, StillEven DEF History
  <1> QED
    BY <1>6, <1>7 DEF History

(* What happens to an account of staff concerns no customer.               *)
LEMMA StaffKeepHistory ==
  ASSUME Inv, History, NEW u \in Staff, NEW account, account # Null,
         users' = [users EXCEPT ![u] = account], UNCHANGED <<tokens, codes, ended, mix>>
  PROVE  Grows /\ EachHasACode' /\ Happened' = Happened /\ users'[u] = account
  <1>1. DOMAIN users = User /\ u \in User /\ u \notin Customers
    BY CustomersAreNotStaff DEF Inv, AccountsOK
  <1>2. Grows
    BY <1>1 DEF Grows, Exists
  <1>3. Happened' = Happened /\ CustomerLogins' = CustomerLogins
    BY <1>2, SameTokensHappened
  <1>4. \A purpose : Successes(purpose)' = Successes(purpose)
    BY SameSuccesses
  <1>5. NewCustomers' = NewCustomers
    <2>1. \A v \in Customers : users'[v] = users[v]
      BY <1>1, CustomersAreNotStaff
    <2> QED
      BY <2>1, SameCustomers
  <1> QED
    BY <1>1, <1>2, <1>3, <1>4, <1>5, StillEven DEF History

LEMMA MissPasswordKeepsHistory ==
  ASSUME Inv, History, NEW s \in Session, MissPassword(s)
  PROVE  History'
  <1>1. PICK u, account : /\ u = job[s].key
          /\ account = [misses |-> AfterMiss(job[s].read, job[s].now).misses,
                        until |-> AfterMiss(job[s].read, job[s].now).until, wrong |-> WrongAgain(u)]
    OBVIOUS
  <1>2. /\ job[s] # Null /\ job[s].want = {} /\ job[s].op = "staffLogin" /\ job[s].read # Null
        /\ u \in Staff /\ UNCHANGED <<tokens, codes, clock, ended, mix>>
        /\ users' = [users EXCEPT ![u] = account]
    BY <1>1 DEF MissPassword, Serving, MayLogIn
  <1>3. account # Null
    <2>1. Inv'
      BY MissPasswordKeeps
    <2>2. u \in User /\ Exists(u) /\ DOMAIN users = User
      BY <1>1, <1>2, HasAccount DEF Inv, AccountsOK
    <2>3. account \in AccountRow
      <3>1. PICK old, now : old = users[u] /\ now = job[s].now
        OBVIOUS
      <3>2. /\ old \in AccountRow /\ old.misses = old.wrong /\ old.wrong <= LockThreshold
            /\ old.until # Null <=> old.wrong = LockThreshold
        BY <2>2, <3>1 DEF Inv, AccountsOK
      <3>3. job[s].read = old /\ now \in Nat
        BY <1>1, <1>2, <3>1, HasAccount
      <3>4. PICK wrong : wrong = (IF old.until = Null THEN old.wrong ELSE 0) + 1
        OBVIOUS
      <3>5. account = [misses |-> AfterMiss(old, now).misses,
                       until |-> AfterMiss(old, now).until, wrong |-> wrong]
        BY <1>1, <3>1, <3>3, <3>4 DEF WrongAgain
      <3> QED
        BY <3>2, <3>3, <3>4, <3>5, MissIsCounted
    <2> QED
      BY <2>3, IdentityConstants
  <1>4. Grows /\ EachHasACode' /\ Happened' = Happened
    BY <1>2, <1>3, StaffKeepHistory
  <1>5. AuditOK'
    <2> DEFINE rows == {<<"AUTH_LOGIN_FAILED", u>>}
                        \cup (IF AfterMiss(job[s].read, job[s].now).until = Null THEN {}
                              ELSE {<<"AUTH_ACCOUNT_LOCKED", u>>})
    <2>1. IsFiniteSet(rows)
      BY FS_Singleton, FS_EmptySet, FS_Union
    <2>2. Recorded(rows)
      BY <1>1 DEF MissPassword
    <2>3. \A row \in rows : row[1] \in Remarks
      BY DEF Remarks
    <2> HIDE DEF rows
    <2>4. \A row \in rows : IsTrue(row)'
      BY <2>3, RemarkIsTrue
    <2> QED
      BY <1>4, <2>1, <2>2, <2>4, RecordedIsTrue DEF History
  <1> QED
    BY <1>4, <1>5 DEF History

LEMMA CreateStaffKeepsHistory ==
  ASSUME Inv, History, NEW s \in Session, CreateStaff(s)
  PROVE  History'
  <1>1. PICK u : u = job[s].key[2]
    OBVIOUS
  <1>2. /\ job[s] # Null /\ job[s].op = "createStaff"
        /\ users' = [users EXCEPT ![u] = NewAccount]
        /\ Recorded({<<"STAFF_ACCOUNT_CREATED", u>>})
        /\ UNCHANGED <<tokens, codes, clock, ended, mix>>
    BY <1>1 DEF CreateStaff, Serving
  <1>3. u \in Staff /\ u \in User /\ NewAccount # Null
    BY <1>1, <1>2, CustomersAreNotStaff, NewAccountType DEF Inv, JobsOK, JobOK
  <1>4. Grows /\ EachHasACode' /\ Happened' = Happened /\ users'[u] # Null
    BY <1>2, <1>3, StaffKeepHistory
  <1>5. AuditOK'
    <2>1. PICK row : row = <<"STAFF_ACCOUNT_CREATED", u>>
      OBVIOUS
    <2>2. IsTrue(row)'
      BY <1>3, <1>4, <2>1 DEF IsTrue, Exists
    <2> QED
      BY <1>2, <1>4, <2>1, <2>2, OneIsTrue DEF History
  <1> QED
    BY <1>4, <1>5 DEF History

LEMMA BootstrapKeepsHistory ==
  ASSUME Inv, History, NEW s \in Session, BootstrapAdmin(s)
  PROVE  History'
  <1>1. PICK u : u = job[s].key
    OBVIOUS
  <1>2. /\ job[s] # Null /\ job[s].op = "bootstrap"
        /\ users' = [users EXCEPT ![u] = NewAccount]
        /\ UNCHANGED <<tokens, codes, audit, clock, faults, ended, mix>>
    BY <1>1 DEF BootstrapAdmin, Serving
  <1>3. u \in Staff /\ NewAccount # Null
    BY <1>1, <1>2, CustomersAreNotStaff, NewAccountType DEF Inv, JobsOK, JobOK
  <1>4. Grows /\ EachHasACode' /\ Happened' = Happened
    BY <1>2, <1>3, StaffKeepHistory
  <1>5. AuditOK'
    <2>1. faults' \in Nat /\ faults <= faults'
      BY <1>2 DEF Inv, AccountsOK
    <2> QED
      BY <1>2, <1>4, <2>1, SilentIsTrue DEF History
  <1> QED
    BY <1>4, <1>5 DEF History
------------------------------------------------------------------------------
(* A success adds a code, and what it is for.                              *)
LEMMA OneMoreSuccess ==
  ASSUME NEW i \in DOMAIN codes, codes[i].used = 0, codes'[i].used = 1, DOMAIN codes' = DOMAIN codes,
         \A k \in DOMAIN codes : codes'[k].purpose = codes[k].purpose,
         \A k \in DOMAIN codes : k # i => codes'[k] = codes[k]
  PROVE  /\ Successes(codes[i].purpose)' = Successes(codes[i].purpose) \cup {i}
         /\ i \notin Successes(codes[i].purpose)
         /\ \A purpose : purpose # codes[i].purpose => Successes(purpose)' = Successes(purpose)
  <1>1. \A purpose : Successes(purpose)' =
          {k \in DOMAIN codes : codes[k].purpose = purpose /\ codes'[k].used > 0}
    BY DEF Successes
  <1> QED
    BY <1>1 DEF Successes

LEMMA CodeSucceeds ==
  ASSUME Inv, NEW s \in Session, job[s] # Null, job[s].want = {},
         job[s].op \in {"register", "customerLogin"}, Usable(s), codes' = Consumed(Used(s)),
         NEW purpose, purpose = Purpose(s)
  PROVE  \E i : /\ Successes(purpose)' = Successes(purpose) \cup {i}
                /\ i \notin Successes(purpose)
                /\ \A p : p # purpose => Successes(p)' = Successes(p)
  <1>1. PICK i \in DOMAIN codes : /\ codes[i].purpose = Purpose(s)
                                  /\ codes[i].used = 0 /\ codes'[i].used = 1
                                  /\ \A k \in DOMAIN codes : k # i => codes'[k] = codes[k]
    BY ConsumedCode
  <1>2. DOMAIN codes' = DOMAIN codes /\ \A k \in DOMAIN codes : codes'[k].purpose = codes[k].purpose
    BY ConsumedCode
  <1>3. purpose = codes[i].purpose
    BY <1>1
  <1>4. Successes(purpose)' = Successes(purpose) \cup {i} /\ i \notin Successes(purpose)
        /\ \A p : p # purpose => Successes(p)' = Successes(p)
    BY <1>1, <1>2, <1>3, OneMoreSuccess
  <1> QED
    BY <1>4

LEMMA OneMoreEach ==
  ASSUME NEW S, NEW T, IsFiniteSet(S), IsFiniteSet(T), Cardinality(S) = Cardinality(T),
         NEW x, NEW y, x \notin S, y \notin T
  PROVE  /\ IsFiniteSet(S \cup {x}) /\ IsFiniteSet(T \cup {y})
         /\ Cardinality(S \cup {x}) = Cardinality(T \cup {y})
  BY FS_AddElement

LEMMA CustomerLoginKeepsHistory ==
  ASSUME Inv, History, NEW s \in Session, CustomerLogin(s)
  PROVE  History'
  <1>1. PICK u, now : u = job[s].key /\ now = job[s].now
    OBVIOUS
  <1>2. /\ job[s] # Null /\ job[s].want = {} /\ job[s].op = "customerLogin"
        /\ Usable(s) /\ codes' = Consumed(Used(s)) /\ tokens' = LoggedIn(u, now)
        /\ Recorded({<<"AUTH_LOGIN_SUCCESS", Len(tokens) + 1>>})
        /\ UNCHANGED <<users, clock, ended, mix>>
    BY <1>1 DEF CustomerLogin, Serving
  <1>3. u \in Customers /\ u \in User /\ now \in Nat /\ Purpose(s) = "LOGIN"
    BY <1>1, <1>2, ConsumedCode, CustomersAreNotStaff DEF Purpose
  <1>4. AuditOK' /\ CustomerLogins' = CustomerLogins \cup {Len(tokens) + 1}
        /\ Len(tokens) + 1 \notin CustomerLogins
    BY <1>2, <1>3, LoginIsTrue DEF Exists
  <1>5. PICK i : /\ Successes("LOGIN")' = Successes("LOGIN") \cup {i}
                 /\ i \notin Successes("LOGIN")
                 /\ \A p : p # "LOGIN" => Successes(p)' = Successes(p)
    <2>1. PICK purpose : purpose = "LOGIN"
      OBVIOUS
    <2>2. \E i : /\ Successes(purpose)' = Successes(purpose) \cup {i}
                 /\ i \notin Successes(purpose)
                 /\ \A p : p # purpose => Successes(p)' = Successes(p)
      BY <1>2, <1>3, <2>1, CodeSucceeds
    <2> QED
      BY <2>1, <2>2
  <1>6. /\ Successes("LOGIN")' = Successes("LOGIN") \cup {i} /\ i \notin Successes("LOGIN")
        /\ Successes("REGISTER")' = Successes("REGISTER")
    BY <1>5
  <1>7. NewCustomers' = NewCustomers
    BY <1>2, SameCustomers
  <1>8. EachHasACode'
    <2>1. PICK k, before, logins : /\ k = Len(tokens) + 1
                                   /\ before = Successes("LOGIN") /\ logins = CustomerLogins
      OBVIOUS
    <2>2. /\ IsFiniteSet(before) /\ IsFiniteSet(logins) /\ Cardinality(before) = Cardinality(logins)
          /\ i \notin before /\ k \notin logins
      BY <1>4, <1>6, <2>1 DEF History, EachHasACode
    <2>3. /\ IsFiniteSet(before \cup {i}) /\ IsFiniteSet(logins \cup {k})
          /\ Cardinality(before \cup {i}) = Cardinality(logins \cup {k})
      BY <2>2, OneMoreEach
    <2>4. Successes("LOGIN")' = before \cup {i} /\ CustomerLogins' = logins \cup {k}
      BY <1>4, <1>6, <2>1
    <2> QED
      BY <1>6, <1>7, <2>3, <2>4 DEF History, EachHasACode
  <1> QED
    BY <1>4, <1>8 DEF History

LEMMA RegisterKeepsHistory ==
  ASSUME Inv, History, NEW s \in Session, Register(s)
  PROVE  History'
  <1>1. PICK u : u = job[s].key
    OBVIOUS
  <1>2. /\ job[s] # Null /\ job[s].want = {} /\ job[s].op = "register"
        /\ Usable(s) /\ ~Clash(u) /\ codes' = Consumed(Used(s))
        /\ users' = [users EXCEPT ![u] = NewAccount]
        /\ UNCHANGED <<tokens, audit, clock, faults, ended, mix>>
    BY <1>1 DEF Register, Serving
  <1>3. u \in Customers /\ u \in User /\ Purpose(s) = "REGISTER"
    BY <1>1, <1>2, ConsumedCode, CustomersAreNotStaff DEF Purpose
  <1>4. /\ ~Exists(u) /\ u \notin mix.registered /\ DOMAIN users = User /\ NewAccount # Null
    BY <1>2, <1>3, ClashIfExists, NewAccountType DEF Inv, AccountsOK
  <1>5. Grows
    BY <1>2, <1>4 DEF Grows, Exists
  <1>6. Happened' = Happened /\ CustomerLogins' = CustomerLogins
    BY <1>2, <1>5, SameTokensHappened
  <1>7. AuditOK'
    <2>1. faults' \in Nat /\ faults <= faults'
      BY <1>2 DEF Inv, AccountsOK
    <2> QED
      BY <1>2, <1>5, <1>6, <2>1, SilentIsTrue DEF History
  <1>8. PICK i : /\ Successes("REGISTER")' = Successes("REGISTER") \cup {i}
                 /\ i \notin Successes("REGISTER")
                 /\ \A p : p # "REGISTER" => Successes(p)' = Successes(p)
    <2>1. PICK purpose : purpose = "REGISTER"
      OBVIOUS
    <2>2. \E i : /\ Successes(purpose)' = Successes(purpose) \cup {i}
                 /\ i \notin Successes(purpose)
                 /\ \A p : p # purpose => Successes(p)' = Successes(p)
      BY <1>2, <1>3, <2>1, CodeSucceeds
    <2> QED
      BY <2>1, <2>2
  <1>9. /\ Successes("REGISTER")' = Successes("REGISTER") \cup {i} /\ i \notin Successes("REGISTER")
        /\ Successes("LOGIN")' = Successes("LOGIN")
    BY <1>8
  <1>10. NewCustomers' = NewCustomers \cup {u} /\ u \notin NewCustomers
    <2>1. NewCustomers' = {v \in Customers \ mix.registered : users'[v] # Null}
      BY <1>2 DEF NewCustomers, Customers, Exists
    <2>2. users'[u] # Null /\ \A v \in Customers : v # u => users'[v] = users[v]
      BY <1>2, <1>3, <1>4, CustomersAreNotStaff
    <2> QED
      BY <1>3, <1>4, <2>1, <2>2 DEF NewCustomers, Exists
  <1>11. EachHasACode'
    BY <1>6, <1>9, <1>10, OneMoreEach DEF History, EachHasACode
  <1> QED
    BY <1>7, <1>11 DEF History

(* Codes that are made or tried are not used yet.                          *)
LEMMA CodesKeepHistory ==
  ASSUME Inv, History, UNCHANGED <<users, tokens, ended, mix>>,
         DOMAIN codes \subseteq DOMAIN codes',
         \A i \in DOMAIN codes : codes'[i].purpose = codes[i].purpose /\ codes'[i].used = codes[i].used,
         \A i \in DOMAIN codes' \ DOMAIN codes : codes'[i].used = 0
  PROVE  Grows /\ Happened' = Happened /\ EachHasACode'
  <1>1. Grows
    BY DEF Grows, Exists
  <1>2. Happened' = Happened /\ CustomerLogins' = CustomerLogins
    BY <1>1, SameTokensHappened
  <1>3. \A purpose : Successes(purpose)' = Successes(purpose)
    BY SameSuccesses
  <1>4. NewCustomers' = NewCustomers
    BY SameCustomers
  <1> QED
    BY <1>1, <1>2, <1>3, <1>4, StillEven DEF History

LEMMA StoreCodeKeepsHistory ==
  ASSUME Inv, History, NEW s \in Session, StoreCode(s)
  PROVE  History'
  <1>1. UNCHANGED <<users, tokens, audit, clock, faults, ended, mix>>
    BY DEF StoreCode
  <1>2. PICK n \in Nat : n = Len(codes) /\ DOMAIN codes = 1..n
    BY Numbered
  <1>3. /\ DOMAIN codes' = 1..n + 1
        /\ \A i \in DOMAIN codes : codes'[i].purpose = codes[i].purpose /\ codes'[i].used = codes[i].used
        /\ codes'[n + 1].used = 0
    BY <1>2, StoredCodes
  <1>4. Grows /\ Happened' = Happened /\ EachHasACode'
    <2>1. DOMAIN codes \subseteq DOMAIN codes'
          /\ \A i \in DOMAIN codes' \ DOMAIN codes : codes'[i].used = 0
      BY <1>2, <1>3
    <2> QED
      BY <1>1, <1>3, <2>1, CodesKeepHistory
  <1>5. AuditOK'
    <2>1. faults' \in Nat /\ faults <= faults'
      BY <1>1 DEF Inv, AccountsOK
    <2> QED
      BY <1>1, <1>4, <2>1, SilentIsTrue DEF History
  <1> QED
    BY <1>4, <1>5 DEF History

LEMMA MissCodeKeepsHistory ==
  ASSUME Inv, History, NEW s \in Session, MissCode(s)
  PROVE  History'
  <1>1. /\ job[s] # Null /\ job[s].want = {} /\ job[s].op \in {"register", "customerLogin"}
        /\ Usable(s) /\ job[s].read # Null
        /\ UNCHANGED <<users, tokens, clock, ended, mix>>
    BY DEF MissCode, Serving, Usable
  <1>2. PICK i \in DOMAIN codes : Used(s) = i
    BY <1>1, HasCode
  <1>3. codes[i] \in CodeRow
    BY <1>2, Numbered
  <1>4. PICK failed, tried, gone :
          codes' = [codes EXCEPT ![i].failed = failed, ![i].tried = tried, ![i].consumed = gone]
    BY <1>2 DEF MissCode
  <1>5. PICK row : row = [codes[i] EXCEPT !.failed = failed, !.tried = tried, !.consumed = gone]
    OBVIOUS
  <1>6. row.purpose = codes[i].purpose /\ row.used = codes[i].used
    BY <1>3, <1>5 DEF CodeRow
  <1>7. codes' = [codes EXCEPT ![i] = row]
    BY <1>4, <1>5
  <1>8. Grows /\ Happened' = Happened /\ EachHasACode'
    <2>1. DOMAIN codes' = DOMAIN codes
          /\ \A k \in DOMAIN codes : codes'[k].purpose = codes[k].purpose /\ codes'[k].used = codes[k].used
      BY <1>6, <1>7
    <2> QED
      BY <1>1, <2>1, CodesKeepHistory
  <1>9. AuditOK'
    <2> DEFINE rows == IF job[s].op = "register" THEN {} ELSE {<<"AUTH_LOGIN_FAILED", job[s].key>>}
    <2>1. Recorded(rows)
      BY DEF MissCode
    <2>2. IsFiniteSet(rows)
      BY FS_EmptySet, FS_Singleton
    <2>3. \A row_1 \in rows : row_1[1] \in Remarks
      BY DEF Remarks
    <2> HIDE DEF rows
    <2>4. \A row_1 \in rows : IsTrue(row_1)'
      BY <2>3, RemarkIsTrue
    <2> QED
      BY <1>8, <2>1, <2>2, <2>4, RecordedIsTrue DEF History
  <1> QED
    BY <1>8, <1>9 DEF History

(* The steps that write nothing but their request, or fail.                *)
LEMMA QuietStep ==
  ASSUME Inv, NEW s \in Session,
         \/ Ask(s) \/ Lock(s) \/ DeadlockVictim(s) \/ Crash(s) \/ NoticeReuse(s) \/ FlushCode(s)
         \/ RefuseToken(s) \/ LogoutAgain(s) \/ RefuseStaff(s) \/ RefuseRegister(s)
  PROVE  Quiet /\ audit' = audit /\ faults' \in Nat /\ faults <= faults'
  <1>1. CASE Ask(s)
    <2>1. UNCHANGED <<users, tokens, codes, audit, clock, faults, ended, mix>>
      BY <1>1 DEF Ask, AskToken, AskStaff, AskCustomer, AskRotate, AskLogout, AskStaffLogin,
                  AskCreateStaff, AskBootstrap, AskCode, AskRegister, AskCustomerLogin, Begin
    <2> QED
      BY <2>1 DEF Quiet, Inv, AccountsOK
  <1>2. CASE Lock(s) \/ NoticeReuse(s) \/ FlushCode(s)
    <2>1. UNCHANGED <<users, tokens, codes, audit, clock, faults, ended, mix>>
      BY <1>2 DEF Lock, LockRow, NoticeReuse, FlushCode
    <2> QED
      BY <2>1 DEF Quiet, Inv, AccountsOK
  <1>3. CASE Crash(s)
    BY <1>3 DEF Crash, Quiet, Inv, AccountsOK
  <1>4. CASE \/ DeadlockVictim(s) \/ RefuseToken(s) \/ LogoutAgain(s) \/ RefuseStaff(s)
             \/ RefuseRegister(s)
    BY <1>4 DEF DeadlockVictim, RefuseToken, LogoutAgain, RefuseStaff, RefuseRegister, Rollback, Quiet, Inv, AccountsOK
  <1> QED
    BY <1>1, <1>2, <1>3, <1>4

LEMMA FinishKeepsHistory ==
  ASSUME Inv, History, NEW s \in Session, Finish(s)
  PROVE  History'
  <1>1. CASE DenyLogin(s) \/ DenyLocked(s) \/ DenyAccess(s) \/ DenyCustomer(s)
    <2>1. PICK row : row[1] \in Remarks /\ Denied(s, {row})
      <3>1. \A kind \in Remarks : \A about : <<kind, about>>[1] \in Remarks
        OBVIOUS
      <3>2. \E kind \in Remarks : \E about : Denied(s, {<<kind, about>>})
        BY <1>1 DEF DenyLogin, DenyLocked, DenyAccess, DenyCustomer, Remarks
      <3> QED
        BY <3>1, <3>2
    <2> QED
      BY <2>1, DeniedKeepsHistory
  <1>2. CASE NoticeReuse(s) \/ FlushCode(s) \/ RefuseToken(s) \/ LogoutAgain(s) \/ RefuseStaff(s)
             \/ RefuseRegister(s)
    BY <1>2, QuietStep, QuietKeepsHistory
  <1> QED
    BY <1>1, <1>2, RotateKeepsHistory, EndSessionsKeepsHistory, LogoutKeepsHistory,
       StaffLoginKeepsHistory, MissPasswordKeepsHistory, CreateStaffKeepsHistory,
       BootstrapKeepsHistory, StoreCodeKeepsHistory, MissCodeKeepsHistory,
       CustomerLoginKeepsHistory, RegisterKeepsHistory
       DEF Finish, FinishToken, FinishStaff, FinishCustomer

LEMMA NextKeepsHistory ==
  ASSUME Inv, History, [Next]_vars
  PROVE  History'
  <1>1. CASE \E s \in Session : Ask(s) \/ Lock(s) \/ DeadlockVictim(s) \/ Crash(s)
    BY <1>1, QuietStep, QuietKeepsHistory
  <1>2. CASE \E s \in Session : Finish(s)
    BY <1>2, FinishKeepsHistory
  <1>3. CASE Tick \/ UNCHANGED vars
    <2>1. Quiet /\ audit' = audit /\ faults' \in Nat /\ faults <= faults'
      BY <1>3 DEF Tick, vars, Quiet, Inv, AccountsOK
    <2> QED
      BY <2>1, QuietKeepsHistory
  <1> QED
    BY <1>1, <1>2, <1>3 DEF Next

LEMMA InitHistory == Init => History
  <1> SUFFICES ASSUME Init PROVE History
    OBVIOUS
  <1>1. Inv
    BY InitInv
  <1>2. PICK logins : logins = mix.loggedIn
    OBVIOUS
  <1>3. /\ mix \in Mixes /\ logins \in Seq({u \in User : RoleOf[u] # "CUSTOMER"})
        /\ mix.registered \subseteq User
    BY <1>2, IdentityConstants DEF Init
  <1>4. PICK n \in Nat : n = Len(logins) /\ DOMAIN logins = 1..n
                         /\ \A i \in 1..n : logins[i] \in User \ Customers
    BY <1>3, IdentityConstants DEF Customers
  <1>5. /\ DOMAIN tokens = 1..n
        /\ \A i \in 1..n : tokens[i].login = i /\ tokens[i].user \notin Customers
    BY <1>2, <1>4 DEF Init, NewToken
  <1>6. CustomerLogins = {} /\ Successes("LOGIN") = {} /\ Successes("REGISTER") = {}
    <2>1. CustomerLogins = {}
      BY <1>5 DEF CustomerLogins
    <2>2. DOMAIN codes = {}
      BY DEF Init
    <2> QED
      BY <2>1, <2>2 DEF Successes
  <1>7. NewCustomers = {}
    <2>1. \A u \in User \ mix.registered : users[u] = Null
      BY DEF Init
    <2> QED
      BY <2>1, CustomersAreNotStaff DEF NewCustomers, Exists
  <1>8. EachHasACode
    BY <1>6, <1>7, FS_EmptySet DEF EachHasACode
  <1>9. audit = {<<"AUTH_LOGIN_SUCCESS", i>> : i \in 1..n} /\ faults = 0
    BY <1>2, <1>4 DEF Init
  <1>10. Happened = audit
    <2>1. {k \in DOMAIN tokens : tokens[k].login = k} = 1..n
          /\ {k \in DOMAIN tokens : tokens[k].login # k} = {}
      BY <1>5
    <2> QED
      BY <1>9, <2>1 DEF Happened
  <1>11. AuditOK
    <2>1. \A row \in audit : row[1] = "AUTH_LOGIN_SUCCESS"
      BY <1>9
    <2>2. \A row \in audit : IsTrue(row)
      BY <1>10, <2>1 DEF IsTrue
    <2>3. Happened \ audit = {}
      BY <1>10
    <2> QED
      BY <1>9, <2>2, <2>3, FS_EmptySet DEF AuditOK
  <1> QED
    BY <1>8, <1>11 DEF History

LEMMA HistoryHolds == Spec => []History
  <1>1. Inv /\ History /\ [Next]_vars => History'
    BY NextKeepsHistory
  <1> QED
    BY <1>1, InitHistory, Invariance, PTL DEF Spec

(* A code is good for one success, every failure is counted, and there are *)
(* as many customers and customer logins as codes that succeeded: none got *)
(* in twice with one code, and no code was spent on a registration that    *)
(* failed (OtpService.verify, CustomerService.register).                   *)
THEOREM EveryCodeWorksOnce == Spec => []CodesWorkOnce
  <1>1. Inv /\ History => CodesWorkOnce
    <2> SUFFICES ASSUME Inv, History PROVE CodesWorkOnce
      OBVIOUS
    <2>1. \A i \in DOMAIN codes : codes[i].used <= 1 /\ codes[i].tried = codes[i].failed
      BY DEF Inv, CodesOK
    <2>2. /\ Cardinality(Successes("REGISTER")) = Cardinality(NewCustomers)
          /\ Cardinality(Successes("LOGIN")) = Cardinality(CustomerLogins)
      BY DEF History, EachHasACode
    <2> QED
      BY <2>1, <2>2 DEF CodesWorkOnce, Successes, NewCustomers, CustomerLogins
  <1> QED
    BY <1>1, Invariance, HistoryHolds, PTL

(* Whatever was rolled back is not in the audit log, and of the logins and *)
(* refreshes at most as many are missing as writes failed (AuditService).  *)
THEOREM AuditIsTrue == Spec => []AuditTellsTheTruth
  <1>1. History => AuditTellsTheTruth
    <2> SUFFICES ASSUME History PROVE AuditTellsTheTruth
      OBVIOUS
    <2>1. \A row \in audit :
            CASE row[1] = "AUTH_LOGOUT" -> tokens[row[2]].revoked /\ tokens[row[2]].by = 0
              [] row[1] = "AUTH_TOKEN_REUSE_DETECTED" -> row[2] \in ended
              [] row[1] = "STAFF_ACCOUNT_CREATED" -> Exists(row[2])
              [] row[1] \in {"AUTH_LOGIN_SUCCESS", "AUTH_TOKEN_REFRESHED"} -> row \in Happened
              [] OTHER -> TRUE
      BY DEF History, AuditOK, IsTrue
    <2>2. Cardinality(Happened \ audit) <= faults
      BY DEF History, AuditOK
    <2> QED
      BY <2>1, <2>2 DEF AuditTellsTheTruth, Happened
  <1> QED
    BY <1>1, HistoryHolds, PTL
==============================================================================
