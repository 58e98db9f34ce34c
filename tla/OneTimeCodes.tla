----------------------------- MODULE OneTimeCodes ---------------------------
(* One-time codes (OtpService), customer registration (CustomerService) and *)
(* customer login (AuthService.customer_login). A request is right when its *)
(* code is; a code that was never asked for is number 0.                    *)
EXTENDS StaffAccounts

ActiveCustomer(u) == /\ Exists(u) /\ u \notin Inactive
                     /\ RoleOf[u] = "CUSTOMER"

\* A challenge for a login is only made for an active customer.
AskedFor(gsm, purpose) == {i \in DOMAIN codes : codes[i].gsm = gsm
                                                /\ codes[i].purpose = purpose}

AskCode(s, gsm, purpose) ==
  /\ purpose = "LOGIN" => \E u \in User : GsmOf[u] = gsm /\ ActiveCustomer(u)
  /\ Len(codes) + Cardinality({q \in Session :
       job[q] # Null /\ job[q].op = "askCode"}) < mix.maxCodes
  /\ Begin(s, [Request("askCode", <<gsm, purpose>>, TRUE, clock) EXCEPT
       !.want = {<<"code", i>> : i \in {k \in AskedFor(gsm, purpose) : ~codes[k].consumed}}])

\* The new row gets its created_at when it is flushed, before the commit.
LastMade == LET Made == {codes[i].made : i \in DOMAIN codes}
                          \cup {job[s].mark : s \in {q \in Session : job[q] # Null
                                                      /\ job[q].op = "askCode"}}
            IN IF Made = {} THEN 0 ELSE CHOOSE m \in Made : \A n \in Made : n <= m

FlushCode(s) ==
  /\ Serving(s, "askCode") /\ job[s].mark = 0
  /\ job' = [job EXCEPT ![s].mark = LastMade + 1]
  /\ UNCHANGED <<users, tokens, codes, audit, clock, faults, ended, mix>>

StoreCode(s) ==
  LET new == [gsm |-> job[s].key[1], purpose |-> job[s].key[2],
              expires |-> job[s].now + CodeLife, consumed |-> FALSE, failed |-> 0,
              made |-> job[s].mark, tried |-> 0, used |-> 0]
  IN /\ Serving(s, "askCode") /\ job[s].mark > 0
     /\ codes' = Append([i \in DOMAIN codes |->
          [codes[i] EXCEPT !.consumed = @ \/ <<"code", i>> \in job[s].have]], new)
     /\ End(s)
     /\ UNCHANGED <<users, tokens, audit, clock, faults, ended, mix>>

----------------------------------------------------------------------------
(* Using a code *)

\* get_latest_for_update: the newest row of those committed, as it is by the
\* time it is locked.
Latest(gsm, purpose) ==
  {<<"code", i>> : i \in {k \in AskedFor(gsm, purpose) :
     \A l \in AskedFor(gsm, purpose) : codes[l].made <= codes[k].made}}

AskRegister(s, u, right) ==
  LET free == ~\E v \in User : Exists(v) /\ \/ GsmOf[v] = GsmOf[u]
                                            \/ EmailOf[u] # Null /\ EmailOf[v] = EmailOf[u]
  IN Begin(s, [Request("register", u, right, clock) EXCEPT !.free = free,
                 !.want = IF free THEN Latest(GsmOf[u], "REGISTER") ELSE {}])

AskCustomerLogin(s, u, right) ==
  /\ RoomForToken
  /\ Begin(s, [Request("customerLogin", u, right, clock) EXCEPT !.free = ActiveCustomer(u),
                 !.want = IF ActiveCustomer(u) THEN Latest(GsmOf[u], "LOGIN") ELSE {}])

Usable(s) ==
  LET read == job[s].read
  IN /\ job[s].free
     /\ read # Null /\ ~read.consumed
     /\ read.expires > job[s].now
     /\ read.failed < MaxFailed

Used(s) == CHOOSE i \in DOMAIN codes : <<"code", i>> \in job[s].have

\* A failed attempt is committed, and the last one consumes the code.
MissCode(s) ==
  LET failed == job[s].read.failed + 1
  IN /\ Serving(s, "register") \/ Serving(s, "customerLogin")
     /\ Usable(s) /\ ~job[s].right
     /\ codes' = [codes EXCEPT ![Used(s)].failed = failed, ![Used(s)].tried = @ + 1,
                    ![Used(s)].consumed = IF failed >= MaxFailed THEN TRUE ELSE @]
     /\ Recorded(IF job[s].op = "register" THEN {}
                 ELSE {<<"AUTH_LOGIN_FAILED", job[s].key>>})
     /\ End(s)
     /\ UNCHANGED <<users, tokens, clock, ended, mix>>

Consumed(i) == [codes EXCEPT ![i].consumed = TRUE, ![i].used = @ + 1]

CustomerLogin(s) ==
  /\ Serving(s, "customerLogin")
  /\ Usable(s) /\ job[s].right
  /\ codes' = Consumed(Used(s))
  /\ tokens' = LoggedIn(job[s].key, job[s].now)
  /\ Recorded({<<"AUTH_LOGIN_SUCCESS", Len(tokens) + 1>>})
  /\ End(s)
  /\ UNCHANGED <<users, clock, ended, mix>>

DenyCustomer(s) ==
  /\ Serving(s, "customerLogin") /\ ~Usable(s)
  /\ Denied(s, {<<"AUTH_LOGIN_FAILED", IF job[s].free THEN job[s].key ELSE Null>>})

Register(s) ==
  LET u == job[s].key
  IN /\ Serving(s, "register")
     /\ Usable(s) /\ job[s].right
     /\ ~Clash(u)
     /\ users' = [users EXCEPT ![u] = NewAccount]
     /\ codes' = Consumed(Used(s))
     /\ End(s)
     /\ UNCHANGED <<tokens, audit, clock, faults, ended, mix>>

\* Mutant: the code stays consumed when the insert fails.
RefuseRegisterSpendsCode(s) ==
  /\ Serving(s, "register")
  /\ ~Usable(s) \/ (job[s].right /\ Clash(job[s].key))
  /\ codes' = IF Usable(s) THEN Consumed(Used(s)) ELSE codes
  /\ End(s)
  /\ UNCHANGED <<users, tokens, audit, clock, faults, ended, mix>>

\* A contact that is taken, before or after the code was verified, leaves the
\* code as it was.
RefuseRegister(s) ==
  /\ Serving(s, "register")
  /\ ~Usable(s) \/ (job[s].right /\ Clash(job[s].key))
  /\ Rollback(s)

Customers == {u \in User : GsmOf[u] # Null}
AskCustomer(s) == \/ \E u \in mix.users \cap Customers, purpose \in mix.purposes : AskCode(s, GsmOf[u], purpose)
                  \/ \E u \in mix.users \cap Customers, right \in mix.rights :
                       AskRegister(s, u, right) \/ AskCustomerLogin(s, u, right)
FinishCustomer(s) == \/ FlushCode(s) \/ StoreCode(s) \/ MissCode(s) \/ CustomerLogin(s)
                     \/ DenyCustomer(s) \/ Register(s) \/ RefuseRegister(s)
=============================================================================
