----------------------------- MODULE DemoScripts -----------------------------
(* demo_reset.py, demo_prepare.py and demo_status.py. Each runs the command *)
(* line tools of the services one after the other; a tool is a transaction  *)
(* of its own database, and what it reads before its deletes is a step of   *)
(* its own. A script stops at the first command that fails; what the        *)
(* earlier ones committed stays.                                            *)
EXTENDS DemoPlatform

CONSTANT AccountOrder, AnalystOrder   \* DEMO_STAFF then the customer; PROFILES

ASSUME DemoConstants ==
  /\ Analyst \subseteq Staff /\ Specialist \in Analyst
  /\ Null \notin Analyst /\ Null \notin Transaction
  /\ Null \notin LoadProfile /\ Null \notin ScoreProfile
  /\ AccountOrder \in Seq(Accounts)
  /\ \A a \in Accounts : \E i \in DOMAIN AccountOrder : AccountOrder[i] = a
  /\ AnalystOrder \in Seq(Analyst)
  /\ \A a \in Analyst : \E i \in DOMAIN AnalystOrder : AnalystOrder[i] = a
  /\ MaxLoad \in Nat \ {0} /\ MaxFaults \in Nat
  /\ \A d \in Deployments : d.account \in [Accounts -> AccountState]

\* A script that has begun: its next step, what the tool of this step has
\* read (found), the events the transaction reset removed, and for the
\* acceptance run the steps that passed.
Started(cmd, first) ==
  [cmd |-> cmd, step |-> first, n |-> 1, found |-> {}, events |-> {},
   badges |-> {}, profiles |-> {}, passed |-> {}, failed |-> {}, golden |-> Null,
   aiStopped |-> FALSE, faulted |-> FALSE]
Idle == Started("none", "none")

At(cmd, step) == script.cmd = cmd /\ script.step = step
GoTo(step) == script' = [script EXCEPT !.step = step, !.n = 1]

Begin(cmd, first) ==
  /\ script = Idle /\ runs > 0
  /\ runs' = runs - 1
  /\ script' = Started(cmd, first)
  /\ quiet' = Drained
  /\ UNCHANGED <<platform, result, userSteps, faults>>

End(outcome) ==
  /\ script' = Idle
  /\ result' = [cmd |-> script.cmd, outcome |-> outcome]

\* The script reports a failure that is not one of the environment.
Refuse == End("refused") /\ UNCHANGED <<platform, quiet, stage, bounds>>

\* docker, a service or a database fails the command: nothing of its
\* transaction is committed.
Break ==
  /\ script.cmd \in {"reset", "prepare", "status"} /\ faults < MaxFaults
  /\ faults' = faults + 1
  /\ End("broken")
  /\ UNCHANGED <<platform, quiet, stage, userSteps, runs>>

UNCHANGEDButIdentity == UNCHANGED <<aiUp, ai, cases, queue, scoring, quiet, bounds>>

----------------------------------------------------------------------------
(* demo_reset.py *)

BeginReset == Begin("reset", "lookup") /\ stage' = 0

Missing == {a \in Accounts : account[a] = "absent"}

\* Without any demo account there is nothing to reset; with some of them only
\* the script refuses.
LookUp ==
  /\ At("reset", "lookup")
  /\ \/ Missing = Accounts /\ End("complete") /\ UNCHANGED <<platform, stage>>
     \/ Missing \notin {{}, Accounts} /\ End("refused") /\ UNCHANGED <<platform, stage>>
     \/ Missing = {} /\ GoTo("readCases") /\ UNCHANGED <<platform, result, stage>>
  /\ UNCHANGED <<quiet, bounds>>

\* Mutant: the transactions of every customer.
EverybodysTransactions == {t \in Transaction : IsStored(t)}

DemoTransactions == {t \in Demo : IsStored(t)}

\* The transactions, their cases and the events about them are read ...
ReadCases ==
  /\ At("reset", "readCases")
  /\ script' = [script EXCEPT !.step = "deleteCases", !.found = DemoTransactions,
       !.events = {t \in DemoTransactions : outbox[t] # "none"}]
  /\ UNCHANGED <<platform, result, quiet, stage, bounds>>

\* ... and deleted. What was inserted in between stays.
DeleteCases ==
  /\ At("reset", "deleteCases")
  /\ transactions' = [t \in Transaction |->
       IF t \in script.found THEN Row("gone", transactions[t].analyst) ELSE transactions[t]]
  /\ outbox' = [t \in Transaction |-> IF t \in script.events THEN "none" ELSE outbox[t]]
  /\ script' = [script EXCEPT !.step = "readLedger", !.found = {}]
  /\ UNCHANGED <<identity, aiUp, ai, queue, scoring, result, quiet, stage, bounds>>

\* The ledger's events are read first, ...
ReadLedger ==
  /\ At("reset", "readLedger")
  /\ script' = [script EXCEPT !.step = "deleteLedger", !.events = @ \cup ledger]
  /\ UNCHANGED <<platform, result, quiet, stage, bounds>>

\* ... then badges and ledger are deleted, ...
DeleteLedger ==
  /\ At("reset", "deleteLedger")
  /\ script' = [script EXCEPT !.step = "readProfiles", !.found = ledger,
       !.badges = {a \in Analyst : game[a] # Null /\ game[a].badge}]
  /\ UNCHANGED <<platform, result, quiet, stage, bounds>>

\* ... and the profiles are read, without a lock: what is zero in them will
\* not be written.
ReadProfiles ==
  /\ At("reset", "readProfiles")
  /\ script' = [script EXCEPT !.step = "resetProfiles",
       !.profiles = {a \in Analyst : game[a] # Null /\ game[a].resolved # 0}]
  /\ UNCHANGED <<platform, result, quiet, stage, bounds>>

\* Mutant: the resolved cases are left.
ZeroPoints(a) ==
  IF game[a] = Null THEN Null
  ELSE [points   |-> IF a \in script.profiles THEN 0 ELSE game[a].points,
        resolved |-> game[a].resolved,
        badge    |-> game[a].badge /\ a \notin script.badges]

\* Analyst a's profile after the commit.
ZeroProfile(a) ==
  IF game[a] = Null THEN Null
  ELSE [points   |-> IF a \in script.profiles THEN 0 ELSE game[a].points,
        resolved |-> IF a \in script.profiles THEN 0 ELSE game[a].resolved,
        badge    |-> game[a].badge /\ a \notin script.badges]

ResetProfiles ==
  /\ At("reset", "resetProfiles")
  /\ ledger' = ledger \ script.found
  /\ processed' = processed \ script.events
  /\ game' = [a \in Analyst |-> ZeroProfile(a)]
  /\ script' = Started("reset", "resetLoad")
  /\ UNCHANGED <<identity, aiUp, ai, cases, queue, result, quiet, stage, bounds>>

\* The tool runs in the container of the AI Service.
ResetLoad ==
  /\ At("reset", "resetLoad")
  /\ \/ ~aiUp /\ Refuse
     \/ /\ aiUp
        /\ ai' = [a \in Analyst |-> IF ai[a] = Null THEN Null ELSE [ai[a] EXCEPT !.load = 0]]
        /\ GoTo("resetIdentity")
        /\ UNCHANGED <<identity, aiUp, cases, queue, scoring, result, quiet, stage, bounds>>

ResetIdentity ==
  /\ At("reset", "resetIdentity")
  /\ sessions' = {}
  /\ locked' = {}
  /\ End("complete")
  /\ stage' = IF quiet THEN 1 ELSE 0
  /\ UNCHANGED account /\ UNCHANGEDButIdentity

Reset == BeginReset \/ LookUp \/ ReadCases \/ DeleteCases \/ ReadLedger \/ DeleteLedger
         \/ ReadProfiles \/ ResetProfiles \/ ResetLoad \/ ResetIdentity

----------------------------------------------------------------------------
(* demo_prepare.py *)

BeginPrepare == Begin("prepare", "health") /\ UNCHANGED stage

\* Every service answers its health endpoint, or the script ends.
CheckHealth(next) ==
  /\ script.step = "health"
  /\ \/ ~aiUp /\ Refuse
     \/ aiUp /\ GoTo(next) /\ UNCHANGED <<platform, result, quiet, stage, bounds>>

\* The next account or analyst, or the next step after the last.
Advance(order, next) ==
  script' = IF script.n < Len(order) THEN [script EXCEPT !.n = @ + 1]
            ELSE [script EXCEPT !.step = next, !.n = 1]

\* seed_demo_users: every account is created or brought to the password of
\* .env in a transaction of its own.
SeedAccount ==
  /\ At("prepare", "users")
  /\ LET a == AccountOrder[script.n]
     IN \/ account[a] = "conflict" /\ Refuse
        \/ /\ account[a] # "conflict"
           /\ account' = [account EXCEPT ![a] = "ready"]
           /\ Advance(AccountOrder, "analysts")
           /\ UNCHANGED <<locked, sessions, result, stage>> /\ UNCHANGEDButIdentity

\* seed_demo_analysts: a profile that is there must be the expected one.
SeedAnalyst ==
  /\ At("prepare", "analysts")
  /\ LET a == AnalystOrder[script.n]
     IN \/ ai[a] # Null /\ ~ai[a].fits /\ Refuse
        \/ /\ ai[a] # Null => ai[a].fits
           /\ ai' = [ai EXCEPT ![a] = IF @ = Null THEN [load |-> 0, fits |-> TRUE] ELSE @]
           /\ Advance(AnalystOrder, "profiles")
           /\ UNCHANGED <<identity, aiUp, cases, queue, scoring, result, quiet, stage, bounds>>

\* seed_demo_profiles: one transaction for all of them.
SeedProfiles ==
  /\ At("prepare", "profiles")
  /\ game' = [a \in Analyst |-> IF game[a] = Null THEN CleanProfile ELSE game[a]]
  /\ GoTo("logins")
  /\ UNCHANGED <<identity, aiUp, ai, cases, queue, processed, ledger, result, quiet, stage, bounds>>

\* The customer logs in, then the staff in who, up to the first that is locked.
Entered(who) ==
  {Customer} \cup {AccountOrder[i] : i \in {k \in DOMAIN AccountOrder :
     /\ AccountOrder[k] \in who
     /\ \A h \in 1..k : AccountOrder[h] \in who => AccountOrder[h] \notin locked}}

\* The staff whose login demo_prepare tries: of the analysts only the first.
Tried == (Staff \ Analyst) \cup {AnalystOrder[1]}

TryLogins ==
  /\ At("prepare", "logins")
  /\ IF Tried \cap locked = {}
     THEN /\ End("complete")
          /\ stage' = IF stage = 1 THEN 2 ELSE stage
     ELSE End("refused") /\ UNCHANGED stage
  /\ sessions' = sessions \cup Entered(Tried)
  /\ UNCHANGED <<account, locked>> /\ UNCHANGEDButIdentity

Prepare == BeginPrepare \/ (script.cmd = "prepare" /\ CheckHealth("users"))
           \/ SeedAccount \/ SeedAnalyst \/ SeedProfiles \/ TryLogins

----------------------------------------------------------------------------
(* demo_status.py *)

BeginStatus == Begin("status", "health") /\ UNCHANGED stage

\* The tools with --check, which create nothing.
CheckAccounts ==
  /\ At("status", "users")
  /\ IF \A a \in Accounts : account[a] = "ready"
     THEN GoTo("profiles") /\ UNCHANGED <<platform, result, quiet, stage, bounds>>
     ELSE Refuse

CheckProfiles ==
  /\ At("status", "profiles")
  /\ IF \A a \in Analyst : ai[a] # Null /\ ai[a].fits /\ game[a] # Null
     THEN GoTo("logins") /\ UNCHANGED <<platform, result, quiet, stage, bounds>>
     ELSE Refuse

TryAllLogins ==
  /\ At("status", "logins")
  /\ IF locked = {} THEN GoTo("zero") /\ UNCHANGED result ELSE End("refused")
  /\ sessions' = sessions \cup Entered(Staff)
  /\ UNCHANGED <<account, locked, stage>> /\ UNCHANGEDButIdentity

\* Each analyst's own profile, one request after the other.
CheckZero ==
  /\ At("status", "zero")
  /\ IF game[AnalystOrder[script.n]] = CleanProfile
     THEN /\ Advance(AnalystOrder, "transactions")
          /\ UNCHANGED <<platform, result, quiet, stage, bounds>>
     ELSE Refuse

CheckNoTransactions ==
  /\ At("status", "transactions")
  /\ End(IF DemoTransactions = {} THEN "complete" ELSE "refused")
  /\ UNCHANGED <<platform, quiet, stage, bounds>>

StatusCheck == BeginStatus \/ (script.cmd = "status" /\ CheckHealth("users"))
               \/ CheckAccounts \/ CheckProfiles \/ TryAllLogins \/ CheckZero
               \/ CheckNoTransactions
=============================================================================
