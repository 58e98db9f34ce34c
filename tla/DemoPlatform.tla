---------------------------- MODULE DemoPlatform ----------------------------
(* The platform as the demo scripts see it: the rows of the four databases  *)
(* that belong to the demo, the queue between two of them, and the users    *)
(* and workers that go on while a script runs. What a request does inside   *)
(* its service is one step here (CaseService, TransactionIntake,            *)
(* EventService and StaffAccounts have the details); the databases share no *)
(* transaction. Every analyst is a demo analyst, and every case that is     *)
(* decided is confirmed fraud.                                              *)
EXTENDS Integers, Sequences, FiniteSets

CONSTANTS
  Analyst,        \* the demo analysts
  Specialist,     \* the one whose specialization is the golden transaction's
  Staff,          \* DEMO_STAFF, the demo analysts among them
  Customer,       \* the demo customer
  Transaction,    \* ids of transactions
  OwnerOf,        \* customer of each: Customer or another one
  Null,
  MaxLoad,        \* max_active_cases
  Deployments,    \* the states in which the scripts may find the platform, with
                  \* the bounds on what follows: users steps, scripts runs
  MaxFaults       \* bound: failures

VARIABLES
  account,        \* identity: account -> absent, ready, conflict (unexpected
                  \*   role or profile), oldPassword (not the one of .env)
  locked,         \* identity: accounts with locked_until
  sessions,       \* identity: accounts with refresh tokens
  aiUp,           \* the container of the AI Service runs
  ai,             \* analyst_profiles of the AI Service, or Null
  transactions,   \* a transaction with its case, see Row
  outbox,         \* outbox_events: none, pending, published
  queue,          \* messages for the gamification worker
  processed,      \* processed_events
  game,           \* analyst_profiles and badges of the Gamification Service
  ledger,         \* score_ledger, by event
  script,         \* the script that runs, see DemoScripts
  result,         \* ghost: what the last script that ended said
  quiet,          \* ghost: nothing else has happened since the script began,
                  \*   and no event was on its way then
  stage,          \* ghost: how far the runbook has come undisturbed:
                  \*   1 reset, 2 prepared, 3 accepted
  userSteps, runs, \* the steps of users and runs of scripts still to come
  faults          \* failures so far

identity == <<account, locked, sessions>>
cases == <<transactions, outbox>>
scoring == <<processed, game, ledger>>
bounds == <<userSteps, faults, runs>>
platform == <<identity, aiUp, ai, cases, queue, scoring>>
vars == <<platform, script, result, quiet, stage, bounds>>

Accounts == Staff \cup {Customer}
\* absent: not created, or deleted; plain: it has no case; the rest is the
\* state of its case, from YENI to BLOKLANDI.
Status == {"absent", "gone", "plain", "new", "assigned", "verifying", "answered", "decided"}
Row(status, analyst) == [status |-> status, analyst |-> analyst]
Absent == Row("absent", Null)
IsStored(t) == transactions[t].status \notin {"absent", "gone"}
Demo == {t \in Transaction : OwnerOf[t] = Customer}

AccountState == {"absent", "ready", "conflict", "oldPassword"}
LoadProfile == [load: Nat, fits: BOOLEAN]
ScoreProfile == [points: Nat, resolved: Nat, badge: BOOLEAN]
CleanProfile == [points |-> 0, resolved |-> 0, badge |-> FALSE]
Drained == queue = {} /\ \A t \in Transaction : outbox[t] # "pending"

----------------------------------------------------------------------------
(* The services *)

HasCapacity(a) == ai[a] # Null /\ ai[a].load < MaxLoad

\* AssignmentService: the specialization outweighs the load and the accuracy.
Ranked(golden) == LET able == {a \in Analyst : HasCapacity(a)}
                  IN IF golden /\ Specialist \in able THEN {Specialist} ELSE able

\* Transaction t is stored; a high risk or an AI Service that is down opens a
\* case, which the AI Service assigns if it can.
Create(t, high, golden) ==
  /\ transactions[t] = Absent
  /\ \/ /\ aiUp /\ ~high
        /\ transactions' = [transactions EXCEPT ![t] = Row("plain", Null)]
        /\ UNCHANGED ai
     \/ /\ aiUp /\ high
        /\ \E a \in Ranked(golden) :
             /\ transactions' = [transactions EXCEPT ![t] = Row("assigned", a)]
             /\ ai' = [ai EXCEPT ![a].load = @ + 1]
     \/ /\ aiUp => high /\ Ranked(golden) = {}
        /\ transactions' = [transactions EXCEPT ![t] = Row("new", Null)]
        /\ UNCHANGED ai
  /\ UNCHANGED <<outbox>>

\* The analyst decides the case: its event is in the outbox with the decision.
Decide(t) ==
  /\ transactions' = [transactions EXCEPT ![t].status = "decided"]
  /\ outbox' = [outbox EXCEPT ![t] = "pending"]

\* The outbox worker publishes an event; it may fail before it has marked it.
Relay(t) ==
  /\ outbox[t] = "pending"
  /\ queue' = queue \cup {t}
  /\ \/ outbox' = [outbox EXCEPT ![t] = "published"] /\ UNCHANGED faults
     \/ faults < MaxFaults /\ faults' = faults + 1 /\ UNCHANGED outbox
  /\ UNCHANGED <<identity, aiUp, ai, transactions, scoring, script, result,
                 quiet, stage, userSteps, runs>>

\* Mutant: the event is marked as processed, and scored later.
ScoreMarkOnly(t) ==
  /\ t \in queue
  /\ processed' = processed \cup {t}
  /\ queue' = IF t \in processed THEN queue \ {t} ELSE queue
  /\ IF t \in processed /\ t \notin ledger
     THEN /\ ledger' = ledger \cup {t}
          /\ game' = [game EXCEPT ![transactions[t].analyst] =
               LET p == IF @ = Null THEN CleanProfile ELSE @
               IN [points |-> p.points + 1, resolved |-> p.resolved + 1, badge |-> TRUE]]
     ELSE UNCHANGED <<ledger, game>>
  /\ UNCHANGED <<identity, aiUp, ai, cases, script, result, quiet, stage, bounds>>

\* The gamification worker scores an event for the analyst of its case, once.
Score(t) ==
  /\ t \in queue
  /\ queue' = queue \ {t}
  /\ processed' = processed \cup {t}
  /\ IF t \in processed
     THEN UNCHANGED <<ledger, game>>
     ELSE /\ ledger' = ledger \cup {t}
          /\ game' = [game EXCEPT ![transactions[t].analyst] =
               LET p == IF @ = Null THEN CleanProfile ELSE @
               IN [points |-> p.points + 1, resolved |-> p.resolved + 1, badge |-> TRUE]]
  /\ UNCHANGED <<identity, aiUp, ai, cases, script, result, quiet, stage, bounds>>

----------------------------------------------------------------------------
(* The users *)

UserStep ==
  /\ userSteps > 0
  /\ userSteps' = userSteps - 1
  /\ quiet' = FALSE /\ stage' = 0
  /\ UNCHANGED <<queue, scoring, script, result, faults, runs>>

UserCreates(t) ==
  /\ UserStep
  /\ OwnerOf[t] = Customer => account[Customer] = "ready"
  /\ \E high \in BOOLEAN : Create(t, high, FALSE)
  /\ UNCHANGED <<identity, aiUp>>

UserDecides(t) ==
  /\ UserStep
  /\ transactions[t].status = "assigned"
  /\ Decide(t)
  /\ UNCHANGED <<identity, aiUp, ai>>

\* Wrong passwords lock an account.
LockOut(a) ==
  /\ UserStep
  /\ account[a] # "absent"
  /\ locked' = locked \cup {a}
  /\ UNCHANGED <<account, sessions, aiUp, ai, cases>>

Users == \/ \E t \in Transaction : UserCreates(t) \/ UserDecides(t)
         \/ \E a \in Staff : LockOut(a)
Workers == \E t \in Transaction : Relay(t) \/ Score(t)
=============================================================================
