------------------------ MODULE FinalAcceptanceProofs ------------------------
(***************************************************************************)
(* The properties of the demo scripts, for any number of accounts,         *)
(* analysts, transactions, users' steps, scripts and failures.  The        *)
(* invariant Inv says what the script that runs has achieved so far        *)
(* (ResetOK, PrepareOK, AiOK, SmoothOK) and what the scripts before it     *)
(* have left (SceneOK), provided that nobody came between: a reset that    *)
(* began on a drained platform leaves the workers nothing to do, and in a  *)
(* smooth acceptance run they have the golden case's event only.           *)
(***************************************************************************)
EXTENDS FinalAcceptance, TLAPS

(* The names of the steps of the acceptance run, and of the other scripts. *)
AcceptSteps ==
  {"platform", "accounts", "customer", "supervisor", "create", "highRisk", "analyst",
   "initialProfile", "transitions", "verification", "blocked", "outbox", "processed",
   "ledger", "profile", "board", "cases", "aiStop", "aiFallback", "aiStart", "aiRecovery",
   "finish"}
OtherSteps ==
  {"none", "lookup", "readCases", "deleteCases", "readLedger", "deleteLedger", "readProfiles",
   "resetProfiles", "resetLoad", "resetIdentity", "health", "users", "analysts", "profiles",
   "logins", "zero", "transactions"}
StepName == AcceptSteps \cup OtherSteps

(* The types.                                                              *)
Script ==
  [cmd: {"none", "reset", "prepare", "status", "accept"}, step: StepName, n: Nat,
   found: SUBSET Transaction, events: SUBSET Transaction,
   badges: SUBSET Analyst, profiles: SUBSET Analyst,
   passed: SUBSET AcceptSteps, failed: SUBSET AcceptSteps, golden: Transaction \cup {Null},
   aiStopped: BOOLEAN, faulted: BOOLEAN]

PlatformTypes ==
  /\ account \in [Accounts -> AccountState]
  /\ aiUp \in BOOLEAN
  /\ ai \in [Analyst -> LoadProfile \cup {Null}]
  /\ transactions \in [Transaction -> [status: Status, analyst: Analyst \cup {Null}]]
  /\ outbox \in [Transaction -> {"none", "pending", "published"}]
  /\ queue \subseteq Transaction /\ processed \subseteq Transaction /\ ledger \subseteq Transaction
  /\ game \in [Analyst -> ScoreProfile \cup {Null}]

ScriptTypes ==
  /\ script \in Script
  /\ result \in [cmd: {"none", "reset", "prepare", "status", "accept"},
                 outcome: {"none", "complete", "refused", "broken"}]
  /\ script.cmd = "accept" => script.step \in DOMAIN Needs
  /\ faults \in Nat /\ stage \in 0..3 /\ quiet \in BOOLEAN

(* Only what is decided, or was, has an event; what it scores is one case. *)
RowsOK ==
  /\ \A t \in Transaction : transactions[t].status \notin {"decided", "gone"} =>
       outbox[t] = "none" /\ t \notin queue /\ t \notin processed /\ t \notin ledger
  /\ \A a \in Analyst : game[a] # Null => game[a].points = game[a].resolved

NoScores == ledger = {} /\ \A a \in Analyst : game[a] # Null => game[a] = CleanProfile
NoLoad == \A a \in Analyst : ai[a] # Null => ai[a].load = 0

Fits(a) == ai[a] # Null /\ ai[a].fits

(* What the commands of a reset that nobody disturbs have done so far.     *)
ResetOK ==
  script.cmd = "reset" =>
    /\ stage = 0
    /\ script.step = "deleteCases" => script.found \subseteq Demo /\ script.events \subseteq Demo
    /\ quiet =>
         /\ Drained
         /\ script.step = "deleteCases" =>
              /\ script.found = DemoTransactions
              /\ \A t \in script.found : outbox[t] # "none" => t \in script.events
         /\ script.step \in {"readLedger", "deleteLedger", "readProfiles", "resetProfiles",
                             "resetLoad", "resetIdentity"} => DemoTransactions = {}
         /\ script.step \in {"readProfiles", "resetProfiles"} =>
              /\ script.found = ledger
              /\ script.badges = {a \in Analyst : game[a] # Null /\ game[a].badge}
         /\ script.step = "resetProfiles" =>
              script.profiles = {a \in Analyst : game[a] # Null /\ game[a].resolved # 0}
         /\ script.step \in {"resetLoad", "resetIdentity"} => NoScores
         /\ script.step = "resetIdentity" => NoLoad /\ aiUp

(* What a preparation has done so far.                                     *)
PrepareOK ==
  /\ script.cmd = "prepare" =>
       /\ script.step = "users" =>
            /\ script.n \in 1..Len(AccountOrder)
            /\ \A i \in 1..(script.n - 1) : account[AccountOrder[i]] = "ready"
       /\ script.step \in {"analysts", "profiles", "logins"} =>
            \A a \in Accounts : account[a] = "ready"
       /\ script.step = "analysts" =>
            /\ script.n \in 1..Len(AnalystOrder)
            /\ \A i \in 1..(script.n - 1) : Fits(AnalystOrder[i])
       /\ script.step \in {"profiles", "logins"} => \A a \in Analyst : Fits(a)
       /\ script.step = "logins" => \A a \in Analyst : game[a] # Null
  /\ script.cmd = "status" /\ script.step = "zero" => script.n \in 1..Len(AnalystOrder)

Prepared ==
  /\ \A a \in Accounts : account[a] = "ready"
  /\ \A a \in Analyst : Fits(a) /\ game[a] # Null

(* The scene between an undisturbed reset and the acceptance run.          *)
SceneOK ==
  stage \in {1, 2} =>
    /\ script.cmd \in {"none", "prepare", "status"}
    /\ Drained /\ DemoTransactions = {} /\ NoScores /\ NoLoad /\ locked = {} /\ aiUp
    /\ stage = 1 /\ script = Idle /\ Ended("reset", "complete") => sessions = {}
    /\ stage = 2 => Prepared

(* A stop is followed by a start, or there was a failure for each.         *)
AiOK ==
  faults <= 1 =>
    /\ script.cmd # "accept" => aiUp
    /\ script.cmd = "accept" =>
         /\ ~aiUp => \/ script.step \in {"aiFallback", "aiStart"}
                     \/ script.step \in {"aiRecovery", "finish"} /\ script.aiStopped
         /\ script.aiStopped => \/ script.step \in {"aiFallback", "aiStart"}
                                \/ script.step \in {"aiRecovery", "finish"} /\ faults >= 1
         /\ script.step \in {"aiFallback", "aiStart"} /\ ~aiUp /\ ~script.aiStopped => faults >= 1

(* The order of the acceptance steps.                                      *)
Rank == [
  platform |-> 1, accounts |-> 2, customer |-> 3, supervisor |-> 4, create |-> 5,
  highRisk |-> 6, analyst |-> 7, initialProfile |-> 8, transitions |-> 9,
  verification |-> 10, blocked |-> 11, outbox |-> 12, processed |-> 13, ledger |-> 14,
  profile |-> 15, board |-> 16, cases |-> 17, aiStop |-> 18, aiFallback |-> 19,
  aiStart |-> 20, aiRecovery |-> 21, finish |-> 22]

(* An acceptance run that nobody disturbs and in which nothing fails.      *)
Smooth == stage = 3 /\ script.cmd = "accept" /\ ~script.faulted

(* The golden case: its status, and what its event has brought about.      *)
GoldenOK ==
  LET k == Rank[script.step] IN
  /\ Golden \in Transaction /\ GoldenRow.analyst = Specialist
  /\ k <= 9 => GoldenRow.status = "assigned"
  /\ k = 10 => GoldenRow.status = "verifying"
  /\ k = 11 => GoldenRow.status = "answered"
  /\ k > 11 => GoldenRow.status = "decided"
  /\ k <= 11 => Drained /\ game[Specialist] = CleanProfile
  /\ k > 11 =>
       /\ \A t \in Transaction \ {Golden} : outbox[t] # "pending" /\ t \notin queue
       /\ Golden \in processed <=> Golden \in ledger
       /\ game[Specialist] = IF Golden \in ledger
                             THEN [points |-> 1, resolved |-> 1, badge |-> TRUE] ELSE CleanProfile
  /\ k > 13 => Golden \in ledger

SmoothOK ==
  Smooth =>
    /\ script.failed = {} /\ locked = {} /\ \A a \in Accounts : account[a] = "ready"
    /\ \A s \in DOMAIN Needs : Rank[s] < Rank[script.step] => s \in script.passed
    /\ Rank[script.step] <= 5 =>
         /\ aiUp /\ Drained /\ game[Specialist] = CleanProfile
         /\ ai[Specialist] # Null /\ ai[Specialist].load = 0
    /\ Rank[script.step] > 5 => GoldenOK
    /\ script.step = "aiFallback" => ~aiUp

Inv ==
  /\ PlatformTypes /\ ScriptTypes /\ RowsOK
  /\ ResetOK /\ PrepareOK /\ SceneOK /\ AiOK /\ SmoothOK /\ RunbookEndsReady
------------------------------------------------------------------------------
(* The constants, the order of the steps.                                  *)
LEMMA Constants ==
  /\ Analyst \subseteq Accounts /\ Customer \in Accounts /\ Specialist \in Accounts
  /\ Len(AccountOrder) \in Nat \ {0} /\ DOMAIN AccountOrder = 1..Len(AccountOrder)
  /\ Len(AnalystOrder) \in Nat \ {0} /\ DOMAIN AnalystOrder = 1..Len(AnalystOrder)
  /\ \A i \in 1..Len(AccountOrder) : AccountOrder[i] \in Accounts
  /\ \A i \in 1..Len(AnalystOrder) : AnalystOrder[i] \in Analyst
  /\ CleanProfile \in ScoreProfile /\ CleanProfile # Null
  <1>1. Analyst \subseteq Accounts /\ Customer \in Accounts /\ Specialist \in Accounts
    BY DemoConstants DEF Accounts
  <1>2. /\ Len(AccountOrder) \in Nat /\ DOMAIN AccountOrder = 1..Len(AccountOrder)
        /\ \A i \in 1..Len(AccountOrder) : AccountOrder[i] \in Accounts
    BY DemoConstants
  <1>3. /\ Len(AnalystOrder) \in Nat /\ DOMAIN AnalystOrder = 1..Len(AnalystOrder)
        /\ \A i \in 1..Len(AnalystOrder) : AnalystOrder[i] \in Analyst
    BY DemoConstants
  <1>4. Len(AccountOrder) # 0 /\ Len(AnalystOrder) # 0
    <2>1. PICK i \in 1..Len(AccountOrder) : AccountOrder[i] = Customer
      BY <1>1, <1>2, DemoConstants
    <2>2. PICK j \in 1..Len(AnalystOrder) : AnalystOrder[j] = Specialist
      BY <1>3, DemoConstants
    <2> QED
      BY <1>2, <1>3, <2>1, <2>2
  <1>5. CleanProfile \in ScoreProfile
    BY DEF CleanProfile, ScoreProfile
  <1> QED
    BY <1>1, <1>2, <1>3, <1>4, <1>5, DemoConstants

LEMMA Ranks ==
  /\ Rank["platform"] = 1 /\ Rank["accounts"] = 2 /\ Rank["customer"] = 3
  /\ Rank["supervisor"] = 4 /\ Rank["create"] = 5 /\ Rank["highRisk"] = 6
  /\ Rank["analyst"] = 7 /\ Rank["initialProfile"] = 8 /\ Rank["transitions"] = 9
  /\ Rank["verification"] = 10 /\ Rank["blocked"] = 11 /\ Rank["outbox"] = 12
  /\ Rank["processed"] = 13 /\ Rank["ledger"] = 14 /\ Rank["profile"] = 15
  /\ Rank["board"] = 16 /\ Rank["cases"] = 17 /\ Rank["aiStop"] = 18
  /\ Rank["aiFallback"] = 19 /\ Rank["aiStart"] = 20 /\ Rank["aiRecovery"] = 21
  /\ Rank["finish"] = 22
  BY DEF Rank

LEMMA Follow ==
  /\ Following["platform"] = "accounts" /\ Following["accounts"] = "customer"
  /\ Following["customer"] = "supervisor" /\ Following["supervisor"] = "create"
  /\ Following["create"] = "highRisk" /\ Following["highRisk"] = "analyst"
  /\ Following["analyst"] = "initialProfile" /\ Following["initialProfile"] = "transitions"
  /\ Following["transitions"] = "verification" /\ Following["verification"] = "blocked"
  /\ Following["blocked"] = "outbox" /\ Following["outbox"] = "processed"
  /\ Following["processed"] = "ledger" /\ Following["ledger"] = "profile"
  /\ Following["profile"] = "board" /\ Following["board"] = "cases"
  /\ Following["cases"] = "aiStop" /\ Following["aiStop"] = "aiFallback"
  /\ Following["aiFallback"] = "aiStart" /\ Following["aiStart"] = "aiRecovery"
  /\ Following["aiRecovery"] = "finish"
  BY DEF Following

LEMMA Steps ==
  DOMAIN Needs = AcceptSteps
  BY DEF Needs, AcceptSteps

LEMMA RankOrders ==
  /\ \A s \in AcceptSteps : Rank[s] \in 1..22
  /\ \A s \in AcceptSteps \ {"finish"} :
       Following[s] \in AcceptSteps /\ Rank[Following[s]] = Rank[s] + 1
  /\ \A s, u \in AcceptSteps : Rank[s] = Rank[u] => s = u
  <1>1. \A s \in AcceptSteps : Rank[s] \in 1..22
    BY Ranks DEF AcceptSteps
  <1>2. \A s \in AcceptSteps \ {"finish"} :
       Following[s] \in AcceptSteps /\ Rank[Following[s]] = Rank[s] + 1
    BY Ranks, Follow DEF AcceptSteps
  <1>3. \A s, u \in AcceptSteps : Rank[s] = Rank[u] => s = u
    BY Ranks DEF AcceptSteps
  <1> QED
    BY <1>1, <1>2, <1>3

(* What a step needs comes before it.                                      *)
LEMMA NeedsBefore ==
  \A s \in AcceptSteps : \A u \in Needs[s] : u \in AcceptSteps /\ Rank[u] < Rank[s]
  <1>1. SUFFICES ASSUME NEW s \in AcceptSteps, NEW u \in Needs[s]
                 PROVE  u \in AcceptSteps /\ Rank[u] < Rank[s]
    OBVIOUS
  <1> QED
    BY Ranks DEF AcceptSteps, Needs
------------------------------------------------------------------------------
(* The forms of a script.                                                  *)
LEMMA StartedIs ==
  ASSUME NEW cmd \in {"none", "reset", "prepare", "status", "accept"}, NEW first \in StepName
  PROVE  /\ Started(cmd, first) \in Script
         /\ Started(cmd, first).cmd = cmd /\ Started(cmd, first).step = first
         /\ Started(cmd, first).n = 1 /\ Started(cmd, first).failed = {}
         /\ Started(cmd, first).aiStopped = FALSE /\ Started(cmd, first).faulted = FALSE
  BY DEF Started, Script

LEMMA Goes ==
  ASSUME ScriptTypes, NEW step \in StepName, GoTo(step)
  PROVE  /\ script' \in Script /\ script'.cmd = script.cmd
         /\ script'.step = step /\ script'.n = 1
  BY DEF ScriptTypes, Script, GoTo

LEMMA Advances ==
  ASSUME ScriptTypes, NEW order, Len(order) \in Nat, NEW next \in StepName, Advance(order, next)
  PROVE  /\ script' \in Script /\ script'.cmd = script.cmd
         /\ IF script.n < Len(order) THEN script'.n = script.n + 1 /\ script'.step = script.step
            ELSE script'.n = 1 /\ script'.step = next
  <1>1. PICK k \in Nat, l \in Nat : k = script.n /\ l = Len(order)
    BY DEF ScriptTypes, Script
  <1>2. script \in Script
    BY DEF ScriptTypes
  <1>3. CASE k < l
    <2>1. script' = [script EXCEPT !.n = k + 1]
      BY <1>1, <1>3 DEF Advance
    <2>2. k + 1 \in Nat
      BY <1>1
    <2>3. script' \in Script /\ script'.cmd = script.cmd
          /\ script'.n = k + 1 /\ script'.step = script.step
      BY <1>2, <2>1, <2>2 DEF Script
    <2> QED
      BY <1>1, <1>3, <2>3
  <1>4. CASE ~(k < l)
    <2>1. script' = [script EXCEPT !.step = next, !.n = 1]
      BY <1>1, <1>4 DEF Advance
    <2>3. script' \in Script /\ script'.cmd = script.cmd /\ script'.n = 1 /\ script'.step = next
      BY <1>2, <2>1 DEF Script
    <2> QED
      BY <1>1, <1>4, <2>3
  <1> QED
    BY <1>3, <1>4

LEMMA Passes ==
  ASSUME ScriptTypes, script.cmd = "accept", NEW step, step \in AcceptSteps \ {"finish"},
         script.step = step,
         Passed(step)
  PROVE  /\ script' \in Script /\ script'.cmd = "accept"
         /\ script'.step = Following[step] /\ script'.passed = script.passed \cup {step}
         /\ script'.failed = script.failed /\ script'.golden = script.golden
         /\ script'.aiStopped = script.aiStopped /\ script'.faulted = script.faulted
  <1>1. step \in AcceptSteps /\ Following[step] \in StepName
    BY RankOrders DEF StepName
  <1> QED
    BY <1>1 DEF ScriptTypes, Script, Passed, Moved

LEMMA Fails ==
  ASSUME ScriptTypes, script.cmd = "accept", NEW step, step \in AcceptSteps \ {"finish"},
         script.step = step,
         Failed(step)
  PROVE  /\ script' \in Script /\ script'.cmd = "accept"
         /\ script'.step = Following[step] /\ script'.passed = script.passed
         /\ script'.failed = script.failed \cup {step}
         /\ script'.aiStopped = script.aiStopped /\ script'.faulted = script.faulted
  <1>1. step \in AcceptSteps /\ Following[step] \in StepName
    BY RankOrders DEF StepName
  <1> QED
    BY <1>1 DEF ScriptTypes, Script, Failed, Moved
------------------------------------------------------------------------------
(* What the requests and the workers do to the rows.                       *)
LEMMA Typed ==
  ASSUME PlatformTypes
  PROVE  /\ \A t \in Transaction : /\ transactions[t].status \in Status
                                   /\ transactions[t].analyst \in Analyst \cup {Null}
                                   /\ transactions[t] = Row(transactions[t].status, transactions[t].analyst)
                                   /\ outbox[t] \in {"none", "pending", "published"}
         /\ \A a \in Analyst : /\ ai[a] # Null => /\ ai[a] \in LoadProfile
                                                  /\ ai[a].load \in Nat /\ ai[a].fits \in BOOLEAN
                               /\ game[a] # Null => /\ game[a] \in ScoreProfile
                                                    /\ game[a].points \in Nat /\ game[a].resolved \in Nat
                                                    /\ game[a].badge \in BOOLEAN
  <1>1. ASSUME NEW t \in Transaction
        PROVE  /\ transactions[t].status \in Status
               /\ transactions[t].analyst \in Analyst \cup {Null}
               /\ transactions[t] = Row(transactions[t].status, transactions[t].analyst)
               /\ outbox[t] \in {"none", "pending", "published"}
    <2>1. PICK r \in [status: Status, analyst: Analyst \cup {Null}] : r = transactions[t]
      BY DEF PlatformTypes
    <2>2. r = Row(r.status, r.analyst) /\ r.status \in Status /\ r.analyst \in Analyst \cup {Null}
      BY DEF Row
    <2> QED
      BY <2>1, <2>2 DEF PlatformTypes
  <1>2. ASSUME NEW a \in Analyst, ai[a] # Null
        PROVE  ai[a] \in LoadProfile /\ ai[a].load \in Nat /\ ai[a].fits \in BOOLEAN
    <2>1. ai[a] \in LoadProfile
      BY <1>2 DEF PlatformTypes
    <2> QED
      BY <2>1 DEF LoadProfile
  <1>3. ASSUME NEW a \in Analyst, game[a] # Null
        PROVE  /\ game[a] \in ScoreProfile
               /\ game[a].points \in Nat /\ game[a].resolved \in Nat /\ game[a].badge \in BOOLEAN
    <2>1. game[a] \in ScoreProfile
      BY <1>3 DEF PlatformTypes
    <2> QED
      BY <2>1 DEF ScoreProfile
  <1> QED
    BY <1>1, <1>2, <1>3

LEMMA RowTyped ==
  ASSUME NEW s \in Status, NEW a \in Analyst \cup {Null}
  PROVE  /\ Row(s, a) \in [status: Status, analyst: Analyst \cup {Null}]
         /\ Row(s, a).status = s /\ Row(s, a).analyst = a
  BY DEF Row

LEMMA Creates ==
  ASSUME PlatformTypes, NEW t \in Transaction, NEW high, NEW golden, Create(t, high, golden)
  PROVE  /\ transactions' \in [Transaction -> [status: Status, analyst: Analyst \cup {Null}]]
         /\ ai' \in [Analyst -> LoadProfile \cup {Null}]
         /\ outbox' = outbox /\ transactions[t].status = "absent"
         /\ transactions'[t].status \in {"plain", "new", "assigned"}
         /\ \A u \in Transaction \ {t} : transactions'[u] = transactions[u]
         /\ \A a \in Analyst : /\ ai[a] = Null <=> ai'[a] = Null
                               /\ ai[a] # Null => ai'[a].fits = ai[a].fits
  <1> DEFINE R == [status: Status, analyst: Analyst \cup {Null}]
  <1>1. outbox' = outbox /\ transactions[t] = Row("absent", Null)
    BY DEF Create, Absent
  <1>2. transactions \in [Transaction -> R] /\ ai \in [Analyst -> LoadProfile \cup {Null}]
    BY DEF PlatformTypes
  <1>3. ASSUME NEW r, r \in R, transactions' = [transactions EXCEPT ![t] = r]
        PROVE  /\ transactions' \in [Transaction -> R] /\ transactions'[t] = r
               /\ \A u \in Transaction \ {t} : transactions'[u] = transactions[u]
    <2> HIDE DEF R
    <2> QED
      BY <1>2, <1>3
  <1>4. "absent" \in Status /\ "plain" \in Status /\ "new" \in Status /\ "assigned" \in Status
    BY DEF Status
  <1>5. transactions[t].status = "absent"
    BY <1>1, <1>4, RowTyped
  <1>6. CASE transactions' = [transactions EXCEPT ![t] = Row("plain", Null)] /\ UNCHANGED ai
    BY <1>1, <1>2, <1>3, <1>4, <1>5, <1>6, RowTyped
  <1>7. CASE transactions' = [transactions EXCEPT ![t] = Row("new", Null)] /\ UNCHANGED ai
    BY <1>1, <1>2, <1>3, <1>4, <1>5, <1>7, RowTyped
  <1>8. ASSUME NEW a \in Ranked(golden), transactions' = [transactions EXCEPT ![t] = Row("assigned", a)],
               ai' = [ai EXCEPT ![a].load = @ + 1]
        PROVE  /\ transactions' \in [Transaction -> R] /\ transactions'[t].status = "assigned"
               /\ \A u \in Transaction \ {t} : transactions'[u] = transactions[u]
               /\ ai' \in [Analyst -> LoadProfile \cup {Null}]
               /\ \A b \in Analyst : /\ ai[b] = Null <=> ai'[b] = Null
                                     /\ ai[b] # Null => ai'[b].fits = ai[b].fits
    <2>1. a \in Analyst /\ ai[a] # Null
      BY <1>8, DemoConstants DEF Ranked, HasCapacity
    <2>2. PICK q : q = ai[a]
      OBVIOUS
    <2>3. q \in LoadProfile
      BY <1>2, <2>1, <2>2
    <2>4. ai' = [ai EXCEPT ![a] = [q EXCEPT !.load = q.load + 1]]
      BY <1>2, <1>8, <2>1, <2>2
    <2>5. [q EXCEPT !.load = q.load + 1] \in LoadProfile /\ [q EXCEPT !.load = q.load + 1].fits = q.fits
      BY <2>3 DEF LoadProfile
    <2>6. [q EXCEPT !.load = q.load + 1] # Null
      BY <2>5, DemoConstants
    <2>7. /\ ai' \in [Analyst -> LoadProfile \cup {Null}]
          /\ \A b \in Analyst : /\ ai[b] = Null <=> ai'[b] = Null
                                /\ ai[b] # Null => ai'[b].fits = ai[b].fits
      <3>1. PICK new : new = [q EXCEPT !.load = q.load + 1]
        OBVIOUS
      <3>2. new \in LoadProfile /\ new # Null /\ new.fits = ai[a].fits
        BY <2>2, <2>5, <2>6, <3>1
      <3>3. ai \in [Analyst -> LoadProfile \cup {Null}] /\ ai' = [ai EXCEPT ![a] = new]
        BY <1>2, <2>4, <3>1
      <3>4. /\ ai' \in [Analyst -> LoadProfile \cup {Null}] /\ ai'[a] = new
            /\ \A b \in Analyst \ {a} : ai'[b] = ai[b]
        BY ONLY <2>1, <3>2, <3>3
      <3> QED
        BY ONLY <2>1, <3>2, <3>4
    <2>8. /\ transactions' \in [Transaction -> R] /\ transactions'[t].status = "assigned"
          /\ \A u \in Transaction \ {t} : transactions'[u] = transactions[u]
      BY <1>3, <1>4, <1>8, <2>1, RowTyped
    <2> QED
      BY ONLY <2>7, <2>8
  <1> QED
    BY <1>1, <1>5, <1>6, <1>7, <1>8 DEF Create

LEMMA CreatesGolden ==
  ASSUME PlatformTypes, NEW t \in Transaction, Create(t, TRUE, TRUE), aiUp,
         ai[Specialist] # Null, ai[Specialist].load = 0
  PROVE  transactions'[t].status = "assigned" /\ transactions'[t].analyst = Specialist
  <1>1. Specialist \in Analyst /\ 0 < MaxLoad
    BY DemoConstants
  <1>2. Ranked(TRUE) = {Specialist}
    BY <1>1 DEF Ranked, HasCapacity
  <1>3. \E a \in Ranked(TRUE) : transactions' = [transactions EXCEPT ![t] = Row("assigned", a)]
    BY <1>2 DEF Create
  <1>4. transactions' = [transactions EXCEPT ![t] = Row("assigned", Specialist)]
    BY <1>2, <1>3
  <1>5. transactions'[t] = Row("assigned", Specialist)
    BY <1>4 DEF PlatformTypes
  <1> QED
    BY <1>5 DEF Row

(* A new status of a row; Null is none of the transactions.                *)
LEMMA Changes ==
  ASSUME PlatformTypes, NEW t \in Transaction \cup {Null}, NEW status \in Status,
         transactions' = [transactions EXCEPT ![t].status = status]
  PROVE  /\ transactions' \in [Transaction -> [status: Status, analyst: Analyst \cup {Null}]]
         /\ \A u \in Transaction \ {t} : transactions'[u] = transactions[u]
         /\ t \in Transaction => /\ transactions'[t].status = status
                                 /\ transactions'[t].analyst = transactions[t].analyst
  <1> DEFINE R == [status: Status, analyst: Analyst \cup {Null}]
  <1>1. transactions \in [Transaction -> R]
    BY DEF PlatformTypes
  <1>2. CASE t \in Transaction
    <2>1. PICK q \in R : q = transactions[t]
      BY <1>1, <1>2
    <2>2. transactions' = [transactions EXCEPT ![t] = [q EXCEPT !.status = status]]
      BY <1>1, <1>2, <2>1
    <2>3. PICK r : r = [q EXCEPT !.status = status]
      OBVIOUS
    <2>4. r \in R /\ r.status = status /\ r.analyst = q.analyst
      BY <2>3
    <2> HIDE DEF R
    <2>5. /\ transactions' \in [Transaction -> R] /\ transactions'[t] = r
          /\ \A u \in Transaction \ {t} : transactions'[u] = transactions[u]
      BY <1>1, <1>2, <2>2, <2>3, <2>4
    <2> QED
      BY <1>2, <2>1, <2>4, <2>5 DEF R
  <1>3. CASE t \notin Transaction
    <2> HIDE DEF R
    <2>1. transactions' = transactions
      BY <1>1, <1>3
    <2> QED
      BY <1>1, <1>3, <2>1 DEF R
  <1> QED
    BY <1>2, <1>3

(* What a scored event makes of a profile.                                 *)
Raised(p) ==
  LET q == IF p = Null THEN CleanProfile ELSE p
  IN [points |-> q.points + 1, resolved |-> q.resolved + 1, badge |-> TRUE]

LEMMA RaisedIs ==
  ASSUME NEW p \in ScoreProfile \cup {Null}
  PROVE  /\ Raised(p) \in ScoreProfile /\ Raised(p) # Null
         /\ p # Null /\ p.points = p.resolved => Raised(p).points = Raised(p).resolved
         /\ p = Null => Raised(p).points = Raised(p).resolved
  <1>1. CASE p = Null
    <2>1. Raised(p) = [points |-> 1, resolved |-> 1, badge |-> TRUE]
      BY <1>1 DEF Raised, CleanProfile
    <2>2. Raised(p) \in ScoreProfile /\ Raised(p).points = Raised(p).resolved
      BY <2>1 DEF ScoreProfile
    <2> QED
      BY <1>1, <2>2, DemoConstants
  <1>2. CASE p # Null
    <2>1. Raised(p) = [points |-> p.points + 1, resolved |-> p.resolved + 1, badge |-> TRUE]
      BY <1>2 DEF Raised
    <2>2. p.points \in Nat /\ p.resolved \in Nat
      BY <1>2 DEF ScoreProfile
    <2>3. /\ Raised(p) \in ScoreProfile
          /\ p.points = p.resolved => Raised(p).points = Raised(p).resolved
      BY <2>1, <2>2 DEF ScoreProfile
    <2> QED
      BY <1>2, <2>3, DemoConstants
  <1> QED
    BY <1>1, <1>2

LEMMA Scores ==
  ASSUME PlatformTypes, NEW t \in Transaction, Score(t)
  PROVE  /\ game' \in [Analyst -> ScoreProfile \cup {Null}]
         /\ \A a \in Analyst : game'[a] = IF t \notin processed /\ a = transactions[t].analyst
                                          THEN Raised(game[a]) ELSE game[a]
  <1>1. game \in [Analyst -> ScoreProfile \cup {Null}]
    BY DEF PlatformTypes
  <1>2. CASE t \in processed
    BY <1>1, <1>2 DEF Score
  <1>3. CASE t \notin processed
    <2>1. PICK b : b = transactions[t].analyst
      OBVIOUS
    <2>2. game' = [game EXCEPT ![b] = LET p == IF @ = Null THEN CleanProfile ELSE @
               IN [points |-> p.points + 1, resolved |-> p.resolved + 1, badge |-> TRUE]]
      BY <1>3, <2>1 DEF Score
    <2>3. CASE b \in Analyst
      <3>1. PICK q \in ScoreProfile \cup {Null} : q = game[b]
        BY <1>1, <2>3
      <3>4. game' = [game EXCEPT ![b] = LET p == IF q = Null THEN CleanProfile ELSE q
               IN [points |-> p.points + 1, resolved |-> p.resolved + 1, badge |-> TRUE]]
        BY <1>1, <2>2, <2>3, <3>1
      <3>2. game' = [game EXCEPT ![b] = Raised(q)]
        BY <3>4 DEF Raised
      <3>3. Raised(q) \in ScoreProfile
        BY RaisedIs
      <3> QED
        BY <1>1, <1>3, <2>1, <2>3, <3>1, <3>2, <3>3
    <2>4. CASE b \notin Analyst
      BY <1>1, <1>3, <2>1, <2>2, <2>4
    <2> QED
      BY <2>3, <2>4
  <1> QED
    BY <1>2, <1>3
------------------------------------------------------------------------------
(* The types and the rows, by what changes.                                *)
rows == <<account, aiUp, ai, cases, queue, scoring>>

LEMMA RowsStay ==
  ASSUME PlatformTypes, RowsOK, UNCHANGED rows
  PROVE  PlatformTypes' /\ RowsOK'
  BY DEF rows, cases, scoring, PlatformTypes, RowsOK

LEMMA RowsCreate ==
  ASSUME PlatformTypes, RowsOK, NEW t \in Transaction, NEW high, NEW golden, Create(t, high, golden),
         UNCHANGED <<account, aiUp, queue, scoring>>
  PROVE  PlatformTypes' /\ RowsOK'
  <1>1. /\ transactions' \in [Transaction -> [status: Status, analyst: Analyst \cup {Null}]]
        /\ ai' \in [Analyst -> LoadProfile \cup {Null}]
        /\ outbox' = outbox /\ transactions[t].status = "absent"
        /\ \A u \in Transaction \ {t} : transactions'[u] = transactions[u]
    BY Creates
  <1>2. PlatformTypes'
    BY <1>1 DEF PlatformTypes, scoring
  <1>3. ASSUME NEW u \in Transaction, transactions'[u].status \notin {"decided", "gone"}
        PROVE  transactions[u].status \notin {"decided", "gone"}
    BY <1>1, <1>3
  <1> QED
    BY <1>1, <1>2, <1>3 DEF RowsOK, scoring

LEMMA RowsMove ==
  ASSUME PlatformTypes, RowsOK, NEW t \in Transaction \cup {Null}, NEW status \in Status,
         transactions' = [transactions EXCEPT ![t].status = status],
         t \in Transaction => transactions[t].status \notin {"decided", "gone"},
         UNCHANGED <<account, aiUp, ai, outbox, queue, scoring>>
  PROVE  PlatformTypes' /\ RowsOK'
  <1>1. /\ transactions' \in [Transaction -> [status: Status, analyst: Analyst \cup {Null}]]
        /\ \A u \in Transaction \ {t} : transactions'[u] = transactions[u]
    BY Changes
  <1>2. PlatformTypes'
    BY <1>1 DEF PlatformTypes, scoring
  <1>3. ASSUME NEW u \in Transaction, transactions'[u].status \notin {"decided", "gone"}
        PROVE  transactions[u].status \notin {"decided", "gone"}
    BY <1>1, <1>3
  <1> QED
    BY <1>2, <1>3 DEF RowsOK, scoring

LEMMA RowsDecide ==
  ASSUME PlatformTypes, RowsOK, NEW t \in Transaction \cup {Null}, Decide(t),
         UNCHANGED <<account, aiUp, ai, queue, scoring>>
  PROVE  PlatformTypes' /\ RowsOK'
  <1>0. "decided" \in Status
    BY DEF Status
  <1>1. /\ transactions' \in [Transaction -> [status: Status, analyst: Analyst \cup {Null}]]
        /\ \A u \in Transaction \ {t} : transactions'[u] = transactions[u]
        /\ t \in Transaction => transactions'[t].status = "decided"
    BY <1>0, Changes DEF Decide
  <1>2. /\ outbox' \in [Transaction -> {"none", "pending", "published"}]
        /\ \A u \in Transaction \ {t} : outbox'[u] = outbox[u]
    BY DEF PlatformTypes, Decide
  <1>3. PlatformTypes'
    BY <1>1, <1>2 DEF PlatformTypes, scoring
  <1>4. ASSUME NEW u \in Transaction, transactions'[u].status \notin {"decided", "gone"}
        PROVE  transactions[u].status \notin {"decided", "gone"} /\ outbox'[u] = outbox[u]
    BY <1>1, <1>2, <1>4
  <1> QED
    BY <1>3, <1>4 DEF RowsOK, scoring

LEMMA RowsRelay ==
  ASSUME PlatformTypes, RowsOK, NEW t \in Transaction, Relay(t)
  PROVE  PlatformTypes' /\ RowsOK'
  <1>1. /\ outbox' \in [Transaction -> {"none", "pending", "published"}]
        /\ \A u \in Transaction \ {t} : outbox'[u] = outbox[u]
        /\ outbox[t] = "pending" /\ queue' = queue \cup {t}
        /\ UNCHANGED <<account, aiUp, ai, transactions, processed, game, ledger>>
    BY DEF PlatformTypes, Relay, identity, scoring
  <1>2. PlatformTypes'
    BY <1>1 DEF PlatformTypes
  <1>3. transactions[t].status \in {"decided", "gone"}
    BY <1>1 DEF RowsOK
  <1> QED
    BY <1>1, <1>2, <1>3 DEF RowsOK

LEMMA RowsScore ==
  ASSUME PlatformTypes, RowsOK, NEW t \in Transaction, Score(t)
  PROVE  PlatformTypes' /\ RowsOK'
  <1>1. /\ game' \in [Analyst -> ScoreProfile \cup {Null}]
        /\ \A a \in Analyst : game'[a] = IF t \notin processed /\ a = transactions[t].analyst
                                         THEN Raised(game[a]) ELSE game[a]
    BY Scores
  <1>2. /\ t \in queue /\ queue' = queue \ {t} /\ processed' = processed \cup {t}
        /\ ledger \subseteq ledger' /\ ledger' \subseteq ledger \cup {t}
        /\ UNCHANGED <<account, aiUp, ai, transactions, outbox>>
    BY DEF Score, identity, cases
  <1>3. PlatformTypes'
    BY <1>1, <1>2 DEF PlatformTypes
  <1>4. transactions[t].status \in {"decided", "gone"}
    BY <1>2 DEF RowsOK
  <1>5. ASSUME NEW a \in Analyst, game'[a] # Null
        PROVE  game'[a].points = game'[a].resolved
    <2>1. game[a] \in ScoreProfile \cup {Null} /\ (game[a] # Null => game[a].points = game[a].resolved)
      BY DEF PlatformTypes, RowsOK
    <2>2. CASE game'[a] = Raised(game[a])
      BY <2>1, <2>2, RaisedIs
    <2>3. CASE game'[a] = game[a]
      BY <1>5, <2>1, <2>3
    <2> QED
      BY <1>1, <2>2, <2>3
  <1>6. \A u \in Transaction : transactions'[u].status \notin {"decided", "gone"} =>
          outbox'[u] = "none" /\ u \notin queue' /\ u \notin processed' /\ u \notin ledger'
    BY <1>2, <1>4 DEF RowsOK
  <1> QED
    BY <1>3, <1>5, <1>6 DEF RowsOK

LEMMA RowsDelete ==
  ASSUME PlatformTypes, RowsOK, DeleteCases
  PROVE  /\ PlatformTypes' /\ RowsOK'
         /\ \A t \in Transaction : IF t \in script.found THEN transactions'[t].status = "gone"
                                   ELSE transactions'[t] = transactions[t]
         /\ \A t \in Transaction : outbox'[t] = IF t \in script.events THEN "none" ELSE outbox[t]
  <1> DEFINE R == [status: Status, analyst: Analyst \cup {Null}]
  <1>1. /\ transactions' = [t \in Transaction |->
              IF t \in script.found THEN Row("gone", transactions[t].analyst) ELSE transactions[t]]
        /\ outbox' = [t \in Transaction |-> IF t \in script.events THEN "none" ELSE outbox[t]]
        /\ UNCHANGED <<account, aiUp, ai, queue, scoring>>
    BY DEF DeleteCases, identity
  <1>2. \A t \in Transaction : transactions[t] \in R /\ Row("gone", transactions[t].analyst) \in R
                               /\ Row("gone", transactions[t].analyst).status = "gone"
    <2>1. ASSUME NEW t \in Transaction
          PROVE  transactions[t] \in R /\ transactions[t].analyst \in Analyst \cup {Null}
      BY Typed DEF PlatformTypes
    <2>2. "gone" \in Status
      BY DEF Status
    <2> QED
      BY <2>1, <2>2, RowTyped
  <1> HIDE DEF R
  <1>3. /\ transactions' \in [Transaction -> R]
        /\ \A t \in Transaction : IF t \in script.found THEN transactions'[t].status = "gone"
                                  ELSE transactions'[t] = transactions[t]
    BY <1>1, <1>2
  <1>4. /\ outbox' \in [Transaction -> {"none", "pending", "published"}]
        /\ \A t \in Transaction : outbox'[t] = IF t \in script.events THEN "none" ELSE outbox[t]
    BY <1>1 DEF PlatformTypes
  <1>5. PlatformTypes'
    BY <1>1, <1>3, <1>4 DEF PlatformTypes, scoring, R
  <1>6. ASSUME NEW t \in Transaction, transactions'[t].status \notin {"decided", "gone"}
        PROVE  /\ transactions[t].status \notin {"decided", "gone"}
               /\ outbox[t] = "none" => outbox'[t] = "none"
    BY <1>3, <1>4, <1>6
  <1>7. RowsOK'
    BY <1>1, <1>6 DEF RowsOK, scoring
  <1> QED
    BY <1>3, <1>4, <1>5, <1>7

LEMMA RowsReset ==
  ASSUME PlatformTypes, RowsOK, ResetProfiles
  PROVE  PlatformTypes' /\ RowsOK' /\ \A a \in Analyst : game'[a] = ZeroProfile(a)
  <1>1. /\ ledger' = ledger \ script.found /\ processed' = processed \ script.events
        /\ game' = [a \in Analyst |-> ZeroProfile(a)]
        /\ UNCHANGED <<account, aiUp, ai, transactions, outbox, queue>>
    BY DEF ResetProfiles, identity, cases
  <1>2. ASSUME NEW a \in Analyst
        PROVE  /\ ZeroProfile(a) \in ScoreProfile \cup {Null}
               /\ ZeroProfile(a) # Null => ZeroProfile(a).points = ZeroProfile(a).resolved
    <2>1. CASE game[a] = Null
      BY <2>1 DEF ZeroProfile
    <2>2. CASE game[a] # Null
      <3>1. PICK p \in Nat, r \in Nat, b \in BOOLEAN :
              /\ p = IF a \in script.profiles THEN 0 ELSE game[a].points
              /\ r = IF a \in script.profiles THEN 0 ELSE game[a].resolved
              /\ b = (game[a].badge /\ a \notin script.badges)
        <4>1. game[a].points \in Nat /\ game[a].resolved \in Nat
          BY <2>2, Typed
        <4>2. (game[a].badge /\ a \notin script.badges) \in BOOLEAN
          OBVIOUS
        <4>3. (IF a \in script.profiles THEN 0 ELSE game[a].points) \in Nat
          BY <4>1
        <4>4. (IF a \in script.profiles THEN 0 ELSE game[a].resolved) \in Nat
          BY <4>1
        <4> QED
          BY <4>2, <4>3, <4>4
      <3>2. ZeroProfile(a) = [points |-> p, resolved |-> r, badge |-> b]
        BY <2>2, <3>1, Zenon DEF ZeroProfile
      <3>3. p = r
        BY <2>2, <3>1 DEF RowsOK
      <3> QED
        BY <3>2, <3>3 DEF ScoreProfile
    <2> QED
      BY <2>1, <2>2
  <1>3. PlatformTypes' /\ \A a \in Analyst : game'[a] = ZeroProfile(a)
    BY <1>1, <1>2 DEF PlatformTypes
  <1> QED
    BY <1>1, <1>2, <1>3 DEF RowsOK

LEMMA RowsLoad ==
  ASSUME PlatformTypes, RowsOK, ResetLoad, aiUp
  PROVE  /\ PlatformTypes' /\ RowsOK' /\ NoLoad'
         /\ \A a \in Analyst : /\ ai[a] = Null <=> ai'[a] = Null
                               /\ ai[a] # Null => ai'[a].fits = ai[a].fits
  <1>1. /\ ai' = [a \in Analyst |-> IF ai[a] = Null THEN Null ELSE [ai[a] EXCEPT !.load = 0]]
        /\ UNCHANGED <<account, aiUp, transactions, outbox, queue, scoring>>
    BY DEF ResetLoad, identity, cases
  <1>2. ASSUME NEW a \in Analyst, ai[a] # Null
        PROVE  /\ [ai[a] EXCEPT !.load = 0] \in LoadProfile /\ [ai[a] EXCEPT !.load = 0].load = 0
               /\ [ai[a] EXCEPT !.load = 0].fits = ai[a].fits
    <2>1. PICK q \in LoadProfile : q = ai[a]
      BY <1>2, Typed
    <2>2. /\ [q EXCEPT !.load = 0] \in LoadProfile /\ [q EXCEPT !.load = 0].load = 0
          /\ [q EXCEPT !.load = 0].fits = q.fits
      BY DEF LoadProfile
    <2> QED
      BY <2>1, <2>2
  <1>3. /\ ai' \in [Analyst -> LoadProfile \cup {Null}]
        /\ \A a \in Analyst : /\ ai[a] = Null <=> ai'[a] = Null
                              /\ ai[a] # Null => ai'[a].fits = ai[a].fits /\ ai'[a].load = 0
    BY <1>1, <1>2, DemoConstants
  <1>4. PlatformTypes' /\ NoLoad'
    BY <1>1, <1>3 DEF PlatformTypes, scoring, NoLoad
  <1>5. RowsOK'
    BY <1>1 DEF RowsOK, scoring
  <1> QED
    BY <1>3, <1>4, <1>5

LEMMA RowsAccount ==
  ASSUME PlatformTypes, RowsOK, NEW a \in Accounts, account' = [account EXCEPT ![a] = "ready"],
         UNCHANGED <<aiUp, ai, cases, queue, scoring>>
  PROVE  /\ PlatformTypes' /\ RowsOK' /\ account'[a] = "ready"
         /\ \A b \in Accounts : account[b] = "ready" => account'[b] = "ready"
  <1>1. /\ account' \in [Accounts -> AccountState] /\ account'[a] = "ready"
        /\ \A b \in Accounts : account[b] = "ready" => account'[b] = "ready"
    BY DEF PlatformTypes, AccountState
  <1> QED
    BY <1>1 DEF PlatformTypes, RowsOK, cases, scoring

LEMMA RowsAnalyst ==
  ASSUME PlatformTypes, RowsOK, NEW a \in Analyst, ai[a] # Null => ai[a].fits,
         ai' = [ai EXCEPT ![a] = IF @ = Null THEN [load |-> 0, fits |-> TRUE] ELSE @],
         UNCHANGED <<account, aiUp, cases, queue, scoring>>
  PROVE  /\ PlatformTypes' /\ RowsOK' /\ Fits(a)'
         /\ \A b \in Analyst : Fits(b) => Fits(b)'
         /\ NoLoad => NoLoad'
         /\ \A b \in Analyst : ai[b] # Null => ai'[b] = ai[b]
  <1>1. [load |-> 0, fits |-> TRUE] \in LoadProfile
    BY DEF LoadProfile
  <1>2. /\ ai' \in [Analyst -> LoadProfile \cup {Null}]
        /\ \A b \in Analyst \ {a} : ai'[b] = ai[b]
        /\ ai'[a] = IF ai[a] = Null THEN [load |-> 0, fits |-> TRUE] ELSE ai[a]
    BY <1>1 DEF PlatformTypes
  <1>3. PlatformTypes' /\ RowsOK'
    BY <1>2 DEF PlatformTypes, RowsOK, cases, scoring
  <1>4. ai'[a] # Null /\ ai'[a].fits /\ (NoLoad => ai'[a].load = 0)
    <2>1. CASE ai[a] = Null
      BY <1>1, <1>2, <2>1, DemoConstants
    <2>2. CASE ai[a] # Null
      BY <1>2, <2>2 DEF NoLoad
    <2> QED
      BY <2>1, <2>2
  <1> QED
    BY <1>2, <1>3, <1>4 DEF Fits, NoLoad

LEMMA RowsProfiles ==
  ASSUME PlatformTypes, RowsOK,
         game' = [a \in Analyst |-> IF game[a] = Null THEN CleanProfile ELSE game[a]],
         UNCHANGED <<account, aiUp, ai, cases, queue, processed, ledger>>
  PROVE  /\ PlatformTypes' /\ RowsOK' /\ \A a \in Analyst : game'[a] # Null
         /\ NoScores => NoScores'
  <1>1. CleanProfile.points = CleanProfile.resolved
    BY DEF CleanProfile
  <1>2. /\ game' \in [Analyst -> ScoreProfile \cup {Null}]
        /\ \A a \in Analyst : game'[a] = IF game[a] = Null THEN CleanProfile ELSE game[a]
    BY Constants DEF PlatformTypes
  <1>3. PlatformTypes'
    BY <1>2 DEF PlatformTypes, cases
  <1>4. RowsOK'
    BY <1>1, <1>2 DEF RowsOK, cases
  <1> QED
    BY <1>2, <1>3, <1>4, Constants DEF NoScores
------------------------------------------------------------------------------
(* A part of the invariant that is about another script, or another stage. *)
LEMMA Elsewhere ==
  /\ script'.cmd # "reset" => ResetOK'
  /\ script'.cmd \notin {"prepare", "status"} => PrepareOK'
  /\ script'.cmd # "accept" => SmoothOK'
  /\ stage' \notin {1, 2} => SceneOK'
  BY DEF ResetOK, PrepareOK, SmoothOK, Smooth, SceneOK

LEMMA IdleIs ==
  /\ Idle \in Script /\ Idle.cmd = "none"
  /\ \A c \in {"reset", "prepare", "status", "accept"} : \A f : Started(c, f) # Idle
  <1>1. Idle \in Script /\ Idle.cmd = "none"
    <2>1. "none" \in StepName
      BY DEF StepName, OtherSteps
    <2> QED
      BY ONLY <2>1 DEF Idle, Started, Script
  <1>2. ASSUME NEW c \in {"reset", "prepare", "status", "accept"}, NEW f
        PROVE  Started(c, f).cmd = c
    BY DEF Started
  <1> QED
    BY <1>1, <1>2

(* The users: nothing is undisturbed any more.                             *)
LEMMA UsersKeep ==
  ASSUME Inv, Users
  PROVE  Inv'
  <1>1. /\ UNCHANGED <<account, aiUp, queue, scoring, script, result, faults>>
        /\ quiet' = FALSE /\ stage' = 0
    BY DEF Users, UserStep, UserCreates, UserDecides, LockOut, identity
  <1>2. /\ PlatformTypes' /\ RowsOK'
        /\ \A a \in Analyst : Fits(a) => Fits(a)'
    <2>1. CASE \E t \in Transaction : UserCreates(t)
      <3>1. PICK t \in Transaction, high \in BOOLEAN : Create(t, high, FALSE)
        BY <2>1 DEF UserCreates
      <3>2. \A a \in Analyst : /\ ai[a] = Null <=> ai'[a] = Null
                               /\ ai[a] # Null => ai'[a].fits = ai[a].fits
        BY <3>1, Creates DEF Inv
      <3> QED
        BY <1>1, <3>1, <3>2, RowsCreate DEF Inv, Fits
    <2>2. CASE \E t \in Transaction : UserDecides(t)
      <3>1. PICK t \in Transaction : UserDecides(t)
        BY <2>2
      <3>2. Decide(t) /\ UNCHANGED ai
        BY <3>1 DEF UserDecides
      <3> QED
        BY <1>1, <3>2, RowsDecide DEF Inv, Fits
    <2>3. CASE \E a \in Staff : LockOut(a)
      <3>1. UNCHANGED rows /\ UNCHANGED ai
        BY <1>1, <2>3 DEF LockOut, rows
      <3> QED
        BY <3>1, RowsStay DEF Inv, Fits
    <2> QED
      BY <2>1, <2>2, <2>3 DEF Users
  <1>3. ScriptTypes'
    <2>1. quiet' \in BOOLEAN
      BY <1>1
    <2>2. stage' \in 0..3
      BY <1>1
    <2>3. script \in Script /\ faults \in Nat
          /\ (script.cmd = "accept" => script.step \in DOMAIN Needs)
          /\ result \in [cmd: {"none", "reset", "prepare", "status", "accept"},
                         outcome: {"none", "complete", "refused", "broken"}]
      BY DEF Inv, ScriptTypes
    <2> QED
      BY <1>1, <2>1, <2>2, <2>3 DEF ScriptTypes
  <1>4. ResetOK'
    BY <1>1 DEF Inv, ResetOK
  <1>5. PrepareOK'
    <2>1. \A i \in 1..Len(AnalystOrder) : Fits(AnalystOrder[i]) => Fits(AnalystOrder[i])'
      BY <1>2, Constants
    <2>2. /\ script.cmd = "prepare" /\ script.step = "analysts" =>
               \A i \in 1..(script.n - 1) : Fits(AnalystOrder[i])'
      BY <2>1, Constants DEF Inv, PrepareOK
    <2> QED
      BY <1>1, <1>2, <2>2 DEF Inv, PrepareOK, scoring
  <1>6. AiOK'
    BY <1>1 DEF Inv, AiOK
  <1>7. SceneOK' /\ SmoothOK' /\ RunbookEndsReady'
    BY <1>1 DEF SceneOK, SmoothOK, Smooth, RunbookEndsReady
  <1> QED
    BY <1>2, <1>3, <1>4, <1>5, <1>6, <1>7 DEF Inv

(* The workers have something to do only if events are on their way.       *)
LEMMA RelayKeepsGolden ==
  ASSUME Inv, NEW t \in Transaction, Relay(t), GoldenOK,
         Rank[script.step] \in 1..22, Rank[script.step] > 11
  PROVE  GoldenOK'
  <1>1. /\ UNCHANGED <<script, transactions, processed, ledger, game>> /\ outbox[t] = "pending"
        /\ queue' = queue \cup {t}
        /\ \A u \in Transaction \ {t} : outbox'[u] = outbox[u]
    BY DEF Relay, scoring, Inv, PlatformTypes
  <1>2. t = Golden
    BY <1>1 DEF GoldenOK
  <1>3. PICK k \in 1..22 : k = Rank[script.step]
    OBVIOUS
  <1> QED
    BY <1>1, <1>2, <1>3 DEF GoldenOK, Golden, GoldenRow

LEMMA ScoreKeepsGolden ==
  ASSUME Inv, NEW t \in Transaction, Score(t), GoldenOK,
         Rank[script.step] \in 1..22, Rank[script.step] > 11
  PROVE  GoldenOK'
  <1>1. /\ UNCHANGED <<script, transactions, outbox>> /\ t \in queue /\ queue' = queue \ {t}
        /\ processed' = processed \cup {t}
        /\ ledger' = IF t \in processed THEN ledger ELSE ledger \cup {t}
    BY DEF Score, cases
  <1>2. t = Golden
    BY <1>1 DEF GoldenOK
  <1>3. /\ Golden \in Transaction /\ GoldenRow.analyst = Specialist
        /\ \A u \in Transaction \ {Golden} : outbox[u] # "pending" /\ u \notin queue
        /\ Golden \in processed <=> Golden \in ledger
        /\ game[Specialist] = IF Golden \in ledger
                              THEN [points |-> 1, resolved |-> 1, badge |-> TRUE] ELSE CleanProfile
        /\ GoldenRow.status = "decided"
    BY DEF GoldenOK
  <1>4. Raised(CleanProfile) = [points |-> 1, resolved |-> 1, badge |-> TRUE]
    <2>1. CleanProfile.points = 0 /\ CleanProfile.resolved = 0
      BY DEF CleanProfile
    <2>2. Raised(CleanProfile) = [points |-> CleanProfile.points + 1,
                                  resolved |-> CleanProfile.resolved + 1, badge |-> TRUE]
      BY Constants, Zenon DEF Raised
    <2> QED
      BY <2>1, <2>2
  <1>5. game'[Specialist] = IF t \notin processed THEN Raised(game[Specialist]) ELSE game[Specialist]
    BY <1>2, <1>3, Scores, DemoConstants DEF Inv, GoldenRow, Golden
  <1>6. /\ Golden \in processed' /\ Golden \in ledger'
        /\ game'[Specialist] = [points |-> 1, resolved |-> 1, badge |-> TRUE]
    BY <1>1, <1>2, <1>3, <1>4, <1>5
  <1>7. PICK k \in 1..22 : k = Rank[script.step]
    OBVIOUS
  <1> QED
    BY <1>1, <1>2, <1>3, <1>6, <1>7 DEF GoldenOK, Golden, GoldenRow

LEMMA WorkersKeep ==
  ASSUME Inv, Workers
  PROVE  Inv'
  <1>1. /\ UNCHANGED <<account, locked, sessions, aiUp, ai, transactions, script, result, quiet, stage>>
        /\ faults' \in Nat /\ faults' >= faults /\ ~Drained
    <2>1. faults \in Nat
      BY DEF Inv, ScriptTypes
    <2> QED
      BY <2>1 DEF Workers, Relay, Score, identity, cases, bounds, Drained
  <1>2. PlatformTypes' /\ RowsOK'
    BY RowsRelay, RowsScore DEF Workers, Inv
  <1>3. \A a \in Analyst : game[a] # Null => game'[a] # Null
    <2>1. ASSUME NEW t \in Transaction, Relay(t)
          PROVE  game' = game
      BY <2>1 DEF Relay, scoring
    <2>2. ASSUME NEW t \in Transaction, Score(t), NEW a \in Analyst, game[a] # Null
          PROVE  game'[a] # Null
      <3>1. game[a] \in ScoreProfile \cup {Null}
        BY DEF Inv, PlatformTypes
      <3>2. Raised(game[a]) # Null
        BY <3>1, RaisedIs
      <3> QED
        BY <2>2, <3>2, Scores DEF Inv
    <2> QED
      BY <2>1, <2>2 DEF Workers
  <1>4. ScriptTypes'
    BY <1>1 DEF Inv, ScriptTypes
  <1>5. ResetOK'
    <2>1. CASE quiet
      BY <1>1, <2>1 DEF Inv, ResetOK
    <2>2. CASE ~quiet
      BY <1>1, <2>2 DEF Inv, ResetOK
    <2> QED
      BY <2>1, <2>2
  <1>6. PrepareOK'
    BY <1>1, <1>3 DEF Inv, PrepareOK, Fits
  <1>7. SceneOK'
    BY <1>1 DEF Inv, SceneOK
  <1>8. AiOK'
    <2>1. faults \in Nat
      BY DEF Inv, ScriptTypes
    <2> QED
      BY <1>1, <2>1 DEF Inv, AiOK
  <1>9. SmoothOK'
    <2>1. ASSUME Smooth'
          PROVE  SmoothOK'
      <3>1. Smooth /\ SmoothOK
        BY <1>1, <2>1 DEF Inv, Smooth
      <3>2. /\ script.step \in AcceptSteps /\ Rank[script.step] \in 1..22
        BY <3>1, Steps, RankOrders DEF Inv, ScriptTypes, Smooth
      <3>3. Rank[script.step] > 11 /\ GoldenOK
        BY <1>1, <3>1, <3>2 DEF SmoothOK, GoldenOK
      <3>4. GoldenOK'
        BY <3>2, <3>3, RelayKeepsGolden, ScoreKeepsGolden DEF Workers
      <3> QED
        BY <1>1, <3>1, <3>2, <3>3, <3>4 DEF SmoothOK, Smooth
    <2> QED
      BY <2>1 DEF SmoothOK
  <1>10. RunbookEndsReady'
    BY <1>1 DEF Inv, RunbookEndsReady, Ended
  <1> QED
    BY <1>2, <1>4, <1>5, <1>6, <1>7, <1>8, <1>9, <1>10 DEF Inv
------------------------------------------------------------------------------
(* How a script begins, goes on and ends.                                  *)
LEMMA BeginsIs ==
  ASSUME Inv, NEW cmd \in {"reset", "prepare", "status", "accept"}, NEW first \in StepName,
         Begin(cmd, first)
  PROVE  /\ script = Idle /\ script.cmd = "none"
         /\ script' = Started(cmd, first) /\ script' \in Script /\ script'.cmd = cmd
         /\ script'.step = first /\ script' # Idle /\ quiet' = Drained
         /\ UNCHANGED <<account, locked, sessions, aiUp, ai, transactions, outbox, queue,
                        processed, ledger, game, result, faults>>
         /\ PlatformTypes' /\ RowsOK'
         /\ quiet' \in BOOLEAN
  <1>1. /\ script = Idle /\ script' = Started(cmd, first) /\ quiet' = Drained
        /\ UNCHANGED <<account, locked, sessions, aiUp, ai, transactions, outbox, queue,
                       processed, ledger, game, result, faults>>
    BY DEF Begin, platform, identity, cases, scoring
  <1>2. Drained \in BOOLEAN
    BY DEF Drained
  <1>3. PlatformTypes' /\ RowsOK'
    BY <1>1, RowsStay DEF Inv, rows, cases, scoring
  <1>4. script' # Idle /\ script.cmd = "none"
    BY <1>1, IdleIs
  <1>5. script' \in Script /\ script'.cmd = cmd /\ script'.step = first
    <2>1. cmd \in {"none", "reset", "prepare", "status", "accept"}
      OBVIOUS
    <2>2. /\ Started(cmd, first) \in Script
          /\ Started(cmd, first).cmd = cmd /\ Started(cmd, first).step = first
      BY <2>1 DEF Started, Script
    <2> QED
      BY <1>1, <2>2
  <1> QED
    BY <1>1, <1>2, <1>3, <1>4, <1>5

LEMMA BeginResetKeeps ==
  ASSUME Inv, BeginReset
  PROVE  Inv'
  <1>1. Begin("reset", "lookup") /\ stage' = 0 /\ "lookup" \in StepName
    BY DEF BeginReset, StepName, OtherSteps
  <1>2. /\ script.cmd = "none" /\ script' \in Script /\ script'.cmd = "reset"
        /\ script'.step = "lookup" /\ quiet' = Drained /\ quiet' \in BOOLEAN
        /\ UNCHANGED <<aiUp, outbox, queue, result, faults>>
        /\ PlatformTypes' /\ RowsOK'
    BY <1>1, BeginsIs
  <1>3. ScriptTypes'
    BY <1>1, <1>2 DEF Inv, ScriptTypes
  <1>4. ResetOK'
    BY <1>1, <1>2 DEF ResetOK, Drained
  <1>5. PrepareOK' /\ SmoothOK' /\ SceneOK'
    BY <1>1, <1>2, Elsewhere
  <1>6. AiOK'
    BY <1>2 DEF Inv, AiOK
  <1>7. RunbookEndsReady'
    BY <1>1 DEF RunbookEndsReady
  <1> QED
    BY <1>2, <1>3, <1>4, <1>5, <1>6, <1>7 DEF Inv

LEMMA BeginCheckKeeps ==
  ASSUME Inv, BeginPrepare \/ BeginStatus
  PROVE  Inv'
  <1>1. PICK cmd \in {"prepare", "status"} : Begin(cmd, "health")
    BY DEF BeginPrepare, BeginStatus
  <1>2. stage' = stage /\ "health" \in StepName
    BY DEF BeginPrepare, BeginStatus, StepName, OtherSteps
  <1>3. /\ script.cmd = "none" /\ script' \in Script /\ script'.cmd = cmd
        /\ script'.step = "health" /\ script' # Idle /\ quiet' \in BOOLEAN
        /\ UNCHANGED <<account, locked, sessions, aiUp, ai, transactions, outbox, queue,
                       processed, ledger, game, result, faults>>
        /\ PlatformTypes' /\ RowsOK'
    BY <1>1, <1>2, BeginsIs
  <1>4. ScriptTypes'
    BY <1>2, <1>3 DEF Inv, ScriptTypes
  <1>5. ResetOK' /\ SmoothOK'
    BY <1>3, Elsewhere
  <1>6. PrepareOK'
    BY <1>3 DEF PrepareOK
  <1>7. SceneOK'
    BY <1>2, <1>3 DEF Inv, SceneOK, Drained, DemoTransactions, IsStored, NoScores, NoLoad,
                      Prepared, Fits
  <1>8. AiOK'
    BY <1>3 DEF Inv, AiOK
  <1>9. RunbookEndsReady'
    BY <1>2, <1>3 DEF Inv, RunbookEndsReady, Ended
  <1> QED
    BY <1>3, <1>4, <1>5, <1>6, <1>7, <1>8, <1>9 DEF Inv

LEMMA BeginAcceptanceKeeps ==
  ASSUME Inv, BeginAcceptance
  PROVE  Inv'
  <1>1. /\ Begin("accept", "platform") /\ stage' = IF stage = 2 THEN 3 ELSE 0
        /\ "platform" \in StepName
    BY DEF BeginAcceptance, StepName, AcceptSteps
  <1>2. /\ script.cmd = "none" /\ script' = Started("accept", "platform")
        /\ script' \in Script /\ script'.cmd = "accept"
        /\ script'.step = "platform" /\ quiet' \in BOOLEAN
        /\ UNCHANGED <<account, locked, sessions, aiUp, ai, transactions, outbox, queue,
                       processed, ledger, game, result, faults>>
        /\ PlatformTypes' /\ RowsOK'
    BY <1>1, BeginsIs
  <1>3. /\ script'.passed = {} /\ script'.failed = {} /\ script'.aiStopped = FALSE
        /\ script'.faulted = FALSE
    BY <1>2 DEF Started
  <1>4. ScriptTypes'
    BY <1>1, <1>2, Steps DEF Inv, ScriptTypes, AcceptSteps
  <1>5. ResetOK' /\ PrepareOK' /\ SceneOK'
    BY <1>1, <1>2, Elsewhere
  <1>6. AiOK'
    BY <1>2, <1>3 DEF Inv, AiOK
  <1>7. SmoothOK'
    <2>1. ASSUME Smooth'
          PROVE  SmoothOK'
      <3>1. stage = 2
        BY <1>1, <2>1 DEF Smooth
      <3>2. SceneOK /\ Specialist \in Analyst /\ Specialist \in Accounts
        BY Constants, DemoConstants DEF Inv
      <3>3. /\ Drained /\ NoScores /\ NoLoad /\ locked = {} /\ aiUp /\ Prepared
        BY <3>1, <3>2 DEF SceneOK
      <3>4. /\ \A a \in Accounts : account[a] = "ready"
            /\ ai[Specialist] # Null /\ ai[Specialist].load = 0 /\ game[Specialist] = CleanProfile
        BY <3>2, <3>3 DEF Prepared, Fits, NoScores, NoLoad
      <3>5. \A s \in DOMAIN Needs : ~(Rank[s] < 1)
        BY Steps, RankOrders
      <3> QED
        BY <1>2, <1>3, <3>3, <3>4, <3>5, Ranks DEF SmoothOK, Drained
    <2> QED
      BY <2>1 DEF SmoothOK
  <1>8. RunbookEndsReady'
    BY <1>1, <1>2 DEF Inv, RunbookEndsReady, Ended
  <1> QED
    BY <1>2, <1>4, <1>5, <1>6, <1>7, <1>8 DEF Inv

(* A script of another kind than the acceptance run ends; the platform is  *)
(* what it was.                                                            *)
LEMMA EndsKeep ==
  ASSUME Inv, NEW outcome \in {"complete", "refused", "broken"}, End(outcome),
         script.cmd \in {"reset", "prepare", "status"},
         UNCHANGED <<account, locked, aiUp, ai, transactions, outbox, queue, processed, ledger,
                     game, quiet, stage>>,
         faults' \in Nat, faults' >= faults,
         stage = 1 /\ script.cmd = "prepare" /\ outcome = "refused" =>
           \/ \E a \in Accounts : account[a] = "conflict"
           \/ \E a \in Analyst : ai[a] # Null /\ ~ai[a].fits,
         stage = 2 => outcome # "refused"
  PROVE  Inv'
  <1>1. /\ script' = Idle /\ script' \in Script /\ script'.cmd = "none"
        /\ result' = [cmd |-> script.cmd, outcome |-> outcome]
    BY IdleIs DEF End
  <1>2. result'.cmd = script.cmd /\ result'.outcome = outcome
    BY <1>1
  <1>3. PlatformTypes' /\ RowsOK'
    BY RowsStay DEF Inv, rows, cases, scoring
  <1>4. result' \in [cmd: {"none", "reset", "prepare", "status", "accept"},
                     outcome: {"none", "complete", "refused", "broken"}]
    BY <1>1
  <1>5. ScriptTypes'
    BY <1>1, <1>4 DEF Inv, ScriptTypes
  <1>6. ResetOK' /\ PrepareOK' /\ SmoothOK'
    BY <1>1, Elsewhere
  <1>7. stage \in {1, 2} => script.cmd # "reset"
    BY DEF Inv, ResetOK
  <1>8. SceneOK'
    BY <1>1, <1>2, <1>7 DEF Inv, SceneOK, Drained, DemoTransactions, IsStored, NoScores, NoLoad,
                            Prepared, Fits, Ended
  <1>9. AiOK'
    <2>1. faults \in Nat
      BY DEF Inv, ScriptTypes
    <2> QED
      BY <1>1, <2>1 DEF Inv, AiOK
  <1>10. RunbookEndsReady'
    BY <1>2 DEF RunbookEndsReady, Ended
  <1> QED
    BY <1>3, <1>5, <1>6, <1>8, <1>9, <1>10 DEF Inv

(* Such a script goes on; what it does to the platform leaves the scene.   *)
Misfit == \/ \E a \in Accounts : account[a] = "conflict"
          \/ \E a \in Analyst : ai[a] # Null /\ ~ai[a].fits

LEMMA InnerKeeps ==
  ASSUME Inv, script.cmd \in {"reset", "prepare", "status"},
         script' \in Script, script'.cmd = script.cmd,
         UNCHANGED <<locked, aiUp, result, quiet, stage, faults>>,
         PlatformTypes', RowsOK', ResetOK', PrepareOK',
         stage \in {1, 2} => Drained' /\ DemoTransactions' = {} /\ NoScores' /\ NoLoad',
         stage = 1 => (Misfit => Misfit'),
         stage = 2 => Prepared'
  PROVE  Inv'
  <1>1. script' # Idle /\ script'.cmd \in {"reset", "prepare", "status"} /\ script'.cmd # "accept"
    BY IdleIs
  <1>2. ScriptTypes'
    BY <1>1 DEF Inv, ScriptTypes
  <1>3. SmoothOK'
    BY <1>1, Elsewhere
  <1>4. SceneOK'
    BY <1>1 DEF Inv, SceneOK
  <1>5. AiOK'
    BY <1>1 DEF Inv, AiOK
  <1>6. RunbookEndsReady'
    BY DEF Inv, RunbookEndsReady, Ended, Misfit
  <1> QED
    BY <1>2, <1>3, <1>4, <1>5, <1>6 DEF Inv

(* ... and if it only reads, all of it is as it was.                       *)
LEMMA ReadsKeep ==
  ASSUME Inv, script.cmd \in {"reset", "prepare", "status"},
         script' \in Script, script'.cmd = script.cmd,
         UNCHANGED <<platform, result, quiet, stage, bounds>>,
         ResetOK', PrepareOK'
  PROVE  Inv'
  <1>1. UNCHANGED <<account, locked, aiUp, ai, transactions, outbox, queue, processed, ledger,
                    game, faults>>
    BY DEF platform, identity, cases, scoring, bounds
  <1>2. PlatformTypes' /\ RowsOK'
    BY <1>1, RowsStay DEF Inv, rows, cases, scoring
  <1>3. stage \in {1, 2} => Drained' /\ DemoTransactions' = {} /\ NoScores' /\ NoLoad'
    BY <1>1 DEF Inv, SceneOK, Drained, DemoTransactions, IsStored, NoScores, NoLoad
  <1>4. (Misfit => Misfit') /\ (stage = 2 => Prepared')
    BY <1>1 DEF Misfit, Inv, SceneOK, Prepared, Fits
  <1> QED
    BY <1>1, <1>2, <1>3, <1>4, InnerKeeps
------------------------------------------------------------------------------
(* The commands of the reset.                                              *)
LEMMA ResetAt ==
  ASSUME Inv, NEW step, At("reset", step)
  PROVE  /\ script.cmd = "reset" /\ script.step = step /\ stage = 0 /\ script \in Script
         /\ PlatformTypes /\ RowsOK /\ faults \in Nat
  BY DEF Inv, At, ResetOK, ScriptTypes

LEMMA LookUpKeeps ==
  ASSUME Inv, LookUp
  PROVE  Inv'
  <1>1. /\ script.cmd = "reset" /\ script.step = "lookup" /\ stage = 0 /\ script \in Script
        /\ faults \in Nat
    BY ResetAt DEF LookUp
  <1>2. CASE End("complete") /\ UNCHANGED <<platform, stage>>
    BY <1>1, <1>2, EndsKeep DEF LookUp, platform, identity, cases, scoring, bounds
  <1>3. CASE End("refused") /\ UNCHANGED <<platform, stage>>
    BY <1>1, <1>3, EndsKeep DEF LookUp, platform, identity, cases, scoring, bounds
  <1>4. CASE GoTo("readCases") /\ UNCHANGED <<platform, result, stage>>
    <2>1. "readCases" \in StepName
      BY DEF StepName, OtherSteps
    <2>2. script' \in Script /\ script'.cmd = "reset" /\ script'.step = "readCases"
      BY <1>1, <1>4, <2>1, Goes DEF Inv
    <2>3. UNCHANGED <<platform, result, quiet, stage, bounds>>
      BY <1>4 DEF LookUp
    <2>4. quiet => Drained
      BY <1>1 DEF Inv, ResetOK
    <2>5. ResetOK'
      BY <1>1, <2>2, <2>3, <2>4 DEF ResetOK, Drained, platform, cases
    <2>6. PrepareOK'
      BY <2>2, Elsewhere
    <2> QED
      BY <1>1, <2>2, <2>3, <2>5, <2>6, ReadsKeep
  <1> QED
    BY <1>2, <1>3, <1>4 DEF LookUp

LEMMA ReadCasesKeeps ==
  ASSUME Inv, ReadCases
  PROVE  Inv'
  <1>1. script.cmd = "reset" /\ script.step = "readCases" /\ stage = 0 /\ script \in Script
    BY ResetAt DEF ReadCases
  <1>2. PICK d, e : /\ d = DemoTransactions /\ e = {t \in DemoTransactions : outbox[t] # "none"}
                    /\ script' = [script EXCEPT !.step = "deleteCases", !.found = d, !.events = e]
    BY DEF ReadCases
  <1>3. /\ d \subseteq Transaction /\ e \subseteq Transaction /\ d \subseteq Demo /\ e \subseteq d
        /\ \A t \in d : outbox[t] # "none" => t \in e
    BY <1>2 DEF DemoTransactions, Demo
  <1>4. "deleteCases" \in StepName
    BY DEF StepName, OtherSteps
  <1>5. /\ script' \in Script /\ script'.cmd = "reset" /\ script'.step = "deleteCases"
        /\ script'.found = d /\ script'.events = e
    BY <1>1, <1>2, <1>3, <1>4 DEF Script
  <1>6. /\ UNCHANGED <<platform, result, quiet, stage, bounds>>
        /\ UNCHANGED <<outbox, queue, transactions>>
    BY DEF ReadCases, platform, cases
  <1>7. quiet => Drained
    BY <1>1 DEF Inv, ResetOK
  <1>8. ResetOK'
    BY <1>1, <1>2, <1>3, <1>5, <1>6, <1>7 DEF ResetOK, Drained, DemoTransactions, IsStored
  <1>9. PrepareOK'
    BY <1>5, Elsewhere
  <1> QED
    BY <1>1, <1>5, <1>6, <1>8, <1>9, ReadsKeep

LEMMA DeleteCasesKeeps ==
  ASSUME Inv, DeleteCases
  PROVE  Inv'
  <1>1. /\ script.cmd = "reset" /\ script.step = "deleteCases" /\ stage = 0 /\ script \in Script
        /\ PlatformTypes /\ RowsOK
    BY ResetAt DEF DeleteCases
  <1>2. /\ PlatformTypes' /\ RowsOK'
        /\ \A t \in Transaction : IF t \in script.found THEN transactions'[t].status = "gone"
                                  ELSE transactions'[t] = transactions[t]
        /\ \A t \in Transaction : outbox'[t] = IF t \in script.events THEN "none" ELSE outbox[t]
    BY <1>1, RowsDelete
  <1>3. script' = [script EXCEPT !.step = "readLedger", !.found = {}]
    BY DEF DeleteCases
  <1>4. "readLedger" \in StepName
    BY DEF StepName, OtherSteps
  <1>5. script' \in Script /\ script'.cmd = "reset" /\ script'.step = "readLedger"
    BY <1>1, <1>3, <1>4 DEF Script
  <1>6. UNCHANGED <<locked, aiUp, result, quiet, stage, faults, queue>>
    BY DEF DeleteCases, identity, bounds
  <1>7. ASSUME quiet
        PROVE  Drained' /\ DemoTransactions' = {}
    <2>1. Drained /\ script.found = DemoTransactions
      BY <1>1, <1>7 DEF Inv, ResetOK
    <2>2. Drained'
      BY <1>2, <1>6, <2>1 DEF Drained
    <2>3. \A t \in Demo : ~IsStored(t)'
      BY <1>2, <2>1 DEF DemoTransactions, IsStored, Demo
    <2> QED
      BY <2>2, <2>3 DEF DemoTransactions
  <1>8. ResetOK'
    BY <1>1, <1>5, <1>6, <1>7 DEF ResetOK
  <1>9. PrepareOK'
    BY <1>5, Elsewhere
  <1> QED
    BY <1>1, <1>2, <1>5, <1>6, <1>8, <1>9, InnerKeeps

LEMMA ReadLedgerKeeps ==
  ASSUME Inv, ReadLedger
  PROVE  Inv'
  <1>1. script.cmd = "reset" /\ script.step = "readLedger" /\ stage = 0 /\ script \in Script
    BY ResetAt DEF ReadLedger
  <1>2. PICK e : e = script.events \cup ledger
    OBVIOUS
  <1>3. script' = [script EXCEPT !.step = "deleteLedger", !.events = e]
    BY <1>1, <1>2 DEF ReadLedger, Script
  <1>4. e \subseteq Transaction /\ "deleteLedger" \in StepName
    BY <1>1, <1>2 DEF Script, StepName, OtherSteps, Inv, PlatformTypes
  <1>5. script' \in Script /\ script'.cmd = "reset" /\ script'.step = "deleteLedger"
    BY <1>1, <1>3, <1>4 DEF Script
  <1>6. /\ UNCHANGED <<platform, result, quiet, stage, bounds>>
        /\ UNCHANGED <<outbox, queue, transactions>>
    BY DEF ReadLedger, platform, cases
  <1>7. quiet => Drained /\ DemoTransactions = {}
    BY <1>1 DEF Inv, ResetOK
  <1>8. ResetOK'
    BY <1>1, <1>5, <1>6, <1>7 DEF ResetOK, Drained, DemoTransactions, IsStored
  <1>9. PrepareOK'
    BY <1>5, Elsewhere
  <1> QED
    BY <1>1, <1>5, <1>6, <1>8, <1>9, ReadsKeep

LEMMA DeleteLedgerKeeps ==
  ASSUME Inv, DeleteLedger
  PROVE  Inv'
  <1>1. script.cmd = "reset" /\ script.step = "deleteLedger" /\ stage = 0 /\ script \in Script
    BY ResetAt DEF DeleteLedger
  <1>2. PICK l, b : /\ l = ledger /\ b = {a \in Analyst : game[a] # Null /\ game[a].badge}
                    /\ script' = [script EXCEPT !.step = "readProfiles", !.found = l, !.badges = b]
    BY DEF DeleteLedger
  <1>4. l \subseteq Transaction /\ b \subseteq Analyst /\ "readProfiles" \in StepName
    BY <1>2 DEF StepName, OtherSteps, Inv, PlatformTypes
  <1>5. /\ script' \in Script /\ script'.cmd = "reset" /\ script'.step = "readProfiles"
        /\ script'.found = l /\ script'.badges = b
    BY <1>1, <1>2, <1>4 DEF Script
  <1>6. /\ UNCHANGED <<platform, result, quiet, stage, bounds>>
        /\ UNCHANGED <<outbox, queue, transactions, ledger, game>>
    BY DEF DeleteLedger, platform, cases, scoring
  <1>7. quiet => Drained /\ DemoTransactions = {}
    BY <1>1 DEF Inv, ResetOK
  <1>8. ResetOK'
    BY <1>1, <1>2, <1>5, <1>6, <1>7 DEF ResetOK, Drained, DemoTransactions, IsStored
  <1>9. PrepareOK'
    BY <1>5, Elsewhere
  <1> QED
    BY <1>1, <1>5, <1>6, <1>8, <1>9, ReadsKeep

LEMMA ReadProfilesKeeps ==
  ASSUME Inv, ReadProfiles
  PROVE  Inv'
  <1>1. script.cmd = "reset" /\ script.step = "readProfiles" /\ stage = 0 /\ script \in Script
    BY ResetAt DEF ReadProfiles
  <1>2. PICK p : /\ p = {a \in Analyst : game[a] # Null /\ game[a].resolved # 0}
                 /\ script' = [script EXCEPT !.step = "resetProfiles", !.profiles = p]
    BY DEF ReadProfiles
  <1>4. p \subseteq Analyst /\ "resetProfiles" \in StepName
    BY <1>2 DEF StepName, OtherSteps
  <1>5. /\ script' \in Script /\ script'.cmd = "reset" /\ script'.step = "resetProfiles"
        /\ script'.found = script.found /\ script'.badges = script.badges /\ script'.profiles = p
    BY <1>1, <1>2, <1>4 DEF Script
  <1>6. /\ UNCHANGED <<platform, result, quiet, stage, bounds>>
        /\ UNCHANGED <<outbox, queue, transactions, ledger, game>>
    BY DEF ReadProfiles, platform, cases, scoring
  <1>7. quiet => /\ Drained /\ DemoTransactions = {} /\ script.found = ledger
                 /\ script.badges = {a \in Analyst : game[a] # Null /\ game[a].badge}
    BY <1>1 DEF Inv, ResetOK
  <1>8. ResetOK'
    BY <1>1, <1>2, <1>5, <1>6, <1>7 DEF ResetOK, Drained, DemoTransactions, IsStored
  <1>9. PrepareOK'
    BY <1>5, Elsewhere
  <1> QED
    BY <1>1, <1>5, <1>6, <1>8, <1>9, ReadsKeep

LEMMA ResetProfilesKeeps ==
  ASSUME Inv, ResetProfiles
  PROVE  Inv'
  <1>1. /\ script.cmd = "reset" /\ script.step = "resetProfiles" /\ stage = 0 /\ script \in Script
        /\ PlatformTypes /\ RowsOK
    BY ResetAt DEF ResetProfiles
  <1>2. PlatformTypes' /\ RowsOK' /\ \A a \in Analyst : game'[a] = ZeroProfile(a)
    BY <1>1, RowsReset
  <1>3. "resetLoad" \in StepName
    BY DEF StepName, OtherSteps
  <1>4. script' = Started("reset", "resetLoad")
    BY DEF ResetProfiles
  <1>5. script' \in Script /\ script'.cmd = "reset" /\ script'.step = "resetLoad"
    BY ONLY <1>3, <1>4 DEF Started, Script
  <1>6. /\ UNCHANGED <<locked, aiUp, result, quiet, stage, faults, queue, outbox, transactions>>
        /\ ledger' = ledger \ script.found
    BY DEF ResetProfiles, identity, cases, bounds
  <1>7. ASSUME quiet
        PROVE  Drained' /\ DemoTransactions' = {} /\ NoScores'
    <2>1. /\ Drained /\ DemoTransactions = {} /\ script.found = ledger
          /\ script.badges = {a \in Analyst : game[a] # Null /\ game[a].badge}
          /\ script.profiles = {a \in Analyst : game[a] # Null /\ game[a].resolved # 0}
      BY <1>1, <1>7 DEF Inv, ResetOK
    <2>2. ASSUME NEW a \in Analyst, ZeroProfile(a) # Null
          PROVE  ZeroProfile(a) = CleanProfile
      <3>1. game[a] # Null /\ game[a].points = game[a].resolved
        BY <1>1, <2>2 DEF ZeroProfile, RowsOK
      <3>2. PICK p, r, b : /\ p = IF a \in script.profiles THEN 0 ELSE game[a].points
                           /\ r = IF a \in script.profiles THEN 0 ELSE game[a].resolved
                           /\ b = (game[a].badge /\ a \notin script.badges)
        OBVIOUS
      <3>3. ZeroProfile(a) = [points |-> p, resolved |-> r, badge |-> b]
        BY <3>1, <3>2, Zenon DEF ZeroProfile
      <3>4. p = 0 /\ r = 0
        BY <2>1, <3>1, <3>2
      <3>5. b = FALSE
        BY <2>1, <3>1, <3>2
      <3> QED
        BY <3>3, <3>4, <3>5 DEF CleanProfile
    <2>3. NoScores'
      BY <1>2, <1>6, <2>1, <2>2 DEF NoScores
    <2> QED
      BY <1>6, <2>1, <2>3 DEF Drained, DemoTransactions, IsStored
  <1>8. ResetOK'
    BY <1>1, <1>5, <1>6, <1>7 DEF ResetOK
  <1>9. PrepareOK'
    BY <1>5, Elsewhere
  <1> QED
    BY <1>1, <1>2, <1>5, <1>6, <1>8, <1>9, InnerKeeps

LEMMA RefusesKeep ==
  ASSUME Inv, Refuse, script.cmd \in {"reset", "prepare", "status"},
         stage = 1 /\ script.cmd = "prepare" => Misfit,
         stage # 2
  PROVE  Inv'
  <1>1. /\ End("refused")
        /\ UNCHANGED <<account, locked, aiUp, ai, transactions, outbox, queue, processed, ledger,
                       game, quiet, stage, faults>>
    BY DEF Refuse, platform, identity, cases, scoring, bounds
  <1>2. faults' \in Nat /\ faults' >= faults
    BY <1>1 DEF Inv, ScriptTypes
  <1> QED
    BY <1>1, <1>2, EndsKeep DEF Misfit

LEMMA ResetLoadKeeps ==
  ASSUME Inv, ResetLoad
  PROVE  Inv'
  <1>1. /\ script.cmd = "reset" /\ script.step = "resetLoad" /\ stage = 0 /\ script \in Script
        /\ PlatformTypes /\ RowsOK
    BY ResetAt DEF ResetLoad
  <1>2. CASE Refuse
    BY <1>1, <1>2, RefusesKeep
  <1>3. CASE /\ aiUp /\ GoTo("resetIdentity")
             /\ UNCHANGED <<identity, aiUp, cases, queue, scoring, result, quiet, stage, bounds>>
    <2>1. PlatformTypes' /\ RowsOK' /\ NoLoad'
      BY <1>1, <1>3, RowsLoad
    <2>2. "resetIdentity" \in StepName
      BY DEF StepName, OtherSteps
    <2>3. script' \in Script /\ script'.cmd = "reset" /\ script'.step = "resetIdentity"
      BY <1>1, <1>3, <2>2, Goes DEF Inv
    <2>4. UNCHANGED <<locked, aiUp, result, quiet, stage, faults, outbox, queue, transactions,
                      ledger, game>>
      BY <1>3 DEF identity, cases, scoring, bounds
    <2>5. quiet => Drained /\ DemoTransactions = {} /\ NoScores
      BY <1>1 DEF Inv, ResetOK
    <2>6. ResetOK'
      BY <1>1, <1>3, <2>1, <2>3, <2>4, <2>5
      DEF ResetOK, Drained, DemoTransactions, IsStored, NoScores
    <2>7. PrepareOK'
      BY <2>3, Elsewhere
    <2> QED
      BY <1>1, <2>1, <2>3, <2>4, <2>6, <2>7, InnerKeeps
  <1> QED
    BY <1>2, <1>3 DEF ResetLoad

(* The reset is complete: if nobody disturbed it, the scene is clean.      *)
LEMMA ResetIdentityKeeps ==
  ASSUME Inv, ResetIdentity
  PROVE  Inv'
  <1>1. /\ script.cmd = "reset" /\ script.step = "resetIdentity" /\ stage = 0 /\ script \in Script
        /\ PlatformTypes /\ RowsOK
    BY ResetAt DEF ResetIdentity
  <1>2. /\ End("complete") /\ stage' = IF quiet THEN 1 ELSE 0
        /\ locked' = {} /\ sessions' = {}
        /\ UNCHANGED <<account, aiUp, ai, transactions, outbox, queue, processed, ledger, game,
                       quiet, faults>>
    BY DEF ResetIdentity, UNCHANGEDButIdentity, cases, scoring, bounds
  <1>3. /\ script' = Idle /\ script' \in Script /\ script'.cmd = "none"
        /\ result' = [cmd |-> "reset", outcome |-> "complete"]
    BY <1>1, <1>2, IdleIs DEF End
  <1>4. PlatformTypes' /\ RowsOK'
    BY <1>2, RowsStay DEF Inv, rows, cases, scoring
  <1>5. ScriptTypes'
    <2>1. stage' \in 0..3
      BY <1>2
    <2> QED
      BY <1>2, <1>3, <2>1 DEF Inv, ScriptTypes
  <1>6. ResetOK' /\ PrepareOK' /\ SmoothOK'
    BY <1>3, Elsewhere
  <1>7. SceneOK'
    <2>1. quiet => Drained /\ DemoTransactions = {} /\ NoScores /\ NoLoad /\ aiUp
      BY <1>1 DEF Inv, ResetOK
    <2>2. stage' \in {1, 2} => quiet /\ stage' # 2
      BY <1>2
    <2> QED
      BY <1>2, <1>3, <2>1, <2>2 DEF SceneOK, Drained, DemoTransactions, IsStored, NoScores, NoLoad
  <1>8. AiOK'
    BY <1>1, <1>2, <1>3 DEF Inv, AiOK
  <1>9. RunbookEndsReady'
    <2>1. result'.cmd = "reset" /\ result'.outcome = "complete"
      BY <1>3
    <2> QED
      BY <2>1 DEF RunbookEndsReady, Ended
  <1> QED
    BY <1>4, <1>5, <1>6, <1>7, <1>8, <1>9 DEF Inv

LEMMA ResetKeeps ==
  ASSUME Inv, Reset
  PROVE  Inv'
  BY BeginResetKeeps, LookUpKeeps, ReadCasesKeeps, DeleteCasesKeeps, ReadLedgerKeeps,
     DeleteLedgerKeeps, ReadProfilesKeeps, ResetProfilesKeeps, ResetLoadKeeps, ResetIdentityKeeps
  DEF Reset
------------------------------------------------------------------------------
(* The commands of the preparation.                                        *)
LEMMA SceneThere ==
  ASSUME Inv, stage \in {1, 2}
  PROVE  /\ Drained /\ DemoTransactions = {} /\ NoScores /\ NoLoad /\ locked = {} /\ aiUp
         /\ stage = 2 => Prepared
  BY DEF Inv, SceneOK

LEMMA StepAt ==
  ASSUME Inv, NEW cmd, NEW step, At(cmd, step)
  PROVE  /\ script.cmd = cmd /\ script.step = step /\ script \in Script
         /\ PlatformTypes /\ RowsOK /\ faults \in Nat /\ PrepareOK
  BY DEF Inv, At, ScriptTypes

LEMMA HealthKeeps ==
  ASSUME Inv, script.cmd \in {"prepare", "status"}, CheckHealth("users")
  PROVE  Inv'
  <1>1. CASE ~aiUp /\ Refuse
    BY <1>1, SceneThere, RefusesKeep
  <1>2. CASE aiUp /\ GoTo("users") /\ UNCHANGED <<platform, result, quiet, stage, bounds>>
    <2>1. "users" \in StepName
      BY DEF StepName, OtherSteps
    <2>2. script' \in Script /\ script'.cmd = script.cmd /\ script'.step = "users" /\ script'.n = 1
      BY <1>2, <2>1, Goes DEF Inv
    <2>3. ResetOK'
      BY <2>2, Elsewhere
    <2>4. PrepareOK'
      BY <2>2, Constants DEF PrepareOK
    <2> QED
      BY <1>2, <2>2, <2>3, <2>4, ReadsKeep
  <1> QED
    BY <1>1, <1>2 DEF CheckHealth

LEMMA SeedAccountKeeps ==
  ASSUME Inv, SeedAccount
  PROVE  Inv'
  <1>1. /\ script.cmd = "prepare" /\ script.step = "users" /\ script \in Script
        /\ PlatformTypes /\ RowsOK /\ PrepareOK
    BY StepAt DEF SeedAccount
  <1>2. PICK n, l, a : n = script.n /\ l = Len(AccountOrder) /\ a = AccountOrder[n]
    OBVIOUS
  <1>3. /\ l \in Nat /\ n \in 1..l /\ \A i \in 1..(n - 1) : account[AccountOrder[i]] = "ready"
    BY <1>1, <1>2, Constants DEF PrepareOK
  <1>4. a \in Accounts
    BY <1>2, <1>3, Constants
  <1>5. CASE account[a] = "conflict" /\ Refuse
    <2>1. Misfit
      BY <1>4, <1>5 DEF Misfit
    <2>2. stage # 2
      BY <1>4, <1>5, SceneThere DEF Prepared
    <2> QED
      BY <1>1, <1>5, <2>1, <2>2, RefusesKeep
  <1>6. CASE /\ account[a] # "conflict" /\ account' = [account EXCEPT ![a] = "ready"]
             /\ Advance(AccountOrder, "analysts")
             /\ UNCHANGED <<locked, sessions, result, stage>> /\ UNCHANGEDButIdentity
    <2>1. UNCHANGED <<locked, aiUp, ai, transactions, outbox, queue, processed, ledger, game,
                      result, quiet, stage, faults>>
      BY <1>6 DEF UNCHANGEDButIdentity, cases, scoring, bounds
    <2>2. /\ PlatformTypes' /\ RowsOK' /\ account'[a] = "ready"
          /\ \A b \in Accounts : account[b] = "ready" => account'[b] = "ready"
      BY <1>1, <1>4, <1>6, <2>1, RowsAccount DEF cases, scoring
    <2>3. "analysts" \in StepName
      BY DEF StepName, OtherSteps
    <2>4. /\ script' \in Script /\ script'.cmd = "prepare"
          /\ IF n < l THEN script'.n = n + 1 /\ script'.step = "users"
             ELSE script'.n = 1 /\ script'.step = "analysts"
      BY <1>1, <1>2, <1>3, <1>6, <2>3, Advances DEF Inv
    <2>5. \A i \in 1..n : account'[AccountOrder[i]] = "ready"
      BY <1>2, <1>3, <2>2, Constants
    <2>6. PrepareOK'
      <3>1. CASE n < l
        BY <1>2, <1>3, <2>4, <2>5, <3>1 DEF PrepareOK
      <3>2. CASE ~(n < l)
        <4>1. n = l
          BY <1>3, <3>2
        <4>2. \A b \in Accounts : account'[b] = "ready"
          BY <1>2, <2>5, <4>1, Constants, DemoConstants
        <4> QED
          BY <2>4, <3>2, <4>2, Constants DEF PrepareOK
      <3> QED
        BY <3>1, <3>2
    <2>7. ResetOK'
      BY <2>4, Elsewhere
    <2>8. stage \in {1, 2} => Drained' /\ DemoTransactions' = {} /\ NoScores' /\ NoLoad'
      BY <2>1, SceneThere DEF Drained, DemoTransactions, IsStored, NoScores, NoLoad
    <2>9. Misfit => Misfit'
      BY <1>1, <1>4, <1>6, <2>1 DEF Misfit, PlatformTypes
    <2>10. stage = 2 => Prepared'
      BY <2>1, <2>2, SceneThere DEF Prepared, Fits
    <2> QED
      BY <1>1, <2>1, <2>2, <2>4, <2>6, <2>7, <2>8, <2>9, <2>10, InnerKeeps
  <1> QED
    BY <1>2, <1>5, <1>6 DEF SeedAccount

LEMMA SeedAnalystKeeps ==
  ASSUME Inv, SeedAnalyst
  PROVE  Inv'
  <1>1. /\ script.cmd = "prepare" /\ script.step = "analysts" /\ script \in Script
        /\ PlatformTypes /\ RowsOK /\ PrepareOK
    BY StepAt DEF SeedAnalyst
  <1>2. PICK n, l, a : n = script.n /\ l = Len(AnalystOrder) /\ a = AnalystOrder[n]
    OBVIOUS
  <1>3. /\ l \in Nat /\ n \in 1..l /\ \A i \in 1..(n - 1) : Fits(AnalystOrder[i])
        /\ \A b \in Accounts : account[b] = "ready"
    BY <1>1, <1>2, Constants DEF PrepareOK
  <1>4. a \in Analyst
    BY <1>2, <1>3, Constants
  <1>5. CASE ai[a] # Null /\ ~ai[a].fits /\ Refuse
    <2>1. Misfit
      BY <1>4, <1>5 DEF Misfit
    <2>2. stage # 2
      BY <1>4, <1>5, SceneThere DEF Prepared, Fits
    <2> QED
      BY <1>1, <1>5, <2>1, <2>2, RefusesKeep
  <1>6. CASE /\ ai[a] # Null => ai[a].fits
             /\ ai' = [ai EXCEPT ![a] = IF @ = Null THEN [load |-> 0, fits |-> TRUE] ELSE @]
             /\ Advance(AnalystOrder, "profiles")
             /\ UNCHANGED <<identity, aiUp, cases, queue, scoring, result, quiet, stage, bounds>>
    <2>1. UNCHANGED <<account, locked, aiUp, transactions, outbox, queue, processed, ledger, game,
                      result, quiet, stage, faults>>
      BY <1>6 DEF identity, cases, scoring, bounds
    <2>2. /\ PlatformTypes' /\ RowsOK' /\ Fits(a)'
          /\ \A b \in Analyst : Fits(b) => Fits(b)'
          /\ NoLoad => NoLoad'
          /\ \A b \in Analyst : ai[b] # Null => ai'[b] = ai[b]
      BY <1>1, <1>4, <1>6, <2>1, RowsAnalyst
    <2>3. "profiles" \in StepName
      BY DEF StepName, OtherSteps
    <2>4. /\ script' \in Script /\ script'.cmd = "prepare"
          /\ IF n < l THEN script'.n = n + 1 /\ script'.step = "analysts"
             ELSE script'.n = 1 /\ script'.step = "profiles"
      BY <1>1, <1>2, <1>3, <1>6, <2>3, Advances DEF Inv
    <2>5. \A i \in 1..n : Fits(AnalystOrder[i])'
      <3>1. ASSUME NEW i \in 1..n
            PROVE  Fits(AnalystOrder[i])'
        <4>1. CASE i = n
          BY <1>2, <2>2, <4>1
        <4>2. CASE i # n
          <5>1. i \in 1..(n - 1) /\ AnalystOrder[i] \in Analyst
            BY <1>2, <1>3, <4>2, Constants
          <5> QED
            BY <1>3, <2>2, <5>1
        <4> QED
          BY <4>1, <4>2
      <3> QED
        BY <3>1
    <2>6. PrepareOK'
      <3>1. CASE n < l
        BY <1>2, <1>3, <2>1, <2>4, <2>5, <3>1 DEF PrepareOK
      <3>2. CASE ~(n < l)
        <4>1. n = l
          BY <1>3, <3>2
        <4>2. ASSUME NEW b \in Analyst
              PROVE  Fits(b)'
          <5>1. PICK i \in 1..l : AnalystOrder[i] = b
            BY <1>2, Constants, DemoConstants
          <5> QED
            BY <2>5, <4>1, <5>1
        <4> QED
          BY <1>3, <2>1, <2>4, <3>2, <4>2, Constants DEF PrepareOK
      <3> QED
        BY <3>1, <3>2
    <2>7. ResetOK'
      BY <2>4, Elsewhere
    <2>8. stage \in {1, 2} => Drained' /\ DemoTransactions' = {} /\ NoScores' /\ NoLoad'
      BY <2>1, <2>2, SceneThere DEF Drained, DemoTransactions, IsStored, NoScores
    <2>9. Misfit => Misfit'
      BY <2>1, <2>2 DEF Misfit
    <2>10. stage = 2 => Prepared'
      BY <2>1, <2>2, SceneThere DEF Prepared
    <2> QED
      BY <1>1, <2>1, <2>2, <2>4, <2>6, <2>7, <2>8, <2>9, <2>10, InnerKeeps
  <1> QED
    BY <1>2, <1>5, <1>6 DEF SeedAnalyst

LEMMA SeedProfilesKeeps ==
  ASSUME Inv, SeedProfiles
  PROVE  Inv'
  <1>1. /\ script.cmd = "prepare" /\ script.step = "profiles" /\ script \in Script
        /\ PlatformTypes /\ RowsOK /\ PrepareOK
    BY StepAt DEF SeedProfiles
  <1>2. /\ game' = [a \in Analyst |-> IF game[a] = Null THEN CleanProfile ELSE game[a]]
        /\ GoTo("logins")
        /\ UNCHANGED <<account, locked, aiUp, ai, transactions, outbox, queue, processed, ledger,
                       result, quiet, stage, faults>>
    BY DEF SeedProfiles, identity, cases, bounds
  <1>3. /\ PlatformTypes' /\ RowsOK' /\ \A a \in Analyst : game'[a] # Null
        /\ NoScores => NoScores'
    BY <1>1, <1>2, RowsProfiles DEF cases
  <1>4. "logins" \in StepName
    BY DEF StepName, OtherSteps
  <1>5. script' \in Script /\ script'.cmd = "prepare" /\ script'.step = "logins"
    BY <1>1, <1>2, <1>4, Goes DEF Inv
  <1>6. (\A b \in Accounts : account[b] = "ready") /\ (\A a \in Analyst : Fits(a))
    BY <1>1 DEF PrepareOK
  <1>7. PrepareOK'
    BY <1>2, <1>3, <1>5, <1>6 DEF PrepareOK, Fits
  <1>8. ResetOK'
    BY <1>5, Elsewhere
  <1>9. stage \in {1, 2} => Drained' /\ DemoTransactions' = {} /\ NoScores' /\ NoLoad'
    BY <1>2, <1>3, SceneThere DEF Drained, DemoTransactions, IsStored, NoLoad
  <1>10. (Misfit => Misfit') /\ (stage = 2 => Prepared')
    BY <1>2, <1>3, <1>6 DEF Misfit, Prepared, Fits
  <1> QED
    BY <1>1, <1>2, <1>3, <1>5, <1>7, <1>8, <1>9, <1>10, InnerKeeps

(* After an undisturbed reset nobody is locked out: the preparation ends   *)
(* with DEMO READY.                                                        *)
LEMMA TryLoginsKeeps ==
  ASSUME Inv, TryLogins
  PROVE  Inv'
  <1>1. /\ script.cmd = "prepare" /\ script.step = "logins" /\ script \in Script
        /\ PlatformTypes /\ RowsOK /\ PrepareOK /\ faults \in Nat
    BY StepAt DEF TryLogins
  <1>2. UNCHANGED <<account, locked, aiUp, ai, transactions, outbox, queue, processed, ledger,
                    game, quiet, faults>>
    BY DEF TryLogins, UNCHANGEDButIdentity, cases, scoring, bounds
  <1>3. CASE Tried \cap locked # {}
    <2>1. End("refused") /\ stage' = stage /\ locked # {}
      BY <1>3 DEF TryLogins
    <2>2. stage \notin {1, 2}
      BY <2>1, SceneThere
    <2> QED
      BY <1>1, <1>2, <2>1, <2>2, EndsKeep
  <1>4. CASE Tried \cap locked = {}
    <2>1. End("complete") /\ stage' = IF stage = 1 THEN 2 ELSE stage
      BY <1>4 DEF TryLogins
    <2>2. /\ script' = Idle /\ script' \in Script /\ script'.cmd = "none"
          /\ result' = [cmd |-> "prepare", outcome |-> "complete"]
      BY <1>1, <2>1, IdleIs DEF End
    <2>3. result'.cmd = "prepare" /\ result'.outcome = "complete"
      BY <2>2
    <2>4. PlatformTypes' /\ RowsOK'
      BY <1>1, <1>2, RowsStay DEF rows, cases, scoring
    <2>5. stage' \in 0..3
      BY <2>1 DEF Inv, ScriptTypes
    <2>6. ScriptTypes'
      BY <1>2, <2>2, <2>5 DEF Inv, ScriptTypes
    <2>7. ResetOK' /\ PrepareOK' /\ SmoothOK'
      BY <2>2, Elsewhere
    <2>8. Prepared
      BY <1>1 DEF PrepareOK, Prepared
    <2>9. SceneOK'
      <3>1. stage' \in {1, 2} => stage \in {1, 2}
        BY <2>1
      <3>2. stage' \in {1, 2} => /\ Drained /\ DemoTransactions = {} /\ NoScores /\ NoLoad
                                 /\ locked = {} /\ aiUp
        BY <3>1, SceneThere
      <3> QED
        BY <1>2, <2>2, <2>3, <2>8, <3>2 DEF SceneOK, Ended, Drained, DemoTransactions, IsStored,
           NoScores, NoLoad, Prepared, Fits
    <2>10. AiOK'
      BY <1>1, <1>2, <2>2 DEF Inv, AiOK
    <2>11. RunbookEndsReady'
      BY <2>3 DEF RunbookEndsReady, Ended
    <2> QED
      BY <2>4, <2>6, <2>7, <2>9, <2>10, <2>11 DEF Inv
  <1> QED
    BY <1>3, <1>4

LEMMA PrepareKeeps ==
  ASSUME Inv, Prepare
  PROVE  Inv'
  BY BeginCheckKeeps, HealthKeeps, SeedAccountKeeps, SeedAnalystKeeps, SeedProfilesKeeps,
     TryLoginsKeeps
  DEF Prepare
------------------------------------------------------------------------------
(* The commands of the status check.                                       *)
LEMMA CheckAccountsKeeps ==
  ASSUME Inv, CheckAccounts
  PROVE  Inv'
  <1>1. script.cmd = "status" /\ script.step = "users" /\ script \in Script
    BY StepAt DEF CheckAccounts
  <1>2. CASE \A a \in Accounts : account[a] = "ready"
    <2>1. GoTo("profiles") /\ UNCHANGED <<platform, result, quiet, stage, bounds>>
      BY <1>2 DEF CheckAccounts
    <2>2. "profiles" \in StepName
      BY DEF StepName, OtherSteps
    <2>3. script' \in Script /\ script'.cmd = "status" /\ script'.step = "profiles"
      BY <1>1, <2>1, <2>2, Goes DEF Inv
    <2>4. ResetOK' /\ PrepareOK'
      BY <2>3, Elsewhere DEF PrepareOK
    <2> QED
      BY <1>1, <2>1, <2>3, <2>4, ReadsKeep
  <1>3. CASE ~\A a \in Accounts : account[a] = "ready"
    <2>1. Refuse
      BY <1>3 DEF CheckAccounts
    <2>2. stage # 2
      BY <1>3, SceneThere DEF Prepared
    <2> QED
      BY <1>1, <2>1, <2>2, RefusesKeep
  <1> QED
    BY <1>2, <1>3

LEMMA CheckProfilesKeeps ==
  ASSUME Inv, CheckProfiles
  PROVE  Inv'
  <1>1. script.cmd = "status" /\ script.step = "profiles" /\ script \in Script
    BY StepAt DEF CheckProfiles
  <1>2. CASE GoTo("logins") /\ UNCHANGED <<platform, result, quiet, stage, bounds>>
    <2>2. "logins" \in StepName
      BY DEF StepName, OtherSteps
    <2>3. script' \in Script /\ script'.cmd = "status" /\ script'.step = "logins"
      BY <1>1, <1>2, <2>2, Goes DEF Inv
    <2>4. ResetOK' /\ PrepareOK'
      BY <2>3, Elsewhere DEF PrepareOK
    <2> QED
      BY <1>1, <1>2, <2>3, <2>4, ReadsKeep
  <1>3. CASE Refuse /\ ~\A a \in Analyst : ai[a] # Null /\ ai[a].fits /\ game[a] # Null
    <2>1. stage # 2
      BY <1>3, SceneThere DEF Prepared, Fits
    <2> QED
      BY <1>1, <1>3, <2>1, RefusesKeep
  <1> QED
    BY <1>2, <1>3 DEF CheckProfiles

LEMMA TryAllLoginsKeeps ==
  ASSUME Inv, TryAllLogins
  PROVE  Inv'
  <1>1. /\ script.cmd = "status" /\ script.step = "logins" /\ script \in Script
        /\ PlatformTypes /\ RowsOK /\ faults \in Nat
    BY StepAt DEF TryAllLogins
  <1>2. UNCHANGED <<account, locked, aiUp, ai, transactions, outbox, queue, processed, ledger,
                    game, quiet, stage, faults>>
    BY DEF TryAllLogins, UNCHANGEDButIdentity, cases, scoring, bounds
  <1>3. CASE locked # {}
    <2>1. End("refused")
      BY <1>3 DEF TryAllLogins
    <2>2. stage \notin {1, 2}
      BY <1>3, SceneThere
    <2> QED
      BY <1>1, <1>2, <2>1, <2>2, EndsKeep
  <1>4. CASE locked = {}
    <2>1. GoTo("zero") /\ UNCHANGED result
      BY <1>4 DEF TryAllLogins
    <2>2. "zero" \in StepName
      BY DEF StepName, OtherSteps
    <2>3. script' \in Script /\ script'.cmd = "status" /\ script'.step = "zero" /\ script'.n = 1
      BY <1>1, <2>1, <2>2, Goes DEF Inv
    <2>4. ResetOK' /\ PrepareOK'
      BY <2>3, Elsewhere, Constants DEF PrepareOK
    <2>5. PlatformTypes' /\ RowsOK'
      BY <1>1, <1>2, RowsStay DEF rows, cases, scoring
    <2>6. stage \in {1, 2} => Drained' /\ DemoTransactions' = {} /\ NoScores' /\ NoLoad'
      BY <1>2, SceneThere DEF Drained, DemoTransactions, IsStored, NoScores, NoLoad
    <2>7. (Misfit => Misfit') /\ (stage = 2 => Prepared')
      BY <1>2, SceneThere DEF Misfit, Prepared, Fits
    <2> QED
      BY <1>1, <1>2, <2>1, <2>3, <2>4, <2>5, <2>6, <2>7, InnerKeeps
  <1> QED
    BY <1>3, <1>4

LEMMA CheckZeroKeeps ==
  ASSUME Inv, CheckZero
  PROVE  Inv'
  <1>1. script.cmd = "status" /\ script.step = "zero" /\ script \in Script /\ PrepareOK
    BY StepAt DEF CheckZero
  <1>2. PICK n, l : n = script.n /\ l = Len(AnalystOrder)
    OBVIOUS
  <1>3. l \in Nat /\ n \in 1..l /\ AnalystOrder[n] \in Analyst
    BY <1>1, <1>2, Constants DEF PrepareOK
  <1>4. CASE game[AnalystOrder[n]] = CleanProfile
    <2>1. Advance(AnalystOrder, "transactions") /\ UNCHANGED <<platform, result, quiet, stage, bounds>>
      BY <1>2, <1>4 DEF CheckZero
    <2>2. "transactions" \in StepName
      BY DEF StepName, OtherSteps
    <2>3. /\ script' \in Script /\ script'.cmd = "status"
          /\ IF n < l THEN script'.n = n + 1 /\ script'.step = "zero"
             ELSE script'.n = 1 /\ script'.step = "transactions"
      BY <1>1, <1>2, <1>3, <2>1, <2>2, Advances DEF Inv
    <2>4. PrepareOK'
      BY <1>2, <1>3, <2>3 DEF PrepareOK
    <2>5. ResetOK'
      BY <2>3, Elsewhere
    <2> QED
      BY <1>1, <2>1, <2>3, <2>4, <2>5, ReadsKeep
  <1>5. CASE game[AnalystOrder[n]] # CleanProfile
    <2>1. Refuse
      BY <1>2, <1>5 DEF CheckZero
    <2>2. stage # 2
      BY <1>3, <1>5, SceneThere DEF Prepared, NoScores
    <2> QED
      BY <1>1, <2>1, <2>2, RefusesKeep
  <1> QED
    BY <1>4, <1>5

LEMMA CheckNoTransactionsKeeps ==
  ASSUME Inv, CheckNoTransactions
  PROVE  Inv'
  <1>1. script.cmd = "status" /\ faults \in Nat
    BY StepAt DEF CheckNoTransactions
  <1>2. UNCHANGED <<account, locked, aiUp, ai, transactions, outbox, queue, processed, ledger,
                    game, quiet, stage, faults>>
    BY DEF CheckNoTransactions, platform, identity, cases, scoring, bounds
  <1>3. CASE DemoTransactions = {}
    <2>1. End("complete")
      BY <1>3 DEF CheckNoTransactions
    <2> QED
      BY <1>1, <1>2, <2>1, EndsKeep
  <1>4. CASE DemoTransactions # {}
    <2>1. End("refused")
      BY <1>4 DEF CheckNoTransactions
    <2>2. stage \notin {1, 2}
      BY <1>4, SceneThere
    <2> QED
      BY <1>1, <1>2, <2>1, <2>2, EndsKeep
  <1> QED
    BY <1>3, <1>4

LEMMA StatusKeeps ==
  ASSUME Inv, StatusCheck
  PROVE  Inv'
  BY BeginCheckKeeps, HealthKeeps, CheckAccountsKeeps, CheckProfilesKeeps, TryAllLoginsKeeps,
     CheckZeroKeeps, CheckNoTransactionsKeeps
  DEF StatusCheck

LEMMA BreakKeeps ==
  ASSUME Inv, Break
  PROVE  Inv'
  <1>1. /\ script.cmd \in {"reset", "prepare", "status"} /\ End("broken")
        /\ UNCHANGED <<account, locked, aiUp, ai, transactions, outbox, queue, processed, ledger,
                       game, quiet, stage>>
        /\ faults' = faults + 1
    BY DEF Break, platform, identity, cases, scoring
  <1>2. faults' \in Nat /\ faults' >= faults
    BY <1>1 DEF Inv, ScriptTypes
  <1> QED
    BY <1>1, <1>2, EndsKeep
------------------------------------------------------------------------------
(* The steps of the acceptance run.                                        *)
LEMMA AcceptKeeps ==
  ASSUME Inv, NEW step \in AcceptSteps \ {"finish"}, On(step),
         script' \in Script, script'.cmd = "accept", script'.step = Following[step],
         UNCHANGED <<result, quiet, stage>>, faults' \in Nat,
         PlatformTypes', RowsOK', AiOK', SmoothOK'
  PROVE  Inv'
  <1>1. script.cmd = "accept" /\ script.step = step
    BY DEF On, At
  <1>2. script'.step \in DOMAIN Needs
    BY RankOrders, Steps
  <1>3. ScriptTypes'
    BY <1>2 DEF Inv, ScriptTypes
  <1>4. stage \notin {1, 2}
    BY <1>1 DEF Inv, SceneOK
  <1>5. ResetOK' /\ PrepareOK' /\ SceneOK'
    BY <1>4, Elsewhere
  <1>6. RunbookEndsReady'
    BY <1>4 DEF Inv, RunbookEndsReady, Ended
  <1> QED
    BY <1>3, <1>5, <1>6 DEF Inv

(* The AI Service between the stop and the start.                          *)
LEMMA AiStays ==
  ASSUME Inv, NEW step \in AcceptSteps \ {"aiStop", "aiStart", "finish"}, On(step),
         script'.cmd = "accept", script'.step = Following[step],
         aiUp' = aiUp, script'.aiStopped = script.aiStopped, faults' \in Nat, faults' >= faults
  PROVE  AiOK'
  <1>1. script.cmd = "accept" /\ script.step = step /\ faults \in Nat /\ AiOK
    BY DEF On, At, Inv, ScriptTypes
  <1>2. CASE step = "aiFallback"
    <2>1. script'.step = "aiStart"
      BY <1>2, Follow
    <2> QED
      BY <1>1, <1>2, <2>1 DEF AiOK
  <1>3. CASE step = "aiRecovery"
    <2>1. script'.step = "finish"
      BY <1>3, Follow
    <2> QED
      BY <1>1, <1>3, <2>1 DEF AiOK
  <1>4. CASE step \notin {"aiFallback", "aiRecovery"}
    <2>1. faults <= 1 => aiUp /\ ~script.aiStopped
      BY <1>1, <1>4 DEF AiOK
    <2> QED
      BY <1>1, <2>1 DEF AiOK
  <1> QED
    BY <1>2, <1>3, <1>4

(* In a smooth run a step finds what it needs.                             *)
LEMMA SmoothAt ==
  ASSUME Inv, Smooth
  PROVE  /\ script.step \in AcceptSteps /\ Rank[script.step] \in 1..22
         /\ Ready(script.step)
         /\ script.failed = {} /\ locked = {} /\ \A a \in Accounts : account[a] = "ready"
         /\ \A s \in AcceptSteps : Rank[s] < Rank[script.step] => s \in script.passed
         /\ Rank[script.step] <= 5 =>
              /\ aiUp /\ Drained /\ game[Specialist] = CleanProfile
              /\ ai[Specialist] # Null /\ ai[Specialist].load = 0
         /\ Rank[script.step] > 5 => GoldenOK
         /\ script.step = "aiFallback" => ~aiUp
  <1>1. script.step \in AcceptSteps
    BY Steps DEF Inv, ScriptTypes, Smooth
  <1>2. Rank[script.step] \in 1..22
    BY <1>1, RankOrders
  <1>3. SmoothOK
    BY DEF Inv
  <1>4. \A s \in AcceptSteps : Rank[s] < Rank[script.step] => s \in script.passed
    BY <1>3, Steps DEF SmoothOK
  <1>5. Ready(script.step)
    BY <1>1, <1>4, NeedsBefore DEF Ready
  <1> QED
    BY <1>1, <1>2, <1>3, <1>4, <1>5 DEF SmoothOK

LEMMA SmoothPasses ==
  ASSUME Inv, NEW step \in AcceptSteps \ {"finish"}, On(step), Smooth',
         script'.step = Following[step], script'.passed = script.passed \cup {step},
         script'.failed = script.failed, script'.faulted = script.faulted,
         UNCHANGED <<account, locked, stage>>
  PROVE  /\ Smooth /\ script.step = step /\ Rank[script'.step] = Rank[step] + 1
         /\ script'.failed = {} /\ locked' = {} /\ \A a \in Accounts : account'[a] = "ready"
         /\ \A s \in DOMAIN Needs : Rank[s] < Rank[script'.step] => s \in script'.passed
  <1>1. script.cmd = "accept" /\ script.step = step
    BY DEF On, At
  <1>2. Smooth
    BY <1>1 DEF Smooth
  <1>3. Rank[script'.step] = Rank[step] + 1 /\ Rank[step] \in 1..22
    BY RankOrders
  <1>4. ASSUME NEW s \in AcceptSteps, Rank[s] < Rank[script'.step]
        PROVE  s \in script'.passed
    <2>1. Rank[s] \in 1..22
      BY RankOrders
    <2>2. CASE Rank[s] < Rank[step]
      BY <1>1, <1>2, <2>2, SmoothAt
    <2>3. CASE Rank[s] = Rank[step]
      BY <2>3, RankOrders
    <2> QED
      BY <1>3, <1>4, <2>1, <2>2, <2>3
  <1> QED
    BY <1>1, <1>2, <1>3, <1>4, Steps, SmoothAt

LEMMA GoldenStays ==
  ASSUME GoldenOK, NEW k \in 6..21, k = Rank[script.step], k \notin {9, 10, 11},
         k = 13 => Golden \in ledger, Rank[script'.step] = k + 1,
         script'.golden = script.golden, transactions'[Golden] = transactions[Golden],
         UNCHANGED <<outbox, queue, processed, ledger, game>>
  PROVE  GoldenOK'
  <1>1. Golden' = Golden /\ GoldenRow' = GoldenRow
    BY DEF Golden, GoldenRow
  <1> QED
    BY <1>1 DEF GoldenOK, Drained

(* A step that passes and leaves the golden case and its event alone.      *)
LEMMA SmoothStill ==
  ASSUME Inv, NEW step \in AcceptSteps \ {"finish", "create", "transitions", "verification", "blocked"},
         On(step), Smooth',
         script'.step = Following[step], script'.passed = script.passed \cup {step},
         script'.failed = script.failed, script'.faulted = script.faulted,
         script'.golden = script.golden,
         UNCHANGED <<account, locked, stage, outbox, queue, processed, ledger, game>>,
         GoldenOK => transactions'[Golden] = transactions[Golden],
         Rank[step] <= 4 => aiUp' = aiUp /\ ai' = ai,
         step = "processed" => Golden \in ledger,
         step = "aiStop" => ~aiUp'
  PROVE  SmoothOK'
  <1>1. /\ Smooth /\ script.step = step /\ Rank[script'.step] = Rank[step] + 1
        /\ script'.failed = {} /\ locked' = {} /\ \A a \in Accounts : account'[a] = "ready"
        /\ \A s \in DOMAIN Needs : Rank[s] < Rank[script'.step] => s \in script'.passed
    BY SmoothPasses
  <1>2. PICK k \in 1..22 : k = Rank[step]
    BY RankOrders
  <1>3. k \notin {5, 9, 10, 11, 22} /\ (k = 13 => step = "processed")
    BY <1>2, Ranks, RankOrders DEF AcceptSteps
  <1>4. CASE k <= 4
    <2>1. /\ aiUp /\ Drained /\ game[Specialist] = CleanProfile
          /\ ai[Specialist] # Null /\ ai[Specialist].load = 0
      BY <1>1, <1>2, <1>4, SmoothAt
    <2>2. Rank[script'.step] = k + 1 /\ k + 1 <= 5 /\ script'.step # "aiFallback"
      BY <1>1, <1>2, <1>4, Ranks
    <2>3. aiUp' = aiUp /\ ai' = ai
      BY <1>2, <1>4
    <2>4. /\ aiUp' /\ Drained' /\ game'[Specialist] = CleanProfile
          /\ ai'[Specialist] # Null /\ ai'[Specialist].load = 0
      BY <2>1, <2>3 DEF Drained
    <2>5. ~(Rank[script'.step] > 5)
      BY <1>2, <2>2
    <2> QED
      BY <1>1, <2>2, <2>4, <2>5 DEF SmoothOK
  <1>5. CASE k > 5
    <2>1. GoldenOK /\ k \in 6..21
      BY <1>1, <1>2, <1>3, <1>5, SmoothAt
    <2>2. GoldenOK'
      BY <1>1, <1>2, <1>3, <2>1, GoldenStays
    <2>3. script'.step = "aiFallback" => step = "aiStop"
      <3>1. script'.step = "aiFallback" => Rank[step] + 1 = 19
        BY <1>1, Ranks
      <3> QED
        BY <1>2, <3>1, Ranks, RankOrders DEF AcceptSteps
    <2>4. ~(Rank[script'.step] <= 5)
      BY <1>1, <1>2, <1>5
    <2> QED
      BY <1>1, <2>2, <2>3, <2>4 DEF SmoothOK
  <1> QED
    BY <1>2, <1>3, <1>4, <1>5

LookSteps == {"platform", "accounts", "highRisk", "initialProfile", "ledger", "profile", "board",
              "cases"}

LEMMA SmoothFinds ==
  ASSUME Inv, Smooth, script.step \in LookSteps
  PROVE  Finds(script.step)
  <1>1. Specialist \in Analyst
    BY DemoConstants
  <1>2. CASE script.step = "platform"
    BY <1>2, SmoothAt, Ranks DEF Finds
  <1>3. CASE script.step = "accounts"
    BY <1>3, SmoothAt DEF Finds
  <1>4. CASE script.step = "highRisk"
    BY <1>4, SmoothAt, Ranks DEF Finds, GoldenOK
  <1>5. CASE script.step = "initialProfile"
    BY <1>5, SmoothAt, Ranks DEF Finds, GoldenOK
  <1>6. CASE script.step = "ledger"
    BY <1>6, SmoothAt, Ranks DEF Finds, GoldenOK
  <1>7. CASE script.step = "profile"
    <2>1. GoldenOK /\ Rank[script.step] = 15
      BY <1>7, SmoothAt, Ranks
    <2>2. Golden \in ledger
      BY <2>1 DEF GoldenOK
    <2>3. game[Specialist] = [points |-> 1, resolved |-> 1, badge |-> TRUE]
      BY <2>1, <2>2 DEF GoldenOK
    <2> QED
      BY <1>7, <2>3 DEF Finds
  <1>8. CASE script.step = "board"
    <2>1. GoldenOK /\ Rank[script.step] = 16
      BY <1>8, SmoothAt, Ranks
    <2>2. Golden \in ledger
      BY <2>1 DEF GoldenOK
    <2>3. game[Specialist] = [points |-> 1, resolved |-> 1, badge |-> TRUE]
      BY <2>1, <2>2 DEF GoldenOK
    <2> QED
      BY <1>8, <2>2, <2>3 DEF Finds
  <1>9. CASE script.step = "cases"
    BY <1>9, SmoothAt, Ranks DEF Finds, GoldenOK
  <1> QED
    BY <1>2, <1>3, <1>4, <1>5, <1>6, <1>7, <1>8, <1>9 DEF LookSteps

(* What passing or failing says about the script, and nothing else.        *)
LEMMA Tells ==
  ASSUME Inv, NEW step \in AcceptSteps \ {"finish"}, On(step), Passed(step) \/ Failed(step)
  PROVE  /\ script' \in Script /\ script'.cmd = "accept" /\ script'.step = Following[step]
         /\ script'.aiStopped = script.aiStopped /\ script'.faulted = script.faulted
         /\ Passed(step) => /\ script'.passed = script.passed \cup {step}
                            /\ script'.failed = script.failed /\ script'.golden = script.golden
         /\ stage' = stage /\ Smooth' => Smooth
  <1>1. ScriptTypes /\ script.cmd = "accept" /\ script.step = step
    BY DEF Inv, On, At
  <1>2. CASE Passed(step)
    <2>1. /\ script' \in Script /\ script'.cmd = "accept"
          /\ script'.step = Following[step] /\ script'.passed = script.passed \cup {step}
          /\ script'.failed = script.failed /\ script'.golden = script.golden
          /\ script'.aiStopped = script.aiStopped /\ script'.faulted = script.faulted
      BY <1>1, <1>2, Passes
    <2> QED
      BY <1>1, <2>1 DEF Smooth
  <1>3. CASE Failed(step) /\ ~Passed(step)
    <2>1. /\ script' \in Script /\ script'.cmd = "accept"
          /\ script'.step = Following[step]
          /\ script'.aiStopped = script.aiStopped /\ script'.faulted = script.faulted
      BY <1>1, <1>3, Fails
    <2> QED
      BY <1>1, <1>3, <2>1 DEF Smooth
  <1> QED
    BY <1>2, <1>3

(* A step that passes or fails without a change of the rows.               *)
LEMMA TellsKeep ==
  ASSUME Inv, NEW step \in AcceptSteps \ {"finish", "create", "transitions", "verification",
                                          "blocked", "aiStop", "aiStart"},
         On(step), Passed(step) \/ Failed(step),
         Smooth => Passed(step),
         step = "processed" /\ Smooth => Golden \in ledger,
         UNCHANGED <<account, locked, aiUp, ai, transactions, outbox, queue, processed, ledger,
                     game, result, quiet, stage, faults>>
  PROVE  Inv'
  <1>1. /\ script' \in Script /\ script'.cmd = "accept" /\ script'.step = Following[step]
        /\ script'.aiStopped = script.aiStopped /\ script'.faulted = script.faulted
        /\ Passed(step) => /\ script'.passed = script.passed \cup {step}
                           /\ script'.failed = script.failed /\ script'.golden = script.golden
        /\ Smooth' => Smooth
    BY Tells
  <1>2. PlatformTypes' /\ RowsOK' /\ faults \in Nat
    BY RowsStay DEF Inv, ScriptTypes, rows, cases, scoring
  <1>3. AiOK'
    BY <1>1, <1>2, AiStays
  <1>4. SmoothOK'
    <2>1. CASE Smooth'
      BY <1>1, <2>1, SmoothStill
    <2>2. CASE ~Smooth'
      BY <2>2 DEF SmoothOK
    <2> QED
      BY <2>1, <2>2
  <1> QED
    BY <1>1, <1>2, <1>3, <1>4, AcceptKeeps

LEMMA LookKeeps ==
  ASSUME Inv, NEW step \in LookSteps, Look(step)
  PROVE  Inv'
  <1>1. step \in AcceptSteps \ {"finish", "create", "transitions", "verification",
                                "blocked", "aiStop", "aiStart", "processed"}
    BY DEF LookSteps, AcceptSteps
  <1>2. /\ On(step) /\ script.step = step /\ (Passed(step) \/ Failed(step))
        /\ Ready(step) /\ Finds(step) => Passed(step)
    BY DEF Look, On, At
  <1>3. Smooth => Passed(step)
    BY <1>2, SmoothAt, SmoothFinds
  <1>4. UNCHANGED <<account, locked, aiUp, ai, transactions, outbox, queue, processed, ledger,
                    game, result, quiet, stage, faults>>
    BY DEF Look, platform, identity, cases, scoring, bounds
  <1> QED
    BY <1>1, <1>2, <1>3, <1>4, TellsKeep

LEMMA PollKeeps ==
  ASSUME Inv, NEW step \in {"outbox", "processed"}, Poll(step)
  PROVE  Inv'
  <1>1. step \in AcceptSteps \ {"finish", "create", "transitions", "verification",
                                "blocked", "aiStop", "aiStart"}
    BY DEF AcceptSteps
  <1>2. /\ On(step) /\ script.step = step /\ (Passed(step) \/ Failed(step))
        /\ Ready(step) => Awaited(step) /\ Passed(step)
    BY DEF Poll, On, At
  <1>3. Smooth => Passed(step) /\ Awaited(step)
    BY <1>2, SmoothAt
  <1>4. ASSUME step = "processed", Smooth
        PROVE  Golden \in ledger
    <2>1. Golden \in processed
      BY <1>3, <1>4 DEF Awaited
    <2>2. GoldenOK /\ Rank[script.step] = 13
      BY <1>2, <1>4, SmoothAt, Ranks
    <2> QED
      BY <2>1, <2>2 DEF GoldenOK
  <1>5. UNCHANGED <<account, locked, aiUp, ai, transactions, outbox, queue, processed, ledger,
                    game, result, quiet, stage, faults>>
    BY DEF Poll, platform, identity, cases, scoring, bounds
  <1> QED
    BY <1>1, <1>2, <1>3, <1>4, <1>5, TellsKeep

LEMMA LogInKeeps ==
  ASSUME Inv, NEW step \in {"customer", "supervisor", "analyst"}, NEW who, LogInAt(step, who),
         step = "analyst" => who = Specialist
  PROVE  Inv'
  <1>1. step \in AcceptSteps \ {"finish", "create", "transitions", "verification",
                                "blocked", "aiStop", "aiStart", "processed"}
    BY DEF AcceptSteps
  <1>2. /\ On(step) /\ script.step = step /\ (Passed(step) \/ Failed(step))
        /\ Ready(step) /\ who \notin locked /\ (step = "analyst" => GoldenRow.analyst = who) =>
             Passed(step)
    BY DEF LogInAt, On, At
  <1>3. Smooth => Passed(step)
    <2>1. ASSUME Smooth, step = "analyst"
          PROVE  GoldenRow.analyst = who
      <3>1. GoldenOK
        BY <1>2, <2>1, SmoothAt, Ranks
      <3> QED
        BY <2>1, <3>1 DEF GoldenOK
    <2> QED
      BY <1>2, <2>1, SmoothAt
  <1>4. UNCHANGED <<account, locked, aiUp, ai, transactions, outbox, queue, processed, ledger,
                    game, result, quiet, stage, faults>>
    BY DEF LogInAt, UNCHANGEDButIdentity, cases, scoring, bounds
  <1> QED
    BY <1>1, <1>2, <1>3, <1>4, TellsKeep

LEMMA CreateGoldenKeeps ==
  ASSUME Inv, CreateGolden
  PROVE  Inv'
  <1>0. "create" \in AcceptSteps \ {"aiStop", "aiStart", "finish"}
    BY DEF AcceptSteps
  <1>1. /\ On("create") /\ script.cmd = "accept" /\ script.step = "create" /\ script \in Script
        /\ PlatformTypes /\ RowsOK /\ faults \in Nat
    BY DEF CreateGolden, On, At, Inv, ScriptTypes
  <1>2. UNCHANGED <<account, locked, aiUp, queue, processed, ledger, game, result, quiet, stage,
                    faults>>
    BY DEF CreateGolden, identity, scoring, bounds
  <1>3. CASE ~Ready("create") /\ Failed("create") /\ UNCHANGED <<ai, cases>>
    <2>1. /\ script' \in Script /\ script'.cmd = "accept" /\ script'.step = Following["create"]
          /\ script'.aiStopped = script.aiStopped /\ (Smooth' => Smooth)
      BY <1>0, <1>1, <1>2, <1>3, Tells
    <2>2. PlatformTypes' /\ RowsOK'
      BY <1>1, <1>2, <1>3, RowsStay DEF rows, scoring
    <2>3. AiOK'
      BY <1>0, <1>1, <1>2, <2>1, AiStays
    <2>4. SmoothOK'
      BY <1>1, <1>3, <2>1, SmoothAt DEF SmoothOK
    <2> QED
      BY <1>0, <1>1, <1>2, <2>1, <2>2, <2>3, <2>4, AcceptKeeps
  <1>4. CASE /\ Ready("create")
             /\ \E t \in Demo : /\ Create(t, TRUE, TRUE)
                                /\ script' = [Moved("create") EXCEPT !.golden = t,
                                                !.passed = @ \cup {"create"}]
    <2>1. PICK t \in Transaction : /\ Create(t, TRUE, TRUE)
                                   /\ script' = [Moved("create") EXCEPT !.golden = t,
                                                   !.passed = @ \cup {"create"}]
      BY <1>4 DEF Demo
    <2>2. "highRisk" \in StepName /\ Following["create"] = "highRisk"
      BY Follow DEF StepName, AcceptSteps
    <2>3. /\ script' \in Script /\ script'.cmd = "accept" /\ script'.step = Following["create"]
          /\ script'.passed = script.passed \cup {"create"} /\ script'.failed = script.failed
          /\ script'.golden = t /\ script'.aiStopped = script.aiStopped
          /\ script'.faulted = script.faulted
      BY <1>0, <1>1, <2>1, <2>2 DEF Moved, Script
    <2>4. PlatformTypes' /\ RowsOK'
      BY <1>1, <1>2, <2>1, RowsCreate DEF scoring
    <2>5. AiOK'
      BY <1>0, <1>1, <1>2, <2>3, AiStays
    <2>6. ASSUME Smooth'
          PROVE  SmoothOK'
      <3>1. /\ Smooth /\ Rank[script'.step] = 6
            /\ script'.failed = {} /\ locked' = {} /\ \A a \in Accounts : account'[a] = "ready"
            /\ \A s \in DOMAIN Needs : Rank[s] < Rank[script'.step] => s \in script'.passed
        BY <1>0, <1>1, <1>2, <2>3, <2>6, SmoothPasses, Ranks
      <3>2. /\ aiUp /\ Drained /\ game[Specialist] = CleanProfile
            /\ ai[Specialist] # Null /\ ai[Specialist].load = 0
        BY <1>1, <3>1, SmoothAt, Ranks
      <3>3. transactions'[t].status = "assigned" /\ transactions'[t].analyst = Specialist
        BY <1>1, <2>1, <3>2, CreatesGolden
      <3>4. outbox' = outbox
        BY <2>1 DEF Create
      <3>5. GoldenOK'
        BY <1>2, <2>3, <3>1, <3>2, <3>3, <3>4 DEF GoldenOK, Golden, GoldenRow, Drained
      <3>6. script'.step # "aiFallback"
        BY <2>2, <2>3
      <3> QED
        BY <3>1, <3>5, <3>6 DEF SmoothOK
    <2>7. SmoothOK'
      BY <2>6 DEF SmoothOK
    <2> QED
      BY <1>0, <1>1, <1>2, <2>3, <2>4, <2>5, <2>7, AcceptKeeps
  <1> QED
    BY <1>3, <1>4 DEF CreateGolden

(* A request that moves the golden case: the rows and, in a smooth run,    *)
(* the case that is found in the state it has then.                        *)
LEMMA MoveKeeps ==
  ASSUME Inv, NEW step, NEW from, NEW to,
         <<step, from, to>> \in {<<"transitions", "assigned", "verifying">>,
                                 <<"verification", "verifying", "answered">>,
                                 <<"blocked", "answered", "decided">>},
         MoveCase(step, from, to)
  PROVE  Inv'
  <1>0. /\ step \in AcceptSteps \ {"aiStop", "aiStart", "finish"}
        /\ to \in Status /\ to \notin {"gone"} /\ from \notin {"decided", "gone"}
    BY DEF AcceptSteps, Status
  <1>1. /\ On(step) /\ script.cmd = "accept" /\ script.step = step /\ script \in Script
        /\ PlatformTypes /\ RowsOK /\ faults \in Nat
    BY DEF MoveCase, On, At, Inv, ScriptTypes
  <1>2. UNCHANGED <<account, locked, aiUp, ai, queue, processed, ledger, game, result, quiet, stage,
                    faults>>
    BY DEF MoveCase, identity, scoring, bounds
  <1>3. Golden \in Transaction \cup {Null}
    BY <1>1 DEF Script, Golden
  <1>4. Passed(step) \/ Failed(step)
    BY DEF MoveCase
  <1>5. /\ script' \in Script /\ script'.cmd = "accept" /\ script'.step = Following[step]
        /\ script'.aiStopped = script.aiStopped /\ script'.faulted = script.faulted
        /\ Passed(step) => /\ script'.passed = script.passed \cup {step}
                           /\ script'.failed = script.failed /\ script'.golden = script.golden
        /\ Smooth' => Smooth
    BY <1>0, <1>1, <1>2, <1>4, Tells
  <1>6. AiOK'
    BY <1>0, <1>1, <1>2, <1>5, AiStays
  <1>7. CASE ~(Ready(step) /\ GoldenRow.status = from)
    <2>1. UNCHANGED cases
      BY <1>7 DEF MoveCase
    <2>2. PlatformTypes' /\ RowsOK'
      BY <1>1, <1>2, <2>1, RowsStay DEF rows, scoring
    <2>3. ASSUME Smooth'
          PROVE  FALSE
      <3>1. Smooth /\ Ready(step) /\ GoldenRow.status # from
        BY <1>1, <1>5, <1>7, <2>3, SmoothAt
      <3>2. GoldenOK
        BY <1>1, <3>1, SmoothAt, Ranks
      <3> QED
        BY <1>1, <3>1, <3>2, Ranks DEF GoldenOK
    <2>4. SmoothOK'
      BY <2>3 DEF SmoothOK
    <2> QED
      BY <1>0, <1>1, <1>2, <1>5, <1>6, <2>2, <2>4, AcceptKeeps
  <1>8. CASE Ready(step) /\ GoldenRow.status = from
    <2>1. /\ Passed(step)
          /\ IF to = "decided" THEN Decide(Golden)
             ELSE transactions' = [transactions EXCEPT ![Golden].status = to] /\ UNCHANGED outbox
      BY <1>8 DEF MoveCase
    <2>2. transactions' = [transactions EXCEPT ![Golden].status = to]
      BY <2>1 DEF Decide
    <2>3. PlatformTypes' /\ RowsOK'
      <3>1. CASE to = "decided"
        BY <1>1, <1>2, <1>3, <2>1, <3>1, RowsDecide DEF scoring
      <3>2. CASE to # "decided"
        BY <1>0, <1>1, <1>2, <1>3, <1>8, <2>1, <2>2, <3>2, RowsMove DEF scoring, GoldenRow
      <3> QED
        BY <3>1, <3>2
    <2>4. ASSUME Smooth'
          PROVE  SmoothOK'
      <3>1. /\ Smooth /\ Rank[script'.step] = Rank[step] + 1
            /\ script'.failed = {} /\ locked' = {} /\ \A a \in Accounts : account'[a] = "ready"
            /\ \A s \in DOMAIN Needs : Rank[s] < Rank[script'.step] => s \in script'.passed
        BY <1>0, <1>1, <1>2, <1>5, <2>1, <2>4, SmoothPasses
      <3>2. GoldenOK
        BY <1>1, <3>1, SmoothAt, Ranks
      <3>3. /\ Golden \in Transaction /\ GoldenRow.analyst = Specialist
            /\ Drained /\ game[Specialist] = CleanProfile
        BY <1>1, <3>2, Ranks DEF GoldenOK
      <3>4. /\ Golden' = Golden /\ GoldenRow'.status = to /\ GoldenRow'.analyst = Specialist
        BY <1>0, <1>1, <1>5, <2>1, <2>2, <3>3, Changes DEF Golden, GoldenRow
      <3>5. /\ Golden \notin processed /\ Golden \notin ledger
        BY <1>0, <1>1, <1>8, <3>3 DEF RowsOK, GoldenRow
      <3>6. /\ to # "decided" => outbox' = outbox
            /\ to = "decided" => \A t \in Transaction \ {Golden} : outbox'[t] = outbox[t]
        BY <1>1, <2>1 DEF Decide, PlatformTypes
      <3>7. CASE step = "transitions"
        <4>1. Rank[script'.step] = 10
          BY <3>1, <3>7, Ranks
        <4> QED
          BY <1>2, <3>3, <3>4, <3>6, <3>7, <4>1, <3>1, Ranks
          DEF GoldenOK, Drained, SmoothOK
      <3>8. CASE step = "verification"
        <4>1. Rank[script'.step] = 11
          BY <3>1, <3>8, Ranks
        <4> QED
          BY <1>2, <3>3, <3>4, <3>6, <3>8, <4>1, <3>1, Ranks
          DEF GoldenOK, Drained, SmoothOK
      <3>9. CASE step = "blocked"
        <4>1. Rank[script'.step] = 12
          BY <3>1, <3>9, Ranks
        <4> QED
          BY <1>2, <3>3, <3>4, <3>5, <3>6, <3>9, <4>1, <3>1, Ranks
          DEF GoldenOK, Drained, SmoothOK
      <3> QED
        BY <3>7, <3>8, <3>9
    <2>5. SmoothOK'
      BY <2>4 DEF SmoothOK
    <2> QED
      BY <1>0, <1>1, <1>2, <1>5, <1>6, <2>3, <2>5, AcceptKeeps
  <1> QED
    BY <1>7, <1>8

(* docker: the container of the AI Service.                                *)
LEMMA RowsAi ==
  ASSUME PlatformTypes, RowsOK, aiUp' \in BOOLEAN, UNCHANGED <<account, ai, cases, queue, scoring>>
  PROVE  PlatformTypes' /\ RowsOK'
  BY DEF cases, scoring, PlatformTypes, RowsOK

LEMMA DockerKeeps ==
  ASSUME Inv, StopAi \/ StartAi
  PROVE  Inv'
  <1>1. PICK step \in {"aiStop", "aiStart"}, b \in BOOLEAN :
          /\ On(step) /\ aiUp' = ~b /\ b = (step = "aiStop")
          /\ script' = [Moved(step) EXCEPT !.passed = @ \cup {step}, !.aiStopped = b]
          /\ UNCHANGED <<identity, ai, cases, queue, scoring, result, quiet, stage, bounds>>
    <2>1. CASE StopAi
      BY <2>1 DEF StopAi
    <2>2. CASE StartAi
      BY <2>2 DEF StartAi
    <2> QED
      BY <2>1, <2>2
  <1>2. /\ script.cmd = "accept" /\ script.step = step /\ script \in Script
        /\ PlatformTypes /\ RowsOK /\ faults \in Nat /\ AiOK
    BY <1>1 DEF On, At, Inv, ScriptTypes
  <1>3. step \in AcceptSteps /\ step \in AcceptSteps \ {"finish", "create", "transitions",
                                                        "verification", "blocked"}
    BY DEF AcceptSteps
  <1>4. Following[step] \in StepName
    BY <1>3, RankOrders DEF StepName
  <1>5. /\ script' \in Script /\ script'.cmd = "accept" /\ script'.step = Following[step]
        /\ script'.passed = script.passed \cup {step} /\ script'.failed = script.failed
        /\ script'.golden = script.golden /\ script'.faulted = script.faulted
        /\ script'.aiStopped = b
    BY <1>1, <1>2, <1>3, <1>4 DEF Moved, Script
  <1>6. UNCHANGED <<account, locked, ai, transactions, outbox, queue, processed, ledger, game,
                    result, quiet, stage, faults>>
    BY <1>1 DEF identity, cases, scoring, bounds
  <1>7. PlatformTypes' /\ RowsOK'
    <2>1. aiUp' \in BOOLEAN
      BY <1>1
    <2>2. UNCHANGED <<account, ai, cases, queue, scoring>>
      BY <1>1 DEF identity
    <2> QED
      BY <1>2, <2>1, <2>2, RowsAi
  <1>8. AiOK'
    <2>1. CASE step = "aiStop"
      <3>1. ~aiUp' /\ script'.aiStopped
        BY ONLY <1>1, <1>5, <2>1
      <3>2. script'.cmd = "accept" /\ script'.step = "aiFallback"
        BY ONLY <1>5, <2>1, Follow
      <3> QED
        BY ONLY <3>1, <3>2 DEF AiOK
    <2>2. CASE step = "aiStart"
      <3>1. aiUp' /\ ~script'.aiStopped
        BY ONLY <1>1, <1>5, <2>2
      <3>2. script'.cmd = "accept" /\ script'.step = "aiRecovery"
        BY ONLY <1>5, <2>2, Follow
      <3> QED
        BY ONLY <3>1, <3>2 DEF AiOK
    <2> QED
      BY <2>1, <2>2
  <1>9. SmoothOK'
    <2>1. step = "aiStop" => ~aiUp'
      BY <1>1
    <2>2. ~(Rank[step] <= 4) /\ step # "processed"
      BY Ranks
    <2>3. Smooth' => SmoothOK'
      BY <1>1, <1>3, <1>5, <1>6, <2>1, <2>2, SmoothStill
    <2> QED
      BY <2>3 DEF SmoothOK
  <1> QED
    BY <1>1, <1>3, <1>5, <1>6, <1>7, <1>8, <1>9, <1>2, AcceptKeeps

(* The two transactions around the restart.                                *)
LEMMA CreateAgainKeeps ==
  ASSUME Inv, CreateFallback \/ CreateRecovery
  PROVE  Inv'
  <1>1. PICK step, before : /\ <<step, before>> \in {<<"aiFallback", "aiStop">>,
                                                     <<"aiRecovery", "aiStart">>}
                            /\ IF step = "aiFallback" THEN CreateFallback ELSE CreateRecovery
    <2>1. CASE CreateFallback
      BY <2>1
    <2>2. CASE CreateRecovery
      BY <2>2
    <2> QED
      BY <2>1, <2>2
  <1>2. /\ On(step) /\ (Passed(step) \/ Failed(step))
        /\ \/ Failed(step) /\ ~(Ready(step) /\ before \in script.passed) /\ UNCHANGED <<ai, cases>>
           \/ /\ \E t \in Demo : Create(t, FALSE, FALSE)
              /\ IF step = "aiFallback" /\ aiUp THEN Failed(step) ELSE Passed(step)
        /\ UNCHANGED <<identity, aiUp, queue, scoring, result, quiet, stage, bounds>>
    BY <1>1 DEF CreateFallback, CreateRecovery
  <1>3. /\ step \in AcceptSteps \ {"aiStop", "aiStart", "finish", "create", "transitions",
                                   "verification", "blocked", "processed"}
        /\ before \in AcceptSteps
    BY <1>1 DEF AcceptSteps
  <1>4. /\ script.cmd = "accept" /\ script.step = step /\ script \in Script
        /\ PlatformTypes /\ RowsOK /\ faults \in Nat
    BY <1>2 DEF On, At, Inv, ScriptTypes
  <1>5. UNCHANGED <<account, locked, aiUp, queue, processed, ledger, game, result, quiet, stage,
                    faults>>
    BY <1>2 DEF identity, scoring, bounds
  <1>6. /\ script' \in Script /\ script'.cmd = "accept" /\ script'.step = Following[step]
        /\ script'.aiStopped = script.aiStopped /\ script'.faulted = script.faulted
        /\ Passed(step) => /\ script'.passed = script.passed \cup {step}
                           /\ script'.failed = script.failed /\ script'.golden = script.golden
        /\ Smooth' => Smooth
    BY <1>2, <1>3, <1>5, Tells
  <1>7. AiOK'
    BY <1>2, <1>3, <1>4, <1>5, <1>6, AiStays
  <1>8. CASE ~(Ready(step) /\ before \in script.passed) /\ UNCHANGED <<ai, cases>>
    <2>1. PlatformTypes' /\ RowsOK'
      BY <1>4, <1>5, <1>8, RowsStay DEF rows, scoring
    <2>2. ASSUME Smooth
          PROVE  FALSE
      <3>1. Rank[before] < Rank[step]
        BY <1>1, Ranks
      <3> QED
        BY <1>3, <1>4, <1>8, <2>2, <3>1, SmoothAt
    <2>3. SmoothOK'
      BY <1>6, <2>2 DEF SmoothOK
    <2> QED
      BY <1>2, <1>3, <1>4, <1>5, <1>6, <1>7, <2>1, <2>3, AcceptKeeps
  <1>9. CASE /\ \E t \in Demo : Create(t, FALSE, FALSE)
             /\ IF step = "aiFallback" /\ aiUp THEN Failed(step) ELSE Passed(step)
    <2>1. PICK t \in Transaction : Create(t, FALSE, FALSE)
      BY <1>9 DEF Demo
    <2>2. PlatformTypes' /\ RowsOK'
      BY <1>4, <1>5, <2>1, RowsCreate DEF scoring
    <2>3. /\ outbox' = outbox /\ transactions[t].status = "absent"
          /\ \A u \in Transaction \ {t} : transactions'[u] = transactions[u]
      BY <1>4, <2>1, Creates
    <2>4. ~(Rank[step] <= 4) /\ Rank[step] > 11
      BY <1>1, Ranks
    <2>5. ASSUME GoldenOK
          PROVE  transactions'[Golden] = transactions[Golden]
      <3>1. Golden \in Transaction /\ transactions[Golden].status = "decided"
        BY <1>4, <2>4, <2>5 DEF GoldenOK, GoldenRow
      <3> QED
        BY <2>3, <3>1
    <2>6. ASSUME Smooth'
          PROVE  SmoothOK'
      <3>1. Smooth
        BY <1>6, <2>6
      <3>2. step = "aiFallback" => ~aiUp
        BY <1>4, <3>1, SmoothAt
      <3>3. Passed(step)
        BY <1>9, <3>2
      <3>4. step # "aiStop" /\ step # "processed"
        BY <1>1
      <3> QED
        BY <1>2, <1>3, <1>5, <1>6, <2>3, <2>4, <2>5, <2>6, <3>3, <3>4, SmoothStill
    <2>7. SmoothOK'
      BY <2>6 DEF SmoothOK
    <2> QED
      BY <1>2, <1>3, <1>4, <1>5, <1>6, <1>7, <2>2, <2>7, AcceptKeeps
  <1> QED
    BY <1>2, <1>8, <1>9

LEMMA BreakStepKeeps ==
  ASSUME Inv, NEW step \in DOMAIN Needs, BreakStep(step)
  PROVE  Inv'
  <1>1. step \in AcceptSteps \ {"finish"} /\ On(step)
    BY Steps DEF BreakStep
  <1>2. /\ script.cmd = "accept" /\ script.step = step /\ script \in Script
        /\ PlatformTypes /\ RowsOK /\ faults \in Nat /\ AiOK
    BY <1>1 DEF On, At, Inv, ScriptTypes
  <1>3. Following[step] \in StepName
    BY <1>1, RankOrders DEF StepName
  <1>4. script' = [Moved(step) EXCEPT !.failed = @ \cup {step}, !.faulted = TRUE]
    BY DEF BreakStep
  <1>5. /\ script' \in Script /\ script'.cmd = "accept" /\ script'.step = Following[step]
        /\ script'.faulted /\ script'.aiStopped = script.aiStopped
    BY <1>1, <1>2, <1>3, <1>4 DEF Moved, Script
  <1>6. /\ UNCHANGED <<account, ai, cases, queue, scoring, result, quiet, stage>>
        /\ faults' = faults + 1
    BY DEF BreakStep, identity
  <1>7. /\ step = "aiStop" => aiUp' \in {aiUp, FALSE}
        /\ step = "aiStart" => aiUp' \in {aiUp, TRUE}
        /\ step \notin {"aiStop", "aiStart"} => aiUp' = aiUp
    BY DEF BreakStep
  <1>8. PlatformTypes' /\ RowsOK'
    <2>1. aiUp \in BOOLEAN
      BY <1>2 DEF PlatformTypes
    <2>2. aiUp' \in BOOLEAN
      BY <1>7, <2>1
    <2> QED
      BY <1>2, <1>6, <2>2, RowsAi
  <1>9. SmoothOK'
    BY <1>5 DEF SmoothOK, Smooth
  <1>10. AiOK'
    <2>0. /\ faults' \in Nat /\ faults' >= faults
          /\ faults' <= 1 => faults <= 1 /\ ~(faults >= 1) /\ faults' >= 1
      BY <1>2, <1>6
    <2>1. CASE step = "aiStop"
      <3>1. script'.step = "aiFallback"
        BY <1>5, <2>1, Follow
      <3> QED
        BY <1>5, <2>0, <3>1 DEF AiOK
    <2>2. CASE step = "aiStart"
      <3>1. script'.step = "aiRecovery"
        BY <1>5, <2>2, Follow
      <3>2. faults' <= 1 /\ ~aiUp' => ~aiUp /\ faults <= 1 /\ ~(faults >= 1)
        BY <1>7, <2>0, <2>2, Zenon
      <3>3. faults' <= 1 /\ ~aiUp' => script.aiStopped
        BY <1>2, <2>2, <3>2 DEF AiOK
      <3> QED
        BY <1>5, <2>0, <3>1, <3>3 DEF AiOK
    <2>3. CASE step \notin {"aiStop", "aiStart"}
      BY <1>1, <1>5, <1>7, <2>0, <2>3, AiStays
    <2> QED
      BY <2>1, <2>2, <2>3
  <1> QED
    BY <1>1, <1>2, <1>5, <1>6, <1>8, <1>9, <1>10, AcceptKeeps

LEMMA FinishKeeps ==
  ASSUME Inv, Finish
  PROVE  Inv'
  <1>1. /\ script.cmd = "accept" /\ script.step = "finish" /\ script \in Script
        /\ PlatformTypes /\ RowsOK /\ faults \in Nat /\ AiOK
    BY DEF Finish, On, At, Inv, ScriptTypes
  <1>2. PICK outcome \in {"complete", "broken", "refused"} :
          /\ End(outcome)
          /\ outcome = IF script.failed = {} THEN "complete"
                       ELSE IF script.faulted THEN "broken" ELSE "refused"
    BY DEF Finish
  <1>3. /\ \/ aiUp' = (aiUp \/ script.aiStopped) /\ UNCHANGED faults
           \/ script.aiStopped /\ faults' = faults + 1 /\ UNCHANGED aiUp
        /\ UNCHANGED <<account, ai, cases, queue, scoring, quiet, stage>>
    BY DEF Finish, identity
  <1>4. /\ script' = Idle /\ script' \in Script /\ script'.cmd = "none"
        /\ result' = [cmd |-> "accept", outcome |-> outcome]
    BY <1>1, <1>2, IdleIs DEF End
  <1>5. result'.cmd = "accept" /\ result'.outcome = outcome
    BY <1>4
  <1>6. aiUp \in BOOLEAN /\ script.aiStopped \in BOOLEAN
    BY <1>1 DEF PlatformTypes, Script
  <1>7. aiUp' \in BOOLEAN
    BY <1>3, <1>6
  <1>8. PlatformTypes' /\ RowsOK'
    BY <1>1, <1>3, <1>7, RowsAi
  <1>9. faults' \in Nat
    BY <1>1, <1>3
  <1>10. result' \in [cmd: {"none", "reset", "prepare", "status", "accept"},
                      outcome: {"none", "complete", "refused", "broken"}]
    BY <1>4
  <1>11. ScriptTypes'
    BY <1>3, <1>4, <1>9, <1>10 DEF Inv, ScriptTypes
  <1>12. stage \notin {1, 2}
    BY <1>1 DEF Inv, SceneOK
  <1>13. ResetOK' /\ PrepareOK' /\ SmoothOK' /\ SceneOK'
    BY <1>3, <1>4, <1>12, Elsewhere
  <1>14. AiOK'
    <2>1. CASE aiUp' = (aiUp \/ script.aiStopped) /\ UNCHANGED faults
      <3>1. faults <= 1 => aiUp \/ script.aiStopped
        BY <1>1 DEF AiOK
      <3>2. faults' <= 1 => aiUp'
        BY <2>1, <3>1
      <3> QED
        BY <1>4, <3>2 DEF AiOK
    <2>2. CASE script.aiStopped /\ faults' = faults + 1
      <3>1. ~(faults' <= 1)
        BY <1>1, <2>2 DEF AiOK
      <3> QED
        BY <3>1 DEF AiOK
    <2> QED
      BY <1>3, <2>1, <2>2
  <1>15. RunbookEndsReady'
    <2>1. ASSUME stage = 3, outcome = "refused"
          PROVE  FALSE
      <3>1. Smooth /\ script.failed # {}
        BY <1>1, <1>2, <2>1 DEF Smooth
      <3> QED
        BY <3>1, SmoothAt
    <2> QED
      BY <1>3, <1>5, <1>12, <2>1 DEF RunbookEndsReady, Ended
  <1> QED
    BY <1>8, <1>11, <1>13, <1>14, <1>15 DEF Inv

LEMMA AcceptanceKeeps ==
  ASSUME Inv, Acceptance
  PROVE  Inv'
  <1>1. CASE BeginAcceptance
    BY <1>1, BeginAcceptanceKeeps
  <1>2. CASE \E step \in LookSteps : Look(step)
    BY <1>2, LookKeeps
  <1>3. CASE Poll("outbox") \/ Poll("processed")
    BY <1>3, PollKeeps
  <1>4. CASE LogInAt("customer", Customer) \/ \E s \in Staff \ Analyst : LogInAt("supervisor", s)
    BY <1>4, LogInKeeps
  <1>5. CASE LogInAt("analyst", Specialist)
    BY <1>5, LogInKeeps
  <1>6. CASE \/ MoveCase("transitions", "assigned", "verifying")
             \/ MoveCase("verification", "verifying", "answered")
             \/ MoveCase("blocked", "answered", "decided")
    BY <1>6, MoveKeeps
  <1>7. CASE CreateGolden \/ CreateFallback \/ CreateRecovery
    BY <1>7, CreateGoldenKeeps, CreateAgainKeeps
  <1>8. CASE StopAi \/ StartAi
    BY <1>8, DockerKeeps
  <1>9. CASE \E step \in DOMAIN Needs : BreakStep(step)
    BY <1>9, BreakStepKeeps
  <1>10. CASE Finish
    BY <1>10, FinishKeeps
  <1> QED
    BY <1>1, <1>2, <1>3, <1>4, <1>5, <1>6, <1>7, <1>8, <1>9, <1>10 DEF Acceptance, LookSteps
------------------------------------------------------------------------------
(* Every step.                                                             *)
LEMMA InitInv ==
  ASSUME Init
  PROVE  Inv
  <1>1. /\ locked = {} /\ sessions = {} /\ aiUp = TRUE
        /\ transactions = [t \in Transaction |-> Absent]
        /\ outbox = [t \in Transaction |-> "none"]
        /\ queue = {} /\ processed = {} /\ ledger = {}
        /\ script = Idle /\ result = [cmd |-> "none", outcome |-> "none"]
        /\ quiet = FALSE /\ stage = 0 /\ faults = 0
    BY DEF Init
  <1>2. PICK d \in Deployments :
          /\ account = d.account
          /\ ai = [a \in Analyst |-> IF d.account[a] = "absent" THEN Null
                                     ELSE [load |-> 0, fits |-> a \notin d.misfits]]
          /\ game = [a \in Analyst |-> IF d.account[a] = "absent" THEN Null ELSE CleanProfile]
    BY DEF Init
  <1>3. account \in [Accounts -> AccountState]
    BY <1>2, DemoConstants
  <1>4. ai \in [Analyst -> LoadProfile \cup {Null}]
    <2>1. ASSUME NEW a \in Analyst
          PROVE  [load |-> 0, fits |-> a \notin d.misfits] \in LoadProfile
      <3>1. PICK b \in BOOLEAN : b = (a \notin d.misfits)
        OBVIOUS
      <3>2. [load |-> 0, fits |-> b] \in LoadProfile
        BY DEF LoadProfile
      <3> QED
        BY <3>1, <3>2
    <2> QED
      BY <1>2, <2>1
  <1>5. game \in [Analyst -> ScoreProfile \cup {Null}]
    BY <1>2, Constants
  <1>6. /\ Absent \in [status: Status, analyst: Analyst \cup {Null}]
        /\ Absent.status = "absent"
    BY DEF Absent, Row, Status
  <1>7. PlatformTypes
    BY <1>1, <1>3, <1>4, <1>5, <1>6 DEF PlatformTypes
  <1>8. RowsOK
    <2>1. CleanProfile.points = CleanProfile.resolved
      BY DEF CleanProfile
    <2>2. \A a \in Analyst : game[a] # Null => game[a] = CleanProfile
      BY <1>2
    <2> QED
      BY <1>1, <2>1, <2>2 DEF RowsOK
  <1>9. script \in Script /\ script.cmd = "none"
    BY <1>1, IdleIs
  <1>10. ScriptTypes
    <2>1. result \in [cmd: {"none", "reset", "prepare", "status", "accept"},
                      outcome: {"none", "complete", "refused", "broken"}]
      BY <1>1
    <2>2. quiet \in BOOLEAN
      BY <1>1
    <2>3. stage \in 0..3 /\ faults \in Nat
      BY <1>1
    <2> QED
      BY <1>9, <2>1, <2>2, <2>3 DEF ScriptTypes
  <1>11. ResetOK /\ PrepareOK /\ SceneOK /\ SmoothOK /\ RunbookEndsReady
    BY <1>1, <1>9 DEF ResetOK, PrepareOK, SceneOK, SmoothOK, Smooth, RunbookEndsReady
  <1>12. AiOK
    BY <1>1, <1>9 DEF AiOK
  <1> QED
    BY <1>7, <1>8, <1>10, <1>11, <1>12 DEF Inv

LEMMA StutterKeeps ==
  ASSUME Inv, UNCHANGED vars
  PROVE  Inv'
  <1>1. UNCHANGED <<account, locked, sessions, aiUp, ai, transactions, outbox, queue, processed,
                    ledger, game, script, result, quiet, stage, faults>>
    BY DEF vars, platform, identity, cases, scoring, bounds
  <1>2. PlatformTypes' /\ RowsOK'
    BY <1>1, RowsStay DEF Inv, rows, cases, scoring
  <1>3. ScriptTypes'
    BY <1>1 DEF Inv, ScriptTypes
  <1>4. ResetOK'
    BY <1>1 DEF Inv, ResetOK, Drained, DemoTransactions, IsStored, NoScores, NoLoad
  <1>5. PrepareOK'
    BY <1>1 DEF Inv, PrepareOK, Fits
  <1>6. SceneOK'
    BY <1>1 DEF Inv, SceneOK, Drained, DemoTransactions, IsStored, NoScores, NoLoad, Prepared, Fits,
                Ended
  <1>7. AiOK' /\ RunbookEndsReady'
    BY <1>1 DEF Inv, AiOK, RunbookEndsReady, Ended
  <1>8. SmoothOK'
    BY <1>1 DEF Inv, SmoothOK, Smooth, GoldenOK, Golden, GoldenRow, Drained
  <1> QED
    BY <1>2, <1>3, <1>4, <1>5, <1>6, <1>7, <1>8 DEF Inv

LEMMA NextKeeps ==
  ASSUME Inv, [Next]_vars
  PROVE  Inv'
  BY UsersKeep, WorkersKeep, ResetKeeps, PrepareKeeps, StatusKeeps, BreakKeeps, AcceptanceKeeps,
     StutterKeeps
  DEF Next
------------------------------------------------------------------------------
(* Nothing but the delete of the transaction reset takes a row or an event *)
(* away.                                                                   *)
Kept == \A t \in Transaction : /\ IsStored(t) => IsStored(t)'
                               /\ outbox[t] # "none" => outbox'[t] # "none"

LEMMA CreateKept ==
  ASSUME PlatformTypes, NEW t \in Transaction, NEW high, NEW golden, Create(t, high, golden)
  PROVE  Kept
  <1>1. /\ outbox' = outbox /\ transactions[t].status = "absent"
        /\ \A u \in Transaction \ {t} : transactions'[u] = transactions[u]
    BY Creates
  <1> QED
    BY <1>1 DEF Kept, IsStored

LEMMA MoveKept ==
  ASSUME PlatformTypes, NEW t \in Transaction \cup {Null},
         NEW status \in Status \ {"absent", "gone"},
         transactions' = [transactions EXCEPT ![t].status = status],
         outbox' = outbox \/ outbox' = [outbox EXCEPT ![t] = "pending"]
  PROVE  Kept
  <1>1. /\ \A u \in Transaction \ {t} : transactions'[u] = transactions[u]
        /\ t \in Transaction => transactions'[t].status = status
    BY Changes
  <1>2. \A u \in Transaction : outbox'[u] \in {outbox[u], "pending"}
    BY DEF PlatformTypes
  <1> QED
    BY <1>1, <1>2 DEF Kept, IsStored

LEMMA CasesKept ==
  ASSUME UNCHANGED cases
  PROVE  Kept
  BY DEF Kept, IsStored, cases

LEMMA OthersKept ==
  ASSUME Inv, [Next]_vars, ~DeleteCases
  PROVE  Kept
  <1>0. PlatformTypes /\ "decided" \in Status \ {"absent", "gone"}
        /\ "verifying" \in Status \ {"absent", "gone"} /\ "answered" \in Status \ {"absent", "gone"}
    BY DEF Inv, Status
  <1>1. CASE Users
    <2>1. ASSUME NEW t \in Transaction, UserCreates(t)
          PROVE  Kept
      BY <1>0, <2>1, CreateKept DEF UserCreates
    <2>2. ASSUME NEW t \in Transaction, UserDecides(t)
          PROVE  Kept
      <3>1. Decide(t)
        BY <2>2 DEF UserDecides
      <3> QED
        BY <1>0, <3>1, MoveKept DEF Decide
    <2>3. ASSUME NEW a \in Staff, LockOut(a)
          PROVE  Kept
      BY <2>3, CasesKept DEF LockOut
    <2> QED
      BY <1>1, <2>1, <2>2, <2>3 DEF Users
  <1>2. CASE Workers
    <2>1. ASSUME NEW t \in Transaction, Relay(t)
          PROVE  Kept
      <3>1. /\ transactions' = transactions
            /\ \A u \in Transaction : outbox'[u] \in {outbox[u], "published"}
        BY <1>0, <2>1 DEF Relay, PlatformTypes
      <3> QED
        BY <3>1 DEF Kept, IsStored
    <2>2. ASSUME NEW t \in Transaction, Score(t)
          PROVE  Kept
      BY <2>2, CasesKept DEF Score
    <2> QED
      BY <1>2, <2>1, <2>2 DEF Workers
  <1>3. CASE Reset
    <2>1. UNCHANGED cases
      BY <1>3 DEF Reset, BeginReset, Begin, LookUp, ReadCases, ReadLedger, DeleteLedger, ReadProfiles,
                  ResetProfiles, ResetLoad, Refuse, ResetIdentity, UNCHANGEDButIdentity, platform
    <2> QED
      BY <2>1, CasesKept
  <1>4. CASE Prepare \/ StatusCheck \/ Break
    <2>1. UNCHANGED cases
      BY <1>4 DEF Prepare, BeginPrepare, Begin, CheckHealth, SeedAccount, SeedAnalyst, SeedProfiles,
                  TryLogins, StatusCheck, BeginStatus, CheckAccounts, CheckProfiles, TryAllLogins,
                  CheckZero, CheckNoTransactions, Break, Refuse, UNCHANGEDButIdentity, platform
    <2> QED
      BY <2>1, CasesKept
  <1>5. CASE Acceptance
    <2>1. ASSUME NEW step, NEW from, NEW to \in {"verifying", "answered", "decided"},
                 MoveCase(step, from, to)
          PROVE  Kept
      <3>1. On(step) /\ script \in Script
        BY <2>1 DEF MoveCase, Inv, ScriptTypes
      <3>2. Golden \in Transaction \cup {Null}
        BY <3>1 DEF Script, Golden
      <3>3. CASE UNCHANGED cases
        BY <3>3, CasesKept
      <3>4. CASE ~UNCHANGED cases
        <4>1. /\ transactions' = [transactions EXCEPT ![Golden].status = to]
              /\ outbox' = outbox \/ outbox' = [outbox EXCEPT ![Golden] = "pending"]
          BY <2>1, <3>4 DEF MoveCase, Decide
        <4> QED
          BY <1>0, <3>2, <4>1, MoveKept
      <3> QED
        BY <3>3, <3>4
    <2>2. CASE CreateGolden
      BY <1>0, <2>2, CreateKept, CasesKept DEF CreateGolden, Demo
    <2>3. CASE CreateFallback \/ CreateRecovery
      BY <1>0, <2>3, CreateKept, CasesKept DEF CreateFallback, CreateRecovery, Demo
    <2>4. CASE UNCHANGED cases
      BY <2>4, CasesKept
    <2> QED
      BY <1>5, <2>1, <2>2, <2>3, <2>4
      DEF Acceptance, BeginAcceptance, Begin, Look, Poll, LogInAt, StopAi, StartAi, BreakStep, Finish,
          UNCHANGEDButIdentity, platform
  <1>6. CASE UNCHANGED vars
    BY <1>6, CasesKept DEF vars, platform
  <1> QED
    BY <1>1, <1>2, <1>3, <1>4, <1>5, <1>6 DEF Next

LEMMA DeleteTakes ==
  ASSUME Inv, DeleteCases, NEW t \in Transaction
  PROVE  IF t \in Demo THEN quiet /\ IsStored(t) /\ ~IsStored(t)' => outbox'[t] = "none"
         ELSE /\ IsStored(t) => IsStored(t)'
              /\ outbox[t] # "none" => outbox'[t] # "none"
  <1>1. /\ script.cmd = "reset" /\ script.step = "deleteCases" /\ PlatformTypes /\ RowsOK /\ ResetOK
    BY ResetAt DEF DeleteCases, Inv
  <1>2. /\ IF t \in script.found THEN transactions'[t].status = "gone"
           ELSE transactions'[t] = transactions[t]
        /\ outbox'[t] = IF t \in script.events THEN "none" ELSE outbox[t]
    BY <1>1, RowsDelete
  <1>3. script.found \subseteq Demo /\ script.events \subseteq Demo
    BY <1>1 DEF ResetOK
  <1>4. quiet => \A u \in script.found : outbox[u] # "none" => u \in script.events
    BY <1>1 DEF ResetOK
  <1> QED
    BY <1>2, <1>3, <1>4 DEF IsStored
------------------------------------------------------------------------------
(* The types and all that is inductive about the scripts: what a reset, a  *)
(* preparation and an acceptance run have achieved at each of their steps, *)
(* whatever the users, the workers and the failures do meanwhile.          *)
THEOREM ScriptsInvariant == Spec => []Inv
  <1>1. Init => Inv
    BY InitInv
  <1>2. Inv /\ [Next]_vars => Inv'
    BY NextKeeps
  <1> QED
    BY <1>1, <1>2, PTL DEF Spec

(* When the acceptance run has ended, the AI Service runs again, even if   *)
(* one of its requests or docker commands failed (check_ai_recovery and    *)
(* the finally clause of main in final_acceptance.py).                     *)
THEOREM AiAlwaysComesBack == Spec => []AiComesBack
  <1>1. Inv => AiComesBack
    BY IdleIs DEF Inv, AiOK, AiComesBack
  <1> QED
    BY <1>1, ScriptsInvariant, PTL

(* After a reset that nobody disturbed there is no demo transaction, no    *)
(* score, no load, no lock and no session, however many databases it took  *)
(* and whatever an earlier reset left half done (demo_reset.py main).      *)
THEOREM ResetIsClean == Spec => []DrainedResetIsClean
  <1>1. Inv => DrainedResetIsClean
    <2>1. ASSUME Inv, stage = 1, script = Idle, Ended("reset", "complete")
          PROVE  /\ DemoTransactions = {} /\ NoScores /\ NoLoad /\ locked = {} /\ sessions = {}
      BY <2>1 DEF Inv, SceneOK
    <2> QED
      BY <2>1 DEF DrainedResetIsClean, NoScores, NoLoad
  <1> QED
    BY <1>1, ScriptsInvariant, PTL

(* After an undisturbed reset, prepare refuses only accounts and profiles  *)
(* that are not the demo's; once it has said DEMO READY the status check   *)
(* agrees, and the acceptance run that follows passes unless a request, a  *)
(* poll or a docker command fails (demo_prepare.py, demo_status.py and     *)
(* final_acceptance.py run).                                               *)
THEOREM RunbookAlwaysEndsReady == Spec => []RunbookEndsReady
  <1>1. Inv => RunbookEndsReady
    BY DEF Inv
  <1> QED
    BY <1>1, ScriptsInvariant, PTL

(* No script takes a transaction, case or event of another customer, and   *)
(* an undisturbed reset takes the event with the case it is about          *)
(* (reset_demo_data.py reset).                                             *)
THEOREM ResetTakesOnlyTheDemos == Spec => ResetTakesWhatIsTheDemos
  <1> DEFINE Takes == \A t \in Transaction :
               IF t \in Demo THEN quiet /\ IsStored(t) /\ ~IsStored(t)' => outbox'[t] = "none"
               ELSE /\ IsStored(t) => IsStored(t)'
                    /\ outbox[t] # "none" => outbox'[t] # "none"
  <1>1. Inv /\ [Next]_vars => Takes
    <2>1. CASE Inv /\ DeleteCases
      BY <2>1, DeleteTakes
    <2>2. CASE Inv /\ [Next]_vars /\ ~DeleteCases
      BY <2>2, OthersKept DEF Kept
    <2> QED
      BY <2>1, <2>2
  <1>2. Inv /\ [Next]_vars => [Takes]_vars
    BY <1>1
  <1> HIDE DEF Takes
  <1>3. Spec => [][Takes]_vars
    BY <1>2, ScriptsInvariant, PTL DEF Spec
  <1> QED
    BY <1>3 DEF Takes, ResetTakesWhatIsTheDemos
==============================================================================
