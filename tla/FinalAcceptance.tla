--------------------------- MODULE FinalAcceptance ---------------------------
(* final_acceptance.py on the demo platform: a golden transaction is taken  *)
(* through the whole system while the workers run, then the AI Service is   *)
(* stopped and started again. A step that fails does not end the script;    *)
(* the steps that need its result fail as well.                             *)
EXTENDS DemoScripts

Needs == [
  platform |-> {}, accounts |-> {}, customer |-> {}, supervisor |-> {},
  create |-> {"customer"}, highRisk |-> {"create"},
  analyst |-> {"accounts", "highRisk"}, initialProfile |-> {"analyst"},
  transitions |-> {"highRisk", "analyst"},
  verification |-> {"highRisk", "customer"}, blocked |-> {"highRisk", "analyst"},
  outbox |-> {"blocked"}, processed |-> {"blocked"},
  ledger |-> {"blocked", "highRisk"}, profile |-> {"analyst", "ledger"},
  board |-> {"supervisor", "analyst", "ledger"},
  cases |-> {"supervisor", "highRisk"},
  aiStop |-> {}, aiFallback |-> {"customer"}, aiStart |-> {}, aiRecovery |-> {"customer"},
  finish |-> {}]

\* The order of run(); check_ai_fallback and check_ai_recovery are two steps
\* each, one for docker and one for the transaction.
Following == [
  platform |-> "accounts", accounts |-> "customer", customer |-> "supervisor",
  supervisor |-> "create", create |-> "highRisk", highRisk |-> "analyst",
  analyst |-> "initialProfile", initialProfile |-> "transitions",
  transitions |-> "verification", verification |-> "blocked", blocked |-> "outbox",
  outbox |-> "processed", processed |-> "ledger", ledger |-> "profile",
  profile |-> "board", board |-> "cases", cases |-> "aiStop", aiStop |-> "aiFallback",
  aiFallback |-> "aiStart", aiStart |-> "aiRecovery", aiRecovery |-> "finish"]

BeginAcceptance ==
  /\ Begin("accept", "platform")
  /\ stage' = IF stage = 2 THEN 3 ELSE 0

On(step) == At("accept", step)
Ready(step) == Needs[step] \subseteq script.passed
Moved(step) == [script EXCEPT !.step = Following[step]]
Passed(step) == script' = [Moved(step) EXCEPT !.passed = @ \cup {step}]
Failed(step) == script' = [Moved(step) EXCEPT !.failed = @ \cup {step}]

Golden == script.golden
GoldenRow == transactions[Golden]

\* What a step that only looks must find.
Finds(step) ==
  CASE step = "platform" -> aiUp
    [] step = "accounts" -> \A a \in Accounts : account[a] = "ready"
    [] step = "highRisk" -> GoldenRow.status = "assigned"
    [] step = "initialProfile" -> game[Specialist] = CleanProfile
    [] step = "ledger" -> Golden \in ledger
    [] step = "profile" -> game[Specialist] = [points |-> 1, resolved |-> 1, badge |-> TRUE]
    [] step = "board" -> Golden \in ledger /\ game[Specialist].badge
    [] step = "cases" -> GoldenRow.status = "decided"

Look(step) ==
  /\ On(step)
  /\ IF Ready(step) /\ Finds(step) THEN Passed(step) ELSE Failed(step)
  /\ UNCHANGED <<platform, result, quiet, stage, bounds>>

\* Polls end when they find what they look for; that they give up is a fault.
Awaited(step) == CASE step = "outbox" -> outbox[Golden] = "published"
                   [] step = "processed" -> Golden \in processed

Poll(step) ==
  /\ On(step)
  /\ \/ ~Ready(step) /\ Failed(step)
     \/ Ready(step) /\ Awaited(step) /\ Passed(step)
  /\ UNCHANGED <<platform, result, quiet, stage, bounds>>

\* Who logs in at a step; the analyst is the one the golden case must have.
LogInAt(step, who) ==
  /\ On(step)
  /\ IF Ready(step) /\ who \notin locked /\ (step = "analyst" => GoldenRow.analyst = who)
     THEN Passed(step) /\ sessions' = sessions \cup {who}
     ELSE Failed(step) /\ UNCHANGED sessions
  /\ UNCHANGED <<account, locked, result, stage>> /\ UNCHANGEDButIdentity

\* POST /transactions with the golden signals.
CreateGolden ==
  /\ On("create")
  /\ \/ /\ ~Ready("create") /\ Failed("create")
        /\ UNCHANGED <<ai, cases>>
     \/ /\ Ready("create")
        /\ \E t \in Demo : /\ Create(t, TRUE, TRUE)
                           /\ script' = [Moved("create") EXCEPT !.golden = t,
                                           !.passed = @ \cup {"create"}]
  /\ UNCHANGED <<identity, aiUp, queue, scoring, result, quiet, stage, bounds>>

\* A request that moves the golden case on, or is refused by its state.
MoveCase(step, from, to) ==
  /\ On(step)
  /\ IF Ready(step) /\ GoldenRow.status = from
     THEN /\ Passed(step)
          /\ IF to = "decided" THEN Decide(Golden)
             ELSE /\ transactions' = [transactions EXCEPT ![Golden].status = to]
                  /\ UNCHANGED outbox
     ELSE Failed(step) /\ UNCHANGED cases
  /\ UNCHANGED <<identity, aiUp, ai, queue, scoring, result, quiet, stage, bounds>>

\* Mutant: the container is started again only if it did not stop.
StopAiUnmarked ==
  /\ On("aiStop")
  /\ aiUp' = FALSE
  /\ Passed("aiStop")
  /\ UNCHANGED <<identity, ai, cases, queue, scoring, result, quiet, stage, bounds>>

StopAi ==
  /\ On("aiStop")
  /\ aiUp' = FALSE
  /\ script' = [Moved("aiStop") EXCEPT !.passed = @ \cup {"aiStop"}, !.aiStopped = TRUE]
  /\ UNCHANGED <<identity, ai, cases, queue, scoring, result, quiet, stage, bounds>>

\* Without the AI Service the transaction gets a case for manual review. A
\* failed stop ends check_ai_fallback before it.
CreateFallback ==
  /\ On("aiFallback")
  /\ \/ /\ ~(Ready("aiFallback") /\ "aiStop" \in script.passed) /\ Failed("aiFallback")
        /\ UNCHANGED <<ai, cases>>
     \/ /\ Ready("aiFallback") /\ "aiStop" \in script.passed
        /\ \E t \in Demo : Create(t, FALSE, FALSE)
        /\ IF aiUp THEN Failed("aiFallback") ELSE Passed("aiFallback")
  /\ UNCHANGED <<identity, aiUp, queue, scoring, result, quiet, stage, bounds>>

StartAi ==
  /\ On("aiStart")
  /\ aiUp' = TRUE
  /\ script' = [Moved("aiStart") EXCEPT !.passed = @ \cup {"aiStart"}, !.aiStopped = FALSE]
  /\ UNCHANGED <<identity, ai, cases, queue, scoring, result, quiet, stage, bounds>>

CreateRecovery ==
  /\ On("aiRecovery")
  /\ \/ /\ ~(Ready("aiRecovery") /\ "aiStart" \in script.passed) /\ Failed("aiRecovery")
        /\ UNCHANGED <<ai, cases>>
     \/ /\ Ready("aiRecovery") /\ "aiStart" \in script.passed
        /\ \E t \in Demo : Create(t, FALSE, FALSE)
        /\ Passed("aiRecovery")
  /\ UNCHANGED <<identity, aiUp, queue, scoring, result, quiet, stage, bounds>>

\* A request, a poll or a docker command fails. docker may have done its work.
BreakStep(step) ==
  /\ On(step) /\ step # "finish" /\ faults < MaxFaults
  /\ faults' = faults + 1
  /\ script' = [Moved(step) EXCEPT !.failed = @ \cup {step}, !.faulted = TRUE]
  /\ aiUp' \in CASE step = "aiStop" -> {aiUp, FALSE}
                 [] step = "aiStart" -> {aiUp, TRUE}
                 [] OTHER -> {aiUp}
  /\ UNCHANGED <<identity, ai, cases, queue, scoring, result, quiet, stage, userSteps, runs>>

\* main's finally clause starts the AI Service if the script stopped it.
Finish ==
  /\ On("finish")
  /\ End(IF script.failed = {} THEN "complete"
         ELSE IF script.faulted THEN "broken" ELSE "refused")
  /\ \/ aiUp' = (aiUp \/ script.aiStopped) /\ UNCHANGED faults
     \/ /\ script.aiStopped /\ faults < MaxFaults /\ faults' = faults + 1
        /\ UNCHANGED aiUp
  /\ UNCHANGED <<identity, ai, cases, queue, scoring, quiet, stage, userSteps, runs>>

Acceptance ==
  \/ BeginAcceptance
  \/ \E step \in {"platform", "accounts", "highRisk", "initialProfile", "ledger",
                  "profile", "board", "cases"} : Look(step)
  \/ Poll("outbox") \/ Poll("processed")
  \/ LogInAt("customer", Customer)
  \/ \E s \in Staff \ Analyst : LogInAt("supervisor", s)
  \/ LogInAt("analyst", Specialist)
  \/ CreateGolden
  \/ MoveCase("transitions", "assigned", "verifying")
  \/ MoveCase("verification", "verifying", "answered")
  \/ MoveCase("blocked", "answered", "decided")
  \/ StopAi \/ CreateFallback \/ StartAi \/ CreateRecovery
  \/ \E step \in DOMAIN Needs : BreakStep(step)
  \/ Finish

----------------------------------------------------------------------------
\* The deployment the scripts find: fresh, or with demo accounts, which then
\* have their profiles.
Init ==
  /\ \E d \in Deployments :
       /\ account = d.account
       /\ ai = [a \in Analyst |-> IF d.account[a] = "absent" THEN Null
                                  ELSE [load |-> 0, fits |-> a \notin d.misfits]]
       /\ game = [a \in Analyst |-> IF d.account[a] = "absent" THEN Null ELSE CleanProfile]
       /\ userSteps = d.users /\ runs = d.scripts
  /\ locked = {} /\ sessions = {} /\ aiUp = TRUE
  /\ transactions = [t \in Transaction |-> Absent]
  /\ outbox = [t \in Transaction |-> "none"]
  /\ queue = {} /\ processed = {} /\ ledger = {}
  /\ script = Idle /\ result = [cmd |-> "none", outcome |-> "none"]
  /\ quiet = FALSE /\ stage = 0
  /\ faults = 0

Next == Users \/ Workers \/ Reset \/ Prepare \/ StatusCheck \/ Break \/ Acceptance

Spec == Init /\ [][Next]_vars

Ended(cmd, outcome) == result.cmd = cmd /\ result.outcome = outcome

\* A reset that says DEMO RESET COMPLETE leaves a clean scene, although its
\* four databases are reset one after the other and earlier resets may have
\* stopped halfway: no demo transaction or case, no score, no badge, no
\* load, nobody locked or logged in. It can promise that only if no event
\* was on its way when it began and no user came between (demo_reset.py main).
DrainedResetIsClean ==
  stage = 1 /\ script = Idle /\ Ended("reset", "complete") =>
    /\ DemoTransactions = {} /\ ledger = {}
    /\ \A a \in Analyst : /\ game[a] # Null => game[a] = CleanProfile
                          /\ ai[a] # Null => ai[a].load = 0
    /\ locked = {} /\ sessions = {}

\* The runbook: after an undisturbed reset, prepare refuses only an account or
\* a profile that is not the demo's; once it said DEMO READY, a second prepare
\* and the status check agree, and then the acceptance run passes, whatever
\* the workers do twice and whichever way they are interleaved with it. A
\* command that fails for another reason excuses only the script it ends.
RunbookEndsReady ==
  /\ stage = 1 /\ Ended("prepare", "refused") =>
       (\E a \in Accounts : account[a] = "conflict") \/ (\E a \in Analyst : ai[a] # Null /\ ~ai[a].fits)
  /\ stage = 2 => result.outcome # "refused"
  /\ stage = 3 => ~Ended("accept", "refused")

\* When the acceptance run has ended the AI Service runs again, even if one of
\* its requests or docker commands failed (check_ai_recovery and main's finally).
AiComesBack == result.cmd = "accept" /\ faults <= 1 /\ script = Idle => aiUp

\* No script deletes a transaction, case or event of another customer, and a
\* reset that nobody disturbs takes the event with the case it is about, so
\* that it is not scored when the case is gone (reset_demo_data.py reset).
ResetTakesWhatIsTheDemos ==
  [][\A t \in Transaction :
       IF t \in Demo THEN quiet /\ IsStored(t) /\ ~IsStored(t)' => outbox'[t] = "none"
       ELSE /\ IsStored(t) => IsStored(t)'
            /\ outbox[t] # "none" => outbox'[t] # "none"]_vars
=============================================================================
