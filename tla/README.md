# FraudCell: TLA+ models, model checking and proofs

This directory specifies FraudCell: what happens to a suspicious transaction from its
creation, through the risk case an analyst decides, to the points the decision earns; how
users log in; what the pages of the frontend show of it; and the scripts that reset,
prepare and accept a demo. Paths below are relative to `src/`; `tx/`, `ai/`, `game/` and
`id/` stand for the `app/` directories of `services/transaction-service`, `ai-service`,
`gamification-service` and `identity-service`.

`PROJECT.json` lists the components, the TLC runs, the map from every definition to the
source lines it models, the mutants (a plausible bug per property, which TLC must then
find), the findings, the hazards and the theorems.

## 1. The system

| Component | State | Operations | Talks to |
|---|---|---|---|
| Case endpoints (`tx/services/case_service.py`, `case_transition_service.py`) | `risk_cases`, `case_history`, `customer_feedback`, decision and block of `transactions` | assign, start, request-verification, customer-response, decision, close, feedback | writes `outbox_events` in its own commit |
| Transaction creation (`tx/services/transaction_service.py`) | `transactions`, `transaction_number_sequences`, the new case | create | AI Service over HTTP with a timeout |
| Outbox worker (`tx/workers/outbox_publisher.py`) | `outbox_events.published_at` | poll, publish with confirm, mark | RabbitMQ |
| Event worker (`game/workers/event_consumer.py`, `game/services/event_service.py`) | `processed_events`, `analyst_profiles`, `score_ledger`, `badges` | process, ack, nack, reject | RabbitMQ |
| Scoring rules (`game/services/scoring_service.py`) | none | points of a decision, level of a total | payload built by the case endpoints |
| Leaderboard and profile queries (`game/services/profile_service.py`) | none (reads) | daily and weekly ranks | — |
| Analyst assignment (`ai/services`, `ai/repositories`) | `analyst_profiles` of the AI database | score-and-assign, sync | called by transaction creation and by set-up scripts |
| Risk engine (`ai/ml`) | a trained model file | predict, thresholds | — |
| Identity (`id/services`) | `users`, `refresh_tokens`, `otp_challenges`, `audit_logs` | register, customer login, staff login with lock, rotate, logout, staff management | tokens are checked by the other services |
| Demo scripts (`scripts/demo_*.py`, the `cli` packages) | rows of all four databases | reset, prepare, status | all databases |
| Acceptance script (`scripts/final_acceptance.py`) | what its steps found | a golden transaction through all endpoints, AI Service stopped and started | the gateway, docker, all databases |
| Pages of the frontend (`frontend/app`) | copies of lists and of a profile, the action that runs, the verifications already announced | load, act | the endpoints |
| Gateway, contracts, other test scripts | — | routing, examples, drivers | the endpoints |

Each service has its own PostgreSQL database; there is no transaction across two of
them. The services meet in three places only: the HTTP call from transaction creation
to the AI Service, the RabbitMQ queue between the two workers, and the tokens of the
Identity Service.

### What is hard, and what makes each part correct

* **Case endpoints.** Requests of an analyst, a customer and a supervisor meet on one
  row. A handler locks the row, edits it, only then asks whether the transition is
  allowed, commits, and *after* the commit reloads the case to render the reply, so that
  an effect can survive a reported failure and clients repeat it; there is no
  idempotency key. Correct: one verdict and one event for it; the event, the row, the
  transaction, the history and the timestamps tell one story; a refusal changes nothing;
  a decision and an assignment are final; no row stays locked.
* **Transaction creation.** The reservation of an analyst and the case are commits of two
  databases, separated by a timeout. Transactions race for the next yearly number.
  Correct: numbers without gaps or doubles; the two services agree on what is blocked;
  every case of an analyst is counted in their load; create ends whatever the AI
  Service does.
* **Assignment.** Reservations lock profiles without an order and can deadlock; profiles
  are synchronised without a lock. Correct: no overbooking; equal analysts share the work.
* **Outbox and event worker.** RabbitMQ is outside both database transactions;
  `is_processed` is read before any lock; messages are duplicated, redelivered and
  reordered; commits can succeed unseen. Correct: a committed decision is never lost on
  its way, counts exactly once, in full, for its analyst, and does so in the end;
  duplicates have causes.
* **Scoring.** Limits of two code bases (900 seconds, SLA durations, rounding) must fit.
* **Identity.** Refresh tokens, codes and passwords are used by several requests at once,
  and refusals must be committed with their audit rows while other failures roll back.
  Correct: one live token per login; a noticed reuse ends all sessions; every wrong
  password and every wrong code counts; a code works once; the audit log tells the truth.
* **Demo scripts.** Four databases are reset one after the other without a common
  transaction, while users and workers go on, and any command can fail. Correct: a
  script that says COMPLETE or READY is right, and nothing of another customer is lost.
* **Pages.** Loads are never cancelled, so an old answer can replace a newer one, and a
  button can be pressed for what is no longer so. Correct: nobody answers what was not asked,
  a profile is consistent, and in the end the pages show the truth.

`PROJECT.json` "hazards" lists each of these with its line and the properties that
would expose it.

## 2. The modules

```
CaseLifecycle      abstract: what a case promises          <-- implemented by CaseService
CaseService        the case endpoints
  CaseServiceProofs                                               proofs
TransactionIntake  transaction creation and analyst assignment
  TransactionIntakeProofs                                         proofs
ExactlyOnceScoring abstract: what the event contract promises  <-- implemented by EventService
EventPipeline      an event from the outbox to the ledger   EXTENDS EventService
  OutboxPublisher  the outbox worker                        INSTANCEd by EventPipeline
  EventPipelineProofs                                             proofs
EventService       the event worker                         EXTENDS ScoringRules
  EventServiceProofs                                              proofs
ScoringRules       the arithmetic of a decision
DecisionScoring    a case that waits for its decision       EXTENDS ScoringRules
  DecisionScoringProofs                                           proofs
IdentityService    all endpoints of the Identity Service    EXTENDS, in this order,
  OneTimeCodes     codes, registration, customer login
  StaffAccounts    staff login and creation
  RefreshTokens    rotation, reuse, logout
  IdentityDatabase the tables, row locks, audit savepoints
  IdentityServiceProofs                                           proofs
FinalAcceptance    the acceptance script                    EXTENDS
  DemoScripts      reset, prepare, status                   EXTENDS
  DemoPlatform     the platform as the scripts see it
  FinalAcceptanceProofs                                           proofs
Workspaces         the pages over the services              INSTANCEs CaseLifecycle, ScoringRules
  WorkspacesProofs                                                proofs
  ProfileQueries   leaderboard and profile
MC*                small instances for TLC
```

The modules meet at named states. `TransactionIntake` stores cases in `YENI`, or in
`ATANDI` with an analyst: the initial states of `CaseService`. `CaseService` commits
rows to `outbox`: `Commit` of `OutboxPublisher`. `EventPipeline` joins the two workers:
a step that gives the broker a message is `Publish` of `EventService` at the same time.
`Workspaces` puts the pages over `CaseLifecycle` and counts decisions as
`ExactlyOnceScoring` does: it uses what `CaseService` and `EventService` are shown to
implement, not their details. `DemoPlatform` does the same by hand, with one step for
each request. `EventService` scores any payload in `CaseDecisionData`, and
`DecisionScoring` shows that the payloads of `_decision_payload` are among them.

### CaseService

One action per handler, and the steps around it at which another session, a failure or
the client can come between:

| Code | Model |
|---|---|
| the route's role check and the body schema | `RequestType`: the requests that can be sent |
| `SELECT ... FOR UPDATE`, then lazy loads | `LockCase`: takes `lock[c]`, stores what was read in `seen[s]` |
| the handler, up to its commit | `Assign`, `Start`, `RequestVerification`, `RecordResponse`, `Decide`, `Close`, `SubmitFeedback` |
| any raise before the commit (403, 409, 422) | `Refuse`; 404 is `NotFound` |
| a failed commit, a lost connection, a dead process | `Fail` |
| reload and render | `Reply`, or `LoseReply` |
| the client repeats, or does not | `Retry`, `GiveUp` |

A handler writes what it computes from `seen[s]`, not from the table: only the row lock
makes the two the same, and the mutant without it breaks `EventTellsTheCase`. Text (notes,
names) is reduced to whether a decision note is present. `now` counts clock ticks from the
creation of the cases; the microsecond by which an automatic assignment is stamped after
the creation is not told apart. The clock is taken not to run backwards here; a clock that
does is in `DecisionScoring`.

An assignment may name any id (`Assignee`), as the schema and the handler accept any UUID
and neither asks who it is. A case that is assigned to somebody who is no analyst can be
started by nobody, and its assignment is final.

`CaseLifecycle` has no sessions, locks, failures or clocks: a case moves in atomic steps,
and verdicts and ratings are appended to one log. The refinement mapping projects the
tables: `status`, `assigned_analyst_id`, `customer_response`, and the outbox reduced to
what an event announces.

### TransactionIntake

Two processes for each transaction: `create` in the Transaction Service (`pc`) and the
scoring session in the AI Service (`ai`), which goes on when `create` has given up.
`NextRow` and `LockRow` take the row locks of `list_eligible_for_update` one by one in any
order and check the condition again after a wait, as PostgreSQL does; a circle of waiting
sessions is broken by `DeadlockVictim`. `Reserve` ranks the locked profiles (`Weight` is
`AssignmentService.score` in integers) and commits. `Unavailable` covers every way in
which `AIClient` gives up, at any time. `TakeNumber` keeps the value its upsert returned
and holds the row of the year until `CommitRow` or `Abort`. `SyncRead` and `SyncWrite` are
the two halves of `upsert`, whose UPDATE carries only the columns that differ from what
was read. The model's answer is any score of `Score`, counted in 1/10^7 so that rounding
to six digits can be seen.

### OutboxPublisher

`NextPending` is `FOR UPDATE SKIP LOCKED` on the oldest pending row. Publishing ends in a
confirm, in an unroutable return (no queue is bound yet and `mandatory=True`), or in an
error after which the broker may or may not have the message. A dead worker may leave its
row locked until PostgreSQL notices (`"orphan"`). `docker-compose.yml` starts one worker;
two are modelled, because `SKIP LOCKED` is there for more than one.

### EventPipeline

`EventService` with the outbox put before it, and no state of its own. `OutboxStep` is a
step of the outbox side with the step of the queue it entails, `ScoringStep` one of a
gamification worker; failures of the two sides share one bound. Event `i` is row `i` of the
outbox, and no event is invalid: the case endpoints commit two types of events, the two
the queue is bound for.

### EventService

Every statement of `process` that waits for, or can be overtaken by, another transaction
is an action: `CheckProcessed`, `SelectProfile`, `InsertProfile`, `Score` (from
`score_case` to the commit, under the lock of the profile), `ScoreConflict` and `Recheck`
for `IntegrityError`, `MarkProcessed` for feedback. `lock[a]` is the row lock of a's
profile, or the unique key a transaction has inserted and not committed. Failures are
`DatabaseError` (rollback and requeue), `CommitUnseen` (the commit succeeds and the worker
never learns), `LoseBroker` (RabbitMQ requeues the message while the transaction goes on)
and `Crash`. RabbitMQ is a bag: order is not promised and not used. The prefetch of ten
messages is left out: a prefetched message is one the worker has not been given yet.

`ExactlyOnceScoring` is the promise of `EVENTS.md` ("Teslim ve recovery davranışı", 5
and 6): one atomic step counts one decision.

### ScoringRules and DecisionScoring

`ScoringRules` holds `SLA_DURATIONS`, the payload's `resolution_seconds` and
`sla_exceeded`, `score_case` and `level_for`. `DecisionScoring` is one case that waits:
at each moment its properties ask what the decision would be worth if it were taken now.

### The identity modules

A request is one transaction. It begins with the reads it makes without a lock and with
the clock it has read (`Begin`; the staff login reads the clock after its lock), takes the
row locks of its statements in any order (`Lock`) and keeps them to its end, those of an
earlier statement too: `rotate` holds the reused token while `revoke_all_active` waits for
others. It ends in one of the actions of its handler: a commit, a refusal that is
committed with its audit row (`Denied`), or a `Rollback`, which is also how PostgreSQL
breaks a circle of waiting sessions (`DeadlockVictim`). `AuditService.record` runs in a
savepoint: `Recorded` keeps or loses the row, and a loss counts as a failure.
`revoke_all_active` works on the rows it found when its UPDATE began and looks at each
again once it has the lock (`StillMatches`). Passwords, codes and hashes are reduced to
right or wrong, gsm and e-mail to equal or not. `Mixes` are the workloads, so that
endpoints which touch the same rows meet in one behaviour and those which do not are not
multiplied; each bounds its tokens and codes, and some begin with accounts that have just
logged in. `misses` is the counter of the row, `wrong` what it ought to be.

### DemoPlatform, DemoScripts and FinalAcceptance

`DemoPlatform` keeps the rows of the four databases that the scripts read, write or
delete, the queue between two of them, and the steps of users and workers, each of which
is atomic here. A script is a sequence of command line tools. A tool is one transaction;
a tool that reads first and deletes later without a lock (`reset_demo_data.py`) has two
steps (`ReadCases`, `DeleteCases`), and the profile reset writes only the columns that its
read found to differ. A tool may fail, before or after its commit. The acceptance run is
the table of its steps (`Needs`, `Following`): a step whose needs failed fails, the
others go on. The ghosts `quiet` and `stage` say what the runbook presumes: nothing on its
way, nobody in between.

### Workspaces and ProfileQueries

`out[l]` holds the loads of a list that are not answered, each with what its statement
read; `Arrive` answers any of them and replaces what is shown. An action goes from `sent`
through `done` to `loading` (`pending` of the page, which disables the buttons); `Refuses`
and `Accepts` judge it by the row, `Lose` breaks its connection before or after that, and
`CarryLate` is a request that arrives when the page has given it up. `ProfileQueries`
reads a profile statement by statement (`Read`): the row, the badges, the ranks.

## 3. The runs

| Run | Instance | Question |
|---|---|---|
| `case_requests` | 2 sessions, 2 analysts and an id that is none's, owner and stranger, one existing and one missing case, clock 0..1, history up to 6, no retries | do row, transaction, history, timestamps and events agree after every interleaving? |
| `case_retries` | 2 sessions, 1 analyst and an id that is none's, 1 retry each, clock stopped, history up to 4, fair | is everything announced once, does `CaseService` implement `CaseLifecycle`, and does every request end? |
| `case_unasked_answer` | 1 session | finding 1 |
| `intake` | 2 transactions, 2 analysts of whom one joins meanwhile, two years, one number a year, scores around the limits, fair | numbers without a gap, two services that agree on what is blocked, does every create end, and every reservation, although two can wait for each other? |
| `intake_load` | 3 transactions, 2 equal analysts with room for 2 and a specialist with room for 1 | capacity, counted cases, balance under any order of locks |
| `intake_lowered_capacity` | 1 transaction, 1 synchronisation | finding 2 |
| `pipeline` | 2 decisions of one analyst, 2 outbox workers, 2 event workers, 3 publications, 1 fault on either side, fair | is an event never lost, published again only after a failure, and counted in the end? |
| `event_scoring` | 3 decisions of one analyst, 1 feedback, 1 invalid message, 2 copies each, 2 workers, 2 faults | exactly once, in full, never forgotten |
| `decision_scoring` | half-second steps within one second of 0, of each SLA limit and of a day and a quarter | limits of two services |
| `identity` | 2 sessions, 14 workloads, up to 3 tokens and 2 codes (4 of each in the workloads in which requests wait in a circle), 1 failure, lifetimes of one clock step, threshold 2, fair | tokens, codes, misses and audit rows under races; does every request end? |
| `demo` | 4 accounts, 2 analysts with room for one case, 3 transactions of the demo and 1 of another customer, 6 states of the platform with up to 2 steps of users and 4 scripts, 1 failure | are COMPLETE, READY and the acceptance run's verdict right? |
| `workspaces` | 1 case, 6 scenes with one or two lists open, one overlapping load or one failure, Sunday into Monday, a rival, fair | do late answers and late requests mislead anybody, and do the pages catch up? |

Why the bounds are enough. A row lock serialises all writers of a case, an analyst or a
year, so an interference needs two sessions and one such row. Cases of different ids share
nothing in `CaseService` but the outbox, and the proofs are for any number of them.
`MaxHistory` 6 allows one verification and an answer before the verdict and closing, or a
second verification; `MaxRetries` 1 is the repetition of a lost request. Two copies and
two faults give a redelivery of a duplicate; of the three decisions the first makes the
profile, so that the two others can race for its row. In `intake_load` all three sessions
want the one place of the specialist, so that a profile that was eligible is full once its
lock is granted. `MaxNumber` 1 lets the second transaction of a year reach the end of the
counter. In `identity` a threshold of two is the least that tells a miss from a lock, and
three tokens are a login, its successor, and one of a rotation that was on its way when
the reuse was noticed. Two reuses that wait for each other need four: two logins, and a
rotation each. Four codes are two that a number was given at the same time and the two
that are to replace them. In `demo` three scripts are the runbook (reset, prepare,
acceptance) and a fourth repeats one. In `workspaces` one load in flight beside another is
what reordering needs, and the scenes start where a page has something to do; cases do not
influence each other. `DecisionScoring`'s properties can change only at a limit, and every
limit is within its moments. `EventService` and `ScoringRules` use whole seconds and half
seconds respectively (`UnitsPerSecond`); the proofs cover every resolution.

Deadlock is checked in the `CaseService` runs, where a client can always send another
request or a session can go on. In the other runs everything may be done: all copies
published and processed, all rows published, all transactions answered, the last moment
reached. Symmetry is used for interchangeable sessions, analysts, events, workers and
transactions, and only in runs without liveness properties.

### Fairness

* `CaseService`: weak fairness for the steps of a session (the server runs its threads),
  strong fairness for `LockCase`, because PostgreSQL serves the waiters of a row lock in
  turn. Nothing is assumed of clients, and failures are never assumed away.
* `TransactionIntake`: weak fairness for `create`, which includes its timeout, strong for
  the row of the counter. `EveryCreateEnds` assumes nothing of the AI Service: no step of
  it need ever happen. `EveryScoringEnds` has what it assumes as its premise
  (`ScoringFairness`): the handlers there go on, PostgreSQL grants the locks of profiles
  that become free, and its `deadlock_timeout` fails one session of a circle. In the run
  two reservations do lock the two profiles in opposite orders, and without a victim they
  would wait for ever.
* `EventPipeline`: the loops of `run()` on both sides, the start of the consumer (`Bind`),
  PostgreSQL's ending of orphaned transactions, and strong fairness for row locks. Faults
  are bounded, which is "the broker comes back": with failures for ever nothing could be
  promised.
* `IdentityService`: strong fairness for row locks, weak for the handlers and for the victim
  of a circle of waiting sessions. There are circles: two reuse detections of one user each
  keep the token they were given while `revoke_all_active` waits for the other's, and two
  requests for a code can withdraw the same two codes in opposite orders. Without the victim
  `EveryRequestEnds` fails.
* `Workspaces`: the timers of open pages fire, requests are answered or fail, the worker
  counts (`EventuallyCounted`) and the day ends. Users need not do anything.
* The scripts have safety properties only: a script may always be interrupted.

## 4. Findings

1. **An answer nobody asked for** (`case_unasked_answer`).
   `services/transaction-service/README.md:93-94` says that a customer's response is
   accepted only on `MUSTERI_DOGRULAMA -> INCELENIYOR`. `customer_response` asks for
   `INCELENIYOR`, which `ALLOWED_TRANSITIONS` also grants from `ATANDI`: the answer is
   stored and the review starts without its analyst. `CaseLifecycle!CustomerAnswers`
   states what the code does.
2. **A capacity that is lowered while it is used** (`intake_lowered_capacity`). `upsert`
   reads the profile without a lock and writes the columns that changed since. A
   reservation in between leaves more active cases than the maximum, which
   `ai/schemas/scoring.py:88-89` rules out for the request itself.

Not disagreements, but worth knowing: a call to the AI Service that times out leaves a
reservation without a case (`CasesAreCounted` holds in one direction only); a repeated
verification request can take effect twice; an approval leaves `temporary_blocked` as
scoring set it. A demo case that is decided between the read and the delete of a reset
leaves its outbox row for ever, although `docs/DEMO_RUNBOOK.md:64` says that none is left;
`DrainedResetIsClean` and `ResetTakesWhatIsTheDemos` therefore presume that nobody came
between, as the runbook tells its reader. The reset also reads profiles without a lock,
and a score that commits in between leaves points without a ledger, or the reverse. A
rotation that was waiting when a reuse was noticed can commit a new token after
`revoke_all_active` has chosen its rows (`ReuseEndsSessions` is about those it chose).
Of two reuse detections that wait for each other (`token_service.py:68` and `:77`)
PostgreSQL fails one: that request ends with a 500, its audit row and its revocations are
rolled back, and the other one ends the sessions. A case that a supervisor assigns to an
id that is no analyst's stays where it is for good.

## 5. The proofs

All theorems are checked by TLAPS for every value of the constants, from the named
assumptions of the modules (`ConstantsOK` of CaseService, `UnitsPositive`,
`EventServiceConstants`, `EventPipelineConstants`, `IntakeConstants`, `IdentityConstants`,
`MomentsAreTimes`, `WorkspacesConstants`, `DemoConstants`), which TLC evaluates in every run
that extends the module. They give the constants their types, keep `Null` apart from rows,
and say what the code's own tables say (staff have an e-mail, customers a number; `Rank`
orders the analysts strictly, as their ids do; a scene of the pages begins when no question
is open and announces a decision of a decided case, once; the scripts' lists name every
account and every analyst, and an analyst has room for a case, as the check on
`max_active_cases` says). Every invariant and every action property that a passing run
checks is a theorem, of the services, the pages and the scripts, and so are the two
refinements.

The lock invariants have one shape: *what a transaction has read under a row lock is still
in the row*. None of the safety properties is inductive without it, because a handler
decides by the copy it holds.

* **CaseServiceProofs**: `TypeCorrect`. `TypeOK` is not inductive: that a handler writes
  values of the right type rests on what `seen[s]` holds. The invariant `Inv` adds
  `Locking`, which says of every session (`Serving`) that while it works it holds the row
  lock of its case and what it has seen *is* the row, and that a session that is not idle
  has a request of `RequestType`. One lemma per action shows that it keeps `Inv`;
  `StepKeepsInv` and `Invariance` combine them.
* On top of `Inv`: `DecisionsAnnouncedOnce`, `EventsTellTheCase`,
  `FeedbackAlwaysFollowsClosure`, `DecisionsAreFinal`, `AssignmentsAreFinal`,
  `RepeatsAreHarmless` and `HistoriesTellTheCase`. `EventTellsTheCase` needs that the
  decided status was reached from `INCELENIYOR` and that the outbox had no earlier event
  for the case; `AssignmentIsFinal` needs `Unassigned` (a case in `YENI` has no analyst).
  `RepeatsAreHarmless` adds `AppliedOK`: a request that was applied, and moves a case for
  good, left the row in a status from which the same request is refused. `HistoryOK` says
  that a history is a walk (`Walk`) whose last row tells the status (`Tells`) and which
  does not reach a status before the row does (`NotYet`); a late row would need a second
  handler under the same lock.
* **`Implementation`** (CaseServiceProofs): `Spec => ImplementsLifecycle`. Initial states map
  to initial states; each handler maps to the abstract step of its name, and every other
  action leaves the mapped variables unchanged. It uses `Inv` and `FeedbackFollowsClosure`:
  a case without feedback has no rating in the log yet.
* **DecisionScoringProofs**: `PayloadAlwaysValid`, `FastAlwaysInTime`,
  `WaitingNeverEverPays`, and the bounds `PointsInRange` and
  `LevelNeverFalls`. The key lemma is that every SLA limit is at least fifteen minutes;
  the rest is the arithmetic of integer division at any resolution.
* **EventServiceProofs**: `Inv` says of a worker that scores that it holds the lock of its
  analyst's profile and has seen the row, or `NewProfile` if there is none (`Scoring`),
  and that a worker is about to acknowledge only what is processed (`Handling`). Then
  `LedgerIsComplete` (the ledger is the rows of the processed decisions), `OneBadgeEach`
  (`BadgesAreEarned`), `NothingIsEverForgotten`, `ProfileAlwaysSumsTheLedger`
  (`ProfilesCount`, `ProfilesAddUp`) and `CountingIsExactlyOnce`: EventService implements
  ExactlyOnceScoring. That a profile *sums* its ledger is the hard one: `Points` is a sum
  of six awards, the ledger has a row for each award that is not zero, and both grow in
  one step.
* **EventPipelineProofs**: a step of the pipeline is a step of EventService or leaves it
  alone (`PipelineScores`), so whatever is proved of the event worker holds of the pipeline
  (`PipelineCountsExactlyOnce`). `OutboxIsSound`: an outbox worker that is not idle holds the
  lock of a pending row, it is told of a confirm after the queue has the message, and no
  other row is published. With `NothingIsForgotten` this gives `SomebodyAlwaysHasIt`.
  `DuplicatesAlwaysComeFromFaults` weighs copies against settled rows and failures: a step
  adds a copy to a row that becomes settled, or a failure (`WhatACopyCosts`).
* **TransactionIntakeProofs**: `Inv` relates what `create` and the scoring session know of
  each other (`AnswersOK`, `VerdictsOK`), rows, counters and locks: who has the next
  number holds the row of the year (`CountersOK`), the numbers given are the counter's
  (`NumbersOK`), and a profile that was found eligible under its lock still has capacity
  (`LocksOK`). Then `NumbersAreConsecutive` and `NobodySlips` hold without hypotheses.
  `NobodyIsOverbooked` has the hypothesis `RoomIsKept`: no synchronisation lowers a
  capacity, and nobody is synchronised twice; finding 2 shows that it is needed.
  `CasesCount` and `TheLoadIsBalanced` have `OnlyNewcomers`: the synchronisation creates
  profiles and overwrites none, since one that does replaces `active_cases` by what the
  request says. Both are conditions on the constants, and the runs of these properties
  satisfy them.
* **IdentityServiceProofs**: `Inv` says of each request (`JobOK`) which rows it has read,
  holds and waits for, that the rows it holds are as it read them, and that a row has one
  holder (`OneHolder`); `TokensOK`, `AccountsOK`, `CodesOK` relate the rows to each other.
  Then `OneLiveToken`, `ReusedSessionsStayEnded`, `EveryMissCounts` and
  `EveryCodeWorksOnce`; the last needs `EachHasACode`: there are as many codes used up
  with success as registrations and customer logins, so that each has its own.
  `AuditIsTrue` adds `AuditOK`, that each audit row has its deed.
* **WorkspacesProofs** (`PagesSpec`): the pages lock nothing, so `Inv` says what stays true
  of a *copy* while the services move on (`ReplyKept`), of those that are shown and of those
  on their way. A question in a customer's copy was asked (`CopyOK`), and what is shown was
  told; so a request to answer is to a question when it is sent and still when it arrives,
  be it late (`RequestsInv`): `CustomersAnswerQuestions`. A profile's number of cases is
  behind the table, and if its badges, which are read later, show none, it is behind the
  cases that earn none (`ViewOK`): `BadgesKeepUp`. That the other order of statements would
  not do is what the mutant `ReadBadgeFirst` shows. `ServiceInv` keeps each decision
  announced once, so that what a counted case earned stays settled (`SameConfirmed`).
* **FinalAcceptanceProofs**: a script is a sequence of commands over four databases, with
  the workers and, where the property allows it, users beside it. None of the four
  properties is inductive: each is about the end of a script, so `Inv` says at every step
  what the steps before it have achieved and what cannot undo it. `RowsOK`: only a decided
  or deleted transaction has an event, and points are counted cases. `ResetOK`,
  `PrepareOK`: what the commands of an undisturbed reset, or of a preparation, have done
  so far; a reset that began on a drained platform leaves the workers nothing, so what it
  read is still so when it writes. `SceneOK`: the clean scene stays until the acceptance
  run begins. `AiOK`: a stop of the AI Service is followed by a start, or a failure
  accounts for it. `SmoothOK`, `GoldenOK`: in an acceptance run in which nothing fails,
  all steps of a lower `Rank` have passed, and the golden case is where its next step
  needs it, with its event the only one the workers have, be it delivered twice.
  `NeedsBefore` is the reason the run gets to its end: what a step needs comes before it.
  One lemma per action keeps each part. Then `ScriptsInvariant`, `AiAlwaysComesBack`,
  `ResetIsClean` and `RunbookAlwaysEndsReady`; `ResetTakesOnlyTheDemos` is an action
  property, and only the step that deletes can break it (`DeleteTakes`, `OthersKept`).
* Sums and extremes: that a sum over a set of ledger rows, or of copies in the queue,
  grows by what is added is proved in EventServiceProofs (`SumAdd`) from the definition of
  `MapThenSumSet`. Induction over sets is out of reach as a schema, so each such lemma is
  a least counterexample (`LeastSubset`): of the subsets for which the claim fails one is
  smallest, and taking an element out of it leaves one for which it holds. `LeastNumber`
  and `GreatestNumber` follow from well-founded orders in the same way.

Only model-checked: the liveness properties (`EveryRequestEnds`, `EveryCreateEnds`,
`EveryScoringEnds`, `EventuallyCounted`, `PagesCatchUp`, the identity requests' end),
because fairness and ENABLED are out of the prover's reach.

## 6. What is left

The weekly rank and the recent scores of a profile; creating a transaction from the
customer's page. Of the proofs only liveness is left, which stays with TLC.

### Not modelled

The trained model, its features, data set and training (numerical, no state; the model's
answer is any score of `Score`); the gateway's routing and rate limits (declarative); the
contract examples and their validator (they compare documents); the fault and smoke
scripts (drivers whose scenarios are behaviours of `EventPipeline` and
`TransactionIntake`); the login and leaderboard pages and the session storage of the
frontend; read endpoints other than those the pages poll; request validation beyond what
a property tells apart. A poison message that fails for ever is requeued for ever by
the code; the models bound failures and say nothing about it.

Simplified, without effect on what is stated: a page that is opened again starts without
`seenNotifications`, so that "told once" is a promise of one instance of the page; `late` of
`Workspaces` keeps the last request a page gave up, not all of them; a POST whose failure
`final_acceptance.py` reports had no effect (`BreakStep`); the script's logins are refused
only if the account is locked (`LogInAt`).
