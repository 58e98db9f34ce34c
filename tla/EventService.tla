---------------------------- MODULE EventService ----------------------------
(***************************************************************************)
(* The worker of the Gamification Service: handle_delivery takes a message *)
(* of the case decision queue, EventService.process scores it in one       *)
(* database transaction, and the message is acknowledged after the commit. *)
(* Several workers may run, each step of the transaction that another one  *)
(* can come between is an action here, and a worker may fail, lose RabbitMQ*)
(* or lose PostgreSQL at any of them.  RabbitMQ is the bag `queue`.        *)
(***************************************************************************)
EXTENDS ScoringRules, FiniteSets, FiniteSetsExt

CONSTANTS
  Event,           \* the events, by event_id
  EventType,       \* EventType[e]; "invalid" is what process refuses
  Analyst,         \* the analysts of the decisions
  AnalystOf,       \* AnalystOf[e]: payload.analyst_id of decision e
  Data,            \* Data[e]: the scored part of the payload of decision e
  Worker,          \* consumer processes
  Null,            \* None, no row
  MaxCopies,       \* bound: how often one event is published
  MaxPublished,    \* bound: how many messages are published
  MaxFaults        \* bound: how many failures a behaviour has

DecisionEvent == {e \in Event : EventType[e] = "case.decision_made"}
FeedbackEvent == {e \in Event : EventType[e] = "feedback.submitted"}

ProfileRow == [total_points: Int, resolved_cases: Nat, level: Level]

ASSUME EventServiceConstants ==
  /\ EventType \in [Event -> {"case.decision_made", "feedback.submitted", "invalid"}]
  /\ AnalystOf \in [DecisionEvent -> Analyst]
  /\ Data \in [DecisionEvent -> CaseDecisionData]
  /\ MaxCopies \in Nat /\ MaxPublished \in Nat
  /\ MaxFaults \in Nat
  /\ Null \notin Event /\ Null \notin Worker /\ Null \notin ProfileRow

VARIABLES
  published,       \* published[e]: copies of e the broker was given
  queue,           \* queue[e]: copies of e ready for delivery
  processed,       \* table processed_events
  profile,         \* table analyst_profiles: a row, or Null
  ledger,          \* table score_ledger
  badges,          \* table badges (the only code is ILK_YAKALAMA)
  lock,            \* lock[a]: the worker whose transaction holds a's row or key
  pc,              \* pc[w]: where handle_delivery is in worker w
  delivery,        \* delivery[w]: the event w handles, or Null
  unacked,         \* unacked[w]: the broker still waits for w's answer
  seen,            \* seen[w]: the profile w read under its lock, or Null
  faults           \* failures so far

tables == <<processed, profile, ledger, badges>>
vars == <<published, queue, tables, lock, pc, delivery, unacked, seen, faults>>
-----------------------------------------------------------------------------
(* The defaults of AnalystProfile.                                         *)
NewProfile == [total_points |-> 0, resolved_cases |-> 0, level |-> "BRONZ"]

Init ==
  /\ published = [e \in Event |-> 0]
  /\ queue = [e \in Event |-> 0]
  /\ processed = {}
  /\ profile = [a \in Analyst |-> Null]
  /\ ledger = {}
  /\ badges = {}
  /\ lock = [a \in Analyst |-> Null]
  /\ pc = [w \in Worker |-> "idle"]
  /\ delivery = [w \in Worker |-> Null]
  /\ unacked = [w \in Worker |-> FALSE]
  /\ seen = [w \in Worker |-> Null]
  /\ faults = 0
-----------------------------------------------------------------------------
(* The outbox worker publishes e, perhaps not for the first time.          *)
Publish(e) ==
  /\ published[e] < MaxCopies
  /\ MapThenSumSet(LAMBDA x : published[x], Event) < MaxPublished
  /\ published' = [published EXCEPT ![e] = @ + 1]
  /\ queue' = [queue EXCEPT ![e] = @ + 1]
  /\ UNCHANGED <<tables, lock, pc, delivery, unacked, seen, faults>>

Deliver(w) ==
  /\ pc[w] = "idle"
  /\ \E e \in Event :
       /\ queue[e] > 0
       /\ queue' = [queue EXCEPT ![e] = @ - 1]
       /\ delivery' = [delivery EXCEPT ![w] = e]
  /\ unacked' = [unacked EXCEPT ![w] = TRUE]
  /\ pc' = [pc EXCEPT ![w] = "received"]
  /\ UNCHANGED <<published, tables, lock, seen, faults>>

Goto(w, label) == pc' = [pc EXCEPT ![w] = label]

(* Validation, then is_processed, before any lock is taken.                *)
CheckProcessed(w) ==
  LET e == delivery[w] IN
  /\ pc[w] = "received"
  /\ Goto(w, CASE EventType[e] = "invalid" -> "reject"
               [] e \in processed -> "ack"
               [] e \in DecisionEvent \ processed -> "selecting"
               [] e \in FeedbackEvent \ processed -> "marking")
  /\ UNCHANGED <<published, queue, tables, lock, delivery, unacked, seen, faults>>

Marked(e) == processed \cup {e}

(* _mark_processed: the insert and the commit, or the IntegrityError.      *)
MarkProcessed(w) ==
  LET e == delivery[w] IN
  /\ pc[w] = "marking"
  /\ processed' = Marked(e)
  /\ Goto(w, IF e \in processed THEN "conflict" ELSE "ack")
  /\ UNCHANGED <<published, queue, profile, ledger, badges, lock, delivery, unacked, seen, faults>>

(* Mutant: get_profile without for_update waits for nobody.                *)
NoProfileLock(a) == TRUE

RowFree(a) == lock[a] = Null

Hold(w, a, row) ==
  /\ lock' = [lock EXCEPT ![a] = w]
  /\ seen' = [seen EXCEPT ![w] = row]
  /\ Goto(w, "scoring")

(* SELECT ... FOR UPDATE: waits for the row, if there is one; a row that   *)
(* another transaction has inserted and not committed is not there.        *)
SelectProfile(w) ==
  LET a == AnalystOf[delivery[w]] IN
  /\ pc[w] = "selecting"
  /\ \/ /\ profile[a] = Null
        /\ Goto(w, "inserting")
        /\ UNCHANGED <<lock, seen>>
     \/ /\ profile[a] # Null
        /\ RowFree(a)
        /\ Hold(w, a, profile[a])
  /\ UNCHANGED <<published, queue, tables, delivery, unacked, faults>>

(* The flush of the first row of an analyst: it waits for the transaction  *)
(* that inserts the same key, and conflicts with it if that one commits.   *)
InsertProfile(w) ==
  LET a == AnalystOf[delivery[w]] IN
  /\ pc[w] = "inserting"
  /\ \/ /\ profile[a] = Null
        /\ lock[a] = Null
        /\ Hold(w, a, NewProfile)
     \/ /\ profile[a] # Null
        /\ Goto(w, "conflict")
        /\ UNCHANGED <<lock, seen>>
  /\ UNCHANGED <<published, queue, tables, delivery, unacked, faults>>

(* COMMIT and ROLLBACK end w's hold on the row.                            *)
Release(w) ==
  /\ lock' = [a \in Analyst |-> IF lock[a] = w THEN Null ELSE lock[a]]
  /\ seen' = [seen EXCEPT ![w] = Null]

NewRows(e) ==
  {[event_id |-> e, analyst_id |-> AnalystOf[e], reason |-> r, points |-> Worth[r]] :
     r \in Awards(Data[e])}

ScoredProfile(row, e) ==
  LET total == row.total_points + Points(Data[e]) IN
  [total_points |-> total, resolved_cases |-> row.resolved_cases + 1, level |-> LevelFor(total)]

(* Mutant: every block counts as a catch, whatever the customer said.      *)
EveryBlock(a, e) ==
  IF Data[e].decision = "BLOKLANDI" /\ \A b \in badges : b.analyst_id # a
  THEN {[analyst_id |-> a, source_event_id |-> e]} ELSE {}

NewBadges(a, e) ==
  IF ConfirmedFraud(Data[e]) /\ \A b \in badges : b.analyst_id # a
  THEN {[analyst_id |-> a, source_event_id |-> e]} ELSE {}

(* The unique constraints of processed_events, score_ledger and badges.    *)
Conflicts(e) ==
  \/ e \in processed
  \/ \E row \in ledger : row.event_id = e /\ row.reason \in Awards(Data[e])
  \/ \E b \in NewBadges(AnalystOf[e], e), old \in badges : b.analyst_id = old.analyst_id

(* From score_case to the commit, under the lock of the profile.           *)
CommitScore(w) ==
  LET e == delivery[w]  a == AnalystOf[e] IN
  /\ pc[w] = "scoring"
  /\ ~Conflicts(e)
  /\ ledger' = ledger \cup NewRows(e)
  /\ profile' = [profile EXCEPT ![a] = ScoredProfile(seen[w], e)]
  /\ badges' = badges \cup NewBadges(a, e)
  /\ processed' = Marked(e)
  /\ Release(w)
  /\ UNCHANGED <<published, queue, delivery, unacked>>

Score(w) == CommitScore(w) /\ Goto(w, "ack") /\ UNCHANGED faults

(* IntegrityError: the transaction is rolled back, a new profile with it.  *)
ScoreConflict(w) ==
  /\ pc[w] = "scoring"
  /\ Conflicts(delivery[w])
  /\ Release(w)
  /\ Goto(w, "conflict")
  /\ UNCHANGED <<published, queue, tables, delivery, unacked, faults>>

(* After an IntegrityError: the same event was processed meanwhile, or the *)
(* error is raised and the message requeued.                               *)
Recheck(w) ==
  /\ pc[w] = "conflict"
  /\ Goto(w, IF delivery[w] \in processed THEN "ack" ELSE "nack")
  /\ UNCHANGED <<published, queue, tables, lock, delivery, unacked, seen, faults>>

Finished(w) ==
  /\ Goto(w, "idle")
  /\ delivery' = [delivery EXCEPT ![w] = Null]
  /\ unacked' = [unacked EXCEPT ![w] = FALSE]

Ack(w) ==
  /\ pc[w] = "ack" /\ unacked[w]
  /\ Finished(w)
  /\ UNCHANGED <<published, queue, tables, lock, seen, faults>>

(* Mutant: requeue=False for a failure that may be temporary.              *)
Dropped(e) == queue

Requeued(e) == [queue EXCEPT ![e] = @ + 1]

Nack(w) ==
  /\ pc[w] = "nack" /\ unacked[w]
  /\ queue' = Requeued(delivery[w])
  /\ Finished(w)
  /\ UNCHANGED <<published, tables, lock, seen, faults>>

Reject(w) ==
  /\ pc[w] = "reject" /\ unacked[w]
  /\ Finished(w)
  /\ UNCHANGED <<published, queue, tables, lock, seen, faults>>

(* Answering on a lost channel raises, and run() connects again.           *)
Reconnect(w) ==
  /\ pc[w] \in {"ack", "nack", "reject"} /\ ~unacked[w]
  /\ Finished(w)
  /\ UNCHANGED <<published, queue, tables, lock, seen, faults>>
-----------------------------------------------------------------------------
Fault == faults < MaxFaults /\ faults' = faults + 1

InTransaction(w) == pc[w] \in {"received", "marking", "selecting", "inserting", "scoring", "conflict"}

(* The database fails the transaction: rollback, and the message goes back.*)
DatabaseError(w) ==
  /\ Fault
  /\ InTransaction(w)
  /\ Release(w)
  /\ Goto(w, "nack")
  /\ UNCHANGED <<published, queue, tables, delivery, unacked>>

(* The connection breaks during the commit, which PostgreSQL completes.    *)
CommitUnseen(w) == Fault /\ CommitScore(w) /\ Goto(w, "nack")

(* RabbitMQ gives the worker up, e.g. for a missed heartbeat, and requeues *)
(* its message, while the transaction goes on.                             *)
LoseBroker(w) ==
  /\ Fault
  /\ unacked[w]
  /\ unacked' = [unacked EXCEPT ![w] = FALSE]
  /\ queue' = [queue EXCEPT ![delivery[w]] = @ + 1]
  /\ UNCHANGED <<published, tables, lock, pc, delivery, seen>>

(* The worker process dies and is started again.                           *)
Crash(w) ==
  /\ Fault
  /\ pc[w] # "idle"
  /\ queue' = IF unacked[w] THEN [queue EXCEPT ![delivery[w]] = @ + 1] ELSE queue
  /\ Release(w)
  /\ Finished(w)
  /\ UNCHANGED <<published, tables>>

Work(w) ==
  \/ CheckProcessed(w) \/ MarkProcessed(w) \/ Score(w) \/ ScoreConflict(w) \/ Recheck(w)
  \/ Ack(w) \/ Nack(w) \/ Reject(w) \/ Reconnect(w)

Step(w) ==
  \/ Deliver(w) \/ SelectProfile(w) \/ InsertProfile(w) \/ Work(w)
  \/ DatabaseError(w) \/ CommitUnseen(w) \/ LoseBroker(w) \/ Crash(w)

Next == (\E e \in Event : Publish(e)) \/ (\E w \in Worker : Step(w))

Spec == Init /\ [][Next]_vars
-----------------------------------------------------------------------------
(***************************************************************************)
(* Correctness.                                                            *)
(***************************************************************************)

LedgerOf(a) == {row \in ledger : row.analyst_id = a}
Counted(a) == {e \in processed \cap DecisionEvent : AnalystOf[e] = a}

(* The ledger is the decisions that are processed, each in full, and a     *)
(* profile is the summary of its ledger, whichever workers score an        *)
(* analyst's decisions at the same time and whatever is redelivered: the   *)
(* points add up, every counted decision is one resolved case, and the     *)
(* level is that of the points.                                            *)
ProfileSumsTheLedger ==
  /\ ledger = UNION {NewRows(e) : e \in processed \cap DecisionEvent}
  /\ \A a \in Analyst :
       IF profile[a] = Null THEN Counted(a) = {}
       ELSE /\ profile[a].total_points = MapThenSumSet(LAMBDA row : row.points, LedgerOf(a))
            /\ profile[a].resolved_cases = Cardinality(Counted(a))
            /\ profile[a].level = LevelFor(profile[a].total_points)

(* An analyst has the badge if and only if a confirmed fraud of theirs was *)
(* counted, and has it once.                                               *)
OneBadge ==
  \A a \in Analyst :
    LET mine == {b \in badges : b.analyst_id = a} IN
    /\ Cardinality(mine) <= 1
    /\ mine # {} <=> \E e \in Counted(a) : ConfirmedFraud(Data[e])
    /\ \A b \in mine : b.source_event_id \in Counted(a) /\ ConfirmedFraud(Data[b.source_event_id])

(* The queue never forgets: a valid event that was published is processed, *)
(* or a copy of it is in the queue or in the hands of a worker the broker  *)
(* still waits for (acknowledgement after the commit, requeue otherwise).  *)
NothingIsForgotten ==
  \A e \in DecisionEvent \cup FeedbackEvent :
    published[e] > 0 /\ e \notin processed =>
      queue[e] > 0 \/ \E w \in Worker : unacked[w] /\ delivery[w] = e

(* The tables count as ExactlyOnceScoring promises.                        *)
Promise == INSTANCE ExactlyOnceScoring WITH
  Decision <- DecisionEvent,
  Scorer   <- AnalystOf,
  Gain     <- [e \in DecisionEvent |-> Points(Data[e])],
  Caught   <- {e \in DecisionEvent : ConfirmedFraud(Data[e])},
  counted  <- processed \cap DecisionEvent,
  total    <- [a \in Analyst |-> IF profile[a] = Null THEN 0 ELSE profile[a].total_points],
  resolved <- [a \in Analyst |-> IF profile[a] = Null THEN 0 ELSE profile[a].resolved_cases],
  badge    <- [a \in Analyst |-> \E b \in badges : b.analyst_id = a]

CountsExactlyOnce == Promise!Spec
=============================================================================
