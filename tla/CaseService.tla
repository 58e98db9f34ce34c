----------------------------- MODULE CaseService -----------------------------
(***************************************************************************)
(* The case endpoints of the Transaction Service (routes/cases.py,         *)
(* CaseService, CaseTransitionService, CaseRepository) as concurrent API   *)
(* sessions over one PostgreSQL database.  A session takes the row lock of *)
(* its case and reads the row, later checks the request against what it    *)
(* read and commits or rolls back, and only after the commit reloads the   *)
(* case to render the reply, so that a reply can be lost when its effect   *)
(* is not.  A client may repeat a request whose reply it did not get.      *)
(***************************************************************************)
EXTENDS Integers, Sequences

CONSTANTS
  CaseId,            \* the identifiers a request can name
  Case,              \* those that exist in risk_cases
  Analyst,           \* users with the ANALYST role
  Assignee,          \* the ids a case can be assigned to: neither the endpoint
                     \* nor the AI Service looks at the role behind an id
  Customer,          \* users with the CUSTOMER role
  Supervisor,        \* users with the SUPERVISOR role
  Rating,            \* the ratings FeedbackRequest accepts
  Session,           \* database sessions, one per request being served
  Null,              \* None, NULL
  Owner,             \* Owner[c]: the customer whose transaction c reviews
  SlaDue,            \* SlaDue[c]: sla_due_at, counted from created_at
  Scored,            \* what AI scoring can have written in a transaction
  Requests,          \* the requests the clients of this instance send
  MaxTime,           \* bound: the clock stops here
  MaxHistory,        \* bound: no verification is asked once a history is this long
  MaxRetries         \* bound: how often a client repeats a lost request

VARIABLES
  now,               \* wall clock; every case is created at 0
  risk_case,         \* table risk_cases, by id
  transaction,       \* the reviewed transaction's decision and block, by case
  history,           \* table case_history: each case's rows, in commit order
  feedback,          \* table customer_feedback: the case's rating, or Null
  outbox,            \* table outbox_events, in commit order
  lock,              \* lock[c]: the session holding the row lock of c, or Null
  pc,                \* pc[s]: where session s is
  request,           \* request[s]: the request s serves, or Null
  seen,              \* seen[s]: the row and feedback s read under its lock, or Null
  applied,           \* applied[s]: commits made so far for request[s], retries included
  tries              \* tries[s]: how often request[s] was repeated

db   == <<risk_case, transaction, history, feedback, outbox>>
vars == <<now, db, lock, pc, request, seen, applied, tries>>
------------------------------------------------------------------------------
Time == 0..MaxTime

CaseStatus == {"YENI", "ATANDI", "INCELENIYOR", "MUSTERI_DOGRULAMA",
               "ONAYLANDI", "BLOKLANDI", "KAPANDI"}
TransactionDecision == {"ONAY", "INCELEME", "BLOK"}
CaseDecision     == {"ONAYLANDI", "BLOKLANDI"}
CustomerResponse == {"BEN_YAPTIM", "BEN_YAPMADIM", "YANIT_YOK"}
GivenResponse    == CustomerResponse \ {"YANIT_YOK"}

(* The request bodies the schemas let through, sent by the role each route *)
(* requires.  A note is present or not once it has been trimmed.           *)
RequestType ==
  [op: {"assign"}, case: CaseId, by: Supervisor, analyst: Assignee]
    \cup [op: {"start", "request_verification"}, case: CaseId, by: Analyst]
    \cup [op: {"customer_response"}, case: CaseId, by: Customer, response: GivenResponse]
    \cup [op: {"decide"}, case: CaseId, by: Analyst, decision: CaseDecision, note: BOOLEAN]
    \cup [op: {"close"}, case: CaseId, by: Supervisor]
    \cup [op: {"submit_feedback"}, case: CaseId, by: Customer, rating: Rating]

RiskCase ==
  [status: CaseStatus, assigned_analyst_id: Assignee \cup {Null},
   decision_note: BOOLEAN, customer_response: GivenResponse \cup {Null},
   assigned_at: Time \cup {Null}, started_at: Time \cup {Null},
   verification_requested_at: Time \cup {Null}, decided_at: Time \cup {Null},
   closed_at: Time \cup {Null}]

Transaction == [decision: TransactionDecision, temporary_blocked: BOOLEAN]

HistoryRow == [from_status: CaseStatus \cup {Null}, to_status: CaseStatus, created_at: Time]

OutboxEvent ==
  [type: {"case.decision_made"}, case: Case, analyst_id: Analyst, decision: CaseDecision,
   customer_response: CustomerResponse, resolution_seconds: Time, sla_exceeded: BOOLEAN]
    \cup [type: {"feedback.submitted"}, case: Case, customer_id: Customer, rating: Rating]

ASSUME ConstantsOK ==
  /\ Case \subseteq CaseId
  /\ Owner \in [Case -> Customer]
  /\ SlaDue \in [Case -> Nat]
  /\ MaxTime \in Nat
  /\ MaxHistory \in Nat
  /\ MaxRetries \in Nat
  /\ Scored \subseteq Transaction
  /\ Requests \subseteq RequestType
  /\ Analyst \subseteq Assignee
  /\ Null \notin Assignee /\ Null \notin Session /\ Null \notin Rating /\ Null \notin Int
  /\ Null \notin RequestType /\ Null \notin CustomerResponse \cup CaseStatus
------------------------------------------------------------------------------
(* Mutants are defined next to what they change: each is a plausible bug   *)
(* that one of the properties must expose (PROJECT.json, "mutants").       *)
Reopening ==
  [YENI |-> {"ATANDI"}, ATANDI |-> {"INCELENIYOR"},
   INCELENIYOR |-> {"MUSTERI_DOGRULAMA", "ONAYLANDI", "BLOKLANDI"},
   MUSTERI_DOGRULAMA |-> {"INCELENIYOR"}, ONAYLANDI |-> {"KAPANDI", "INCELENIYOR"},
   BLOKLANDI |-> {"KAPANDI"}, KAPANDI |-> {}]
Reassigning ==
  [YENI |-> {"ATANDI"}, ATANDI |-> {"ATANDI", "INCELENIYOR"},
   INCELENIYOR |-> {"MUSTERI_DOGRULAMA", "ONAYLANDI", "BLOKLANDI"},
   MUSTERI_DOGRULAMA |-> {"INCELENIYOR"}, ONAYLANDI |-> {"KAPANDI"},
   BLOKLANDI |-> {"KAPANDI"}, KAPANDI |-> {}]

AllowedTransitions ==
  [YENI              |-> {"ATANDI"},
   ATANDI            |-> {"INCELENIYOR"},
   INCELENIYOR       |-> {"MUSTERI_DOGRULAMA", "ONAYLANDI", "BLOKLANDI"},
   MUSTERI_DOGRULAMA |-> {"INCELENIYOR"},
   ONAYLANDI         |-> {"KAPANDI"},
   BLOKLANDI         |-> {"KAPANDI"},
   KAPANDI           |-> {}]

(* The row after CaseTransitionService.transition to status `to` at t.     *)
Transitioned(row, to, t) ==
  CASE to = "ATANDI"            -> [row EXCEPT !.status = to, !.assigned_at = t]
    [] to = "INCELENIYOR"       -> [row EXCEPT !.status = to,
                                      !.started_at = IF @ = Null THEN t ELSE @]
    [] to = "MUSTERI_DOGRULAMA" -> [row EXCEPT !.status = to, !.verification_requested_at = t]
    [] to \in CaseDecision      -> [row EXCEPT !.status = to, !.decided_at = t]
    [] to = "KAPANDI"           -> [row EXCEPT !.status = to, !.closed_at = t]

(* The status each handler asks the transition service for.                *)
Target(q) ==
  CASE q.op = "assign"               -> "ATANDI"
    [] q.op = "start"                -> "INCELENIYOR"
    [] q.op = "request_verification" -> "MUSTERI_DOGRULAMA"
    [] q.op = "customer_response"    -> "INCELENIYOR"
    [] q.op = "decide"               -> q.decision
    [] q.op = "close"                -> "KAPANDI"

(* _require_assigned for the analyst's handlers, the ownership test of the *)
(* customer's; the supervisor's have neither.                              *)
Authorized(q, v) ==
  /\ q.op \in {"start", "request_verification", "decide"} => v.row.assigned_analyst_id = q.by
  /\ q.op \in {"customer_response", "submit_feedback"} => Owner[q.case] = q.by

(* Mutant: feedback as soon as there is a verdict.                         *)
FeedbackOnceDecided(v) == v.row.status \in CaseDecision \cup {"KAPANDI"} /\ v.feedback = Null

FeedbackOpen(v) == v.row.status = "KAPANDI" /\ v.feedback = Null

NoteGiven(q) == q.op = "decide" /\ q.decision = "BLOKLANDI" => q.note

Accepts(q, v) ==
  /\ Authorized(q, v)
  /\ IF q.op = "submit_feedback" THEN FeedbackOpen(v)
     ELSE NoteGiven(q) /\ Target(q) \in AllowedTransitions[v.row.status]

(* The row as the handler edits it before it asks for the transition.      *)
Edited(q, row) ==
  CASE q.op = "assign"            -> [row EXCEPT !.assigned_analyst_id = q.analyst]
    [] q.op = "customer_response" -> [row EXCEPT !.customer_response = q.response]
    [] q.op = "decide"            -> [row EXCEPT !.decision_note = q.note]
    [] OTHER                      -> row

(* _decision_payload, from the decided row.                                *)
DecisionEvent(c, row, by) ==
  [type |-> "case.decision_made", case |-> c, analyst_id |-> by, decision |-> row.status,
   customer_response |-> IF row.customer_response = Null THEN "YANIT_YOK"
                         ELSE row.customer_response,
   resolution_seconds |-> row.decided_at,
   sla_exceeded |-> row.decided_at > SlaDue[c]]

FeedbackEvent(c, q) ==
  [type |-> "feedback.submitted", case |-> c, customer_id |-> q.by, rating |-> q.rating]
------------------------------------------------------------------------------
(* A case as TransactionService.create commits it: YENI, or ATANDI in the  *)
(* same commit when the AI Service chose the analyst.                      *)
NewCase(a) ==
  [status |-> IF a = Null THEN "YENI" ELSE "ATANDI", assigned_analyst_id |-> a,
   decision_note |-> FALSE, customer_response |-> Null,
   assigned_at |-> IF a = Null THEN Null ELSE 0, started_at |-> Null,
   verification_requested_at |-> Null, decided_at |-> Null, closed_at |-> Null]

NewHistory(a) ==
  <<[from_status |-> Null, to_status |-> "YENI", created_at |-> 0]>>
    \o IF a = Null THEN <<>>
       ELSE <<[from_status |-> "YENI", to_status |-> "ATANDI", created_at |-> 0]>>

Init ==
  /\ now = 0
  /\ \E chosen \in [Case -> Assignee \cup {Null}] :
       /\ risk_case = [c \in Case |-> NewCase(chosen[c])]
       /\ history = [c \in Case |-> NewHistory(chosen[c])]
  /\ transaction \in [Case -> Scored]
  /\ feedback = [c \in Case |-> Null]
  /\ outbox = <<>>
  /\ lock = [c \in Case |-> Null]
  /\ pc = [s \in Session |-> "idle"]
  /\ request = [s \in Session |-> Null]
  /\ seen = [s \in Session |-> Null]
  /\ applied = [s \in Session |-> 0]
  /\ tries = [s \in Session |-> 0]
------------------------------------------------------------------------------
(* A client sends a request; it reaches its handler in session s.          *)
Send(s) ==
  /\ pc[s] = "idle"
  /\ \E q \in Requests :
       /\ q.op = "request_verification" /\ q.case \in Case => Len(history[q.case]) < MaxHistory
       /\ request' = [request EXCEPT ![s] = q]
  /\ pc' = [pc EXCEPT ![s] = "waiting"]
  /\ UNCHANGED <<now, db, lock, seen, applied, tries>>

(* The session s is done with its request, whatever came of it.            *)
Finished(s) ==
  /\ pc' = [pc EXCEPT ![s] = "idle"]
  /\ request' = [request EXCEPT ![s] = Null]
  /\ applied' = [applied EXCEPT ![s] = 0]
  /\ tries' = [tries EXCEPT ![s] = 0]

NotFound(s) ==
  /\ pc[s] = "waiting"
  /\ request[s].case \notin Case
  /\ Finished(s)
  /\ UNCHANGED <<now, db, lock, seen>>

(* Mutant: the row is read without FOR UPDATE.                             *)
NoRowLock(c) == TRUE

RowFree(c) == lock[c] = Null

(* SELECT ... FOR UPDATE, then the lazy loads under the lock.              *)
LockCase(s) ==
  LET c == request[s].case IN
  /\ pc[s] = "waiting"
  /\ c \in Case
  /\ RowFree(c)
  /\ lock' = [lock EXCEPT ![c] = s]
  /\ seen' = [seen EXCEPT ![s] = [row |-> risk_case[c], feedback |-> feedback[c]]]
  /\ pc' = [pc EXCEPT ![s] = "working"]
  /\ UNCHANGED <<now, db, request, applied, tries>>

(* Mutant: the end of a request leaves the row locked.                     *)
KeepLock(s) == UNCHANGED lock /\ seen' = [seen EXCEPT ![s] = Null]

(* COMMIT and ROLLBACK both give the row lock back.                        *)
Unlock(s) ==
  /\ lock' = [lock EXCEPT ![request[s].case] = Null]
  /\ seen' = [seen EXCEPT ![s] = Null]

Accepted(s, op) ==
  /\ pc[s] = "working"
  /\ request[s].op = op
  /\ Accepts(request[s], seen[s])

Committed(s) ==
  /\ Unlock(s)
  /\ pc' = [pc EXCEPT ![s] = "committed"]
  /\ applied' = [applied EXCEPT ![s] = @ + 1]
  /\ UNCHANGED <<now, request, tries>>

Moved(s) ==
  Transitioned(Edited(request[s], seen[s].row), Target(request[s]), now)

(* Mutant: the status is assigned before from_status is read.              *)
LateFromStatus(s) ==
  LET c == request[s].case IN
  /\ risk_case' = [risk_case EXCEPT ![c] = Moved(s)]
  /\ history' = [history EXCEPT ![c] =
       Append(@, [from_status |-> Moved(s).status,
                  to_status |-> Target(request[s]), created_at |-> now])]

(* What every transition writes: the edited row and one history row.       *)
WriteTransition(s) ==
  LET c == request[s].case IN
  /\ risk_case' = [risk_case EXCEPT ![c] = Moved(s)]
  /\ history' = [history EXCEPT ![c] =
       Append(@, [from_status |-> seen[s].row.status,
                  to_status |-> Target(request[s]), created_at |-> now])]

(* The handlers that only move the case.                                   *)
TransitionOnly(s, op) ==
  /\ Accepted(s, op)
  /\ WriteTransition(s)
  /\ Committed(s)
  /\ UNCHANGED <<transaction, feedback, outbox>>

Assign(s)              == TransitionOnly(s, "assign")
Start(s)               == TransitionOnly(s, "start")
RequestVerification(s) == TransitionOnly(s, "request_verification")
RecordResponse(s)      == TransitionOnly(s, "customer_response")
Close(s)               == TransitionOnly(s, "close")

(* Mutant: the case status is written where the transaction's belongs.     *)
JudgedByName(t, decision) == [t EXCEPT !.decision = decision]

(* The verdict on the transaction: a block also blocks it, an approval     *)
(* leaves temporary_blocked as scoring set it.                             *)
Judged(t, decision) ==
  IF decision = "BLOKLANDI" THEN [decision |-> "BLOK", temporary_blocked |-> TRUE]
  ELSE [t EXCEPT !.decision = "ONAY"]

(* Mutant: the event is added after the commit, and may never be.          *)
DecideThenAnnounce(s) ==
  LET c == request[s].case IN
  /\ Accepted(s, "decide")
  /\ WriteTransition(s)
  /\ transaction' = [transaction EXCEPT ![c] = Judged(@, request[s].decision)]
  /\ \/ outbox' = Append(outbox, DecisionEvent(c, Moved(s), request[s].by))
     \/ UNCHANGED outbox
  /\ Committed(s)
  /\ UNCHANGED feedback

Decide(s) ==
  LET c == request[s].case IN
  /\ Accepted(s, "decide")
  /\ WriteTransition(s)
  /\ transaction' = [transaction EXCEPT ![c] = Judged(@, request[s].decision)]
  /\ outbox' = Append(outbox, DecisionEvent(c, Moved(s), request[s].by))
  /\ Committed(s)
  /\ UNCHANGED feedback

(* The unique constraint on case_id refuses a second row at the flush.     *)
SubmitFeedback(s) ==
  LET c == request[s].case IN
  /\ Accepted(s, "submit_feedback")
  /\ feedback[c] = Null
  /\ feedback' = [feedback EXCEPT ![c] = request[s].rating]
  /\ outbox' = Append(outbox, FeedbackEvent(c, request[s]))
  /\ Committed(s)
  /\ UNCHANGED <<risk_case, transaction, history>>

(* Mutant: an authorised but refused request commits what it had edited.   *)
FlushEdits(s) ==
  LET c == request[s].case IN
  /\ risk_case' = [risk_case EXCEPT ![c] =
       IF Authorized(request[s], seen[s]) THEN Edited(request[s], @) ELSE @]
  /\ UNCHANGED <<transaction, history, feedback, outbox>>

(* What a refusal leaves in the database: the session is rolled back by    *)
(* the handler or by get_db, and the edits made so far are dropped.        *)
DropEdits(s) == UNCHANGED db

(* 403, 409 or 422.                                                        *)
Refuse(s) ==
  /\ pc[s] = "working"
  /\ ~Accepts(request[s], seen[s])
  /\ DropEdits(s)
  /\ Unlock(s)
  /\ Finished(s)
  /\ UNCHANGED now

(* The process dies, the connection breaks or the commit fails: PostgreSQL *)
(* rolls back and frees the row; the client gets a 500 or nothing.         *)
Fail(s) ==
  /\ pc[s] = "working"
  /\ Unlock(s)
  /\ pc' = [pc EXCEPT ![s] = "lost"]
  /\ UNCHANGED <<now, db, request, applied, tries>>

(* The committed row is reloaded and rendered.                             *)
Reply(s) ==
  /\ pc[s] = "committed"
  /\ Finished(s)
  /\ UNCHANGED <<now, db, lock, seen>>

(* The reload or the process fails after the commit: a 500 for a request   *)
(* that took effect.                                                       *)
LoseReply(s) ==
  /\ pc[s] = "committed"
  /\ pc' = [pc EXCEPT ![s] = "lost"]
  /\ UNCHANGED <<now, db, lock, request, seen, applied, tries>>

(* The client of a lost request repeats it unchanged: there is no          *)
(* idempotency key, the handler runs again from the start.                 *)
Retry(s) ==
  /\ pc[s] = "lost"
  /\ tries[s] < MaxRetries
  /\ tries' = [tries EXCEPT ![s] = @ + 1]
  /\ pc' = [pc EXCEPT ![s] = "waiting"]
  /\ UNCHANGED <<now, db, lock, request, seen, applied>>

GiveUp(s) ==
  /\ pc[s] = "lost"
  /\ Finished(s)
  /\ UNCHANGED <<now, db, lock, seen>>

Tick ==
  /\ now < MaxTime
  /\ now' = now + 1
  /\ UNCHANGED <<db, lock, pc, request, seen, applied, tries>>

Handle(s) ==
  \/ Assign(s) \/ Start(s) \/ RequestVerification(s) \/ RecordResponse(s)
  \/ Decide(s) \/ Close(s) \/ SubmitFeedback(s) \/ Refuse(s)

Next ==
  \/ \E s \in Session :
       \/ Send(s) \/ NotFound(s) \/ LockCase(s) \/ Handle(s) \/ Fail(s)
       \/ Reply(s) \/ LoseReply(s) \/ Retry(s) \/ GiveUp(s)
  \/ Tick

Spec == Init /\ [][Next]_vars

(* A request that reached its handler is served: the server keeps running  *)
(* each session (weak), and PostgreSQL queues the waiters of a row lock,   *)
(* so one that waits is not overtaken forever (strong).  Clients owe       *)
(* nothing: they may never send, repeat or give up.                        *)
Fairness ==
  \A s \in Session :
    WF_vars(NotFound(s)) /\ SF_vars(LockCase(s)) /\ WF_vars(Handle(s)) /\ WF_vars(Reply(s))

FairSpec == Spec /\ Fairness
------------------------------------------------------------------------------
(***************************************************************************)
(* Correctness.                                                            *)
(***************************************************************************)

(* Every variable has the values its table, or its session, can hold.      *)
TypeOK ==
  /\ now \in Time
  /\ risk_case \in [Case -> RiskCase]
  /\ transaction \in [Case -> Transaction]
  /\ history \in [Case -> Seq(HistoryRow)]
  /\ feedback \in [Case -> Rating \cup {Null}]
  /\ outbox \in Seq(OutboxEvent)
  /\ lock \in [Case -> Session \cup {Null}]
  /\ pc \in [Session -> {"idle", "waiting", "working", "committed", "lost"}]
  /\ request \in [Session -> RequestType \cup {Null}]
  /\ seen \in [Session -> [row: RiskCase, feedback: Rating \cup {Null}] \cup {Null}]
  /\ applied \in [Session -> Nat]
  /\ tries \in [Session -> 0..MaxRetries]

DecisionEvents(c) ==
  {i \in DOMAIN outbox : outbox[i].type = "case.decision_made" /\ outbox[i].case = c}

FeedbackEvents(c) ==
  {i \in DOMAIN outbox : outbox[i].type = "feedback.submitted" /\ outbox[i].case = c}

Decided(c) == risk_case[c].status \in CaseDecision \cup {"KAPANDI"}

(* However requests on a case race, fail half way or are repeated, the     *)
(* outbox holds one decision event for a decided case and none for another *)
(* one: CaseService.decide commits the verdict and its event together.     *)
OneDecisionEvent ==
  \A c \in Case :
    /\ Decided(c) <=> DecisionEvents(c) # {}
    /\ \A i, j \in DecisionEvents(c) : i = j

(* What the event told the other services stays what the database says:    *)
(* the analyst, the verdict, the answer it was based on, the time, the SLA *)
(* and the block put on the transaction (_decision_payload against the row *)
(* and its transaction).                                                   *)
EventTellsTheCase ==
  \A c \in Case : \A i \in DecisionEvents(c) :
    LET e == outbox[i]  r == risk_case[c] IN
    /\ e.analyst_id = r.assigned_analyst_id
    /\ r.status \in {e.decision, "KAPANDI"}
    /\ e.customer_response = IF r.customer_response = Null THEN "YANIT_YOK"
                             ELSE r.customer_response
    /\ e.resolution_seconds = r.decided_at
    /\ e.sla_exceeded = (r.decided_at > SlaDue[c])
    /\ transaction[c].decision = IF e.decision = "BLOKLANDI" THEN "BLOK" ELSE "ONAY"
    /\ e.decision = "BLOKLANDI" => r.decision_note /\ transaction[c].temporary_blocked

Visits(c, st) == {i \in DOMAIN history[c] : history[c][i].to_status = st}
FirstVisit(c, st) ==
  IF Visits(c, st) = {} THEN Null
  ELSE history[c][CHOOSE i \in Visits(c, st) : \A j \in Visits(c, st) : i <= j].created_at
LastVisit(c, st) ==
  IF Visits(c, st) = {} THEN Null
  ELSE history[c][CHOOSE i \in Visits(c, st) : \A j \in Visits(c, st) : i >= j].created_at

(* The history of a case is a walk along the allowed transitions, from its *)
(* creation to its present status, in the order of its timestamps, and it  *)
(* accounts for the five timestamps of the row: started_at is the first    *)
(* start, verification_requested_at the last request.                      *)
HistoryTellsTheCase ==
  \A c \in Case :
    LET h == history[c]  r == risk_case[c] IN
    /\ h[1].from_status = Null /\ h[1].to_status = "YENI"
    /\ h[Len(h)].to_status = r.status
    /\ \A i \in 2..Len(h) :
         /\ h[i].from_status = h[i - 1].to_status
         /\ h[i].to_status \in AllowedTransitions[h[i].from_status]
         /\ h[i].created_at >= h[i - 1].created_at
    /\ r.assigned_at = FirstVisit(c, "ATANDI")
    /\ r.started_at = FirstVisit(c, "INCELENIYOR")
    /\ r.verification_requested_at = LastVisit(c, "MUSTERI_DOGRULAMA")
    /\ r.decided_at \in {FirstVisit(c, "ONAYLANDI"), FirstVisit(c, "BLOKLANDI")}
    /\ Decided(c) => r.decided_at # Null
    /\ r.closed_at = FirstVisit(c, "KAPANDI")

(* A rating is stored with its event, once per case, for a closed case,    *)
(* from the owner, and its event comes after the decision event.           *)
FeedbackFollowsClosure ==
  \A c \in Case :
    /\ feedback[c] # Null <=> FeedbackEvents(c) # {}
    /\ \A i, j \in FeedbackEvents(c) : i = j
    /\ \A i \in FeedbackEvents(c) :
         /\ risk_case[c].status = "KAPANDI"
         /\ outbox[i].customer_id = Owner[c]
         /\ outbox[i].rating = feedback[c]
         /\ \E j \in DecisionEvents(c) : j < i

(* Repeating a request that was lost after its commit does not take effect *)
(* again, for the requests that move a case out of a status for good.      *)
OneWayRequestsApplyOnce ==
  \A s \in Session :
    request[s] # Null /\ request[s].op \in {"assign", "decide", "close", "submit_feedback"} =>
      applied[s] <= 1

(* Once decided, nothing but the closing changes a case: a late or         *)
(* repeated request can alter neither the row nor the transaction.         *)
DecisionIsFinal ==
  [][\A c \in Case : Decided(c) =>
        /\ transaction'[c] = transaction[c]
        /\ risk_case'[c] = [risk_case[c] EXCEPT !.status = risk_case'[c].status,
                                                !.closed_at = risk_case'[c].closed_at]]_vars

(* An assigned case is never handed to another analyst, though assign sets *)
(* the analyst before it learns that the case is not YENI.                 *)
AssignmentIsFinal ==
  [][\A c \in Case : risk_case[c].assigned_analyst_id # Null =>
        risk_case'[c].assigned_analyst_id = risk_case[c].assigned_analyst_id]_vars

(* The README of the Transaction Service: "Customer response yalnizca      *)
(* MUSTERI_DOGRULAMA -> INCELENIYOR gecisinde kabul edilir" (an answer is  *)
(* accepted only on that transition).                                      *)
AnsweredOnlyWhenAsked ==
  [][\A c \in Case : risk_case'[c].customer_response # risk_case[c].customer_response =>
        risk_case[c].status = "MUSTERI_DOGRULAMA"]_vars

(* Every request that reaches its handler is answered or visibly lost: no  *)
(* session keeps a row lock for ever, whatever happens to it.              *)
EveryRequestEnds ==
  \A s \in Session : pc[s] = "waiting" ~> pc[s] \in {"idle", "lost"}

(* The database behaves as CaseLifecycle promises.                         *)
Announcement(e) ==
  IF e.type = "case.decision_made"
  THEN [type |-> e.type, case |-> e.case, verdict |-> e.decision, analyst |-> e.analyst_id,
        answer |-> IF e.customer_response = "YANIT_YOK" THEN Null ELSE e.customer_response]
  ELSE [type |-> e.type, case |-> e.case, rating |-> e.rating]

Lifecycle == INSTANCE CaseLifecycle WITH
  Analyst <- Assignee,
  status  <- [c \in Case |-> risk_case[c].status],
  analyst <- [c \in Case |-> risk_case[c].assigned_analyst_id],
  answer  <- [c \in Case |-> risk_case[c].customer_response],
  log     <- [i \in 1..Len(outbox) |-> Announcement(outbox[i])]

ImplementsLifecycle == Lifecycle!Spec
==============================================================================
