-------------------------- MODULE CaseServiceProofs --------------------------
(***************************************************************************)
(* What holds of CaseService for every number of cases, sessions, analysts *)
(* and retries.  The heart of every proof is Locking: a session that works *)
(* on a case holds its row lock and has seen the row as it still is, so    *)
(* the database changes only by the commit of a handler (StepKeepsInv)     *)
(* that found the case where its operation expects it (MovedFrom).  What a *)
(* request leaves behind is AppliedOK, what a history says of its row is   *)
(* HistoryOK.  The last part shows that CaseService implements             *)
(* CaseLifecycle.                                                          *)
(***************************************************************************)
EXTENDS CaseService, WellFoundedInduction, TLAPS

(* What a session keeps true until it has answered.                        *)
Serving(s) ==
  /\ pc[s] # "idle" => request[s] \in RequestType
  /\ pc[s] = "working" =>
       /\ request[s].case \in Case
       /\ lock[request[s].case] = s
       /\ seen[s] = [row |-> risk_case[request[s].case],
                     feedback |-> feedback[request[s].case]]

Locking == \A s \in Session : Serving(s)

Inv == TypeOK /\ Locking

Op == {"assign", "start", "request_verification", "customer_response", "decide", "close",
       "submit_feedback"}
------------------------------------------------------------------------------
(* Requests: the fields each operation brings.                             *)
LEMMA RequestFields ==
  ASSUME NEW q \in RequestType
  PROVE  /\ q.op \in Op
         /\ q.case \in CaseId
         /\ q.op = "assign" => q.analyst \in Assignee
         /\ q.op = "decide" => q.by \in Analyst /\ q.decision \in CaseDecision /\ q.note \in BOOLEAN
         /\ q.op = "customer_response" => q.by \in Customer /\ q.response \in GivenResponse
         /\ q.op = "submit_feedback" => q.by \in Customer /\ q.rating \in Rating
  BY DEF RequestType, Op

(* The columns a transition sets and those it leaves alone.                *)
LEMMA TransitionedRow ==
  ASSUME NEW r \in RiskCase, NEW to \in CaseStatus \ {"YENI"}, NEW t \in Time
  PROVE  /\ Transitioned(r, to, t) \in RiskCase
         /\ Transitioned(r, to, t).status = to
         /\ Transitioned(r, to, t).assigned_analyst_id = r.assigned_analyst_id
         /\ Transitioned(r, to, t).decision_note = r.decision_note
         /\ Transitioned(r, to, t).customer_response = r.customer_response
         /\ Transitioned(r, to, t).decided_at = IF to \in CaseDecision THEN t ELSE r.decided_at
         /\ to = "KAPANDI" =>
              Transitioned(r, to, t) = [r EXCEPT !.status = "KAPANDI", !.closed_at = t]
  <1>1. CASE to = "ATANDI"
    BY <1>1 DEF RiskCase, Transitioned, CaseStatus, CaseDecision
  <1>2. CASE to = "INCELENIYOR"
    BY <1>2 DEF RiskCase, Transitioned, CaseStatus, CaseDecision
  <1>3. CASE to = "MUSTERI_DOGRULAMA"
    BY <1>3 DEF RiskCase, Transitioned, CaseStatus, CaseDecision
  <1>4. CASE to \in CaseDecision
    BY <1>4 DEF RiskCase, Transitioned, CaseStatus, CaseDecision
  <1>5. CASE to = "KAPANDI"
    BY <1>5 DEF RiskCase, Transitioned, CaseStatus, CaseDecision
  <1> QED
    BY <1>1, <1>2, <1>3, <1>4, <1>5 DEF CaseStatus, CaseDecision

(* The handlers' edits keep a row a row, and touch three columns at most.  *)
LEMMA EditedRow ==
  ASSUME NEW r \in RiskCase, NEW q \in RequestType
  PROVE  /\ Edited(q, r) \in RiskCase
         /\ q.op # "assign" => Edited(q, r).assigned_analyst_id = r.assigned_analyst_id
         /\ q.op = "assign" => Edited(q, r).assigned_analyst_id = q.analyst
         /\ q.op # "customer_response" => Edited(q, r).customer_response = r.customer_response
         /\ q.op = "customer_response" => Edited(q, r).customer_response = q.response
         /\ q.op = "decide" => Edited(q, r).decision_note = q.note
         /\ q.op \notin {"assign", "customer_response", "decide"} => Edited(q, r) = r
         /\ Edited(q, r).decided_at = r.decided_at
  <1>1. CASE q.op = "assign"
    BY <1>1, RequestFields DEF RiskCase, Edited
  <1>2. CASE q.op = "customer_response"
    BY <1>2, RequestFields DEF RiskCase, Edited
  <1>3. CASE q.op = "decide"
    BY <1>3, RequestFields DEF RiskCase, Edited
  <1>4. CASE q.op \notin {"assign", "customer_response", "decide"}
    BY <1>4 DEF Edited
  <1> QED
    BY <1>1, <1>2, <1>3, <1>4

(* From where an accepted request takes a case, and to where.              *)
LEMMA AcceptedMove ==
  ASSUME NEW q \in RequestType, NEW v, v.row \in RiskCase, Accepts(q, v), q.op # "submit_feedback"
  PROVE  /\ Target(q) \in CaseStatus \ {"YENI"}
         /\ q.op = "assign" => v.row.status = "YENI"
         /\ q.op \in {"start", "customer_response"} => v.row.status \in {"ATANDI", "MUSTERI_DOGRULAMA"}
         /\ q.op \in {"request_verification", "decide"} => v.row.status = "INCELENIYOR"
         /\ q.op = "close" => v.row.status \in CaseDecision
         /\ q.op = "decide" => Target(q) = q.decision
         /\ q.op # "decide" => Target(q) \notin CaseDecision
         /\ Target(q) = "KAPANDI" => q.op = "close"
         /\ q.op = "close" => Target(q) = "KAPANDI"
         /\ q.op = "assign" => Target(q) = "ATANDI"
         /\ q.op \in {"start", "customer_response"} => Target(q) = "INCELENIYOR"
         /\ q.op = "request_verification" => Target(q) = "MUSTERI_DOGRULAMA"
         /\ q.op \in {"start", "request_verification", "decide"} =>
              v.row.assigned_analyst_id = q.by
  <1>1. /\ Authorized(q, v)
        /\ Target(q) \in AllowedTransitions[v.row.status]
        /\ v.row.status \in CaseStatus
        /\ q.op \in Op
    BY RequestFields DEF Accepts, RiskCase
  <1>2. q.op \in {"start", "request_verification", "decide"} => v.row.assigned_analyst_id = q.by
    BY <1>1 DEF Authorized
  <1>3. CASE q.op = "assign"
    BY <1>1, <1>2, <1>3 DEF Target, AllowedTransitions, CaseStatus, CaseDecision
  <1>4. CASE q.op = "start"
    BY <1>1, <1>2, <1>4 DEF Target, AllowedTransitions, CaseStatus, CaseDecision
  <1>5. CASE q.op = "request_verification"
    BY <1>1, <1>2, <1>5 DEF Target, AllowedTransitions, CaseStatus, CaseDecision
  <1>6. CASE q.op = "customer_response"
    BY <1>1, <1>2, <1>6 DEF Target, AllowedTransitions, CaseStatus, CaseDecision
  <1>7. CASE q.op = "decide"
    BY <1>1, <1>2, <1>7, RequestFields DEF Target, AllowedTransitions, CaseStatus, CaseDecision
  <1>8. CASE q.op = "close"
    BY <1>1, <1>2, <1>8 DEF Target, AllowedTransitions, CaseStatus, CaseDecision
  <1> QED
    BY <1>1, <1>3, <1>4, <1>5, <1>6, <1>7, <1>8 DEF Op

(* A session at work has the present row in front of it.                   *)
LEMMA WorkingSession ==
  ASSUME Inv, NEW s \in Session, pc[s] = "working"
  PROVE  /\ request[s] \in RequestType
         /\ request[s].case \in Case
         /\ lock[request[s].case] = s
         /\ seen[s] = [row |-> risk_case[request[s].case],
                       feedback |-> feedback[request[s].case]]
         /\ seen[s].row = risk_case[request[s].case]
         /\ seen[s].feedback = feedback[request[s].case]
         /\ risk_case[request[s].case] \in RiskCase
  BY DEF Inv, Locking, Serving, TypeOK

(* What an accepted transition makes of the row.                           *)
LEMMA MovedRow ==
  ASSUME Inv, NEW s \in Session, NEW op \in Op \ {"submit_feedback"}, Accepted(s, op)
  PROVE  LET q == request[s]  r == risk_case[q.case] IN
         /\ q.op = op
         /\ Moved(s) \in RiskCase
         /\ Moved(s).status = Target(q)
         /\ op # "assign" => Moved(s).assigned_analyst_id = r.assigned_analyst_id
         /\ op = "assign" => Moved(s).assigned_analyst_id = q.analyst
         /\ op # "customer_response" => Moved(s).customer_response = r.customer_response
         /\ op = "customer_response" => Moved(s).customer_response = q.response
         /\ op = "decide" => /\ Moved(s).decision_note = q.note
                             /\ Moved(s).status = q.decision
                             /\ Moved(s).decided_at = now
                             /\ r.assigned_analyst_id = q.by
                             /\ NoteGiven(q)
         /\ op = "close" => Moved(s) = [r EXCEPT !.status = "KAPANDI", !.closed_at = now]
         /\ op # "decide" => Moved(s).decided_at = r.decided_at
  <1> DEFINE q == request[s]
             r == risk_case[q.case]
             e == Edited(q, r)
  <1>1. /\ pc[s] = "working" /\ q.op = op /\ Accepts(q, seen[s])
    BY DEF Accepted
  <1>2. q \in RequestType /\ seen[s].row = r /\ r \in RiskCase
    BY <1>1, WorkingSession
  <1>3. e \in RiskCase
    BY <1>2, EditedRow
  <1>4. Target(q) \in CaseStatus \ {"YENI"} /\ now \in Time
    BY <1>1, <1>2, AcceptedMove DEF Inv, TypeOK
  <1>5. Moved(s) = Transitioned(e, Target(q), now)
    BY <1>2 DEF Moved
  <1> HIDE DEF e, q, r
  <1>6. /\ Moved(s) \in RiskCase
        /\ Moved(s).status = Target(q)
        /\ Moved(s).assigned_analyst_id = e.assigned_analyst_id
        /\ Moved(s).customer_response = e.customer_response
        /\ Moved(s).decision_note = e.decision_note
        /\ Moved(s).decided_at = IF Target(q) \in CaseDecision THEN now ELSE e.decided_at
        /\ Target(q) = "KAPANDI" => Moved(s) = [e EXCEPT !.status = "KAPANDI", !.closed_at = now]
    <2> DEFINE to == Target(q)
               m == Transitioned(e, to, now)
    <2>1. /\ m \in RiskCase
          /\ m.status = to
          /\ m.assigned_analyst_id = e.assigned_analyst_id
          /\ m.decision_note = e.decision_note
          /\ m.customer_response = e.customer_response
          /\ m.decided_at = IF to \in CaseDecision THEN now ELSE e.decided_at
          /\ to = "KAPANDI" => m = [e EXCEPT !.status = "KAPANDI", !.closed_at = now]
      <3>1. to \in CaseStatus \ {"YENI"}
        BY <1>4
      <3> HIDE DEF to
      <3> QED
        BY <1>3, <1>4, <3>1, TransitionedRow
    <2>2. Moved(s) = m
      BY <1>5
    <2> HIDE DEF m
    <2> QED
      BY <2>1, <2>2
  <1>7. /\ q.op # "assign" => e.assigned_analyst_id = r.assigned_analyst_id
        /\ q.op = "assign" => e.assigned_analyst_id = q.analyst
        /\ q.op # "customer_response" => e.customer_response = r.customer_response
        /\ q.op = "customer_response" => e.customer_response = q.response
        /\ q.op = "decide" => e.decision_note = q.note
        /\ q.op \notin {"assign", "customer_response", "decide"} => e = r
        /\ e.decided_at = r.decided_at
    BY <1>2, EditedRow DEF e
  <1>8. /\ q.op = "decide" => Target(q) = q.decision /\ r.assigned_analyst_id = q.by
        /\ q.op # "decide" => Target(q) \notin CaseDecision
        /\ q.op = "close" => Target(q) = "KAPANDI"
    BY <1>1, <1>2, AcceptedMove
  <1>9. q.op = "decide" => q.decision \in CaseDecision
    BY <1>2, RequestFields
  <1>10. NoteGiven(q)
    BY <1>1 DEF Accepts
  <1> QED
    BY <1>1, <1>6, <1>7, <1>8, <1>9, <1>10 DEF q, r

(* Where the case was, and where it goes.                                  *)
LEMMA MovedFrom ==
  ASSUME Inv, NEW s \in Session, NEW op \in Op \ {"submit_feedback"}, Accepted(s, op)
  PROVE  LET q == request[s]  from == risk_case[q.case].status IN
         /\ op = "assign" => from = "YENI"
         /\ op \in {"start", "customer_response"} => from \in {"ATANDI", "MUSTERI_DOGRULAMA"}
         /\ op \in {"request_verification", "decide"} => from = "INCELENIYOR"
         /\ op = "close" => from \in CaseDecision
         /\ op # "decide" => Target(q) \notin CaseDecision
         /\ Target(q) = "KAPANDI" => op = "close"
         /\ op = "close" => Target(q) = "KAPANDI"
         /\ op = "assign" => Target(q) = "ATANDI"
         /\ op \in {"start", "customer_response"} => Target(q) = "INCELENIYOR"
         /\ op = "request_verification" => Target(q) = "MUSTERI_DOGRULAMA"
         /\ Target(q) \in AllowedTransitions[from]
  <1>1. request[s] \in RequestType /\ seen[s].row = risk_case[request[s].case]
        /\ risk_case[request[s].case] \in RiskCase
    BY WorkingSession DEF Accepted
  <1>2. Accepts(request[s], seen[s]) /\ request[s].op = op
    BY DEF Accepted
  <1>3. Target(request[s]) \in AllowedTransitions[seen[s].row.status]
    BY <1>2 DEF Accepts
  <1> QED
    BY <1>1, <1>2, <1>3, AcceptedMove
------------------------------------------------------------------------------
(* The invariant is inductive.                                             *)
LEMMA InitInv == Init => Inv
  <1> SUFFICES ASSUME Init PROVE Inv
    OBVIOUS
  <1>1. now \in Time
    BY ConstantsOK DEF Init, Time
  <1>2. ASSUME NEW a \in Assignee \cup {Null}
        PROVE  NewCase(a) \in RiskCase /\ NewHistory(a) \in Seq(HistoryRow)
    <2>1. NewCase(a) \in RiskCase
      BY <1>2, ConstantsOK DEF NewCase, RiskCase, CaseStatus, Time
    <2>2. /\ [from_status |-> Null, to_status |-> "YENI", created_at |-> 0] \in HistoryRow
          /\ [from_status |-> "YENI", to_status |-> "ATANDI", created_at |-> 0] \in HistoryRow
      BY ConstantsOK DEF HistoryRow, CaseStatus, Time
    <2> HIDE DEF HistoryRow
    <2>3. NewHistory(a) \in Seq(HistoryRow)
      BY <2>2 DEF NewHistory
    <2> QED
      BY <2>1, <2>3
  <1>3. risk_case \in [Case -> RiskCase] /\ history \in [Case -> Seq(HistoryRow)]
    <2>1. PICK chosen \in [Case -> Assignee \cup {Null}] :
            /\ risk_case = [c \in Case |-> NewCase(chosen[c])]
            /\ history = [c \in Case |-> NewHistory(chosen[c])]
      BY DEF Init
    <2> QED
      BY <1>2, <2>1
  <1>4. transaction \in [Case -> Transaction]
    BY ConstantsOK DEF Init
  <1>5. TypeOK
    BY <1>1, <1>3, <1>4, ConstantsOK DEF Init, TypeOK
  <1>6. Locking
    BY DEF Init, Locking, Serving
  <1> QED
    BY <1>5, <1>6 DEF Inv

(* What PostgreSQL and the session leave behind at the end of a            *)
(* transaction.                                                            *)
LEMMA TransitionKeepsInv ==
  ASSUME Inv, NEW s \in Session, NEW op \in Op \ {"submit_feedback"}, Accepted(s, op),
         WriteTransition(s), Committed(s), feedback' = feedback,
         transaction' \in [Case -> Transaction], outbox' \in Seq(OutboxEvent)
  PROVE  Inv'
  <1> DEFINE c == request[s].case
  <1>1. /\ c \in Case /\ lock[c] = s /\ request[s] \in RequestType
        /\ seen[s].row = risk_case[c] /\ risk_case[c] \in RiskCase
        /\ pc[s] = "working"
    BY WorkingSession DEF Accepted
  <1>2. Moved(s) \in RiskCase /\ Moved(s).status = Target(request[s])
    BY MovedRow
  <1>3. risk_case' \in [Case -> RiskCase]
    BY <1>1, <1>2 DEF WriteTransition, Inv, TypeOK
  <1>4. history' \in [Case -> Seq(HistoryRow)]
    <2>1. [from_status |-> seen[s].row.status, to_status |-> Target(request[s]),
           created_at |-> now] \in HistoryRow
      BY <1>1, <1>2 DEF HistoryRow, RiskCase, Inv, TypeOK
    <2> QED
      BY <1>1, <2>1 DEF WriteTransition, Inv, TypeOK
  <1>5. TypeOK'
    <2>1. lock' \in [Case -> Session \cup {Null}]
      BY <1>1 DEF Committed, Unlock, Inv, TypeOK
    <2>2. seen' \in [Session -> [row: RiskCase, feedback: Rating \cup {Null}] \cup {Null}]
      BY DEF Committed, Unlock, Inv, TypeOK
    <2>3. pc' \in [Session -> {"idle", "waiting", "working", "committed", "lost"}]
      BY DEF Committed, Inv, TypeOK
    <2>4. applied' \in [Session -> Nat]
      BY DEF Committed, Inv, TypeOK
    <2> QED
      BY <1>3, <1>4, <2>1, <2>2, <2>3, <2>4 DEF Committed, Inv, TypeOK
  <1>6. ASSUME NEW t \in Session PROVE Serving(t)'
    <2>1. CASE t = s
      BY <1>1, <2>1 DEF Committed, Unlock, Serving, Inv, TypeOK
    <2>2. CASE t # s
      <3>1. pc'[t] = pc[t] /\ request'[t] = request[t] /\ seen'[t] = seen[t]
        BY <2>2 DEF Committed, Unlock, Inv, TypeOK
      <3>2. Serving(t)
        BY DEF Inv, Locking
      <3>3. ASSUME pc[t] = "working"
            PROVE  /\ lock'[request[t].case] = t
                   /\ risk_case'[request[t].case] = risk_case[request[t].case]
        <4>1. request[t].case \in Case /\ request[t].case # c /\ lock[request[t].case] = t
          BY <1>1, <2>2, <3>2, <3>3 DEF Serving
        <4> QED
          BY <4>1 DEF Committed, Unlock, WriteTransition, Inv, TypeOK
      <3> QED
        BY <3>1, <3>2, <3>3 DEF Serving
    <2> QED
      BY <2>1, <2>2
  <1> QED
    BY <1>5, <1>6 DEF Inv, Locking

LEMMA DecideKeepsInv ==
  ASSUME Inv, NEW s \in Session, Decide(s)
  PROVE  Inv'
  <1> DEFINE c == request[s].case
             e == DecisionEvent(c, Moved(s), request[s].by)
  <1>1. /\ Accepted(s, "decide") /\ WriteTransition(s) /\ Committed(s) /\ feedback' = feedback
        /\ "decide" \in Op \ {"submit_feedback"}
    BY DEF Decide, Op
  <1>2. /\ request[s] \in RequestType /\ request[s].op = "decide" /\ c \in Case
    BY <1>1, WorkingSession DEF Accepted
  <1>3. transaction' \in [Case -> Transaction]
    BY <1>2 DEF Decide, Judged, Transaction, TransactionDecision, Inv, TypeOK
  <1>4. e \in OutboxEvent
    <2>1. request[s].by \in Analyst /\ request[s].decision \in CaseDecision
      BY <1>2, RequestFields
    <2>2. /\ Moved(s) \in RiskCase /\ Moved(s).status = request[s].decision
          /\ Moved(s).decided_at = now
      BY <1>1, MovedRow
    <2>3. now \in Time /\ SlaDue[c] \in Nat /\ (now > SlaDue[c]) \in BOOLEAN
      BY <1>2, ConstantsOK DEF Inv, TypeOK, Time
    <2>4. (IF Moved(s).customer_response = Null THEN "YANIT_YOK" ELSE Moved(s).customer_response)
            \in CustomerResponse
      BY <2>2 DEF RiskCase, GivenResponse, CustomerResponse
    <2> QED
      BY <1>2, <2>1, <2>2, <2>3, <2>4 DEF DecisionEvent, OutboxEvent
  <1>5. outbox' \in Seq(OutboxEvent)
    BY <1>4 DEF Decide, Inv, TypeOK
  <1> QED
    BY <1>1, <1>3, <1>5, TransitionKeepsInv

LEMMA FeedbackKeepsInv ==
  ASSUME Inv, NEW s \in Session, SubmitFeedback(s)
  PROVE  Inv'
  <1> DEFINE c == request[s].case
  <1>1. /\ c \in Case /\ lock[c] = s /\ request[s] \in RequestType
        /\ request[s].op = "submit_feedback" /\ pc[s] = "working"
    BY WorkingSession DEF SubmitFeedback, Accepted
  <1>2. request[s].by \in Customer /\ request[s].rating \in Rating
    BY <1>1, RequestFields
  <1>3. FeedbackEvent(c, request[s]) \in OutboxEvent
    BY <1>1, <1>2 DEF FeedbackEvent, OutboxEvent
  <1>4. TypeOK'
    <2>1. feedback' \in [Case -> Rating \cup {Null}] /\ outbox' \in Seq(OutboxEvent)
      BY <1>1, <1>2, <1>3 DEF SubmitFeedback, Inv, TypeOK
    <2>2. lock' \in [Case -> Session \cup {Null}]
      BY <1>1 DEF SubmitFeedback, Committed, Unlock, Inv, TypeOK
    <2>3. seen' \in [Session -> [row: RiskCase, feedback: Rating \cup {Null}] \cup {Null}]
      BY DEF SubmitFeedback, Committed, Unlock, Inv, TypeOK
    <2>4. pc' \in [Session -> {"idle", "waiting", "working", "committed", "lost"}]
      BY DEF SubmitFeedback, Committed, Inv, TypeOK
    <2>5. applied' \in [Session -> Nat]
      BY DEF SubmitFeedback, Committed, Inv, TypeOK
    <2> QED
      BY <2>1, <2>2, <2>3, <2>4, <2>5 DEF SubmitFeedback, Committed, Inv, TypeOK
  <1>5. ASSUME NEW t \in Session PROVE Serving(t)'
    <2>1. CASE t = s
      BY <1>1, <2>1 DEF SubmitFeedback, Committed, Unlock, Serving, Inv, TypeOK
    <2>2. CASE t # s
      <3>1. pc'[t] = pc[t] /\ request'[t] = request[t] /\ seen'[t] = seen[t]
        BY <2>2 DEF SubmitFeedback, Committed, Unlock, Inv, TypeOK
      <3>2. Serving(t)
        BY DEF Inv, Locking
      <3>3. ASSUME pc[t] = "working"
            PROVE  /\ lock'[request[t].case] = t
                   /\ risk_case'[request[t].case] = risk_case[request[t].case]
                   /\ feedback'[request[t].case] = feedback[request[t].case]
        <4>1. request[t].case \in Case /\ request[t].case # c /\ lock[request[t].case] = t
          BY <1>1, <2>2, <3>2, <3>3 DEF Serving
        <4> QED
          BY <4>1 DEF SubmitFeedback, Committed, Unlock, Inv, TypeOK
      <3> QED
        BY <3>1, <3>2, <3>3 DEF Serving
    <2> QED
      BY <2>1, <2>2
  <1> QED
    BY <1>4, <1>5 DEF Inv, Locking

(* The steps that leave the database alone and end a transaction.          *)
LEMMA RollbackKeepsInv ==
  ASSUME Inv, NEW s \in Session, pc[s] = "working", UNCHANGED <<now, db>>, Unlock(s),
         NEW label \in {"idle", "lost"}, pc' = [pc EXCEPT ![s] = label],
         request' \in [Session -> RequestType \cup {Null}],
         \A t \in Session : t # s \/ label = "lost" => request'[t] = request[t],
         applied' \in [Session -> Nat], tries' \in [Session -> 0..MaxRetries]
  PROVE  Inv'
  <1> DEFINE c == request[s].case
  <1>1. c \in Case /\ lock[c] = s /\ request[s] \in RequestType
    BY WorkingSession
  <1>2. TypeOK'
    BY <1>1 DEF Unlock, db, Inv, TypeOK
  <1>3. ASSUME NEW t \in Session PROVE Serving(t)'
    <2>1. CASE t = s
      BY <1>1, <2>1 DEF Serving, Inv, TypeOK
    <2>2. CASE t # s
      <3>1. pc'[t] = pc[t] /\ request'[t] = request[t] /\ seen'[t] = seen[t]
        BY <2>2 DEF Unlock, Inv, TypeOK
      <3>2. Serving(t)
        BY DEF Inv, Locking
      <3>3. pc[t] = "working" => lock'[request[t].case] = t
        BY <1>1, <2>2, <3>2 DEF Serving, Unlock, Inv, TypeOK
      <3> QED
        BY <3>1, <3>2, <3>3 DEF Serving, db
    <2> QED
      BY <2>1, <2>2
  <1> QED
    BY <1>2, <1>3 DEF Inv, Locking

(* The steps outside a transaction: they move a session that neither is    *)
(* nor comes to be at work.                                                *)
LEMMA OutsideKeepsInv ==
  ASSUME Inv, NEW s \in Session, pc[s] # "working", UNCHANGED <<now, db, lock, seen>>,
         NEW label \in {"idle", "waiting", "lost"}, pc' = [pc EXCEPT ![s] = label],
         request' \in [Session -> RequestType \cup {Null}],
         label # "idle" => request'[s] \in RequestType,
         \A t \in Session : t # s => request'[t] = request[t],
         applied' \in [Session -> Nat], tries' \in [Session -> 0..MaxRetries]
  PROVE  Inv'
  <1>1. TypeOK'
    BY DEF db, Inv, TypeOK
  <1>2. ASSUME NEW t \in Session PROVE Serving(t)'
    <2>1. CASE t = s
      BY <2>1 DEF Serving, Inv, TypeOK
    <2>2. CASE t # s
      BY <2>2 DEF Serving, db, Inv, Locking, TypeOK
    <2> QED
      BY <2>1, <2>2
  <1> QED
    BY <1>1, <1>2 DEF Inv, Locking

LEMMA LockCaseKeepsInv ==
  ASSUME Inv, NEW s \in Session, LockCase(s)
  PROVE  Inv'
  <1> DEFINE c == request[s].case
  <1>1. pc[s] = "waiting" /\ c \in Case /\ lock[c] = Null /\ request[s] \in RequestType
    BY DEF LockCase, RowFree, Inv, Locking, Serving
  <1>2. TypeOK'
    <2>1. [row |-> risk_case[c], feedback |-> feedback[c]]
            \in [row: RiskCase, feedback: Rating \cup {Null}]
      BY <1>1 DEF Inv, TypeOK
    <2> QED
      BY <1>1, <2>1 DEF LockCase, db, Inv, TypeOK
  <1>3. ASSUME NEW t \in Session PROVE Serving(t)'
    <2>1. CASE t = s
      BY <1>1, <2>1 DEF LockCase, Serving, db, Inv, TypeOK
    <2>2. CASE t # s
      <3>1. pc'[t] = pc[t] /\ request'[t] = request[t] /\ seen'[t] = seen[t]
        BY <2>2 DEF LockCase, Inv, TypeOK
      <3>2. Serving(t)
        BY DEF Inv, Locking
      <3>3. pc[t] = "working" => lock'[request[t].case] = t
        <4>1. Null # t
          BY ConstantsOK
        <4> QED
          BY <1>1, <3>2, <4>1 DEF Serving, LockCase, Inv, TypeOK
      <3> QED
        BY <3>1, <3>2, <3>3 DEF Serving, LockCase, db
    <2> QED
      BY <2>1, <2>2
  <1> QED
    BY <1>2, <1>3 DEF Inv, Locking

(* Every step of Next either leaves the database alone or is the commit of *)
(* one handler.                                                            *)
Quiet == UNCHANGED db

CommitOf(s) ==
  \/ \E op \in Op \ {"decide", "submit_feedback"} : TransitionOnly(s, op)
  \/ Decide(s)
  \/ SubmitFeedback(s)

LEMMA StepKeepsInv ==
  ASSUME Inv, [Next]_vars
  PROVE  Inv' /\ (Quiet \/ \E s \in Session : CommitOf(s))
  <1>1. ASSUME NEW s \in Session, Send(s) PROVE Inv' /\ Quiet
    <2>1. PICK q \in Requests : request' = [request EXCEPT ![s] = q]
      BY <1>1 DEF Send
    <2>2. q \in RequestType
      BY ConstantsOK
    <2>3. /\ pc[s] # "working" /\ UNCHANGED <<now, db, lock, seen>>
          /\ pc' = [pc EXCEPT ![s] = "waiting"]
          /\ request' \in [Session -> RequestType \cup {Null}]
          /\ request'[s] \in RequestType
          /\ \A t \in Session : t # s => request'[t] = request[t]
          /\ applied' \in [Session -> Nat] /\ tries' \in [Session -> 0..MaxRetries]
      BY <1>1, <2>1, <2>2 DEF Send, Inv, TypeOK
    <2> QED
      BY <2>3, OutsideKeepsInv DEF Quiet
  <1>2. ASSUME NEW s \in Session, NotFound(s) \/ Reply(s) \/ GiveUp(s) PROVE Inv' /\ Quiet
    <2>1. /\ pc[s] # "working" /\ Finished(s)
          /\ UNCHANGED <<now, db, lock, seen>>
      BY <1>2 DEF NotFound, Reply, GiveUp
    <2>2. /\ pc' = [pc EXCEPT ![s] = "idle"]
          /\ request' \in [Session -> RequestType \cup {Null}]
          /\ \A t \in Session : t # s => request'[t] = request[t]
          /\ applied' \in [Session -> Nat]
      BY <2>1 DEF Finished, Inv, TypeOK
    <2>3. tries' \in [Session -> 0..MaxRetries]
      BY <2>1, ConstantsOK DEF Finished, Inv, TypeOK
    <2> QED
      BY <2>1, <2>2, <2>3, OutsideKeepsInv DEF Quiet
  <1>3. ASSUME NEW s \in Session, LoseReply(s) PROVE Inv' /\ Quiet
    <2>1. /\ pc[s] # "working" /\ UNCHANGED <<now, db, lock, seen>>
          /\ pc' = [pc EXCEPT ![s] = "lost"]
          /\ request' \in [Session -> RequestType \cup {Null}] /\ request'[s] \in RequestType
          /\ \A t \in Session : t # s => request'[t] = request[t]
          /\ applied' \in [Session -> Nat] /\ tries' \in [Session -> 0..MaxRetries]
      BY <1>3 DEF LoseReply, Inv, TypeOK, Locking, Serving
    <2> QED
      BY <2>1, OutsideKeepsInv DEF Quiet
  <1>4. ASSUME NEW s \in Session, Retry(s) PROVE Inv' /\ Quiet
    <2>1. tries' \in [Session -> 0..MaxRetries]
      BY <1>4, ConstantsOK DEF Retry, Inv, TypeOK
    <2>2. /\ pc[s] # "working" /\ UNCHANGED <<now, db, lock, seen>>
          /\ pc' = [pc EXCEPT ![s] = "waiting"]
          /\ request' \in [Session -> RequestType \cup {Null}] /\ request'[s] \in RequestType
          /\ \A t \in Session : t # s => request'[t] = request[t]
          /\ applied' \in [Session -> Nat]
      BY <1>4 DEF Retry, Inv, TypeOK, Locking, Serving
    <2> QED
      BY <2>1, <2>2, OutsideKeepsInv DEF Quiet
  <1>5. ASSUME NEW s \in Session, LockCase(s) PROVE Inv' /\ Quiet
    BY <1>5, LockCaseKeepsInv DEF LockCase, Quiet
  <1>6. ASSUME NEW s \in Session, Refuse(s) PROVE Inv' /\ Quiet
    <2>1. /\ pc[s] = "working" /\ UNCHANGED <<now, db>> /\ Unlock(s)
          /\ pc' = [pc EXCEPT ![s] = "idle"]
          /\ request' \in [Session -> RequestType \cup {Null}]
          /\ \A t \in Session : t # s => request'[t] = request[t]
          /\ applied' \in [Session -> Nat] /\ tries' \in [Session -> 0..MaxRetries]
      BY <1>6, ConstantsOK DEF Refuse, DropEdits, Finished, Inv, TypeOK
    <2> QED
      BY <2>1, RollbackKeepsInv DEF Quiet
  <1>7. ASSUME NEW s \in Session, Fail(s) PROVE Inv' /\ Quiet
    <2>1. /\ pc[s] = "working" /\ UNCHANGED <<now, db>> /\ Unlock(s)
          /\ pc' = [pc EXCEPT ![s] = "lost"]
          /\ request' \in [Session -> RequestType \cup {Null}]
          /\ \A t \in Session : request'[t] = request[t]
          /\ applied' \in [Session -> Nat] /\ tries' \in [Session -> 0..MaxRetries]
      BY <1>7 DEF Fail, Inv, TypeOK
    <2> QED
      BY <2>1, RollbackKeepsInv DEF Quiet
  <1>8. ASSUME NEW s \in Session, NEW op \in Op \ {"decide", "submit_feedback"},
               TransitionOnly(s, op)
        PROVE  Inv'
    <2>1. /\ Accepted(s, op) /\ WriteTransition(s) /\ Committed(s) /\ feedback' = feedback
          /\ transaction' \in [Case -> Transaction] /\ outbox' \in Seq(OutboxEvent)
      BY <1>8 DEF TransitionOnly, Inv, TypeOK
    <2> QED
      BY <2>1, TransitionKeepsInv
  <1>9. ASSUME NEW s \in Session, CommitOf(s) PROVE Inv'
    BY <1>8, <1>9, DecideKeepsInv, FeedbackKeepsInv DEF CommitOf
  <1>10. ASSUME NEW s \in Session, Handle(s)
         PROVE  Inv' /\ (Quiet \/ CommitOf(s))
    <2>1. Refuse(s) \/ CommitOf(s)
      BY <1>10 DEF Handle, CommitOf, Assign, Start, RequestVerification, RecordResponse, Close, Op
    <2> QED
      BY <1>6, <1>9, <2>1
  <1>11. CASE Tick
    <2>1. now' \in Time
      BY <1>11, ConstantsOK DEF Tick, Time, Inv, TypeOK
    <2>2. TypeOK'
      BY <1>11, <2>1 DEF Tick, db, Inv, TypeOK
    <2> QED
      BY <1>11, <2>2 DEF Tick, db, Inv, Locking, Serving, Quiet
  <1>12. CASE UNCHANGED vars
    BY <1>12 DEF vars, db, Inv, TypeOK, Locking, Serving, Quiet
  <1> QED
    BY <1>1, <1>2, <1>3, <1>4, <1>5, <1>7, <1>10, <1>11, <1>12 DEF Next

LEMMA Invariance == Spec => []Inv
  <1>1. Inv /\ [Next]_vars => Inv'
    BY StepKeepsInv
  <1> QED
    BY InitInv, <1>1, PTL DEF Spec

(* Every variable keeps its type: in particular each event in the outbox   *)
(* is one the contract describes.                                          *)
THEOREM TypeCorrect == Spec => []TypeOK
  <1>1. Inv => TypeOK
    BY DEF Inv
  <1> QED
    BY <1>1, Invariance, PTL
------------------------------------------------------------------------------
(* An event is added behind those that are there.                          *)
LEMMA OneMoreEvent ==
  ASSUME Inv, NEW e, outbox' = Append(outbox, e)
  PROVE  LET n == Len(outbox) + 1 IN
         /\ n \notin DOMAIN outbox
         /\ DOMAIN outbox' = DOMAIN outbox \cup {n}
         /\ outbox'[n] = e
         /\ \A i \in DOMAIN outbox : outbox'[i] = outbox[i] /\ i < n /\ i \in Nat
  BY DEF Inv, TypeOK

(* A transition that is no decision leaves the verdict where it is.        *)
LEMMA SameVerdict ==
  ASSUME Inv, NEW s \in Session, NEW op \in Op \ {"decide", "submit_feedback"},
         TransitionOnly(s, op), NEW c \in Case
  PROVE  /\ Decided(c) <=> Decided(c)'
         /\ Decided(c) => \/ risk_case'[c] = risk_case[c]
                          \/ /\ risk_case'[c] = [risk_case[c] EXCEPT !.status = "KAPANDI",
                                                                     !.closed_at = now]
                             /\ risk_case[c].status \in CaseDecision
         /\ risk_case'[c].status = "YENI" => risk_case'[c] = risk_case[c]
         /\ risk_case[c].status = "KAPANDI" => risk_case'[c] = risk_case[c]
  <1> DEFINE b == request[s].case
  <1>1. Accepted(s, op) /\ WriteTransition(s)
    BY DEF TransitionOnly
  <1>2. b \in Case /\ risk_case[b] \in RiskCase
    BY <1>1, WorkingSession DEF Accepted
  <1>3. risk_case' = [risk_case EXCEPT ![b] = Moved(s)]
    BY <1>1 DEF WriteTransition
  <1>4. CASE c # b
    BY <1>2, <1>3, <1>4 DEF Decided, Inv, TypeOK
  <1>5. CASE c = b
    <2>1. risk_case'[c] = Moved(s)
      BY <1>2, <1>3, <1>5 DEF Inv, TypeOK
    <2>2. /\ Moved(s) \in RiskCase /\ Moved(s).status = Target(request[s])
          /\ op = "close" => Moved(s) = [risk_case[b] EXCEPT !.status = "KAPANDI", !.closed_at = now]
      BY <1>1, MovedRow
    <2>3. /\ op = "assign" => risk_case[b].status = "YENI"
          /\ op \in {"start", "customer_response"} =>
               risk_case[b].status \in {"ATANDI", "MUSTERI_DOGRULAMA"}
          /\ op = "request_verification" => risk_case[b].status = "INCELENIYOR"
          /\ op = "close" => risk_case[b].status \in CaseDecision
          /\ Target(request[s]) \notin CaseDecision
          /\ Target(request[s]) = "KAPANDI" <=> op = "close"
      BY <1>1, MovedFrom
    <2>4. Target(request[s]) # "YENI"
      BY <1>1, WorkingSession, AcceptedMove DEF Accepted
    <2> QED
      BY <1>5, <2>1, <2>2, <2>3, <2>4 DEF Decided, Op, CaseDecision
  <1> QED
    BY <1>4, <1>5

(* What the commit of a decision does to the case and to the others.       *)
LEMMA DecideEffect ==
  ASSUME Inv, NEW s \in Session, Decide(s)
  PROVE  LET q == request[s]
             b == q.case IN
         /\ b \in Case /\ q \in RequestType /\ q.op = "decide" /\ q.decision \in CaseDecision
         /\ risk_case[b].status = "INCELENIYOR"
         /\ risk_case[b].assigned_analyst_id = q.by
         /\ Moved(s) \in RiskCase
         /\ Moved(s).status = q.decision
         /\ Moved(s).assigned_analyst_id = q.by
         /\ Moved(s).customer_response = risk_case[b].customer_response
         /\ Moved(s).decided_at = now
         /\ q.decision = "BLOKLANDI" => Moved(s).decision_note
         /\ risk_case'[b] = Moved(s)
         /\ transaction'[b] = Judged(transaction[b], q.decision)
         /\ \A c \in Case \ {b} : risk_case'[c] = risk_case[c] /\ transaction'[c] = transaction[c]
         /\ outbox' = Append(outbox, DecisionEvent(b, Moved(s), q.by))
  <1> DEFINE q == request[s]
             b == q.case
  <1>1. /\ Accepted(s, "decide") /\ WriteTransition(s) /\ "decide" \in Op \ {"submit_feedback"}
    BY DEF Decide, Op
  <1>2. b \in Case /\ q \in RequestType /\ q.op = "decide"
    BY <1>1, WorkingSession DEF Accepted
  <1>3. q.decision \in CaseDecision /\ q.note \in BOOLEAN
    BY <1>2, RequestFields
  <1>4. risk_case[b].status = "INCELENIYOR"
    BY <1>1, MovedFrom
  <1>5. /\ Moved(s) \in RiskCase /\ Moved(s).status = q.decision
        /\ Moved(s).assigned_analyst_id = risk_case[b].assigned_analyst_id
        /\ risk_case[b].assigned_analyst_id = q.by
        /\ Moved(s).customer_response = risk_case[b].customer_response
        /\ Moved(s).decided_at = now
        /\ Moved(s).decision_note = q.note
        /\ NoteGiven(q)
    BY <1>1, MovedRow
  <1>6. q.decision = "BLOKLANDI" => Moved(s).decision_note
    BY <1>2, <1>5 DEF NoteGiven
  <1>7. /\ risk_case'[b] = Moved(s)
        /\ \A c \in Case \ {b} : risk_case'[c] = risk_case[c]
    BY <1>1, <1>2 DEF WriteTransition, Inv, TypeOK
  <1>8. /\ transaction'[b] = Judged(transaction[b], q.decision)
        /\ \A c \in Case \ {b} : transaction'[c] = transaction[c]
        /\ outbox' = Append(outbox, DecisionEvent(b, Moved(s), q.by))
    BY <1>2 DEF Decide, Inv, TypeOK
  <1> QED
    BY <1>2, <1>3, <1>4, <1>5, <1>6, <1>7, <1>8

(* What the commit of a rating does.                                       *)
LEMMA FeedbackEffect ==
  ASSUME Inv, NEW s \in Session, SubmitFeedback(s)
  PROVE  LET q == request[s]
             b == q.case IN
         /\ b \in Case /\ q \in RequestType
         /\ risk_case[b].status = "KAPANDI" /\ feedback[b] = Null /\ Owner[b] = q.by
         /\ q.rating \in Rating
         /\ feedback'[b] = q.rating
         /\ \A c \in Case \ {b} : feedback'[c] = feedback[c]
         /\ UNCHANGED <<risk_case, transaction, history>>
         /\ outbox' = Append(outbox, FeedbackEvent(b, q))
  <1> DEFINE q == request[s]
             b == q.case
  <1>1. Accepted(s, "submit_feedback") /\ pc[s] = "working" /\ Accepts(q, seen[s])
        /\ q.op = "submit_feedback"
    BY DEF SubmitFeedback, Accepted
  <1>2. b \in Case /\ q \in RequestType /\ seen[s].row = risk_case[b] /\ seen[s].feedback = feedback[b]
    BY <1>1, WorkingSession
  <1>3. FeedbackOpen(seen[s]) /\ Owner[b] = q.by
    BY <1>1 DEF Accepts, Authorized
  <1>4. q.rating \in Rating
    BY <1>1, <1>2, RequestFields
  <1> QED
    BY <1>2, <1>3, <1>4 DEF SubmitFeedback, FeedbackOpen, Inv, TypeOK
------------------------------------------------------------------------------
LEMMA OneDecisionEventStep ==
  ASSUME Inv, OneDecisionEvent, [Next]_vars
  PROVE  OneDecisionEvent'
  <1>1. CASE Quiet
    BY <1>1 DEF Quiet, db, OneDecisionEvent, DecisionEvents, Decided
  <1>2. ASSUME NEW s \in Session, NEW op \in Op \ {"decide", "submit_feedback"},
               TransitionOnly(s, op)
        PROVE  OneDecisionEvent'
    <2>1. outbox' = outbox
      BY <1>2 DEF TransitionOnly
    <2>2. \A c \in Case : (Decided(c) <=> Decided(c)') /\ DecisionEvents(c)' = DecisionEvents(c)
      BY <1>2, <2>1, SameVerdict DEF DecisionEvents
    <2> QED
      BY <2>2 DEF OneDecisionEvent
  <1>3. ASSUME NEW s \in Session, Decide(s) PROVE OneDecisionEvent'
    <2>1. PICK b, e :
            /\ b \in Case
            /\ risk_case[b].status = "INCELENIYOR"
            /\ risk_case'[b].status \in CaseDecision
            /\ \A c \in Case \ {b} : risk_case'[c] = risk_case[c]
            /\ outbox' = Append(outbox, e)
            /\ e.type = "case.decision_made" /\ e.case = b
      <3> DEFINE c0 == request[s].case
                 e0 == DecisionEvent(c0, Moved(s), request[s].by)
      <3>1. /\ c0 \in Case /\ risk_case[c0].status = "INCELENIYOR"
            /\ risk_case'[c0].status \in CaseDecision
            /\ \A c \in Case \ {c0} : risk_case'[c] = risk_case[c]
            /\ outbox' = Append(outbox, e0)
        BY <1>3, DecideEffect
      <3>2. e0.type = "case.decision_made" /\ e0.case = c0
        BY DEF DecisionEvent
      <3> HIDE DEF c0, e0
      <3> QED
        BY <3>1, <3>2
    <2>2. PICK n : /\ n \notin DOMAIN outbox
                   /\ DOMAIN outbox' = DOMAIN outbox \cup {n}
                   /\ outbox'[n] = e
                   /\ \A i \in DOMAIN outbox : outbox'[i] = outbox[i]
      BY <2>1, OneMoreEvent
    <2>3. DecisionEvents(b) = {} /\ Decided(b)'
      BY <2>1 DEF OneDecisionEvent, Decided, CaseDecision
    <2>4. DecisionEvents(b)' = {n}
      BY <2>1, <2>2, <2>3 DEF DecisionEvents
    <2>5. ASSUME NEW c \in Case \ {b}
          PROVE  (Decided(c) <=> Decided(c)') /\ DecisionEvents(c)' = DecisionEvents(c)
      BY <2>1, <2>2 DEF DecisionEvents, Decided
    <2> QED
      BY <2>3, <2>4, <2>5 DEF OneDecisionEvent
  <1>4. ASSUME NEW s \in Session, SubmitFeedback(s) PROVE OneDecisionEvent'
    <2>1. PICK e : /\ risk_case' = risk_case /\ outbox' = Append(outbox, e)
                   /\ e.type # "case.decision_made"
      <3> DEFINE e0 == FeedbackEvent(request[s].case, request[s])
      <3>1. risk_case' = risk_case /\ outbox' = Append(outbox, e0)
        BY <1>4, FeedbackEffect
      <3>2. e0.type # "case.decision_made"
        BY DEF FeedbackEvent
      <3> HIDE DEF e0
      <3> QED
        BY <3>1, <3>2
    <2>2. PICK n : /\ DOMAIN outbox' = DOMAIN outbox \cup {n}
                   /\ outbox'[n] = e
                   /\ \A i \in DOMAIN outbox : outbox'[i] = outbox[i]
      BY <2>1, OneMoreEvent
    <2>3. \A c \in Case : DecisionEvents(c)' = DecisionEvents(c)
      BY <2>1, <2>2 DEF DecisionEvents
    <2> QED
      BY <2>1, <2>3 DEF OneDecisionEvent, Decided
  <1> QED
    BY <1>1, <1>2, <1>3, <1>4, StepKeepsInv DEF CommitOf

(* A decided case has one decision event and no other case has any, for    *)
(* every number of sessions, cases and retries.                            *)
THEOREM DecisionsAnnouncedOnce == Spec => []OneDecisionEvent
  <1>1. Init => OneDecisionEvent
    <2> SUFFICES ASSUME Init, NEW c \in Case
                 PROVE  ~Decided(c) /\ DecisionEvents(c) = {}
      BY DEF OneDecisionEvent
    <2>1. risk_case[c].status \in {"YENI", "ATANDI"}
      BY DEF Init, NewCase
    <2> QED
      BY <2>1 DEF Init, Decided, DecisionEvents, CaseDecision
  <1>2. Inv /\ OneDecisionEvent /\ [Next]_vars => OneDecisionEvent'
    BY OneDecisionEventStep
  <1> QED
    BY <1>1, <1>2, Invariance, PTL DEF Spec
------------------------------------------------------------------------------
LEMMA EventTellsTheCaseStep ==
  ASSUME Inv, OneDecisionEvent, EventTellsTheCase, [Next]_vars
  PROVE  EventTellsTheCase'
  <1> DEFINE
        Tells(e, c) ==
          /\ e.analyst_id = risk_case[c].assigned_analyst_id
          /\ risk_case[c].status \in {e.decision, "KAPANDI"}
          /\ e.customer_response = IF risk_case[c].customer_response = Null THEN "YANIT_YOK"
                                   ELSE risk_case[c].customer_response
          /\ e.resolution_seconds = risk_case[c].decided_at
          /\ e.sla_exceeded = (risk_case[c].decided_at > SlaDue[c])
          /\ transaction[c].decision = IF e.decision = "BLOKLANDI" THEN "BLOK" ELSE "ONAY"
          /\ e.decision = "BLOKLANDI" =>
               risk_case[c].decision_note /\ transaction[c].temporary_blocked
  <1>1. \A c \in Case : \A i \in DecisionEvents(c) : Tells(outbox[i], c)
    BY DEF EventTellsTheCase
  <1>2. SUFFICES ASSUME NEW c \in Case, NEW i \in DecisionEvents(c)' PROVE Tells(outbox[i], c)'
    BY DEF EventTellsTheCase
  <1>3. CASE Quiet
    BY <1>1, <1>3 DEF Quiet, db, DecisionEvents
  <1>4. ASSUME NEW s \in Session, NEW op \in Op \ {"decide", "submit_feedback"},
               TransitionOnly(s, op)
        PROVE  Tells(outbox[i], c)'
    <2>1. outbox' = outbox /\ transaction' = transaction
      BY <1>4 DEF TransitionOnly
    <2>2. i \in DecisionEvents(c) /\ Decided(c)
      BY <2>1 DEF DecisionEvents, OneDecisionEvent
    <2>3. risk_case[c] \in RiskCase
      BY DEF Inv, TypeOK
    <2>4. \/ risk_case'[c] = risk_case[c]
          \/ risk_case'[c] = [risk_case[c] EXCEPT !.status = "KAPANDI", !.closed_at = now]
      BY <1>4, <2>2, SameVerdict
    <2>5. /\ risk_case'[c].assigned_analyst_id = risk_case[c].assigned_analyst_id
          /\ risk_case'[c].status \in {risk_case[c].status, "KAPANDI"}
          /\ risk_case'[c].customer_response = risk_case[c].customer_response
          /\ risk_case'[c].decided_at = risk_case[c].decided_at
          /\ risk_case'[c].decision_note = risk_case[c].decision_note
      BY <2>3, <2>4 DEF RiskCase
    <2> QED
      BY <1>1, <2>1, <2>2, <2>5
  <1>5. ASSUME NEW s \in Session, Decide(s) PROVE Tells(outbox[i], c)'
    <2>1. PICK b, m, d, a :
            /\ b \in Case /\ m \in RiskCase /\ d \in CaseDecision
            /\ risk_case[b].status = "INCELENIYOR"
            /\ m.status = d /\ m.assigned_analyst_id = a /\ m.decided_at = now
            /\ d = "BLOKLANDI" => m.decision_note
            /\ risk_case'[b] = m
            /\ transaction'[b] = Judged(transaction[b], d)
            /\ \A x \in Case \ {b} : risk_case'[x] = risk_case[x] /\ transaction'[x] = transaction[x]
            /\ outbox' = Append(outbox, DecisionEvent(b, m, a))
      <3> DEFINE b0 == request[s].case
                 m0 == Moved(s)
                 d0 == request[s].decision
                 a0 == request[s].by
      <3>1. /\ b0 \in Case /\ m0 \in RiskCase /\ d0 \in CaseDecision
            /\ risk_case[b0].status = "INCELENIYOR"
            /\ m0.status = d0 /\ m0.assigned_analyst_id = a0 /\ m0.decided_at = now
            /\ d0 = "BLOKLANDI" => m0.decision_note
            /\ risk_case'[b0] = m0
            /\ transaction'[b0] = Judged(transaction[b0], d0)
            /\ \A x \in Case \ {b0} :
                 risk_case'[x] = risk_case[x] /\ transaction'[x] = transaction[x]
            /\ outbox' = Append(outbox, DecisionEvent(b0, m0, a0))
        BY <1>5, DecideEffect
      <3> HIDE DEF b0, m0, d0, a0
      <3> QED
        BY <3>1
    <2> DEFINE e == DecisionEvent(b, m, a)
    <2>2. PICK n : /\ n \notin DOMAIN outbox
                   /\ DOMAIN outbox' = DOMAIN outbox \cup {n}
                   /\ outbox'[n] = e
                   /\ \A j \in DOMAIN outbox : outbox'[j] = outbox[j]
      BY <2>1, OneMoreEvent
    <2>3. /\ e.case = b /\ e.analyst_id = a /\ e.decision = m.status
          /\ e.customer_response = IF m.customer_response = Null THEN "YANIT_YOK"
                                   ELSE m.customer_response
          /\ e.resolution_seconds = m.decided_at
          /\ e.sla_exceeded = (m.decided_at > SlaDue[b])
      BY DEF DecisionEvent
    <2> HIDE DEF e
    <2>4. CASE c = b
      <3>1. i = n
        BY <2>1, <2>2, <2>4 DEF DecisionEvents, OneDecisionEvent, Decided, CaseDecision
      <3>2. transaction[b] \in Transaction
        BY <2>1 DEF Inv, TypeOK
      <3>3. /\ transaction'[b].decision = IF d = "BLOKLANDI" THEN "BLOK" ELSE "ONAY"
            /\ d = "BLOKLANDI" => transaction'[b].temporary_blocked
        BY <2>1, <3>2 DEF Judged, Transaction
      <3> QED
        BY <2>1, <2>2, <2>3, <2>4, <3>1, <3>3
    <2>5. CASE c # b
      <3>1. i \in DecisionEvents(c) /\ outbox'[i] = outbox[i]
        BY <2>2, <2>3, <2>5 DEF DecisionEvents
      <3> QED
        BY <1>1, <2>1, <2>5, <3>1
    <2> QED
      BY <2>4, <2>5
  <1>6. ASSUME NEW s \in Session, SubmitFeedback(s) PROVE Tells(outbox[i], c)'
    <2>1. PICK e : /\ UNCHANGED <<risk_case, transaction>>
                   /\ outbox' = Append(outbox, e) /\ e.type # "case.decision_made"
      <3> DEFINE e0 == FeedbackEvent(request[s].case, request[s])
      <3>1. UNCHANGED <<risk_case, transaction>> /\ outbox' = Append(outbox, e0)
        BY <1>6, FeedbackEffect
      <3>2. e0.type # "case.decision_made"
        BY DEF FeedbackEvent
      <3> HIDE DEF e0
      <3> QED
        BY <3>1, <3>2
    <2>2. PICK n : /\ DOMAIN outbox' = DOMAIN outbox \cup {n}
                   /\ outbox'[n] = e
                   /\ \A j \in DOMAIN outbox : outbox'[j] = outbox[j]
      BY <2>1, OneMoreEvent
    <2>3. i \in DecisionEvents(c) /\ outbox'[i] = outbox[i]
      BY <2>1, <2>2 DEF DecisionEvents
    <2> QED
      BY <1>1, <2>1, <2>3
  <1> QED
    BY <1>3, <1>4, <1>5, <1>6, StepKeepsInv DEF CommitOf

(* The database never moves away from what a decision event told the other *)
(* services, for every number of sessions, cases and retries.              *)
THEOREM EventsTellTheCase == Spec => []EventTellsTheCase
  <1>1. Init => EventTellsTheCase
    BY DEF Init, EventTellsTheCase, DecisionEvents
  <1>2. Inv /\ OneDecisionEvent /\ EventTellsTheCase /\ [Next]_vars => EventTellsTheCase'
    BY EventTellsTheCaseStep
  <1> QED
    BY <1>1, <1>2, Invariance, DecisionsAnnouncedOnce, PTL DEF Spec
------------------------------------------------------------------------------
(* After the decision a step of the system can only close the case.        *)
THEOREM DecisionsAreFinal == Spec => DecisionIsFinal
  <1>1. ASSUME Inv, [Next]_vars, NEW c \in Case, Decided(c)
        PROVE  /\ transaction'[c] = transaction[c]
               /\ risk_case'[c] = [risk_case[c] EXCEPT !.status = risk_case'[c].status,
                                                       !.closed_at = risk_case'[c].closed_at]
    <2>1. risk_case[c] \in RiskCase
      BY <1>1 DEF Inv, TypeOK
    <2>2. CASE Quiet
      BY <2>1, <2>2 DEF Quiet, db, RiskCase
    <2>3. ASSUME NEW s \in Session, NEW op \in Op \ {"decide", "submit_feedback"},
                 TransitionOnly(s, op)
          PROVE  /\ transaction'[c] = transaction[c]
                 /\ risk_case'[c] = [risk_case[c] EXCEPT !.status = risk_case'[c].status,
                                                         !.closed_at = risk_case'[c].closed_at]
      <3>1. \/ risk_case'[c] = risk_case[c]
            \/ risk_case'[c] = [risk_case[c] EXCEPT !.status = "KAPANDI", !.closed_at = now]
        BY <1>1, <2>3, SameVerdict
      <3> QED
        BY <2>1, <2>3, <3>1 DEF RiskCase, TransitionOnly
    <2>4. ASSUME NEW s \in Session, Decide(s)
          PROVE  risk_case'[c] = risk_case[c] /\ transaction'[c] = transaction[c]
      <3>1. c # request[s].case
        BY <1>1, <2>4, DecideEffect DEF Decided, CaseDecision
      <3> QED
        BY <1>1, <2>4, <3>1, DecideEffect
    <2>5. ASSUME NEW s \in Session, SubmitFeedback(s)
          PROVE  risk_case'[c] = risk_case[c] /\ transaction'[c] = transaction[c]
      BY <2>5 DEF SubmitFeedback
    <2>6. risk_case'[c] = risk_case[c] =>
            risk_case'[c] = [risk_case[c] EXCEPT !.status = risk_case'[c].status,
                                                 !.closed_at = risk_case'[c].closed_at]
      BY <2>1 DEF RiskCase
    <2> QED
      BY <1>1, <2>2, <2>3, <2>4, <2>5, <2>6, StepKeepsInv DEF CommitOf
  <1>2. Inv /\ [Next]_vars =>
          [\A c \in Case : Decided(c) =>
             /\ transaction'[c] = transaction[c]
             /\ risk_case'[c] = [risk_case[c] EXCEPT !.status = risk_case'[c].status,
                                                     !.closed_at = risk_case'[c].closed_at]]_vars
    BY <1>1
  <1> QED
    BY <1>2, Invariance, PTL DEF Spec, DecisionIsFinal
------------------------------------------------------------------------------
(* Only a case nobody has is YENI, which is where assign finds it.         *)
Unassigned == \A c \in Case : risk_case[c].status = "YENI" => risk_case[c].assigned_analyst_id = Null

LEMMA UnassignedStep ==
  ASSUME Inv, Unassigned, [Next]_vars
  PROVE  Unassigned'
  <1> SUFFICES ASSUME NEW c \in Case, risk_case'[c].status = "YENI"
               PROVE  risk_case'[c] = risk_case[c]
    BY DEF Unassigned
  <1>1. CASE Quiet
    BY <1>1 DEF Quiet, db
  <1>2. ASSUME NEW s \in Session, CommitOf(s) PROVE risk_case'[c] = risk_case[c]
    <2>1. CASE \E op \in Op \ {"decide", "submit_feedback"} : TransitionOnly(s, op)
      BY <2>1, SameVerdict
    <2>2. CASE Decide(s)
      <3>1. c # request[s].case
        BY <2>2, DecideEffect DEF CaseDecision
      <3> QED
        BY <2>2, <3>1, DecideEffect
    <2>3. CASE SubmitFeedback(s)
      BY <2>3 DEF SubmitFeedback
    <2> QED
      BY <1>2, <2>1, <2>2, <2>3 DEF CommitOf
  <1> QED
    BY <1>1, <1>2, StepKeepsInv

(* An assigned case stays with its analyst.                                *)
THEOREM AssignmentsAreFinal == Spec => AssignmentIsFinal
  <1>1. Init => Unassigned
    BY DEF Init, NewCase, Unassigned
  <1>2. Inv /\ Unassigned /\ [Next]_vars => Unassigned'
    BY UnassignedStep
  <1>3. ASSUME Inv, Unassigned, [Next]_vars, NEW c \in Case,
               risk_case[c].assigned_analyst_id # Null
        PROVE  risk_case'[c].assigned_analyst_id = risk_case[c].assigned_analyst_id
    <2>1. CASE Quiet
      BY <2>1 DEF Quiet, db
    <2>2. ASSUME NEW s \in Session, NEW op \in Op \ {"submit_feedback"},
                 Accepted(s, op), WriteTransition(s)
          PROVE  risk_case'[c].assigned_analyst_id = risk_case[c].assigned_analyst_id
      <3>1. request[s].case \in Case
        BY <1>3, <2>2, WorkingSession DEF Accepted
      <3>2. CASE c # request[s].case
        BY <1>3, <2>2, <3>1, <3>2 DEF WriteTransition, Inv, TypeOK
      <3>3. CASE c = request[s].case
        <4>1. op # "assign"
          BY <1>3, <2>2, <3>3, MovedFrom DEF Unassigned
        <4>2. Moved(s).assigned_analyst_id = risk_case[c].assigned_analyst_id
          BY <1>3, <2>2, <3>3, <4>1, MovedRow
        <4> QED
          BY <1>3, <2>2, <3>1, <3>3, <4>2 DEF WriteTransition, Inv, TypeOK
      <3> QED
        BY <3>2, <3>3
    <2>3. ASSUME NEW s \in Session, CommitOf(s)
          PROVE  risk_case'[c].assigned_analyst_id = risk_case[c].assigned_analyst_id
      <3>1. CASE \E op \in Op \ {"decide", "submit_feedback"} : TransitionOnly(s, op)
        BY <2>2, <3>1 DEF TransitionOnly
      <3>2. CASE Decide(s)
        BY <2>2, <3>2 DEF Decide, Op
      <3>3. CASE SubmitFeedback(s)
        BY <3>3 DEF SubmitFeedback
      <3> QED
        BY <2>3, <3>1, <3>2, <3>3 DEF CommitOf
    <2> QED
      BY <1>3, <2>1, <2>3, StepKeepsInv
  <1>4. Inv /\ Unassigned /\ [Next]_vars =>
          [\A c \in Case : risk_case[c].assigned_analyst_id # Null =>
             risk_case'[c].assigned_analyst_id = risk_case[c].assigned_analyst_id]_vars
    BY <1>3
  <1> QED
    BY <1>1, <1>2, <1>4, Invariance, PTL DEF Spec, AssignmentIsFinal
------------------------------------------------------------------------------
LEMMA FeedbackFollowsClosureStep ==
  ASSUME Inv, OneDecisionEvent, FeedbackFollowsClosure, [Next]_vars
  PROVE  FeedbackFollowsClosure'
  <1>1. CASE Quiet
    BY <1>1 DEF Quiet, db, FeedbackFollowsClosure, FeedbackEvents, DecisionEvents
  <1>2. ASSUME NEW s \in Session, NEW op \in Op \ {"decide", "submit_feedback"},
               TransitionOnly(s, op)
        PROVE  FeedbackFollowsClosure'
    <2>1. outbox' = outbox /\ feedback' = feedback
      BY <1>2 DEF TransitionOnly
    <2>2. \A c \in Case : /\ FeedbackEvents(c)' = FeedbackEvents(c)
                          /\ DecisionEvents(c)' = DecisionEvents(c)
                          /\ risk_case[c].status = "KAPANDI" => risk_case'[c] = risk_case[c]
      BY <1>2, <2>1, SameVerdict DEF FeedbackEvents, DecisionEvents
    <2> QED
      BY <2>1, <2>2 DEF FeedbackFollowsClosure
  <1>3. ASSUME NEW s \in Session, Decide(s) PROVE FeedbackFollowsClosure'
    <2>1. feedback' = feedback
      BY <1>3 DEF Decide
    <2>2. PICK b, e :
            /\ b \in Case
            /\ risk_case[b].status = "INCELENIYOR"
            /\ \A c \in Case \ {b} : risk_case'[c] = risk_case[c]
            /\ outbox' = Append(outbox, e)
            /\ e.type = "case.decision_made"
      <3> DEFINE c0 == request[s].case
                 e0 == DecisionEvent(c0, Moved(s), request[s].by)
      <3>1. /\ c0 \in Case /\ risk_case[c0].status = "INCELENIYOR"
            /\ \A c \in Case \ {c0} : risk_case'[c] = risk_case[c]
            /\ outbox' = Append(outbox, e0)
        BY <1>3, DecideEffect
      <3>2. e0.type = "case.decision_made"
        BY DEF DecisionEvent
      <3> HIDE DEF c0, e0
      <3> QED
        BY <3>1, <3>2
    <2>3. PICK n : /\ n \notin DOMAIN outbox
                   /\ DOMAIN outbox' = DOMAIN outbox \cup {n}
                   /\ outbox'[n] = e
                   /\ \A i \in DOMAIN outbox : outbox'[i] = outbox[i]
      BY <2>2, OneMoreEvent
    <2>4. \A c \in Case : /\ FeedbackEvents(c)' = FeedbackEvents(c)
                          /\ DecisionEvents(c) \subseteq DecisionEvents(c)'
      BY <2>2, <2>3 DEF FeedbackEvents, DecisionEvents
    <2>5. \A c \in Case : \A i \in FeedbackEvents(c) : outbox'[i] = outbox[i]
      BY <2>3 DEF FeedbackEvents
    <2>6. \A c \in Case : risk_case[c].status = "KAPANDI" => risk_case'[c] = risk_case[c]
      BY <2>2
    <2> QED
      BY <2>1, <2>4, <2>5, <2>6 DEF FeedbackFollowsClosure
  <1>4. ASSUME NEW s \in Session, SubmitFeedback(s) PROVE FeedbackFollowsClosure'
    <2>1. PICK b, rating, e :
            /\ b \in Case /\ rating \in Rating
            /\ risk_case[b].status = "KAPANDI" /\ feedback[b] = Null
            /\ feedback'[b] = rating
            /\ \A c \in Case \ {b} : feedback'[c] = feedback[c]
            /\ risk_case' = risk_case
            /\ outbox' = Append(outbox, e)
            /\ e.type = "feedback.submitted" /\ e.case = b
            /\ e.customer_id = Owner[b] /\ e.rating = rating
      <3> DEFINE c0 == request[s].case
                 r0 == request[s].rating
                 e0 == FeedbackEvent(c0, request[s])
      <3>1. /\ c0 \in Case /\ r0 \in Rating
            /\ risk_case[c0].status = "KAPANDI" /\ feedback[c0] = Null
            /\ feedback'[c0] = r0
            /\ \A c \in Case \ {c0} : feedback'[c] = feedback[c]
            /\ risk_case' = risk_case
            /\ outbox' = Append(outbox, e0)
            /\ Owner[c0] = request[s].by
        BY <1>4, FeedbackEffect
      <3>2. /\ e0.type = "feedback.submitted" /\ e0.case = c0
            /\ e0.customer_id = request[s].by /\ e0.rating = r0
        BY DEF FeedbackEvent
      <3> HIDE DEF c0, r0, e0
      <3> QED
        BY <3>1, <3>2
    <2>2. PICK n : /\ n \notin DOMAIN outbox
                   /\ DOMAIN outbox' = DOMAIN outbox \cup {n}
                   /\ outbox'[n] = e
                   /\ \A i \in DOMAIN outbox : outbox'[i] = outbox[i] /\ i < n
      BY <2>1, OneMoreEvent
    <2>3. \A c \in Case : DecisionEvents(c)' = DecisionEvents(c)
      BY <2>1, <2>2 DEF DecisionEvents
    <2>4. ASSUME NEW c \in Case \ {b} PROVE FeedbackEvents(c)' = FeedbackEvents(c)
      BY <2>1, <2>2 DEF FeedbackEvents
    <2>5. \A c \in Case : \A i \in FeedbackEvents(c) : outbox'[i] = outbox[i]
      BY <2>2 DEF FeedbackEvents
    <2>6. FeedbackEvents(b) = {}
      BY <2>1 DEF FeedbackFollowsClosure
    <2>7. FeedbackEvents(b)' = {n}
      BY <2>1, <2>2, <2>6 DEF FeedbackEvents
    <2>8. \E j \in DecisionEvents(b) : j < n
      <3>1. DecisionEvents(b) # {}
        BY <2>1 DEF OneDecisionEvent, Decided
      <3> QED
        BY <2>2, <3>1 DEF DecisionEvents
    <2>9. rating # Null
      BY <2>1, ConstantsOK
    <2> DEFINE Follows(c) ==
          /\ feedback[c] # Null <=> FeedbackEvents(c) # {}
          /\ \A i, j \in FeedbackEvents(c) : i = j
          /\ \A i \in FeedbackEvents(c) :
               /\ risk_case[c].status = "KAPANDI"
               /\ outbox[i].customer_id = Owner[c]
               /\ outbox[i].rating = feedback[c]
               /\ \E j \in DecisionEvents(c) : j < i
    <2>10. ASSUME NEW c \in Case \ {b} PROVE Follows(c)'
      <3>1. Follows(c)
        BY DEF FeedbackFollowsClosure
      <3>2. feedback'[c] = feedback[c] /\ risk_case'[c] = risk_case[c]
        BY <2>1
      <3> QED
        BY <2>3, <2>4, <2>5, <3>1, <3>2
    <2>11. Follows(b)'
      BY <2>1, <2>2, <2>3, <2>7, <2>8, <2>9
    <2> HIDE DEF Follows
    <2>12. \A c \in Case : Follows(c)'
      BY <2>10, <2>11
    <2> QED
      BY <2>12 DEF Follows, FeedbackFollowsClosure
  <1> QED
    BY <1>1, <1>2, <1>3, <1>4, StepKeepsInv DEF CommitOf

(* A rating comes once, with its event, from the owner of a closed case,   *)
(* and behind the decision event.                                          *)
THEOREM FeedbackAlwaysFollowsClosure == Spec => []FeedbackFollowsClosure
  <1>1. Init => FeedbackFollowsClosure
    BY DEF Init, FeedbackFollowsClosure, FeedbackEvents
  <1>2. Inv /\ OneDecisionEvent /\ FeedbackFollowsClosure /\ [Next]_vars => FeedbackFollowsClosure'
    BY FeedbackFollowsClosureStep
  <1> QED
    BY <1>1, <1>2, Invariance, DecisionsAnnouncedOnce, PTL DEF Spec
------------------------------------------------------------------------------
(* A request that has taken effect has left its mark, which nothing takes  *)
(* away again.                                                             *)
OneWay == {"assign", "decide", "close", "submit_feedback"}

Done(q) ==
  /\ q.case \in Case
  /\ q.op = "assign" => risk_case[q.case].status # "YENI"
  /\ q.op = "decide" => Decided(q.case)
  /\ q.op = "close" => risk_case[q.case].status = "KAPANDI"
  /\ q.op = "submit_feedback" => feedback[q.case] # Null

AppliedOK ==
  \A s \in Session :
    /\ pc[s] = "idle" => applied[s] = 0
    /\ request[s] # Null /\ request[s].op \in OneWay => applied[s] <= 1 /\ (applied[s] = 1 => Done(request[s]))

LEMMA DoneStays ==
  ASSUME Inv, [Next]_vars, NEW q, Done(q)
  PROVE  Done(q)'
  <1> DEFINE c == q.case
  <1>1. c \in Case
    BY DEF Done
  <1>2. CASE Quiet
    BY <1>2 DEF Quiet, db, Done, Decided
  <1>3. ASSUME NEW s \in Session, CommitOf(s)
        PROVE  /\ risk_case'[c].status = "YENI" => risk_case[c].status = "YENI"
               /\ Decided(c) => Decided(c)'
               /\ risk_case[c].status = "KAPANDI" => risk_case'[c].status = "KAPANDI"
               /\ feedback[c] # Null => feedback'[c] # Null
    <2>1. CASE \E op \in Op \ {"decide", "submit_feedback"} : TransitionOnly(s, op)
      BY <1>1, <2>1, SameVerdict DEF TransitionOnly
    <2>2. CASE Decide(s)
      <3>1. feedback' = feedback
        BY <2>2 DEF Decide
      <3>2. CASE c = request[s].case
        BY <2>2, <3>1, <3>2, DecideEffect DEF Decided, CaseDecision
      <3>3. CASE c # request[s].case
        BY <1>1, <2>2, <3>1, <3>3, DecideEffect DEF Decided
      <3> QED
        BY <3>2, <3>3
    <2>3. CASE SubmitFeedback(s)
      BY <1>1, <2>3, FeedbackEffect, ConstantsOK DEF Decided
    <2> QED
      BY <1>3, <2>1, <2>2, <2>3 DEF CommitOf
  <1> QED
    BY <1>1, <1>2, <1>3, StepKeepsInv DEF Done

(* A commit leaves the mark, and finds it missing.                         *)
LEMMA CommitMarks ==
  ASSUME Inv, NEW s \in Session, CommitOf(s), request[s].op \in OneWay
  PROVE  ~Done(request[s]) /\ Done(request[s])'
  <1> DEFINE q == request[s]
             c == q.case
  <1>1. ASSUME NEW op \in Op \ {"decide", "submit_feedback"}, TransitionOnly(s, op)
        PROVE  ~Done(q) /\ Done(q)'
    <2>1. /\ Accepted(s, op) /\ WriteTransition(s) /\ q.op = op /\ op \in {"assign", "close"}
      BY <1>1 DEF TransitionOnly, Accepted, OneWay, Op
    <2>2. c \in Case /\ q' = q
      BY <1>1, <2>1, WorkingSession DEF TransitionOnly, Accepted, Committed
    <2>3. risk_case'[c].status = Target(q)
      BY <2>1, <2>2, MovedRow DEF WriteTransition, Inv, TypeOK
    <2> QED
      BY <1>1, <2>1, <2>2, <2>3, MovedFrom DEF Done, CaseDecision
  <1>2. CASE Decide(s)
    <2>1. q' = q /\ q.op = "decide"
      BY <1>2, DecideEffect DEF Decide, Committed
    <2> QED
      BY <1>2, <2>1, DecideEffect DEF Done, Decided, CaseDecision
  <1>3. CASE SubmitFeedback(s)
    <2>1. q' = q /\ q.op = "submit_feedback"
      BY <1>3 DEF SubmitFeedback, Committed, Accepted
    <2> QED
      BY <1>3, <2>1, FeedbackEffect, ConstantsOK DEF Done
  <1> QED
    BY <1>1, <1>2, <1>3 DEF CommitOf

(* What a step does to the count of a session.                             *)
LEMMA CountSteps ==
  ASSUME Inv, [Next]_vars, NEW s \in Session
  PROVE  \/ UNCHANGED <<request[s], applied[s]>> /\ (pc'[s] = "idle" => pc[s] = "idle")
         \/ pc[s] = "idle" /\ pc'[s] # "idle" /\ applied'[s] = applied[s]
         \/ request'[s] = Null /\ applied'[s] = 0
         \/ /\ CommitOf(s) /\ request'[s] = request[s] /\ applied'[s] = applied[s] + 1
            /\ pc'[s] = "committed" /\ request[s] # Null
  <1> USE DEF Inv, TypeOK
  <1>1. ASSUME NEW t \in Session, t # s, [Next]_vars,
               \/ Send(t) \/ NotFound(t) \/ LockCase(t) \/ Handle(t) \/ Fail(t)
               \/ Reply(t) \/ LoseReply(t) \/ Retry(t) \/ GiveUp(t)
        PROVE  UNCHANGED <<request[s], applied[s], pc[s]>>
    <2>1. CASE Handle(t)
      <3>1. CASE Refuse(t)
        BY <1>1, <3>1 DEF Refuse, Finished
      <3>2. CASE ~Refuse(t)
        <4>1. Committed(t)
          BY <2>1, <3>2 DEF Handle, Assign, Start, RequestVerification, RecordResponse, Close,
                            TransitionOnly, Decide, SubmitFeedback
        <4> QED
          BY <1>1, <4>1 DEF Committed
      <3> QED
        BY <3>1, <3>2
    <2> QED
      BY <1>1, <2>1 DEF Send, NotFound, LockCase, Fail, Reply, LoseReply, Retry, GiveUp, Finished
  <1>2. CASE Handle(s)
    <2>1. CASE Refuse(s)
      BY <2>1 DEF Refuse, Finished
    <2>2. CASE ~Refuse(s)
      <3>1. Committed(s) /\ CommitOf(s) /\ pc[s] = "working"
        BY <1>2, <2>2 DEF Handle, Assign, Start, RequestVerification, RecordResponse, Close,
                          TransitionOnly, Decide, SubmitFeedback, CommitOf, Op, Accepted
      <3>2. request[s] # Null
        BY <3>1, WorkingSession, ConstantsOK
      <3> QED
        BY <3>1, <3>2 DEF Committed
    <2> QED
      BY <2>1, <2>2
  <1>3. CASE \/ Send(s) \/ NotFound(s) \/ LockCase(s) \/ Fail(s)
             \/ Reply(s) \/ LoseReply(s) \/ Retry(s) \/ GiveUp(s)
    BY <1>3 DEF Send, NotFound, LockCase, Fail, Reply, LoseReply, Retry, GiveUp, Finished
  <1>4. CASE Tick \/ UNCHANGED vars
    BY <1>4 DEF Tick, vars
  <1> QED
    BY <1>1, <1>2, <1>3, <1>4 DEF Next

LEMMA AppliedStep ==
  ASSUME Inv, AppliedOK, [Next]_vars
  PROVE  AppliedOK'
  <1> SUFFICES ASSUME NEW s \in Session
               PROVE  /\ pc'[s] = "idle" => applied'[s] = 0
                      /\ request'[s] # Null /\ request'[s].op \in OneWay =>
                           applied'[s] <= 1 /\ (applied'[s] = 1 => Done(request[s])')
    BY DEF AppliedOK
  <1>1. /\ pc[s] = "idle" => applied[s] = 0
        /\ request[s] # Null /\ request[s].op \in OneWay =>
             applied[s] <= 1 /\ (applied[s] = 1 => Done(request[s]))
        /\ applied[s] \in Nat
    BY DEF AppliedOK, Inv, TypeOK
  <1>2. CASE UNCHANGED <<request[s], applied[s]>> /\ (pc'[s] = "idle" => pc[s] = "idle")
    <2>1. PICK q : q = request[s]
      OBVIOUS
    <2>2. Done(q) => Done(q)'
      BY DoneStays
    <2>3. Done(request[s])' <=> Done(q)'
      BY <1>2, <2>1 DEF Done, Decided
    <2> QED
      BY <1>1, <1>2, <2>1, <2>2, <2>3
  <1>3. CASE /\ CommitOf(s) /\ request'[s] = request[s] /\ applied'[s] = applied[s] + 1
             /\ pc'[s] = "committed" /\ request[s] # Null
    BY <1>1, <1>3, CommitMarks
  <1> QED
    BY <1>1, <1>2, <1>3, CountSteps

(* A request that was lost after its commit is repeated in vain.           *)
THEOREM RepeatsAreHarmless == Spec => []OneWayRequestsApplyOnce
  <1>1. Init => AppliedOK
    BY DEF Init, AppliedOK
  <1>2. Inv /\ AppliedOK /\ [Next]_vars => AppliedOK'
    BY AppliedStep
  <1>3. AppliedOK => OneWayRequestsApplyOnce
    BY DEF AppliedOK, OneWayRequestsApplyOnce, OneWay
  <1> QED
    BY <1>1, <1>2, <1>3, Invariance, PTL DEF Spec
------------------------------------------------------------------------------
(* Histories as sequences of their own                                     *)
VisitsOf(h, st) == {i \in DOMAIN h : h[i].to_status = st}
IsFirst(i, V) == i \in V /\ \A j \in V : i <= j
IsLast(i, V)  == i \in V /\ \A j \in V : i >= j
FirstOf(h, st) ==
  IF VisitsOf(h, st) = {} THEN Null
  ELSE h[CHOOSE i \in VisitsOf(h, st) : \A j \in VisitsOf(h, st) : i <= j].created_at
LastOf(h, st) ==
  IF VisitsOf(h, st) = {} THEN Null
  ELSE h[CHOOSE i \in VisitsOf(h, st) : \A j \in VisitsOf(h, st) : i >= j].created_at

(* Every set of numbers has a least one.                                   *)
LEMMA LeastNumber ==
  ASSUME NEW S \in SUBSET Nat, S # {}
  PROVE  \E m \in S : \A n \in S : m <= n
  <1> DEFINE Less == {pair \in Nat \X Nat : pair[1] < pair[2]}
  <1>1. IsWellFoundedOn(Less, Nat)
    BY NatLessThanWellFounded, Zenon DEF OpToRel
  <1>2. PICK m \in S : \A n \in S : ~(<<n, m>> \in Less)
    <2> HIDE DEF Less
    <2> QED
      BY <1>1, WFMin
  <1>3. \A n \in S : ~(n < m)
    <2> SUFFICES ASSUME NEW n \in S, n < m PROVE FALSE
      OBVIOUS
    <2>1. <<n, m>> \in Nat \X Nat /\ <<n, m>>[1] < <<n, m>>[2]
      OBVIOUS
    <2>2. <<n, m>> \in Less
      BY ONLY <2>1
    <2> QED
      BY <1>2, <2>2
  <1> QED
    BY <1>3

(* A set of numbers with a bound has a greatest one.                       *)
LEMMA GreatestNumber ==
  ASSUME NEW S \in SUBSET Nat, S # {}, NEW top \in Nat, \A n \in S : n <= top
  PROVE  \E m \in S : \A n \in S : n <= m
  <1> DEFINE Distances == {top - n : n \in S}
  <1>1. Distances \in SUBSET Nat /\ Distances # {}
    <2>1. \A n \in S : n \in Nat /\ n <= top
      OBVIOUS
    <2>2. \A n \in S : top - n \in Nat
      BY <2>1
    <2> QED
      BY <2>2
  <1>2. PICK d \in Distances : \A e \in Distances : d <= e
    <2> HIDE DEF Distances
    <2> QED
      BY <1>1, LeastNumber
  <1>3. PICK m \in S : d = top - m
    OBVIOUS
  <1>4. \A n \in S : top - m <= top - n
    BY <1>2, <1>3
  <1> QED
    BY <1>4

LEMMA TheVisits ==
  ASSUME NEW h \in Seq(HistoryRow), NEW st, VisitsOf(h, st) # {}
  PROVE  /\ \E i \in VisitsOf(h, st) : IsFirst(i, VisitsOf(h, st)) /\ FirstOf(h, st) = h[i].created_at
         /\ \E i \in VisitsOf(h, st) : IsLast(i, VisitsOf(h, st)) /\ LastOf(h, st) = h[i].created_at
         /\ FirstOf(h, st) # Null
  <1> DEFINE V == VisitsOf(h, st)
  <1>1. V \in SUBSET Nat /\ V \in SUBSET (1..Len(h)) /\ \A i \in V : h[i] \in HistoryRow
    BY DEF VisitsOf
  <1>2. \E m \in V : \A n \in V : m <= n
    BY <1>1, LeastNumber
  <1>3. Len(h) \in Nat /\ \A n \in V : n <= Len(h)
    BY <1>1
  <1>4. \E m \in V : \A n \in V : n <= m
    <2> HIDE DEF V
    <2> QED
      BY <1>1, <1>3, <1>2, GreatestNumber
  <1>5. \E m \in V : \A n \in V : m >= n
    BY <1>1, <1>4
  <1>6. PICK i \in V : i = (CHOOSE k \in V : \A j \in V : k <= j) /\ \A j \in V : i <= j
    BY <1>2
  <1>7. PICK i1 \in V : i1 = (CHOOSE k \in V : \A j \in V : k >= j) /\ \A j \in V : i1 >= j
    BY <1>5
  <1>8. FirstOf(h, st) = h[i].created_at /\ LastOf(h, st) = h[i1].created_at
    BY <1>6, <1>7 DEF FirstOf, LastOf
  <1>9. h[i].created_at # Null
    BY <1>1, ConstantsOK DEF HistoryRow, Time
  <1> QED
    BY <1>6, <1>7, <1>8, <1>9 DEF IsFirst, IsLast

Extends(g, h, row) == g = Append(h, row)

(* What one more row does to the first and the last visit.                 *)
LEMMA OneMoreVisit ==
  ASSUME NEW h \in Seq(HistoryRow), NEW row \in HistoryRow, NEW st, NEW g, Extends(g, h, row)
  PROVE  /\ row.to_status # st =>
              /\ (VisitsOf(g, st) = {} <=> VisitsOf(h, st) = {})
              /\ FirstOf(g, st) = FirstOf(h, st) /\ LastOf(g, st) = LastOf(h, st)
         /\ row.to_status = st =>
              /\ LastOf(g, st) = row.created_at
              /\ FirstOf(g, st) = IF VisitsOf(h, st) = {} THEN row.created_at ELSE FirstOf(h, st)
  <1> DEFINE n == Len(h) + 1
             V == VisitsOf(h, st)
             W == VisitsOf(g, st)
  <1>1. /\ g \in Seq(HistoryRow) /\ n \in Nat /\ Len(g) = n /\ g[n] = row
        /\ DOMAIN g = DOMAIN h \cup {n} /\ n \notin DOMAIN h
        /\ \A i \in DOMAIN h : g[i] = h[i] /\ i \in Nat /\ i < n
    BY DEF Extends
  <1>2. W = IF row.to_status = st THEN V \cup {n} ELSE V
    BY <1>1 DEF VisitsOf
  <1>3. \A i \in V : g[i] = h[i] /\ i \in Nat /\ i < n
    BY <1>1 DEF VisitsOf
  <1>4. \A X, i, j : /\ X \in {V, W} /\ IsFirst(i, X) /\ IsFirst(j, X) => i = j
                     /\ X \in {V, W} /\ IsLast(i, X) /\ IsLast(j, X) => i = j
    <2>1. \A i \in V \cup W : i \in Nat
      BY <1>1, <1>2, <1>3
    <2> HIDE DEF V, W, n
    <2> QED
      BY <2>1 DEF IsFirst, IsLast
  <1>5. V # {} => /\ \E i \in V : IsFirst(i, V) /\ FirstOf(h, st) = h[i].created_at
                  /\ \E i \in V : IsLast(i, V) /\ LastOf(h, st) = h[i].created_at
    BY TheVisits
  <1>6. W # {} => /\ \E i \in W : IsFirst(i, W) /\ FirstOf(g, st) = g[i].created_at
                  /\ \E i \in W : IsLast(i, W) /\ LastOf(g, st) = g[i].created_at
    BY <1>1, TheVisits
  <1>7. V = {} => FirstOf(h, st) = Null /\ LastOf(h, st) = Null
    BY DEF FirstOf, LastOf
  <1>8. W = {} => FirstOf(g, st) = Null /\ LastOf(g, st) = Null
    BY DEF FirstOf, LastOf
  <1>9. n \in Nat /\ g[n] = row
    BY <1>1
  <1> HIDE DEF V, W, n
  <1>10. CASE row.to_status # st
    <2>1. W = V
      BY <1>2, <1>10
    <2>2. CASE V = {}
      BY <1>7, <1>8, <1>10, <2>1, <2>2 DEF V, W
    <2>3. CASE V # {}
      <3>1. PICK i \in V : IsFirst(i, V) /\ FirstOf(h, st) = h[i].created_at
        BY <1>5, <2>3
      <3>2. PICK j \in W : IsFirst(j, W) /\ FirstOf(g, st) = g[j].created_at
        BY <1>6, <2>1, <2>3
      <3>3. i = j /\ g[j] = h[i]
        BY <1>3, <1>4, <2>1, <3>1, <3>2
      <3>4. PICK k \in V : IsLast(k, V) /\ LastOf(h, st) = h[k].created_at
        BY <1>5, <2>3
      <3>5. PICK l \in W : IsLast(l, W) /\ LastOf(g, st) = g[l].created_at
        BY <1>6, <2>1, <2>3
      <3>6. k = l /\ g[l] = h[k]
        BY <1>3, <1>4, <2>1, <3>4, <3>5
      <3> QED
        BY <1>10, <2>1, <3>1, <3>2, <3>3, <3>4, <3>5, <3>6 DEF V, W
    <2> QED
      BY <2>2, <2>3
  <1>11. CASE row.to_status = st
    <2>1. W = V \cup {n} /\ W # {}
      BY <1>2, <1>11
    <2>2. IsLast(n, W)
      BY <1>3, <1>9, <2>1 DEF IsLast
    <2>3. LastOf(g, st) = row.created_at
      BY <1>4, <1>6, <1>9, <2>1, <2>2
    <2>4. PICK j \in W : IsFirst(j, W) /\ FirstOf(g, st) = g[j].created_at
      BY <1>6, <2>1
    <2>5. CASE V = {}
      <3>1. j = n
        BY <2>1, <2>5
      <3> QED
        BY <1>9, <1>11, <2>3, <2>4, <2>5, <3>1 DEF V
    <2>6. CASE V # {}
      <3>1. PICK i \in V : IsFirst(i, V) /\ FirstOf(h, st) = h[i].created_at
        BY <1>5, <2>6
      <3>2. IsFirst(i, W)
        BY <1>3, <1>9, <2>1, <3>1 DEF IsFirst
      <3>3. i = j
        BY <1>4, <2>4, <3>2
      <3> QED
        BY <1>3, <1>11, <2>3, <2>4, <2>6, <3>1, <3>3 DEF V
    <2> QED
      BY <2>5, <2>6
  <1> QED
    BY <1>10, <1>11
------------------------------------------------------------------------------
(* The history of a case and its row                                       *)

(* From the creation to the present status, along the transitions.         *)
Walk(h) ==
  /\ h \in Seq(HistoryRow) /\ h # <<>>
  /\ h[1].from_status = Null /\ h[1].to_status = "YENI"
  /\ \A i \in 2..Len(h) :
       /\ h[i].from_status = h[i - 1].to_status
       /\ h[i].to_status \in AllowedTransitions[h[i].from_status]
       /\ h[i].created_at >= h[i - 1].created_at

Tells(h, r) ==
  /\ h[Len(h)].to_status = r.status
  /\ r.assigned_at = FirstOf(h, "ATANDI")
  /\ r.started_at = FirstOf(h, "INCELENIYOR")
  /\ r.verification_requested_at = LastOf(h, "MUSTERI_DOGRULAMA")
  /\ r.decided_at \in {FirstOf(h, "ONAYLANDI"), FirstOf(h, "BLOKLANDI")}
  /\ r.status \in CaseDecision \cup {"KAPANDI"} => r.decided_at # Null
  /\ r.closed_at = FirstOf(h, "KAPANDI")

(* Where a case has not been on its way to st: what it is not seen to pass *)
(* twice.                                                                  *)
NotYet(h, st) ==
  /\ st = "YENI" => VisitsOf(h, "ATANDI") = {}
  /\ st \notin CaseDecision \cup {"KAPANDI"} =>
       VisitsOf(h, "ONAYLANDI") = {} /\ VisitsOf(h, "BLOKLANDI") = {}
  /\ st # "KAPANDI" => VisitsOf(h, "KAPANDI") = {}

HistoryOK ==
  \A c \in Case :
    /\ Walk(history[c]) /\ Tells(history[c], risk_case[c])
    /\ NotYet(history[c], risk_case[c].status)
    /\ history[c][Len(history[c])].created_at <= now

(* The timestamps that a transition sets.                                  *)
Stamps(m, r, to, t) ==
  /\ m.status = to
  /\ m.assigned_at = IF to = "ATANDI" THEN t ELSE r.assigned_at
  /\ m.started_at = IF to = "INCELENIYOR" /\ r.started_at = Null THEN t ELSE r.started_at
  /\ m.verification_requested_at =
       IF to = "MUSTERI_DOGRULAMA" THEN t ELSE r.verification_requested_at
  /\ m.decided_at = IF to \in CaseDecision THEN t ELSE r.decided_at
  /\ m.closed_at = IF to = "KAPANDI" THEN t ELSE r.closed_at

LEMMA TransitionedStamps ==
  ASSUME NEW r \in RiskCase, NEW to \in CaseStatus \ {"YENI"}, NEW t \in Time
  PROVE  Stamps(Transitioned(r, to, t), r, to, t)
  <1>1. CASE to = "ATANDI"
    BY <1>1 DEF RiskCase, Transitioned, Stamps, CaseStatus, CaseDecision
  <1>2. CASE to = "INCELENIYOR"
    BY <1>2 DEF RiskCase, Transitioned, Stamps, CaseStatus, CaseDecision
  <1>3. CASE to = "MUSTERI_DOGRULAMA"
    BY <1>3 DEF RiskCase, Transitioned, Stamps, CaseStatus, CaseDecision
  <1>4. CASE to \in CaseDecision
    BY <1>4 DEF RiskCase, Transitioned, Stamps, CaseStatus, CaseDecision
  <1>5. CASE to = "KAPANDI"
    BY <1>5 DEF RiskCase, Transitioned, Stamps, CaseStatus, CaseDecision
  <1> QED
    BY <1>1, <1>2, <1>3, <1>4, <1>5 DEF CaseStatus, CaseDecision

LEMMA EditedStamps ==
  ASSUME NEW r \in RiskCase, NEW q \in RequestType
  PROVE  LET e == Edited(q, r) IN
         /\ e.assigned_at = r.assigned_at /\ e.started_at = r.started_at
         /\ e.verification_requested_at = r.verification_requested_at
         /\ e.decided_at = r.decided_at /\ e.closed_at = r.closed_at
  <1>1. CASE q.op = "assign"
    BY <1>1 DEF RiskCase, Edited
  <1>2. CASE q.op = "customer_response"
    BY <1>2 DEF RiskCase, Edited
  <1>3. CASE q.op = "decide"
    BY <1>3 DEF RiskCase, Edited
  <1>4. CASE q.op \notin {"assign", "customer_response", "decide"}
    BY <1>4 DEF Edited
  <1> QED
    BY <1>1, <1>2, <1>3, <1>4

(* One allowed transition more.                                            *)
LEMMA OneMoreStep ==
  ASSUME NEW h, Walk(h), NEW r \in RiskCase, Tells(h, r), NotYet(h, r.status),
         NEW t \in Time, h[Len(h)].created_at <= t,
         NEW to, to \in AllowedTransitions[r.status], NEW m \in RiskCase, Stamps(m, r, to, t),
         NEW row \in HistoryRow, row.from_status = r.status, row.to_status = to,
         row.created_at = t,
         NEW g, Extends(g, h, row)
  PROVE  Walk(g) /\ Tells(g, m) /\ NotYet(g, to) /\ g[Len(g)].created_at <= t
  <1>1. /\ r.status \in CaseStatus /\ to \in CaseStatus \ {"YENI"}
        /\ to = "ATANDI" => r.status = "YENI"
        /\ to \in CaseDecision \cup {"MUSTERI_DOGRULAMA"} => r.status = "INCELENIYOR"
        /\ to = "INCELENIYOR" => r.status \in {"ATANDI", "MUSTERI_DOGRULAMA"}
        /\ to = "KAPANDI" => r.status \in CaseDecision
    BY DEF RiskCase, CaseStatus, CaseDecision, AllowedTransitions
  <1>2. /\ row \in HistoryRow /\ row.from_status = r.status /\ row.to_status = to
        /\ row.created_at = t
    OBVIOUS
  <1> DEFINE n == Len(h)
  <1>3. /\ h \in Seq(HistoryRow) /\ n \in Nat \ {0}
        /\ g \in Seq(HistoryRow) /\ Len(g) = n + 1 /\ g[n + 1] = row
        /\ \A i \in 1..n : g[i] = h[i]
    BY <1>2 DEF Walk, Extends
  <1>4. t \in Int /\ h[n].created_at \in Int
    <2>1. h[n] \in HistoryRow
      BY <1>3
    <2> QED
      BY <2>1 DEF HistoryRow, Time
  <1>5. Walk(g)
    <2>1. g # <<>> /\ g[1] = h[1] /\ g[n] = h[n]
      BY <1>3
    <2>2. ASSUME NEW i \in 2..(n + 1)
          PROVE  /\ g[i].from_status = g[i - 1].to_status
                 /\ g[i].to_status \in AllowedTransitions[g[i].from_status]
                 /\ g[i].created_at >= g[i - 1].created_at
      <3>1. CASE i = n + 1
        BY <1>2, <1>3, <1>4, <2>1, <3>1 DEF Tells
      <3>2. CASE i # n + 1
        <4>1. i \in 2..n /\ i - 1 \in 1..n /\ i \in 1..n
          BY <1>3, <3>2
        <4>2. g[i] = h[i] /\ g[i - 1] = h[i - 1]
          BY <1>3, <4>1
        <4> QED
          BY <4>1, <4>2 DEF Walk
      <3> QED
        BY <3>1, <3>2
    <2> QED
      BY <1>3, <2>1, <2>2 DEF Walk
  <1>6. \A st : to # st =>
          /\ (VisitsOf(g, st) = {} <=> VisitsOf(h, st) = {})
          /\ FirstOf(g, st) = FirstOf(h, st) /\ LastOf(g, st) = LastOf(h, st)
    <2>1. h \in Seq(HistoryRow) /\ row \in HistoryRow /\ row.to_status = to
      BY <1>2, <1>3
    <2> QED
      BY <2>1, OneMoreVisit
  <1>7. /\ LastOf(g, to) = t
        /\ FirstOf(g, to) = IF VisitsOf(h, to) = {} THEN t ELSE FirstOf(h, to)
    <2>1. h \in Seq(HistoryRow) /\ row \in HistoryRow /\ row.to_status = to /\ row.created_at = t
      BY <1>2, <1>3
    <2> QED
      BY <2>1, OneMoreVisit
  <1>8. \A st : FirstOf(h, st) = Null <=> VisitsOf(h, st) = {}
    BY <1>3, TheVisits DEF FirstOf
  <1>9. t # Null
    BY <1>4, ConstantsOK
  <1>10. /\ m.assigned_at = FirstOf(g, "ATANDI")
         /\ m.started_at = FirstOf(g, "INCELENIYOR")
         /\ m.verification_requested_at = LastOf(g, "MUSTERI_DOGRULAMA")
         /\ m.closed_at = FirstOf(g, "KAPANDI")
    <2>1. m.assigned_at = FirstOf(g, "ATANDI")
      BY <1>1, <1>6, <1>7 DEF Tells, Stamps, NotYet
    <2>2. m.started_at = FirstOf(g, "INCELENIYOR")
      BY <1>6, <1>7, <1>8 DEF Tells, Stamps
    <2>3. m.verification_requested_at = LastOf(g, "MUSTERI_DOGRULAMA")
      BY <1>6, <1>7 DEF Tells, Stamps
    <2>4. m.closed_at = FirstOf(g, "KAPANDI")
      BY <1>1, <1>6, <1>7 DEF Tells, Stamps, NotYet, CaseDecision
    <2> QED
      BY <2>1, <2>2, <2>3, <2>4
  <1>11. m.decided_at \in {FirstOf(g, "ONAYLANDI"), FirstOf(g, "BLOKLANDI")}
    BY <1>1, <1>6, <1>7 DEF Tells, Stamps, NotYet, CaseDecision
  <1>12. to \in CaseDecision \cup {"KAPANDI"} => m.decided_at # Null
    BY <1>1, <1>9 DEF Tells, Stamps, CaseDecision
  <1>13. Tells(g, m)
    BY <1>2, <1>3, <1>10, <1>11, <1>12 DEF Tells, Stamps
  <1>14. NotYet(g, to)
    <2>1. to \notin CaseDecision \cup {"KAPANDI"} =>
            VisitsOf(g, "ONAYLANDI") = {} /\ VisitsOf(g, "BLOKLANDI") = {}
      <3>1. ASSUME to \notin CaseDecision \cup {"KAPANDI"}
            PROVE  r.status \notin CaseDecision \cup {"KAPANDI"}
        BY <1>1, <3>1 DEF CaseDecision, CaseStatus
      <3> QED
        BY <1>6, <3>1 DEF NotYet, CaseDecision
    <2>2. to # "KAPANDI" => VisitsOf(g, "KAPANDI") = {}
      <3>1. ASSUME to # "KAPANDI" PROVE r.status # "KAPANDI"
        BY <1>1, <3>1 DEF CaseDecision, CaseStatus
      <3> QED
        BY <1>6, <3>1 DEF NotYet
    <2> QED
      BY <1>1, <2>1, <2>2 DEF NotYet
  <1> QED
    BY <1>2, <1>3, <1>4, <1>5, <1>13, <1>14

LEMMA HistoryStep ==
  ASSUME Inv, HistoryOK, [Next]_vars
  PROVE  HistoryOK'
  <1>1. now' \in Time /\ now' >= now
    <2>1. now' = now \/ now' = now + 1
      BY DEF Next, vars, Send, NotFound, LockCase, Handle, Fail, Reply, LoseReply, Retry, GiveUp, Tick,
             Assign, Start, RequestVerification, RecordResponse, Close, TransitionOnly, Decide,
             SubmitFeedback, Committed, Refuse
    <2>2. now \in Int /\ now' \in Time
      BY StepKeepsInv DEF Inv, TypeOK, Time
    <2> QED
      BY <2>1, <2>2
  <1> SUFFICES ASSUME NEW c \in Case
               PROVE  /\ Walk(history'[c]) /\ Tells(history'[c], risk_case'[c])
                      /\ NotYet(history'[c], risk_case'[c].status)
                      /\ history'[c][Len(history'[c])].created_at <= now'
    BY DEF HistoryOK, Walk, Tells, NotYet, VisitsOf, FirstOf, LastOf
  <1>2. /\ Walk(history[c]) /\ Tells(history[c], risk_case[c])
        /\ NotYet(history[c], risk_case[c].status)
        /\ history[c][Len(history[c])].created_at <= now
    BY DEF HistoryOK
  <1>3. history[c][Len(history[c])].created_at \in Int
    <2>1. history[c] \in Seq(HistoryRow) /\ history[c] # <<>>
      BY <1>2 DEF Walk
    <2>2. history[c][Len(history[c])] \in HistoryRow
      BY <2>1
    <2> QED
      BY <2>2 DEF HistoryRow, Time
  <1>4. history[c][Len(history[c])].created_at <= now'
    BY <1>1, <1>2, <1>3 DEF Inv, TypeOK, Time
  <1>5. CASE history'[c] = history[c] /\ risk_case'[c] = risk_case[c]
    BY <1>2, <1>4, <1>5
  <1>6. ASSUME NEW s \in Session, NEW op \in Op \ {"submit_feedback"}, Accepted(s, op),
               WriteTransition(s), now' = now, c = request[s].case
        PROVE  /\ Walk(history'[c]) /\ Tells(history'[c], risk_case'[c])
               /\ NotYet(history'[c], risk_case'[c].status)
               /\ history'[c][Len(history'[c])].created_at <= now'
    <2>1. PICK q, r, m, to, row, t, h :
            /\ q = request[s] /\ r = risk_case[c] /\ m = Moved(s) /\ to = Target(q) /\ t = now
            /\ row = [from_status |-> r.status, to_status |-> to, created_at |-> t]
            /\ h = history[c]
      OBVIOUS
    <2>2. /\ q \in RequestType /\ r \in RiskCase /\ seen[s].row = r /\ pc[s] = "working"
          /\ Accepts(q, seen[s]) /\ q.op = op
      BY <1>6, <2>1, WorkingSession DEF Accepted
    <2>3. m \in RiskCase /\ to \in AllowedTransitions[r.status]
      BY <1>6, <2>1, MovedRow, MovedFrom
    <2>4. to \in CaseStatus \ {"YENI"} /\ t \in Time
      BY <2>1, <2>2, AcceptedMove DEF Inv, TypeOK
    <2>5. PICK e : e = Edited(q, r)
      OBVIOUS
    <2>6. e \in RiskCase /\ m = Transitioned(e, to, t)
      BY <2>1, <2>2, <2>5, EditedRow DEF Moved
    <2>7. Stamps(m, e, to, t)
      BY <2>4, <2>6, TransitionedStamps
    <2>8. Stamps(m, r, to, t)
      BY <2>2, <2>5, <2>7, EditedStamps DEF Stamps
    <2>9. history'[c] = Append(h, row) /\ risk_case'[c] = m
      BY <1>6, <2>1, <2>2 DEF WriteTransition, Inv, TypeOK
    <2>10. m.status = to
      BY <2>8 DEF Stamps
    <2>11. /\ Walk(h) /\ Tells(h, r) /\ NotYet(h, r.status)
           /\ h[Len(h)].created_at <= t
      BY <1>2, <2>1
    <2>12. PICK g : g = Append(h, row)
      OBVIOUS
    <2>13. /\ row \in HistoryRow /\ row.from_status = r.status /\ row.to_status = to
           /\ row.created_at = t
      BY <2>1, <2>2, <2>4 DEF HistoryRow, RiskCase
    <2>14. Walk(g) /\ Tells(g, m) /\ NotYet(g, to) /\ g[Len(g)].created_at <= t
      BY <2>2, <2>3, <2>4, <2>8, <2>11, <2>12, <2>13, OneMoreStep DEF Extends
    <2> QED
      BY <1>6, <2>1, <2>9, <2>10, <2>12, <2>14
  <1>7. ASSUME NEW s \in Session, NEW op \in Op \ {"submit_feedback"}, Accepted(s, op),
               WriteTransition(s), c # request[s].case
        PROVE  history'[c] = history[c] /\ risk_case'[c] = risk_case[c]
    BY <1>7 DEF WriteTransition, Inv, TypeOK
  <1>8. ASSUME NEW s \in Session, CommitOf(s)
        PROVE  /\ Walk(history'[c]) /\ Tells(history'[c], risk_case'[c])
               /\ NotYet(history'[c], risk_case'[c].status)
               /\ history'[c][Len(history'[c])].created_at <= now'
    <2>1. CASE SubmitFeedback(s)
      BY <1>5, <2>1 DEF SubmitFeedback
    <2>2. CASE ~SubmitFeedback(s)
      <3>1. PICK op \in Op \ {"submit_feedback"} :
              Accepted(s, op) /\ WriteTransition(s) /\ now' = now
        BY <1>8, <2>2 DEF CommitOf, TransitionOnly, Decide, Committed, Op
      <3> QED
        BY <1>5, <1>6, <1>7, <3>1
    <2> QED
      BY <2>1, <2>2
  <1>9. CASE Quiet
    BY <1>5, <1>9 DEF Quiet, db
  <1> QED
    BY <1>8, <1>9, StepKeepsInv

LEMMA InitHistory == Init => HistoryOK
  <1> SUFFICES ASSUME Init, NEW c \in Case
               PROVE  /\ Walk(history[c]) /\ Tells(history[c], risk_case[c])
                      /\ NotYet(history[c], risk_case[c].status)
                      /\ history[c][Len(history[c])].created_at <= now
    BY DEF HistoryOK
  <1>1. PICK a \in Assignee \cup {Null} : risk_case[c] = NewCase(a) /\ history[c] = NewHistory(a)
    BY DEF Init
  <1>2. PICK r0, r1 : /\ r0 = [from_status |-> Null, to_status |-> "YENI", created_at |-> 0]
                      /\ r1 = [from_status |-> "YENI", to_status |-> "ATANDI", created_at |-> 0]
    OBVIOUS
  <1>3. /\ r0 \in HistoryRow /\ r0.from_status = Null /\ r0.to_status = "YENI" /\ r0.created_at = 0
        /\ r1 \in HistoryRow /\ r1.from_status = "YENI" /\ r1.to_status = "ATANDI" /\ r1.created_at = 0
    BY <1>2, ConstantsOK DEF HistoryRow, CaseStatus, Time
  <1>4. PICK h0 : h0 = <<r0>>
    OBVIOUS
  <1>5. /\ h0 \in Seq(HistoryRow) /\ Len(h0) = 1 /\ h0[1] = r0 /\ h0 # <<>> /\ DOMAIN h0 = {1}
    BY <1>3, <1>4
  <1>6. Walk(h0)
    BY <1>3, <1>5 DEF Walk
  <1>7. \A st : st # "YENI" =>
          VisitsOf(h0, st) = {} /\ FirstOf(h0, st) = Null /\ LastOf(h0, st) = Null
    BY <1>3, <1>5 DEF VisitsOf, FirstOf, LastOf
  <1>8. now = 0
    BY DEF Init
  <1>9. PICK new : new = NewCase(Null)
    OBVIOUS
  <1>10. /\ new \in RiskCase /\ new.status = "YENI"
         /\ new.assigned_at = Null /\ new.started_at = Null
         /\ new.verification_requested_at = Null /\ new.decided_at = Null /\ new.closed_at = Null
    BY <1>9, ConstantsOK DEF NewCase, RiskCase, CaseStatus, Time
  <1>11. Tells(h0, new) /\ NotYet(h0, "YENI")
    BY <1>3, <1>5, <1>7, <1>10 DEF Tells, NotYet, CaseDecision
  <1>12. CASE a = Null
    <2>1. history[c] = h0 /\ risk_case[c] = new
      BY <1>1, <1>2, <1>4, <1>9, <1>12 DEF NewHistory
    <2>2. h0[Len(h0)].created_at = 0 /\ 0 <= now
      BY <1>3, <1>5, <1>8
    <2> QED
      BY <1>6, <1>8, <1>10, <1>11, <2>1, <2>2
  <1>13. CASE a # Null
    <2>1. PICK m, g : m = NewCase(a) /\ Extends(g, h0, r1)
      BY DEF Extends
    <2>2. history[c] = g /\ risk_case[c] = m
      <3>1. history[c] = <<r0>> \o <<r1>>
        BY <1>1, <1>2, <1>13 DEF NewHistory
      <3>2. <<r0>> \o <<r1>> = Append(<<r0>>, r1)
        BY <1>3
      <3> QED
        BY <1>1, <1>4, <2>1, <3>1, <3>2 DEF Extends
    <2>3. m \in RiskCase /\ m.status = "ATANDI"
      BY <1>13, <2>1, ConstantsOK DEF NewCase, RiskCase, CaseStatus, Time
    <2>4. Stamps(m, new, "ATANDI", 0)
      BY <1>10, <1>13, <2>1 DEF NewCase, Stamps, CaseDecision
    <2>5. "ATANDI" \in AllowedTransitions[new.status] /\ 0 \in Time
      BY <1>10, ConstantsOK DEF AllowedTransitions, Time
    <2>6. Walk(g) /\ Tells(g, m) /\ NotYet(g, "ATANDI") /\ g[Len(g)].created_at <= 0
      BY <1>3, <1>5, <1>6, <1>10, <1>11, <2>1, <2>3, <2>4, <2>5, OneMoreStep
    <2> QED
      BY <1>8, <2>2, <2>3, <2>6
  <1> QED
    BY <1>12, <1>13

(* The history of a case is a walk along the transitions to its present    *)
(* status, in the order of time, and accounts for every timestamp of its   *)
(* row (CaseTransitionService), for every number of sessions and retries.  *)
THEOREM HistoriesTellTheCase == Spec => []HistoryTellsTheCase
  <1>1. Inv /\ HistoryOK /\ [Next]_vars => HistoryOK'
    BY HistoryStep
  <1>2. HistoryOK => HistoryTellsTheCase
    <2> SUFFICES ASSUME HistoryOK, NEW c \in Case, NEW h, h = history[c], NEW r, r = risk_case[c]
                 PROVE  /\ h[1].from_status = Null /\ h[1].to_status = "YENI"
                        /\ h[Len(h)].to_status = r.status
                        /\ \A i \in 2..Len(h) :
                             /\ h[i].from_status = h[i - 1].to_status
                             /\ h[i].to_status \in AllowedTransitions[h[i].from_status]
                             /\ h[i].created_at >= h[i - 1].created_at
                        /\ r.assigned_at = FirstVisit(c, "ATANDI")
                        /\ r.started_at = FirstVisit(c, "INCELENIYOR")
                        /\ r.verification_requested_at = LastVisit(c, "MUSTERI_DOGRULAMA")
                        /\ r.decided_at \in {FirstVisit(c, "ONAYLANDI"), FirstVisit(c, "BLOKLANDI")}
                        /\ Decided(c) => r.decided_at # Null
                        /\ r.closed_at = FirstVisit(c, "KAPANDI")
      BY DEF HistoryTellsTheCase
    <2>1. Walk(h) /\ Tells(h, r)
      BY DEF HistoryOK
    <2>2. \A st : FirstVisit(c, st) = FirstOf(h, st) /\ LastVisit(c, st) = LastOf(h, st)
      BY DEF FirstVisit, LastVisit, Visits, FirstOf, LastOf, VisitsOf
    <2> QED
      BY <2>1, <2>2 DEF Walk, Tells, Decided
  <1> QED
    BY InitHistory, <1>1, <1>2, Invariance, PTL DEF Spec

------------------------------------------------------------------------------
(* The refinement of CaseLifecycle: a commit is the abstract step of its   *)
(* operation, and every other step leaves the abstract state alone.        *)
Status  == [c \in Case |-> risk_case[c].status]
Holder  == [c \in Case |-> risk_case[c].assigned_analyst_id]
Answers == [c \in Case |-> risk_case[c].customer_response]
Log     == [i \in 1..Len(outbox) |-> Announcement(outbox[i])]

(* The log grows with the outbox.                                          *)
LEMMA LogGrows ==
  ASSUME Inv, NEW e, outbox' = Append(outbox, e)
  PROVE  Log' = Append(Log, Announcement(e))
  <1> DEFINE n == Len(outbox)
  <1>1. n \in Nat /\ outbox \in Seq(OutboxEvent) /\ DOMAIN outbox = 1..n
    BY DEF Inv, TypeOK
  <1>2. /\ Len(outbox') = n + 1
        /\ outbox'[n + 1] = e
        /\ \A i \in 1..n : outbox'[i] = outbox[i]
    BY <1>1
  <1>3. Log' = [i \in 1..(n + 1) |-> Announcement(outbox'[i])]
    BY <1>2 DEF Log
  <1>4. Log = [i \in 1..n |-> Announcement(outbox[i])]
    BY DEF Log
  <1>5. Len(Log) = n
    BY <1>1, <1>4
  <1>6. Append(Log, Announcement(e)) =
          [i \in 1..(n + 1) |-> IF i = n + 1 THEN Announcement(e) ELSE Log[i]]
    BY <1>1, <1>4, <1>5
  <1>7. ASSUME NEW i \in 1..(n + 1)
        PROVE  Announcement(outbox'[i]) = IF i = n + 1 THEN Announcement(e) ELSE Log[i]
    BY <1>1, <1>2, <1>4, <1>7
  <1> QED
    BY <1>3, <1>6, <1>7

(* A commit touches one case of the abstract state.                        *)
LEMMA OneCaseMoves ==
  ASSUME Inv, NEW s \in Session, WriteTransition(s), request[s].case \in Case,
         Moved(s) \in RiskCase
  PROVE  LET b == request[s].case IN
         /\ Status' = [Status EXCEPT ![b] = Moved(s).status]
         /\ Holder' = [Holder EXCEPT ![b] = Moved(s).assigned_analyst_id]
         /\ Answers' = [Answers EXCEPT ![b] = Moved(s).customer_response]
  <1> DEFINE b == request[s].case
  <1>1. risk_case' = [risk_case EXCEPT ![b] = Moved(s)] /\ risk_case \in [Case -> RiskCase]
    BY DEF WriteTransition, Inv, TypeOK
  <1>2. \A c \in Case : risk_case'[c] = IF c = b THEN Moved(s) ELSE risk_case[c]
    BY <1>1
  <1> QED
    BY <1>2 DEF Status, Holder, Answers

LEMMA InitMaps == Init => Lifecycle!Init
  <1> SUFFICES ASSUME Init PROVE Lifecycle!Init
    OBVIOUS
  <1>1. PICK chosen \in [Case -> Assignee \cup {Null}] :
          risk_case = [c \in Case |-> NewCase(chosen[c])]
    BY DEF Init
  <1>2. \A c \in Case : /\ risk_case[c].assigned_analyst_id = chosen[c]
                        /\ risk_case[c].status = IF chosen[c] = Null THEN "YENI" ELSE "ATANDI"
                        /\ risk_case[c].customer_response = Null
    BY <1>1 DEF NewCase
  <1>3. Log = <<>>
    BY DEF Log, Init
  <1> QED
    BY <1>2, <1>3 DEF Lifecycle!Init, Log

(* The instance's variables are the four functions above.                  *)
LEMMA QuietMaps ==
  ASSUME Quiet
  PROVE  UNCHANGED Lifecycle!lvars
  BY DEF Quiet, db, Lifecycle!lvars

(* The handlers that only move a case are the abstract steps of their name.*)
LEMMA TransitionMaps ==
  ASSUME Inv, NEW s \in Session, NEW op \in Op \ {"decide", "submit_feedback"},
         TransitionOnly(s, op)
  PROVE  Lifecycle!Next
  <1>1. /\ Accepted(s, op) /\ WriteTransition(s) /\ outbox' = outbox
        /\ op \in Op \ {"submit_feedback"}
    BY DEF TransitionOnly
  <1>2. PICK q \in RequestType : q = request[s] /\ q.op = op
    BY <1>1, WorkingSession DEF Accepted
  <1> DEFINE b == q.case
             r == risk_case[b]
  <1>3. b \in Case /\ r \in RiskCase
    BY <1>1, <1>2, WorkingSession DEF Accepted
  <1>4. PICK m \in RiskCase : m = Moved(s)
    BY <1>1, MovedRow
  <1>5. /\ m \in RiskCase /\ m.status = Target(q)
        /\ op # "assign" => m.assigned_analyst_id = r.assigned_analyst_id
        /\ op = "assign" => m.assigned_analyst_id = q.analyst
        /\ op # "customer_response" => m.customer_response = r.customer_response
        /\ op = "customer_response" => m.customer_response = q.response
    BY <1>1, <1>2, <1>4, MovedRow
  <1>6. /\ Status' = [Status EXCEPT ![b] = m.status]
        /\ Holder' = [Holder EXCEPT ![b] = m.assigned_analyst_id]
        /\ Answers' = [Answers EXCEPT ![b] = m.customer_response]
    BY <1>1, <1>2, <1>3, <1>4, OneCaseMoves
  <1>7. Log' = Log
    BY <1>1 DEF Log
  <1>8. /\ op = "assign" => r.status = "YENI" /\ Target(q) = "ATANDI"
        /\ op \in {"start", "customer_response"} =>
             r.status \in {"ATANDI", "MUSTERI_DOGRULAMA"} /\ Target(q) = "INCELENIYOR"
        /\ op = "request_verification" =>
             r.status = "INCELENIYOR" /\ Target(q) = "MUSTERI_DOGRULAMA"
        /\ op = "close" => r.status \in CaseDecision /\ Target(q) = "KAPANDI"
    BY <1>1, <1>2, MovedFrom
  <1>9. /\ Status[b] = r.status /\ Holder[b] = r.assigned_analyst_id
        /\ Answers[b] = r.customer_response
    BY <1>3 DEF Status, Holder, Answers
  <1>10. /\ Status \in [Case -> CaseStatus]
         /\ Holder = [Holder EXCEPT ![b] = Holder[b]]
         /\ Answers = [Answers EXCEPT ![b] = Answers[b]]
    BY <1>3 DEF Status, Holder, Answers, Inv, TypeOK, RiskCase
  <1>11. op = "customer_response" => q.response \in Lifecycle!Answer
    BY <1>2, RequestFields DEF GivenResponse, CustomerResponse, Lifecycle!Answer
  <1> HIDE DEF b, r
  <1>12. CASE op = "assign"
    <2>1. Lifecycle!Assign(b, q.analyst)
      BY <1>5, <1>6, <1>7, <1>8, <1>9, <1>10, <1>12
      DEF Lifecycle!Assign, Status, Holder, Answers, Log
    <2>2. q.analyst \in Assignee
      BY <1>2, <1>12, RequestFields
    <2> QED
      BY <1>3, <2>1, <2>2 DEF Lifecycle!Next
  <1>13. CASE op = "start"
    <2>1. Lifecycle!Review(b)
      BY <1>5, <1>6, <1>7, <1>8, <1>9, <1>10, <1>13
      DEF Lifecycle!Review, Status, Holder, Answers, Log
    <2> QED
      BY <1>3, <2>1 DEF Lifecycle!Next
  <1>14. CASE op = "request_verification"
    <2>1. Lifecycle!AskCustomer(b)
      BY <1>5, <1>6, <1>7, <1>8, <1>9, <1>10, <1>14
      DEF Lifecycle!AskCustomer, Status, Holder, Answers, Log
    <2> QED
      BY <1>3, <2>1 DEF Lifecycle!Next
  <1>15. CASE op = "customer_response"
    <2>1. Lifecycle!CustomerAnswers(b, q.response)
      BY <1>5, <1>6, <1>7, <1>8, <1>9, <1>10, <1>15
      DEF Lifecycle!CustomerAnswers, Status, Holder, Answers, Log
    <2> QED
      BY <1>3, <1>11, <1>15, <2>1 DEF Lifecycle!Next
  <1>16. CASE op = "close"
    <2>1. Lifecycle!Close(b)
      BY <1>5, <1>6, <1>7, <1>8, <1>9, <1>10, <1>16
      DEF Lifecycle!Close, Lifecycle!Verdict, CaseDecision, Status, Holder, Answers, Log
    <2> QED
      BY <1>3, <2>1 DEF Lifecycle!Next
  <1> QED
    BY <1>12, <1>13, <1>14, <1>15, <1>16 DEF Op

(* decide is the abstract decision, and its event the announcement of it.  *)
LEMMA DecideMaps ==
  ASSUME Inv, NEW s \in Session, Decide(s)
  PROVE  Lifecycle!Next
  <1>1. /\ WriteTransition(s) /\ Accepted(s, "decide")
        /\ "decide" \in Op \ {"submit_feedback"}
    BY DEF Decide, Op
  <1>2. PICK q \in RequestType : q = request[s] /\ q.op = "decide"
    BY <1>1, WorkingSession DEF Accepted
  <1>3. PICK m \in RiskCase : m = Moved(s)
    BY <1>1, MovedRow
  <1> DEFINE b == q.case
             r == risk_case[b]
             e == DecisionEvent(b, m, q.by)
  <1>4. /\ b \in Case /\ q.decision \in CaseDecision
        /\ r.status = "INCELENIYOR" /\ r.assigned_analyst_id = q.by
        /\ m.status = q.decision /\ m.assigned_analyst_id = q.by
        /\ m.customer_response = r.customer_response
        /\ outbox' = Append(outbox, e)
    BY <1>2, <1>3, DecideEffect
  <1>5. r \in RiskCase
    BY <1>4 DEF Inv, TypeOK
  <1>6. /\ Status' = [Status EXCEPT ![b] = m.status]
        /\ Holder' = [Holder EXCEPT ![b] = m.assigned_analyst_id]
        /\ Answers' = [Answers EXCEPT ![b] = m.customer_response]
    BY <1>1, <1>2, <1>3, <1>4, OneCaseMoves
  <1>7. /\ Status[b] = r.status /\ Holder[b] = r.assigned_analyst_id
        /\ Answers[b] = r.customer_response
    BY <1>4 DEF Status, Holder, Answers
  <1>8. /\ Holder = [Holder EXCEPT ![b] = Holder[b]]
        /\ Answers = [Answers EXCEPT ![b] = Answers[b]]
    BY <1>4 DEF Holder, Answers
  <1>9. Announcement(e) = [type |-> "case.decision_made", case |-> b, verdict |-> q.decision,
                           analyst |-> r.assigned_analyst_id, answer |-> r.customer_response]
    <2>1. r.customer_response # "YANIT_YOK"
      BY <1>5, ConstantsOK DEF RiskCase, GivenResponse, CustomerResponse
    <2> QED
      BY <1>4, <2>1 DEF DecisionEvent, Announcement
  <1>10. Log' = Append(Log, Announcement(e))
    BY <1>4, LogGrows
  <1> HIDE DEF b, r, e
  <1>11. Lifecycle!Decide(b, q.decision)
    BY <1>4, <1>6, <1>7, <1>8, <1>9, <1>10 DEF Lifecycle!Decide, Status, Holder, Answers, Log
  <1> QED
    BY <1>4, <1>11 DEF Lifecycle!Next, Lifecycle!Verdict, CaseDecision

(* submit_feedback is the abstract rating.                                 *)
LEMMA FeedbackMaps ==
  ASSUME Inv, FeedbackFollowsClosure, NEW s \in Session, SubmitFeedback(s)
  PROVE  Lifecycle!Next
  <1>1. pc[s] = "working"
    BY DEF SubmitFeedback, Accepted
  <1>2. PICK q \in RequestType : q = request[s]
    BY <1>1, WorkingSession
  <1> DEFINE b == q.case
             e == FeedbackEvent(b, q)
  <1>3. /\ b \in Case /\ q.rating \in Rating
        /\ risk_case[b].status = "KAPANDI" /\ feedback[b] = Null
        /\ risk_case' = risk_case
        /\ outbox' = Append(outbox, e)
    BY <1>2, FeedbackEffect
  <1>4. Announcement(e) = [type |-> "feedback.submitted", case |-> b, rating |-> q.rating]
    BY DEF FeedbackEvent, Announcement
  <1>5. Log' = Append(Log, Announcement(e))
    BY <1>3, LogGrows
  <1>6. Status[b] = "KAPANDI" /\ UNCHANGED <<Status, Holder, Answers>>
    BY <1>3 DEF Status, Holder, Answers
  <1>7. \A i \in DOMAIN Log : Log[i].case = b => Log[i].type # "feedback.submitted"
    <2>1. FeedbackEvents(b) = {}
      BY <1>3 DEF FeedbackFollowsClosure
    <2>2. outbox \in Seq(OutboxEvent)
      BY DEF Inv, TypeOK
    <2>3. \A i \in DOMAIN outbox : outbox[i].case = b => outbox[i].type # "feedback.submitted"
      BY <2>1 DEF FeedbackEvents
    <2>4. \A x : Announcement(x).case = x.case /\ Announcement(x).type = x.type
      BY DEF Announcement
    <2> QED
      BY <2>2, <2>3, <2>4 DEF Log
  <1> HIDE DEF b, e
  <1>8. Lifecycle!Rate(b, q.rating)
    BY <1>4, <1>5, <1>6, <1>7 DEF Lifecycle!Rate, Status, Holder, Answers, Log
  <1> QED
    BY <1>3, <1>8 DEF Lifecycle!Next

(* The service, with its sessions, locks, lost replies and retries, does   *)
(* nothing that the life cycle does not allow.                             *)
THEOREM Implementation == Spec => ImplementsLifecycle
  <1>1. Init => Lifecycle!Init
    BY InitMaps
  <1>2. Inv /\ FeedbackFollowsClosure /\ [Next]_vars => [Lifecycle!Next]_(Lifecycle!lvars)
    <2> SUFFICES ASSUME Inv, FeedbackFollowsClosure, [Next]_vars
                 PROVE  Lifecycle!Next \/ UNCHANGED Lifecycle!lvars
      OBVIOUS
    <2>1. ASSUME NEW s \in Session, CommitOf(s) PROVE Lifecycle!Next
      BY <2>1, TransitionMaps, DecideMaps, FeedbackMaps DEF CommitOf
    <2> QED
      BY <2>1, QuietMaps, StepKeepsInv
  <1> QED
    BY <1>1, <1>2, Invariance, FeedbackAlwaysFollowsClosure, PTL
    DEF Spec, ImplementsLifecycle, Lifecycle!Spec
==============================================================================
