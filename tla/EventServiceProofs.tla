------------------------- MODULE EventServiceProofs -------------------------
(***************************************************************************)
(* What holds of EventService for every number of events, analysts, workers*)
(* and failures.  The heart of the proofs is Scoring: a worker that scores *)
(* a decision holds its analyst's row or key, and has seen the row as it   *)
(* still is, so that two workers never write a profile from the same row.  *)
(***************************************************************************)
EXTENDS EventService, FiniteSetTheorems, TLAPS

Label == {"idle", "received", "marking", "selecting", "inserting", "scoring",
          "conflict", "ack", "nack", "reject"}

TypeInv ==
  /\ published \in [Event -> Nat]
  /\ queue \in [Event -> Nat]
  /\ processed \subseteq DecisionEvent \cup FeedbackEvent
  /\ profile \in [Analyst -> ProfileRow \cup {Null}]
  /\ lock \in [Analyst -> Worker \cup {Null}]
  /\ pc \in [Worker -> Label]
  /\ delivery \in [Worker -> Event \cup {Null}]
  /\ unacked \in [Worker -> BOOLEAN]
  /\ seen \in [Worker -> ProfileRow \cup {Null}]

(* The analyst of the decision that w handles.                             *)
AnalystFor(w) == AnalystOf[delivery[w]]

(* The row the transaction of the lock's holder may write.                 *)
Current(a) == IF profile[a] = Null THEN NewProfile ELSE profile[a]

(* A worker with a message knows what kind of event it handles, and has    *)
(* passed the end of a transaction only with the outcome it claims.        *)
Handling ==
  \A w \in Worker :
    /\ pc[w] = "idle" => delivery[w] = Null /\ ~unacked[w]
    /\ pc[w] # "idle" => delivery[w] \in Event
    /\ pc[w] \in {"selecting", "inserting", "scoring"} => delivery[w] \in DecisionEvent
    /\ pc[w] = "marking" => delivery[w] \in FeedbackEvent
    /\ pc[w] = "ack" => delivery[w] \in processed
    /\ pc[w] = "reject" => delivery[w] \notin DecisionEvent \cup FeedbackEvent

Scoring ==
  /\ \A w \in Worker : pc[w] = "scoring" =>
       lock[AnalystFor(w)] = w /\ seen[w] = Current(AnalystFor(w))
  /\ \A a \in Analyst : lock[a] # Null => pc[lock[a]] = "scoring" /\ AnalystFor(lock[a]) = a

Inv == TypeInv /\ Handling /\ Scoring

(* The ledger's and the badges' rows come from the decisions processed.    *)
LedgerIsProcessed == ledger = UNION {NewRows(e) : e \in processed \cap DecisionEvent}

BadgesAreEarned ==
  /\ \A b \in badges :
       /\ b.source_event_id \in processed \cap DecisionEvent
       /\ ConfirmedFraud(Data[b.source_event_id])
       /\ b.analyst_id = AnalystOf[b.source_event_id]
  /\ \A b, c \in badges : b.analyst_id = c.analyst_id => b = c
  /\ \A e \in processed \cap DecisionEvent :
       ConfirmedFraud(Data[e]) => \E b \in badges : b.analyst_id = AnalystOf[e]

(* All of a profile but its points.                                        *)
ProfilesCount ==
  \A a \in Analyst :
    /\ IsFiniteSet(Counted(a))
    /\ IF profile[a] = Null THEN Counted(a) = {}
       ELSE /\ profile[a].resolved_cases = Cardinality(Counted(a))
            /\ profile[a].level = LevelFor(profile[a].total_points)
------------------------------------------------------------------------------
(* The points of a decision are an integer, and make a level.              *)
LEMMA PointsType ==
  ASSUME NEW e \in DecisionEvent
  PROVE  Points(Data[e]) \in Int
  <1>1. \A r \in ScoreReason : Award(r, Data[e]) \in Int
    BY DEF Award, Worth, ScoreReason
  <1> QED
    BY <1>1 DEF Points, ScoreReason

LEMMA LevelType ==
  ASSUME NEW n \in Int
  PROVE  LevelFor(n) \in Level
  BY DEF LevelFor, Level

(* What a worker scores from is a row, and so is what it writes.           *)
LEMMA RowTypes ==
  ASSUME TypeInv
  PROVE  /\ NewProfile \in ProfileRow
         /\ \A a \in Analyst : Current(a) \in ProfileRow
         /\ \A row \in ProfileRow, e \in DecisionEvent :
              ScoredProfile(row, e) \in ProfileRow /\ ScoredProfile(row, e) # Null
  <1>1. NewProfile \in ProfileRow
    BY DEF NewProfile, ProfileRow, Level
  <1>2. ASSUME NEW row \in ProfileRow, NEW e \in DecisionEvent
        PROVE  ScoredProfile(row, e) \in ProfileRow
    <2>1. row.total_points \in Int /\ row.resolved_cases \in Nat
      BY DEF ProfileRow
    <2>2. row.total_points + Points(Data[e]) \in Int /\ row.resolved_cases + 1 \in Nat
      BY <2>1, PointsType
    <2> QED
      BY <2>2, LevelType DEF ScoredProfile, ProfileRow
  <1> QED
    BY <1>1, <1>2, EventServiceConstants DEF TypeInv, Current

LEMMA Kinds ==
  /\ DecisionEvent \subseteq Event /\ FeedbackEvent \subseteq Event
  /\ DecisionEvent \cap FeedbackEvent = {}
  /\ \A e \in DecisionEvent : AnalystOf[e] \in Analyst
  /\ \A e \in Event : EventType[e] = "invalid" <=> e \notin DecisionEvent \cup FeedbackEvent
  BY EventServiceConstants DEF DecisionEvent, FeedbackEvent

LEMMA InitInv == Init => Inv
  BY EventServiceConstants DEF Init, Inv, TypeInv, Handling, Scoring, Label

(* Steps that neither score, nor touch a lock or what is read under it.    *)
LEMMA PublishKeeps == ASSUME Inv, NEW e \in Event, Publish(e) PROVE Inv'
  BY DEF Publish, tables, Inv, TypeInv, Handling, Scoring, AnalystFor, Current

LEMMA DeliverKeeps ==
  ASSUME Inv, NEW w \in Worker, Deliver(w)
  PROVE  Inv'
  <1>1. PICK e \in Event : /\ pc[w] = "idle" /\ queue[e] > 0
                           /\ queue' = [queue EXCEPT ![e] = @ - 1]
                           /\ delivery' = [delivery EXCEPT ![w] = e]
                           /\ unacked' = [unacked EXCEPT ![w] = TRUE]
                           /\ pc' = [pc EXCEPT ![w] = "received"]
                           /\ UNCHANGED <<published, tables, lock, seen, faults>>
    BY DEF Deliver
  <1>2. TypeInv'
    BY <1>1 DEF Inv, TypeInv, Label, tables
  <1>3. Handling'
    BY <1>1, EventServiceConstants DEF Inv, TypeInv, Handling, tables
  <1>4. Scoring'
    BY <1>1, EventServiceConstants DEF Inv, TypeInv, Scoring, AnalystFor, Current, tables
  <1> QED
    BY <1>2, <1>3, <1>4 DEF Inv

LEMMA CheckProcessedKeeps == ASSUME Inv, NEW w \in Worker, CheckProcessed(w) PROVE Inv'
  BY EventServiceConstants, Kinds
  DEF CheckProcessed, Goto, tables, Inv, TypeInv, Handling, Scoring, AnalystFor, Current, Label

LEMMA MarkProcessedKeeps == ASSUME Inv, NEW w \in Worker, MarkProcessed(w) PROVE Inv'
  BY EventServiceConstants, Kinds
  DEF MarkProcessed, Marked, Goto, Inv, TypeInv, Handling, Scoring, AnalystFor, Current, Label

LEMMA RecheckKeeps == ASSUME Inv, NEW w \in Worker, Recheck(w) PROVE Inv'
  BY EventServiceConstants, Kinds
  DEF Recheck, Goto, tables, Inv, TypeInv, Handling, Scoring, AnalystFor, Current, Label

LEMMA AnswerKeeps ==
  ASSUME Inv, NEW w \in Worker, Ack(w) \/ Nack(w) \/ Reject(w) \/ Reconnect(w)
  PROVE  Inv'
  <1>1. /\ pc[w] \notin {"idle", "scoring"} /\ Finished(w)
        /\ queue' = queue \/ queue' = Requeued(delivery[w])
        /\ UNCHANGED <<published, tables, lock, seen>>
    BY DEF Ack, Nack, Reject, Reconnect
  <1>2. delivery[w] \in Event
    BY <1>1 DEF Inv, Handling
  <1>3. TypeInv'
    BY <1>1, <1>2 DEF Finished, Requeued, Goto, tables, Inv, TypeInv, Label
  <1>4. Handling'
    BY <1>1 DEF Finished, Goto, tables, Inv, TypeInv, Handling
  <1>5. Scoring'
    BY <1>1, EventServiceConstants
    DEF Finished, Goto, tables, Inv, TypeInv, Scoring, AnalystFor, Current
  <1> QED
    BY <1>3, <1>4, <1>5 DEF Inv

LEMMA LoseBrokerKeeps ==
  ASSUME Inv, NEW w \in Worker, LoseBroker(w)
  PROVE  Inv'
  <1>1. /\ queue' = [queue EXCEPT ![delivery[w]] = @ + 1]
        /\ unacked[w] /\ unacked' = [unacked EXCEPT ![w] = FALSE]
        /\ UNCHANGED <<published, tables, lock, pc, delivery, seen>>
    BY DEF LoseBroker
  <1>2. delivery[w] \in Event
    BY <1>1 DEF Inv, Handling
  <1>3. TypeInv'
    BY <1>1, <1>2 DEF tables, Inv, TypeInv
  <1>4. Handling' /\ Scoring'
    BY <1>1 DEF tables, Inv, TypeInv, Handling, Scoring, AnalystFor, Current
  <1> QED
    BY <1>3, <1>4 DEF Inv

(* Steps that take a lock: nobody held it, and the holder has seen the row. *)
LEMMA HoldKeeps ==
  ASSUME Inv, NEW w \in Worker, pc[w] \in {"selecting", "inserting"},
         lock[AnalystFor(w)] = Null,
         Hold(w, AnalystFor(w), Current(AnalystFor(w))),
         UNCHANGED <<published, queue, tables, delivery, unacked>>
  PROVE  Inv'
  <1> DEFINE a == AnalystFor(w)
  <1>1. a \in Analyst /\ Current(a) \in ProfileRow
    BY Kinds, RowTypes DEF Inv, Handling, AnalystFor
  <1>2. /\ lock' = [lock EXCEPT ![a] = w]
        /\ seen' = [seen EXCEPT ![w] = Current(a)]
        /\ pc' = [pc EXCEPT ![w] = "scoring"]
    BY DEF Hold, Goto
  <1>3. TypeInv'
    BY <1>1, <1>2 DEF Inv, TypeInv, Label, tables
  <1>4. Handling'
    BY <1>2, Kinds DEF Inv, TypeInv, Handling, tables
  <1>5. \A v \in Worker : AnalystFor(v)' = AnalystFor(v)
    BY DEF AnalystFor
  <1>6. Scoring'
    <2>1. \A b : Current(b)' = Current(b)
      BY DEF Current, tables
    <2> QED
      BY <1>1, <1>2, <1>5, <2>1, EventServiceConstants DEF Inv, TypeInv, Handling, Scoring
  <1> QED
    BY <1>3, <1>4, <1>6 DEF Inv

LEMMA SelectProfileKeeps ==
  ASSUME Inv, NEW w \in Worker, SelectProfile(w)
  PROVE  Inv'
  <1> USE DEF SelectProfile
  <1>1. CASE profile[AnalystFor(w)] # Null
    BY <1>1, HoldKeeps DEF RowFree, AnalystFor, Current, tables
  <1>2. CASE profile[AnalystFor(w)] = Null
    BY <1>2 DEF Goto, tables, AnalystFor, Current, Inv, TypeInv, Handling, Scoring, Label
  <1> QED
    BY <1>1, <1>2

LEMMA InsertProfileKeeps ==
  ASSUME Inv, NEW w \in Worker, InsertProfile(w)
  PROVE  Inv'
  <1> USE DEF InsertProfile
  <1>1. CASE profile[AnalystFor(w)] = Null
    BY <1>1, HoldKeeps DEF AnalystFor, Current, tables
  <1>2. CASE profile[AnalystFor(w)] # Null
    BY <1>2 DEF Goto, tables, AnalystFor, Current, Inv, TypeInv, Handling, Scoring, Label
  <1> QED
    BY <1>1, <1>2

(* Steps that end a transaction: the lock of the worker is gone, and nobody*)
(* else's.                                                                 *)
LEMMA ReleaseFrees ==
  ASSUME Inv, NEW w \in Worker, Release(w)
  PROVE  /\ lock' \in [Analyst -> Worker \cup {Null}]
         /\ seen' \in [Worker -> ProfileRow \cup {Null}]
         /\ \A a \in Analyst : lock'[a] # Null => lock'[a] = lock[a] /\ lock[a] # w
         /\ \A v \in Worker \ {w}, a \in Analyst :
              (lock[a] = v => lock'[a] = v) /\ seen'[v] = seen[v]
  BY EventServiceConstants DEF Release, Inv, TypeInv

(* Two workers that score hold the rows of two analysts.                   *)
LEMMA OneWorkerPerAnalyst ==
  ASSUME Inv, NEW w \in Worker, NEW v \in Worker, w # v, pc[w] = "scoring", pc[v] = "scoring"
  PROVE  AnalystFor(w) # AnalystFor(v)
  BY DEF Inv, Scoring

(* What the commit of a score does.                                        *)
LEMMA CommitEffect ==
  ASSUME Inv, NEW w \in Worker, CommitScore(w)
  PROVE  LET e == delivery[w]
             a == AnalystFor(w) IN
         /\ pc[w] = "scoring" /\ e \in DecisionEvent /\ a \in Analyst /\ a = AnalystOf[e]
         /\ e \notin processed
         /\ processed' = processed \cup {e}
         /\ ledger' = ledger \cup NewRows(e)
         /\ badges' = badges \cup NewBadges(a, e)
         /\ profile' = [profile EXCEPT ![a] = ScoredProfile(Current(a), e)]
         /\ ScoredProfile(Current(a), e) \in ProfileRow
         /\ ScoredProfile(Current(a), e) # Null
         /\ Release(w)
         /\ UNCHANGED <<published, queue, delivery, unacked>>
  <1>1. pc[w] = "scoring" /\ delivery[w] \in DecisionEvent /\ seen[w] = Current(AnalystFor(w))
    BY DEF CommitScore, Inv, Handling, Scoring
  <1>2. AnalystFor(w) \in Analyst
    BY <1>1, Kinds DEF AnalystFor
  <1>3. /\ ScoredProfile(Current(AnalystFor(w)), delivery[w]) \in ProfileRow
        /\ ScoredProfile(Current(AnalystFor(w)), delivery[w]) # Null
    BY <1>1, <1>2, RowTypes DEF Inv
  <1> QED
    BY <1>1, <1>2, <1>3 DEF CommitScore, Conflicts, Marked, AnalystFor

LEMMA CommitKeeps ==
  ASSUME Inv, NEW w \in Worker, CommitScore(w), NEW to \in {"ack", "nack"}, Goto(w, to)
  PROVE  Inv'
  <1> DEFINE e == delivery[w]
             a == AnalystFor(w)
  <1>1. /\ pc[w] = "scoring" /\ e \in DecisionEvent /\ a \in Analyst
        /\ processed' = processed \cup {e}
        /\ profile' = [profile EXCEPT ![a] = ScoredProfile(Current(a), e)]
        /\ ScoredProfile(Current(a), e) \in ProfileRow
        /\ Release(w)
        /\ UNCHANGED <<published, queue, delivery, unacked>>
    BY CommitEffect
  <1>2. pc' = [pc EXCEPT ![w] = to]
    BY DEF Goto
  <1>3. TypeInv'
    BY <1>1, <1>2, ReleaseFrees DEF Inv, TypeInv, Label
  <1>4. Handling'
    BY <1>1, <1>2 DEF Inv, TypeInv, Handling
  <1>5. \A v \in Worker \ {w} : AnalystFor(v)' = AnalystFor(v)
    BY <1>1 DEF AnalystFor
  <1>6. ASSUME NEW v \in Worker, pc'[v] = "scoring"
        PROVE  (lock[AnalystFor(v)] = v /\ seen[v] = Current(AnalystFor(v)))'
    <2>1. v # w /\ pc[v] = "scoring"
      BY <1>2, <1>6 DEF Inv, TypeInv
    <2>2. AnalystFor(v) \in Analyst \ {a}
      BY <1>1, <2>1, OneWorkerPerAnalyst, Kinds DEF Inv, Handling, AnalystFor
    <2>3. profile'[AnalystFor(v)] = profile[AnalystFor(v)]
      BY <1>1, <2>2 DEF Inv, TypeInv
    <2> QED
      BY <1>1, <1>5, <2>1, <2>2, <2>3, ReleaseFrees DEF Inv, Scoring, Current
  <1>7. ASSUME NEW b \in Analyst, lock'[b] # Null
        PROVE  (pc[lock[b]] = "scoring" /\ AnalystFor(lock[b]) = b)'
    <2>1. lock'[b] = lock[b] /\ lock[b] \in Worker \ {w}
      BY <1>1, <1>7, ReleaseFrees DEF Inv, TypeInv
    <2> QED
      BY <1>2, <1>5, <1>7, <2>1 DEF Inv, TypeInv, Scoring
  <1>8. Scoring'
    BY <1>6, <1>7 DEF Scoring
  <1> QED
    BY <1>3, <1>4, <1>8 DEF Inv

(* A rollback, after a conflict, a database error or a crash.              *)
LEMMA RollbackKeeps ==
  ASSUME Inv, NEW w \in Worker, ScoreConflict(w) \/ DatabaseError(w) \/ Crash(w)
  PROVE  Inv'
  <1>1. /\ pc[w] # "idle" /\ Release(w) /\ UNCHANGED <<published, tables>>
        /\ \/ /\ pc' = [pc EXCEPT ![w] = "conflict"] /\ UNCHANGED <<queue, delivery, unacked>>
           \/ /\ pc' = [pc EXCEPT ![w] = "nack"] /\ UNCHANGED <<queue, delivery, unacked>>
           \/ /\ Finished(w)
              /\ queue' = queue \/ queue' = [queue EXCEPT ![delivery[w]] = @ + 1]
    BY DEF ScoreConflict, DatabaseError, InTransaction, Crash, Goto
  <1>2. /\ pc' \in [Worker -> Label] /\ pc'[w] \in {"conflict", "nack", "idle"}
        /\ \A v \in Worker \ {w} : /\ pc'[v] = pc[v] /\ delivery'[v] = delivery[v]
                                   /\ unacked'[v] = unacked[v]
        /\ pc'[w] = "idle" => delivery'[w] = Null /\ unacked'[w] = FALSE
        /\ pc'[w] # "idle" => delivery'[w] = delivery[w]
        /\ delivery' \in [Worker -> Event \cup {Null}]
        /\ unacked' \in [Worker -> BOOLEAN]
    BY <1>1 DEF Inv, TypeInv, Label, Finished, Goto
  <1>3. delivery[w] \in Event
    BY <1>1 DEF Inv, Handling
  <1>4. queue' \in [Event -> Nat]
    BY <1>1, <1>3 DEF Inv, TypeInv
  <1>5. TypeInv'
    BY <1>1, <1>2, <1>4, ReleaseFrees DEF Inv, TypeInv, tables
  <1>6. Handling'
    BY <1>1, <1>2, <1>3 DEF Inv, Handling, tables
  <1>7. \A v \in Worker \ {w} : AnalystFor(v)' = AnalystFor(v)
    BY <1>2 DEF AnalystFor
  <1>8. ASSUME NEW v \in Worker, pc'[v] = "scoring"
        PROVE  (lock[AnalystFor(v)] = v /\ seen[v] = Current(AnalystFor(v)))'
    <2>1. v # w /\ pc[v] = "scoring"
      BY <1>2, <1>8
    <2>2. AnalystFor(v) \in Analyst
      BY <2>1, Kinds DEF Inv, Handling, AnalystFor
    <2> QED
      BY <1>1, <1>7, <2>1, <2>2, ReleaseFrees DEF Inv, Scoring, Current, tables
  <1>9. ASSUME NEW b \in Analyst, lock'[b] # Null
        PROVE  (pc[lock[b]] = "scoring" /\ AnalystFor(lock[b]) = b)'
    <2>1. lock'[b] = lock[b] /\ lock[b] \in Worker \ {w}
      BY <1>1, <1>9, ReleaseFrees DEF Inv, TypeInv
    <2> QED
      BY <1>2, <1>7, <1>9, <2>1 DEF Inv, Scoring
  <1> QED
    BY <1>5, <1>6, <1>8, <1>9 DEF Inv, Scoring

LEMMA NextKeeps ==
  ASSUME Inv, [Next]_vars
  PROVE  Inv'
  <1>1. CASE \E e \in Event : Publish(e)
    BY <1>1, PublishKeeps
  <1>2. ASSUME NEW w \in Worker, Step(w) PROVE Inv'
    <2>1. CASE Score(w) \/ CommitUnseen(w)
      BY <2>1, CommitKeeps DEF Score, CommitUnseen
    <2> QED
      BY <1>2, <2>1, DeliverKeeps, CheckProcessedKeeps, MarkProcessedKeeps, RecheckKeeps,
         AnswerKeeps, LoseBrokerKeeps, SelectProfileKeeps, InsertProfileKeeps, RollbackKeeps
      DEF Step, Work
  <1>3. CASE UNCHANGED vars
    BY <1>3 DEF vars, tables, Inv, TypeInv, Handling, Scoring, AnalystFor, Current
  <1> QED
    BY <1>1, <1>2, <1>3 DEF Next

(* A worker scores a decision only while it holds the analyst's row, and   *)
(* from the row as it still is (get_profile for_update, the flush of a new *)
(* profile); an acknowledgement follows the commit it stands for.          *)
THEOREM Invariance == Spec => []Inv
  BY InitInv, NextKeeps, PTL DEF Spec
------------------------------------------------------------------------------
(* The tables change in two ways: a feedback event is marked, or a decision*)
(* is scored.                                                              *)
FeedbackMarked(w) ==
  /\ delivery[w] \in FeedbackEvent
  /\ processed' = processed \cup {delivery[w]}
  /\ UNCHANGED <<profile, ledger, badges>>

LEMMA TablesChange ==
  ASSUME Inv, [Next]_vars
  PROVE  \/ UNCHANGED tables
         \/ \E w \in Worker : FeedbackMarked(w)
         \/ \E w \in Worker : CommitScore(w)
  <1>1. ASSUME NEW w \in Worker, Step(w)
        PROVE  UNCHANGED tables \/ FeedbackMarked(w) \/ CommitScore(w)
    <2>1. CASE MarkProcessed(w)
      BY <2>1 DEF MarkProcessed, Marked, FeedbackMarked, Inv, Handling
    <2>2. CASE Score(w) \/ CommitUnseen(w)
      BY <2>2 DEF Score, CommitUnseen
    <2>3. CASE Deliver(w) \/ SelectProfile(w) \/ InsertProfile(w) \/ CheckProcessed(w)
                 \/ ScoreConflict(w) \/ Recheck(w)
      BY <2>3 DEF Deliver, SelectProfile, InsertProfile, CheckProcessed, ScoreConflict, Recheck
    <2>4. CASE Ack(w) \/ Nack(w) \/ Reject(w) \/ Reconnect(w)
                 \/ DatabaseError(w) \/ LoseBroker(w) \/ Crash(w)
      BY <2>4 DEF Ack, Nack, Reject, Reconnect, DatabaseError, LoseBroker, Crash
    <2> QED
      BY <1>1, <2>1, <2>2, <2>3, <2>4 DEF Step, Work
  <1>2. CASE \E e \in Event : Publish(e)
    BY <1>2 DEF Publish
  <1> QED
    BY <1>1, <1>2 DEF Next, vars

(* Feedback is not what the ledger, the badges and the profiles count.     *)
LEMMA FeedbackCountsNothing ==
  ASSUME NEW w \in Worker, FeedbackMarked(w)
  PROVE  processed' \cap DecisionEvent = processed \cap DecisionEvent
  BY Kinds DEF FeedbackMarked

(* The analyst of a decision that is scored has one more counted.          *)
LEMMA OneMoreCounted ==
  ASSUME Inv, NEW w \in Worker, CommitScore(w)
  PROVE  LET e == delivery[w] IN
         /\ processed' \cap DecisionEvent = (processed \cap DecisionEvent) \cup {e}
         /\ \A a \in Analyst :
              /\ e \notin Counted(a)
              /\ Counted(a)' = IF a = AnalystFor(w) THEN Counted(a) \cup {e} ELSE Counted(a)
  <1> DEFINE e == delivery[w]
  <1>1. /\ e \in DecisionEvent /\ e \notin processed /\ AnalystFor(w) = AnalystOf[e]
        /\ processed' = processed \cup {e}
    BY CommitEffect
  <1> QED
    BY <1>1 DEF Counted

------------------------------------------------------------------------------
LEMMA LedgerStep ==
  ASSUME Inv, LedgerIsProcessed, [Next]_vars
  PROVE  LedgerIsProcessed'
  <1>1. CASE UNCHANGED tables
    BY <1>1 DEF tables, LedgerIsProcessed, NewRows
  <1>2. ASSUME NEW w \in Worker, FeedbackMarked(w) PROVE LedgerIsProcessed'
    BY <1>2, FeedbackCountsNothing DEF FeedbackMarked, LedgerIsProcessed, NewRows
  <1>3. ASSUME NEW w \in Worker, CommitScore(w) PROVE LedgerIsProcessed'
    <2>1. processed' \cap DecisionEvent = (processed \cap DecisionEvent) \cup {delivery[w]}
      BY <1>3, OneMoreCounted
    <2>2. ledger' = ledger \cup NewRows(delivery[w])
      BY <1>3, CommitEffect
    <2> QED
      BY <2>1, <2>2 DEF LedgerIsProcessed, NewRows
  <1> QED
    BY <1>1, <1>2, <1>3, TablesChange

(* The score ledger holds the rows of the decisions that are processed,    *)
(* each in full and each once, and no others (score_ledger, the unique     *)
(* constraint on event_id and reason, and the one commit of the event).    *)
THEOREM LedgerIsComplete == Spec => []LedgerIsProcessed
  <1>1. Init => LedgerIsProcessed
    BY DEF Init, LedgerIsProcessed
  <1> QED
    BY <1>1, LedgerStep, Invariance, PTL DEF Spec

------------------------------------------------------------------------------
LEMMA BadgeStep ==
  ASSUME Inv, BadgesAreEarned, [Next]_vars
  PROVE  BadgesAreEarned'
  <1>1. CASE UNCHANGED tables
    BY <1>1 DEF tables, BadgesAreEarned
  <1>2. ASSUME NEW w \in Worker, FeedbackMarked(w) PROVE BadgesAreEarned'
    BY <1>2, FeedbackCountsNothing DEF FeedbackMarked, BadgesAreEarned
  <1>3. ASSUME NEW w \in Worker, CommitScore(w) PROVE BadgesAreEarned'
    <2> DEFINE e == delivery[w]
    <2>1. processed' \cap DecisionEvent = (processed \cap DecisionEvent) \cup {e}
      BY <1>3, OneMoreCounted
    <2>2. badges' = badges \cup NewBadges(AnalystOf[e], e)
      BY <1>3, CommitEffect DEF AnalystFor
    <2>3. CASE NewBadges(AnalystOf[e], e) = {}
      <3>1. ConfirmedFraud(Data[e]) => \E b \in badges : b.analyst_id = AnalystOf[e]
        BY <2>3 DEF NewBadges
      <3> QED
        BY <2>1, <2>2, <2>3, <3>1 DEF BadgesAreEarned
    <2>4. CASE NewBadges(AnalystOf[e], e) # {}
      <3>1. ConfirmedFraud(Data[e]) /\ \A b \in badges : b.analyst_id # AnalystOf[e]
        BY <2>4 DEF NewBadges
      <3> DEFINE new == [analyst_id |-> AnalystOf[e], source_event_id |-> e]
      <3>2. badges' = badges \cup {new}
        BY <2>2, <3>1 DEF NewBadges
      <3>3. new.analyst_id = AnalystOf[e] /\ new.source_event_id = e
        OBVIOUS
      <3> HIDE DEF new
      <3>4. \A b \in badges' :
              /\ b.source_event_id \in processed' \cap DecisionEvent
              /\ ConfirmedFraud(Data[b.source_event_id])
              /\ b.analyst_id = AnalystOf[b.source_event_id]
        BY <2>1, <3>1, <3>2, <3>3 DEF BadgesAreEarned
      <3>5. \A b, c \in badges' : b.analyst_id = c.analyst_id => b = c
        BY <3>1, <3>2, <3>3 DEF BadgesAreEarned
      <3>6. \A x \in processed' \cap DecisionEvent :
              ConfirmedFraud(Data[x]) => \E b \in badges' : b.analyst_id = AnalystOf[x]
        BY <2>1, <3>2, <3>3 DEF BadgesAreEarned
      <3> QED
        BY <3>4, <3>5, <3>6 DEF BadgesAreEarned
    <2> QED
      BY <2>3, <2>4
  <1> QED
    BY <1>1, <1>2, <1>3, TablesChange

LEMMA EarnedMeansOne ==
  ASSUME BadgesAreEarned
  PROVE  OneBadge
  <1> SUFFICES ASSUME NEW a \in Analyst
               PROVE  LET mine == {b \in badges : b.analyst_id = a} IN
                      /\ Cardinality(mine) <= 1
                      /\ mine # {} <=> \E e \in Counted(a) : ConfirmedFraud(Data[e])
                      /\ \A b \in mine : /\ b.source_event_id \in Counted(a)
                                         /\ ConfirmedFraud(Data[b.source_event_id])
    BY DEF OneBadge
  <1> DEFINE mine == {b \in badges : b.analyst_id = a}
  <1>1. \A b, c \in mine : b = c
    BY DEF BadgesAreEarned
  <1>2. Cardinality(mine) <= 1
    <2>1. CASE mine = {}
      BY <2>1, FS_EmptySet
    <2>2. CASE mine # {}
      <3>1. PICK b : mine = {b}
        BY <1>1, <2>2
      <3> HIDE DEF mine
      <3>2. Cardinality({b}) = 1
        BY FS_Singleton
      <3> QED
        BY <3>1, <3>2
    <2> QED
      BY <2>1, <2>2
  <1>3. \A b \in mine : b.source_event_id \in Counted(a) /\ ConfirmedFraud(Data[b.source_event_id])
    BY DEF BadgesAreEarned, Counted
  <1>4. ASSUME NEW e \in Counted(a), ConfirmedFraud(Data[e]) PROVE mine # {}
    BY <1>4 DEF BadgesAreEarned, Counted
  <1> QED
    BY <1>2, <1>3, <1>4

(* An analyst has the badge if and only if a confirmed fraud of theirs was *)
(* counted, and has it once, although two workers may look for it at the   *)
(* same time (EventService.process, award_badge).                          *)
THEOREM OneBadgeEach == Spec => []OneBadge
  <1>1. Init => BadgesAreEarned
    BY DEF Init, BadgesAreEarned
  <1>2. BadgesAreEarned => OneBadge
    BY EarnedMeansOne
  <1> QED
    BY <1>1, <1>2, BadgeStep, Invariance, PTL DEF Spec

------------------------------------------------------------------------------
(* Somebody has e: the queue, or a worker the broker still waits for.      *)
Kept(e) == queue[e] > 0 \/ \E w \in Worker : unacked[w] /\ delivery[w] = e

(* An event that is not processed passes from one to the other only.       *)
LEMMA KeptStep ==
  ASSUME Inv, NEW w \in Worker, Step(w),
         NEW e \in DecisionEvent \cup FeedbackEvent, e \notin processed, Kept(e)
  PROVE  Kept(e)'
  <1>1. e \in Event
    BY Kinds
  <1> USE DEF Inv, TypeInv, Kept
  <1>2. CASE Deliver(w)
    <2>1. PICK d \in Event : /\ queue[d] > 0
                             /\ queue' = [queue EXCEPT ![d] = @ - 1]
                             /\ delivery' = [delivery EXCEPT ![w] = d]
      BY <1>2 DEF Deliver
    <2>2. ~unacked[w] /\ unacked' = [unacked EXCEPT ![w] = TRUE]
      BY <1>2 DEF Deliver, Handling
    <2> QED
      BY <1>1, <2>1, <2>2
  <1>3. CASE \/ SelectProfile(w) \/ InsertProfile(w) \/ CheckProcessed(w) \/ MarkProcessed(w)
             \/ Score(w) \/ ScoreConflict(w) \/ Recheck(w) \/ DatabaseError(w) \/ CommitUnseen(w)
    <2>1. UNCHANGED <<queue, unacked, delivery>>
      BY <1>3 DEF SelectProfile, InsertProfile, CheckProcessed, MarkProcessed, Score,
                  ScoreConflict, Recheck, DatabaseError, CommitUnseen, CommitScore
    <2> QED
      BY <2>1
  <1>4. CASE Ack(w) \/ Reject(w) \/ Reconnect(w)
    <2>1. /\ unacked[w] => delivery[w] # e
          /\ Finished(w) /\ UNCHANGED queue
      BY <1>4 DEF Ack, Reject, Reconnect, Handling
    <2> QED
      BY <2>1 DEF Finished
  <1>5. CASE Nack(w)
    <2>1. /\ delivery[w] \in Event /\ queue' = [queue EXCEPT ![delivery[w]] = @ + 1]
          /\ Finished(w)
      BY <1>5 DEF Nack, Requeued, Handling
    <2> QED
      BY <1>1, <2>1 DEF Finished
  <1>6. CASE LoseBroker(w)
    <2>1. /\ delivery[w] \in Event /\ queue' = [queue EXCEPT ![delivery[w]] = @ + 1]
          /\ unacked' = [unacked EXCEPT ![w] = FALSE] /\ UNCHANGED delivery
      BY <1>6 DEF LoseBroker, Handling
    <2> QED
      BY <1>1, <2>1
  <1>7. CASE Crash(w)
    <2>1. /\ delivery[w] \in Event /\ Finished(w)
          /\ queue' = IF unacked[w] THEN [queue EXCEPT ![delivery[w]] = @ + 1] ELSE queue
      BY <1>7 DEF Crash, Handling
    <2> QED
      BY <1>1, <2>1 DEF Finished
  <1> QED
    BY <1>2, <1>3, <1>4, <1>5, <1>6, <1>7 DEF Step, Work

LEMMA ForgottenStep ==
  ASSUME Inv, NothingIsForgotten, [Next]_vars
  PROVE  NothingIsForgotten'
  <1> SUFFICES ASSUME NEW e \in DecisionEvent \cup FeedbackEvent,
                      published'[e] > 0, e \notin processed'
               PROVE  Kept(e)'
    BY DEF NothingIsForgotten, Kept
  <1>1. published[e] > 0 /\ e \notin processed => Kept(e)
    BY DEF NothingIsForgotten, Kept
  <1>2. CASE \E x \in Event : Publish(x)
    <2>1. PICK x \in Event : /\ published' = [published EXCEPT ![x] = @ + 1]
                             /\ queue' = [queue EXCEPT ![x] = @ + 1]
                             /\ UNCHANGED <<processed, unacked, delivery>>
      BY <1>2 DEF Publish, tables
    <2>2. e \in Event
      BY Kinds
    <2> QED
      BY <1>1, <2>1, <2>2 DEF Kept, Inv, TypeInv
  <1>3. ASSUME NEW w \in Worker, Step(w) PROVE Kept(e)'
    <2>1. published' = published
      BY <1>3 DEF Step, Work, Deliver, SelectProfile, InsertProfile, CheckProcessed, MarkProcessed,
                  Score, ScoreConflict, Recheck, Ack, Nack, Reject, Reconnect, DatabaseError,
                  CommitUnseen, CommitScore, LoseBroker, Crash
    <2>2. processed \subseteq processed'
      BY <1>3, TablesChange, CommitEffect DEF Next, tables, FeedbackMarked
    <2> QED
      BY <1>1, <1>3, <2>1, <2>2, KeptStep
  <1>4. CASE UNCHANGED vars
    BY <1>1, <1>4 DEF vars, tables, Kept
  <1> QED
    BY <1>2, <1>3, <1>4 DEF Next

(* A valid event that was published is never lost before it is processed,  *)
(* whatever connection breaks and whichever worker dies: the message is    *)
(* acknowledged after the commit and requeued otherwise (handle_delivery). *)
THEOREM NothingIsEverForgotten == Spec => []NothingIsForgotten
  <1>1. Init => NothingIsForgotten
    BY Kinds DEF Init, NothingIsForgotten
  <1> QED
    BY <1>1, ForgottenStep, Invariance, PTL DEF Spec

------------------------------------------------------------------------------
LEMMA ProfileStep ==
  ASSUME Inv, ProfilesCount, [Next]_vars
  PROVE  ProfilesCount'
  <1>1. CASE UNCHANGED tables
    BY <1>1 DEF tables, ProfilesCount, Counted
  <1>2. ASSUME NEW w \in Worker, FeedbackMarked(w) PROVE ProfilesCount'
    BY <1>2, FeedbackCountsNothing DEF FeedbackMarked, ProfilesCount, Counted
  <1>3. ASSUME NEW w \in Worker, CommitScore(w) PROVE ProfilesCount'
    <2>1. PICK b \in Analyst, e \in DecisionEvent : b = AnalystFor(w) /\ e = delivery[w]
      BY <1>3, CommitEffect
    <2> DEFINE scored == ScoredProfile(Current(b), e)
    <2>2. profile' = [profile EXCEPT ![b] = scored] /\ scored # Null
      BY <1>3, <2>1, CommitEffect
    <2>3. /\ e \notin Counted(b)
          /\ \A a \in Analyst : Counted(a)' = IF a = b THEN Counted(a) \cup {e} ELSE Counted(a)
      BY <1>3, <2>1, OneMoreCounted
    <2>4. IsFiniteSet(Counted(b)) /\ Current(b).resolved_cases = Cardinality(Counted(b))
      BY FS_EmptySet DEF ProfilesCount, Current, NewProfile
    <2>5. /\ IsFiniteSet(Counted(b) \cup {e})
          /\ Cardinality(Counted(b) \cup {e}) = Cardinality(Counted(b)) + 1
      BY <2>3, <2>4, FS_AddElement
    <2>6. /\ scored.resolved_cases = Current(b).resolved_cases + 1
          /\ scored.level = LevelFor(scored.total_points)
      BY DEF ScoredProfile
    <2> HIDE DEF scored
    <2>7. profile'[b] = scored /\ \A a \in Analyst \ {b} : profile'[a] = profile[a]
      BY <2>2 DEF Inv, TypeInv
    <2> SUFFICES ASSUME NEW a \in Analyst
                 PROVE  /\ IsFiniteSet(Counted(a)')
                        /\ IF profile'[a] = Null THEN Counted(a)' = {}
                           ELSE /\ profile'[a].resolved_cases = Cardinality(Counted(a)')
                                /\ profile'[a].level = LevelFor(profile'[a].total_points)
      BY DEF ProfilesCount
    <2>8. CASE a = b
      BY <2>2, <2>3, <2>4, <2>5, <2>6, <2>7, <2>8
    <2>9. CASE a # b
      BY <2>3, <2>7, <2>9 DEF ProfilesCount
    <2> QED
      BY <2>8, <2>9
  <1> QED
    BY <1>1, <1>2, <1>3, TablesChange

------------------------------------------------------------------------------
(***************************************************************************)
(* Sums over finite sets.  MapThenSumSet takes the elements of a set one by*)
(* one, in an order nobody knows; what is needed of it is that a sum grows *)
(* by the worth of a new element, whatever that order is.  The induction   *)
(* over finite sets is a least counterexample (LeastSubset).               *)
(***************************************************************************)
Pick(s) == CHOOSE x \in s : TRUE

SumOf(w, S) == MapThenSumSet(LAMBDA x : w[x], S)

(* f is the recursive function by which the subsets of T are summed.       *)
Adds(f, w, T) ==
  f = [s \in SUBSET T |-> IF s = {} THEN 0 ELSE w[Pick(s)] + f[s \ {Pick(s)}]]

(* A property that fails for a subset of S fails for a least one.          *)
LEMMA LeastSubset ==
  ASSUME NEW S, IsFiniteSet(S), NEW Bad \in SUBSET (SUBSET S), Bad # {}
  PROVE  \E T \in Bad : \A U \in Bad : U \subseteq T => U = T
  <1>1. IsWellFoundedOn(StrictSubsetOrdering(S), SUBSET S)
    BY FS_StrictSubsetOrderingWellFounded, FS_FiniteSubsetsOfFinite
  <1>2. PICK T \in Bad : \A U \in Bad : ~(<<U, T>> \in StrictSubsetOrdering(S))
    BY <1>1, WFMin
  <1> QED
    BY <1>2 DEF StrictSubsetOrdering

LEMMA Picked ==
  ASSUME NEW s, s # {}
  PROVE  Pick(s) \in s
  BY DEF Pick

LEMMA AddsStep ==
  ASSUME NEW w, NEW T, NEW f, Adds(f, w, T), NEW U \in SUBSET T
  PROVE  f[U] = IF U = {} THEN 0 ELSE w[Pick(U)] + f[U \ {Pick(U)}]
  BY DEF Adds

(* Two such functions agree where both are defined.                        *)
LEMMA SameSum ==
  ASSUME NEW w, NEW v, NEW S, NEW T, NEW f, NEW g, Adds(f, w, S), Adds(g, v, T),
         NEW U \in SUBSET (S \cap T), IsFiniteSet(U), \A x \in U : w[x] = v[x]
  PROVE  f[U] = g[U]
  <1> DEFINE Bad == {s \in SUBSET U : f[s] # g[s]}
  <1> SUFFICES ASSUME Bad # {} PROVE FALSE
    OBVIOUS
  <1>1. PICK s \in Bad : \A t \in Bad : t \subseteq s => t = s
    <2>1. Bad \in SUBSET (SUBSET U)
      OBVIOUS
    <2> HIDE DEF Bad
    <2> QED
      BY <2>1, LeastSubset
  <1>2. /\ f[s] = IF s = {} THEN 0 ELSE w[Pick(s)] + f[s \ {Pick(s)}]
        /\ g[s] = IF s = {} THEN 0 ELSE v[Pick(s)] + g[s \ {Pick(s)}]
    BY AddsStep
  <1>3. s # {}
    BY <1>2
  <1>4. Pick(s) \in s /\ w[Pick(s)] = v[Pick(s)]
    BY <1>3, Picked
  <1>5. f[s \ {Pick(s)}] = g[s \ {Pick(s)}]
    BY <1>1, <1>4
  <1> QED
    BY <1>2, <1>3, <1>4, <1>5

(* There is such a function for every finite set.                          *)
LEMMA SumExists ==
  ASSUME NEW w, NEW S, IsFiniteSet(S)
  PROVE  \E f : Adds(f, w, S)
  <1> DEFINE Bad == {T \in SUBSET S : ~ \E f : Adds(f, w, T)}
  <1> SUFFICES ASSUME Bad # {} PROVE FALSE
    OBVIOUS
  <1>1. PICK T \in Bad : \A U \in Bad : U \subseteq T => U = T
    <2>1. Bad \in SUBSET (SUBSET S)
      OBVIOUS
    <2> HIDE DEF Bad
    <2> QED
      BY <2>1, LeastSubset
  <1> DEFINE F == [U \in SUBSET T |-> CHOOSE f : Adds(f, w, U)]
             part(U) == IF U = {} THEN 0 ELSE w[Pick(U)] + F[U \ {Pick(U)}][U \ {Pick(U)}]
             f == [U \in SUBSET T |-> part(U)]
  <1>2. ASSUME NEW U \in SUBSET T, U # T PROVE Adds(F[U], w, U)
    <2>1. \E g : Adds(g, w, U)
      BY <1>1, <1>2
    <2> QED
      BY <2>1
  <1>3. ASSUME NEW U \in SUBSET T, U # T PROVE F[U][U] = f[U]
    <2>1. F[U][U] = IF U = {} THEN 0 ELSE w[Pick(U)] + F[U][U \ {Pick(U)}]
      <3>1. PICK g : g = F[U] /\ Adds(g, w, U)
        BY <1>2, <1>3
      <3>2. g[U] = IF U = {} THEN 0 ELSE w[Pick(U)] + g[U \ {Pick(U)}]
        BY <3>1, AddsStep
      <3> QED
        BY <3>1, <3>2
    <2>2. CASE U = {}
      BY <2>1, <2>2
    <2>3. CASE U # {}
      <3> DEFINE V == U \ {Pick(U)}
      <3>1. V \in SUBSET T /\ V \subseteq U /\ V # T /\ IsFiniteSet(V)
        BY <1>3, FS_Subset
      <3>2. Adds(F[U], w, U) /\ Adds(F[V], w, V)
        BY <1>2, <1>3, <3>1
      <3> HIDE DEF V, F
      <3>3. F[U][V] = F[V][V]
        BY <3>1, <3>2, SameSum
      <3> QED
        BY <2>1, <2>3, <3>3 DEF V
    <2> QED
      BY <2>2, <2>3
  <1>4. ASSUME NEW U \in SUBSET T, U # {} PROVE part(U) = w[Pick(U)] + f[U \ {Pick(U)}]
    <2>1. U \ {Pick(U)} \in SUBSET T /\ U \ {Pick(U)} # T
      BY <1>4, Picked
    <2>2. F[U \ {Pick(U)}][U \ {Pick(U)}] = f[U \ {Pick(U)}]
      BY <1>3, <2>1
    <2> QED
      BY <1>4, <2>2
  <1>5. Adds(f, w, T)
    <2>1. ASSUME NEW U \in SUBSET T
          PROVE  part(U) = IF U = {} THEN 0 ELSE w[Pick(U)] + f[U \ {Pick(U)}]
      <3>1. CASE U = {}
        BY <3>1
      <3>2. CASE U # {}
        <4>1. part(U) = w[Pick(U)] + f[U \ {Pick(U)}]
          BY <1>4, <3>2
        <4> HIDE DEF part, f
        <4> QED
          BY <3>2, <4>1
      <3> QED
        BY <3>1, <3>2
    <2> HIDE DEF part
    <2> QED
      BY <2>1 DEF Adds
  <1> QED
    BY <1>1, <1>5

(* The sum is the value of such a function, at every subset.               *)
LEMMA SumByAdding ==
  ASSUME NEW w, NEW S, IsFiniteSet(S), NEW f, Adds(f, w, S), NEW T \in SUBSET S
  PROVE  SumOf(w, T) = f[T]
  <1>1. IsFiniteSet(T)
    BY FS_Subset
  <1>2. PICK g : Adds(g, w, T) /\ SumOf(w, T) = g[T]
    <2>1. \E g : Adds(g, w, T)
      BY <1>1, SumExists
    <2> QED
      BY <2>1 DEF SumOf, MapThenSumSet, MapThenFoldSet, Adds, Pick
  <1> QED
    BY <1>1, <1>2, SameSum

LEMMA SumStep ==
  ASSUME NEW w, NEW S, IsFiniteSet(S)
  PROVE  SumOf(w, S) = IF S = {} THEN 0 ELSE w[Pick(S)] + SumOf(w, S \ {Pick(S)})
  <1>1. PICK f : Adds(f, w, S)
    BY SumExists
  <1>2. \A T \in SUBSET S : SumOf(w, T) = f[T]
    BY <1>1, SumByAdding
  <1>3. f[S] = IF S = {} THEN 0 ELSE w[Pick(S)] + f[S \ {Pick(S)}]
    BY <1>1, AddsStep
  <1>4. SumOf(w, S) = f[S] /\ SumOf(w, S \ {Pick(S)}) = f[S \ {Pick(S)}]
    BY <1>2
  <1> QED
    BY <1>3, <1>4

(* The sum of integers is an integer.                                      *)
LEMMA SumType ==
  ASSUME NEW w, NEW S, IsFiniteSet(S), \A x \in S : w[x] \in Int
  PROVE  SumOf(w, S) \in Int
  <1> DEFINE Bad == {T \in SUBSET S : SumOf(w, T) \notin Int}
  <1> SUFFICES ASSUME Bad # {} PROVE FALSE
    OBVIOUS
  <1>1. PICK T \in Bad : \A U \in Bad : U \subseteq T => U = T
    <2>1. Bad \in SUBSET (SUBSET S)
      OBVIOUS
    <2> HIDE DEF Bad
    <2> QED
      BY <2>1, LeastSubset
  <1>2. SumOf(w, T) = IF T = {} THEN 0 ELSE w[Pick(T)] + SumOf(w, T \ {Pick(T)})
    BY FS_Subset, SumStep
  <1>3. T # {}
    BY <1>2
  <1>4. Pick(T) \in T /\ SumOf(w, T \ {Pick(T)}) \in Int
    BY <1>1, <1>3, Picked
  <1> QED
    BY <1>2, <1>3, <1>4

(* Whatever element is taken first, the sum is its worth and the rest.     *)
LEMMA SumRemove ==
  ASSUME NEW w, NEW S, IsFiniteSet(S), \A x \in S : w[x] \in Int, NEW y \in S
  PROVE  SumOf(w, S) = w[y] + SumOf(w, S \ {y})
  <1> DEFINE Bad == {T \in SUBSET S : \E z \in T : SumOf(w, T) # w[z] + SumOf(w, T \ {z})}
  <1> SUFFICES ASSUME Bad # {} PROVE FALSE
    OBVIOUS
  <1>1. PICK T \in Bad : \A U \in Bad : U \subseteq T => U = T
    <2>1. Bad \in SUBSET (SUBSET S)
      OBVIOUS
    <2> HIDE DEF Bad
    <2> QED
      BY <2>1, LeastSubset
  <1>2. PICK z \in T : SumOf(w, T) # w[z] + SumOf(w, T \ {z})
    OBVIOUS
  <1>3. PICK x \in T : x = Pick(T)
    BY <1>2, Picked
  <1>4. IsFiniteSet(T) /\ IsFiniteSet(T \ {x}) /\ IsFiniteSet(T \ {z})
    BY FS_Subset
  <1>5. SumOf(w, T) = w[x] + SumOf(w, T \ {x})
    BY <1>3, <1>4, SumStep
  <1>6. x # z
    BY <1>2, <1>5
  <1>7. /\ SumOf(w, T \ {x}) = w[z] + SumOf(w, (T \ {x}) \ {z})
        /\ SumOf(w, T \ {z}) = w[x] + SumOf(w, (T \ {z}) \ {x})
    <2>1. \A U \in SUBSET T : U # T => \A u \in U : SumOf(w, U) = w[u] + SumOf(w, U \ {u})
      BY <1>1
    <2>2. /\ T \ {x} \in SUBSET T /\ T \ {x} # T /\ z \in T \ {x}
          /\ T \ {z} \in SUBSET T /\ T \ {z} # T /\ x \in T \ {z}
      BY <1>6
    <2> QED
      BY <2>1, <2>2
  <1>8. (T \ {x}) \ {z} = (T \ {z}) \ {x}
    OBVIOUS
  <1>9. PICK n \in Int : n = SumOf(w, (T \ {z}) \ {x}) /\ n = SumOf(w, (T \ {x}) \ {z})
    <2>1. IsFiniteSet((T \ {z}) \ {x})
      BY <1>4, FS_RemoveElement
    <2> QED
      BY <1>8, <2>1, SumType
  <1>10. /\ SumOf(w, T) = w[x] + (w[z] + n)
         /\ SumOf(w, T \ {z}) = w[x] + n
    BY <1>5, <1>7, <1>9
  <1>11. w[x] \in Int /\ w[z] \in Int
    OBVIOUS
  <1> QED
    BY <1>2, <1>9, <1>10, <1>11

THEOREM SumEmpty ==
  ASSUME NEW w
  PROVE  SumOf(w, {}) = 0
  BY SumStep, FS_EmptySet

THEOREM SumAdd ==
  ASSUME NEW w, NEW S, IsFiniteSet(S), NEW y, y \notin S,
         \A x \in S \cup {y} : w[x] \in Int
  PROVE  SumOf(w, S \cup {y}) = SumOf(w, S) + w[y]
  <1>1. IsFiniteSet(S \cup {y})
    BY FS_AddElement
  <1>2. PICK T : T = S \cup {y}
    OBVIOUS
  <1>3. SumOf(w, T) = w[y] + SumOf(w, T \ {y}) /\ T \ {y} = S
    BY <1>1, <1>2, SumRemove
  <1>4. PICK m \in Int, n \in Int : m = SumOf(w, S) /\ n = w[y]
    BY SumType
  <1>5. SumOf(w, T) = n + m
    BY <1>3, <1>4
  <1>6. n + m = m + n
    OBVIOUS
  <1> QED
    BY <1>2, <1>4, <1>5, <1>6

(* Nothing adds up to nothing.                                             *)
THEOREM SumZero ==
  ASSUME NEW w, NEW S, IsFiniteSet(S), \A x \in S : w[x] = 0
  PROVE  SumOf(w, S) = 0
  <1> DEFINE Bad == {T \in SUBSET S : SumOf(w, T) # 0}
  <1> SUFFICES ASSUME Bad # {} PROVE FALSE
    OBVIOUS
  <1>1. PICK T \in Bad : \A U \in Bad : U \subseteq T => U = T
    <2>1. Bad \in SUBSET (SUBSET S)
      OBVIOUS
    <2> HIDE DEF Bad
    <2> QED
      BY <2>1, LeastSubset
  <1>2. SumOf(w, T) = IF T = {} THEN 0 ELSE w[Pick(T)] + SumOf(w, T \ {Pick(T)})
    BY FS_Subset, SumStep
  <1>3. T # {}
    BY <1>2
  <1>4. Pick(T) \in T /\ SumOf(w, T \ {Pick(T)}) = 0
    BY <1>1, <1>3, Picked
  <1> QED
    BY <1>2, <1>3, <1>4

(* A sum depends only on what its elements are worth.                      *)
THEOREM SumSame ==
  ASSUME NEW w, NEW v, NEW S, IsFiniteSet(S), \A x \in S : w[x] = v[x]
  PROVE  SumOf(w, S) = SumOf(v, S)
  <1>1. PICK f, g : Adds(f, w, S) /\ Adds(g, v, S)
    BY SumExists
  <1>2. SumOf(w, S) = f[S] /\ SumOf(v, S) = g[S]
    BY <1>1, SumByAdding
  <1> QED
    BY <1>1, <1>2, SameSum

------------------------------------------------------------------------------
------------------------------------------------------------------------------
(* The points of a set of ledger rows.                                     *)
Earnings(rows) == MapThenSumSet(LAMBDA row : row.points, rows)

LEMMA EarningsAreASum ==
  ASSUME NEW rows, IsFiniteSet(rows)
  PROVE  Earnings(rows) = SumOf([row \in rows |-> row.points], rows)
  <1> DEFINE w == [row \in rows |-> row.points]
             Same(f) == f = [s \in SUBSET rows |->
                               IF s = {} THEN 0 ELSE Pick(s).points + f[s \ {Pick(s)}]]
  <1>1. Earnings(rows) = (CHOOSE f : Same(f))[rows]
    BY DEF Earnings, MapThenSumSet, MapThenFoldSet, Pick
  <1>2. \A s \in SUBSET rows : s # {} => w[Pick(s)] = Pick(s).points
    BY Picked
  <1>3. ASSUME NEW f PROVE Same(f) <=> Adds(f, w, rows)
    <2> HIDE DEF w
    <2>1. [s \in SUBSET rows |-> IF s = {} THEN 0 ELSE Pick(s).points + f[s \ {Pick(s)}]]
            = [s \in SUBSET rows |-> IF s = {} THEN 0 ELSE w[Pick(s)] + f[s \ {Pick(s)}]]
      BY <1>2
    <2> QED
      BY <2>1 DEF Adds
  <1> HIDE DEF Same, w
  <1>4. PICK f : Same(f) /\ Earnings(rows) = f[rows]
    <2>1. \E f : Same(f)
      BY <1>3, SumExists
    <2> QED
      BY <1>1, <2>1
  <1>5. SumOf(w, rows) = f[rows]
    BY <1>3, <1>4, SumByAdding
  <1> QED
    BY <1>4, <1>5 DEF w

LEMMA EarningsAdd ==
  ASSUME NEW rows, IsFiniteSet(rows), NEW new, new \notin rows,
         \A row \in rows \cup {new} : row.points \in Int
  PROVE  Earnings(rows \cup {new}) = Earnings(rows) + new.points
  <1> DEFINE all == rows \cup {new}
             w == [row \in all |-> row.points]
             v == [row \in rows |-> row.points]
  <1>1. IsFiniteSet(all)
    BY FS_AddElement
  <1>2. Earnings(all) = SumOf(w, all) /\ Earnings(rows) = SumOf(v, rows)
    BY <1>1, EarningsAreASum
  <1>3. /\ \A row \in rows : w[row] = v[row]
        /\ \A row \in all : w[row] \in Int
        /\ w[new] = new.points
    OBVIOUS
  <1> HIDE DEF w, v
  <1>4. SumOf(w, rows) = SumOf(v, rows)
    BY <1>3, SumSame
  <1>5. SumOf(w, rows \cup {new}) = SumOf(w, rows) + w[new]
    BY <1>3, SumAdd
  <1> QED
    BY <1>2, <1>3, <1>4, <1>5

(* The rows of some of e's awards.                                         *)
RowFor(e, r) == [event_id |-> e, analyst_id |-> AnalystOf[e], reason |-> r, points |-> Worth[r]]
RowsFor(e, reasons) == {RowFor(e, r) : r \in Awards(Data[e]) \cap reasons}

LEMMA OneMoreAward ==
  ASSUME NEW rows, IsFiniteSet(rows), \A row \in rows : row.points \in Int,
         NEW e \in DecisionEvent, \A row \in rows : row.event_id # e,
         NEW reasons \in SUBSET ScoreReason, NEW r \in ScoreReason \ reasons,
         IsFiniteSet(rows \cup RowsFor(e, reasons)),
         Earnings(rows \cup RowsFor(e, reasons)) \in Int
  PROVE  LET more == rows \cup RowsFor(e, reasons \cup {r}) IN
         /\ IsFiniteSet(more)
         /\ Earnings(more) \in Int
         /\ Earnings(more) = Earnings(rows \cup RowsFor(e, reasons)) + Award(r, Data[e])
  <1> DEFINE old == rows \cup RowsFor(e, reasons)
             new == RowFor(e, r)
  <1>1. \A x \in ScoreReason : Worth[x] \in Int
    BY DEF ScoreReason, Worth
  <1>2. CASE r \in Awards(Data[e])
    <2>1. rows \cup RowsFor(e, reasons \cup {r}) = old \cup {new}
      BY <1>2 DEF RowsFor
    <2>2. new \notin old
      BY DEF RowsFor, RowFor
    <2>3. \A row \in old \cup {new} : row.points \in Int
      BY <1>1 DEF RowsFor, RowFor
    <2>4. new.points = Award(r, Data[e]) /\ new.points \in Int
      BY <1>1, <1>2 DEF RowFor, Award, Awards
    <2>5. IsFiniteSet(old \cup {new})
      BY FS_AddElement
    <2>6. IsFiniteSet(old) /\ Earnings(old) \in Int
      OBVIOUS
    <2> HIDE DEF old, new
    <2>7. Earnings(old \cup {new}) = Earnings(old) + new.points
      BY <2>2, <2>3, <2>6, EarningsAdd
    <2>8. PICK m \in Int, n \in Int : m = Earnings(old) /\ n = new.points
      BY <2>4, <2>6
    <2>9. Earnings(old \cup {new}) = m + n /\ m + n \in Int
      BY <2>7, <2>8
    <2> QED
      BY <2>1, <2>4, <2>5, <2>8, <2>9 DEF old
  <1>3. CASE r \notin Awards(Data[e])
    <2>1. RowsFor(e, reasons \cup {r}) = RowsFor(e, reasons)
      BY <1>3 DEF RowsFor
    <2>2. Award(r, Data[e]) = 0
      BY <1>3 DEF Award, Awards
    <2>3. PICK n \in Int : n = Earnings(old)
      OBVIOUS
    <2>4. n + 0 = n
      OBVIOUS
    <2> QED
      BY <2>1, <2>2, <2>3, <2>4
  <1> QED
    BY <1>2, <1>3

(* A decision's rows bring what score_case awards.                         *)
LEMMA EarningsOfDecision ==
  ASSUME NEW rows, IsFiniteSet(rows), \A row \in rows : row.points \in Int,
         NEW e \in DecisionEvent, \A row \in rows : row.event_id # e
  PROVE  /\ IsFiniteSet(rows \cup NewRows(e))
         /\ Earnings(rows \cup NewRows(e)) = Earnings(rows) + Points(Data[e])
  <1> DEFINE Sum(reasons) == Earnings(rows \cup RowsFor(e, reasons))
             Fine(reasons) == IsFiniteSet(rows \cup RowsFor(e, reasons)) /\ Sum(reasons) \in Int
             worth(r) == Award(r, Data[e])
  <1>1. /\ Fine({}) /\ Sum({}) = Earnings(rows)
    <2>1. rows \cup RowsFor(e, {}) = rows
      BY DEF RowsFor
    <2>2. SumOf([row \in rows |-> row.points], rows) \in Int
      BY SumType
    <2> QED
      BY <2>1, <2>2, EarningsAreASum
  <1>2. ASSUME NEW reasons \in SUBSET ScoreReason, NEW r \in ScoreReason \ reasons, Fine(reasons)
        PROVE  Fine(reasons \cup {r}) /\ Sum(reasons \cup {r}) = Sum(reasons) + worth(r)
    BY <1>2, OneMoreAward
  <1>3. \A r \in ScoreReason : worth(r) \in Int
    BY DEF Award, Worth, ScoreReason
  <1>4. rows \cup NewRows(e) = rows \cup RowsFor(e, ScoreReason)
    BY DEF NewRows, RowsFor, RowFor, Awards
  <1> DEFINE one   == {} \cup {"CASE_RESOLVED"}
             two   == one \cup {"FAST_DECISION"}
             three == two \cup {"CONFIRMED_FRAUD"}
             four  == three \cup {"CRITICAL_WITHIN_SLA"}
             five  == four \cup {"SLA_EXCEEDED"}
             six   == five \cup {"FALSE_POSITIVE"}
  <1> HIDE DEF Sum, Fine, worth
  <1>5. Fine(one) /\ Sum(one) = Sum({}) + worth("CASE_RESOLVED")
    BY <1>1, <1>2 DEF ScoreReason
  <1>6. Fine(two) /\ Sum(two) = Sum(one) + worth("FAST_DECISION")
    BY <1>5, <1>2 DEF ScoreReason
  <1>7. Fine(three) /\ Sum(three) = Sum(two) + worth("CONFIRMED_FRAUD")
    BY <1>6, <1>2 DEF ScoreReason
  <1>8. Fine(four) /\ Sum(four) = Sum(three) + worth("CRITICAL_WITHIN_SLA")
    BY <1>7, <1>2 DEF ScoreReason
  <1>9. Fine(five) /\ Sum(five) = Sum(four) + worth("SLA_EXCEEDED")
    BY <1>8, <1>2 DEF ScoreReason
  <1>10. Fine(six) /\ Sum(six) = Sum(five) + worth("FALSE_POSITIVE")
    BY <1>9, <1>2 DEF ScoreReason
  <1>11. six = ScoreReason
    BY DEF ScoreReason
  <1> HIDE DEF one, two, three, four, five, six
  <1>12. Sum({}) \in Int
    BY <1>1 DEF Fine
  <1>13. Sum(six) = Sum({}) + (worth("CASE_RESOLVED") + worth("FAST_DECISION")
           + worth("CONFIRMED_FRAUD") + worth("CRITICAL_WITHIN_SLA")
           + worth("SLA_EXCEEDED") + worth("FALSE_POSITIVE"))
    <2>1. PICK a \in Int, b \in Int, c \in Int, d \in Int, f \in Int, g \in Int, n \in Int :
            /\ a = worth("CASE_RESOLVED") /\ b = worth("FAST_DECISION")
            /\ c = worth("CONFIRMED_FRAUD") /\ d = worth("CRITICAL_WITHIN_SLA")
            /\ f = worth("SLA_EXCEEDED") /\ g = worth("FALSE_POSITIVE") /\ n = Sum({})
      BY <1>3, <1>12 DEF ScoreReason
    <2>2. Sum(six) = n + a + b + c + d + f + g
      BY <1>5, <1>6, <1>7, <1>8, <1>9, <1>10, <2>1
    <2> QED
      BY <2>1, <2>2
  <1>14. Points(Data[e]) = worth("CASE_RESOLVED") + worth("FAST_DECISION")
           + worth("CONFIRMED_FRAUD") + worth("CRITICAL_WITHIN_SLA")
           + worth("SLA_EXCEEDED") + worth("FALSE_POSITIVE")
    BY DEF Points, worth
  <1> QED
    BY <1>1, <1>4, <1>10, <1>11, <1>13, <1>14 DEF Sum, Fine

------------------------------------------------------------------------------
(* A profile's points are what its ledger comes to.                        *)
ProfilesAddUp ==
  /\ \A row \in ledger : row.points \in Int
  /\ \A a \in Analyst :
       /\ IsFiniteSet(LedgerOf(a))
       /\ IF profile[a] = Null THEN LedgerOf(a) = {}
          ELSE profile[a].total_points = Earnings(LedgerOf(a))

LEMMA RowsOfDecision ==
  ASSUME NEW e \in DecisionEvent, NEW row \in NewRows(e)
  PROVE  row.event_id = e /\ row.analyst_id = AnalystOf[e] /\ row.points \in Int
  <1>1. \A r \in ScoreReason : Worth[r] \in Int
    BY DEF ScoreReason, Worth
  <1> QED
    BY <1>1 DEF NewRows, Awards

LEMMA AddUpStep ==
  ASSUME Inv, LedgerIsProcessed, ProfilesAddUp, [Next]_vars
  PROVE  ProfilesAddUp'
  <1>1. CASE UNCHANGED tables
    BY <1>1 DEF tables, ProfilesAddUp, LedgerOf
  <1>2. ASSUME NEW w \in Worker, FeedbackMarked(w) PROVE ProfilesAddUp'
    BY <1>2 DEF FeedbackMarked, ProfilesAddUp, LedgerOf
  <1>3. ASSUME NEW w \in Worker, CommitScore(w) PROVE ProfilesAddUp'
    <2>1. PICK b \in Analyst, e \in DecisionEvent : b = AnalystFor(w) /\ e = delivery[w] /\ b = AnalystOf[e]
      BY <1>3, CommitEffect
    <2> DEFINE scored == ScoredProfile(Current(b), e)
    <2>2. /\ profile' = [profile EXCEPT ![b] = scored] /\ scored # Null
          /\ e \notin processed /\ ledger' = ledger \cup NewRows(e)
      BY <1>3, <2>1, CommitEffect
    <2>3. \A row \in ledger : row.event_id # e
      BY <2>2, RowsOfDecision DEF LedgerIsProcessed
    <2>4. /\ LedgerOf(b)' = LedgerOf(b) \cup NewRows(e)
          /\ \A a \in Analyst \ {b} : LedgerOf(a)' = LedgerOf(a)
      BY <2>1, <2>2, RowsOfDecision DEF LedgerOf
    <2>5. /\ IsFiniteSet(LedgerOf(b)) /\ \A row \in LedgerOf(b) : row.points \in Int
          /\ \A row \in LedgerOf(b) : row.event_id # e
      BY <2>3 DEF ProfilesAddUp, LedgerOf
    <2>6. Current(b).total_points = Earnings(LedgerOf(b))
      <3>1. Earnings({}) = 0
        BY EarningsAreASum, SumEmpty, FS_EmptySet
      <3> QED
        BY <3>1 DEF ProfilesAddUp, Current, NewProfile
    <2>7. /\ IsFiniteSet(LedgerOf(b) \cup NewRows(e))
          /\ Earnings(LedgerOf(b) \cup NewRows(e)) = Earnings(LedgerOf(b)) + Points(Data[e])
      BY <2>5, EarningsOfDecision
    <2>8. scored.total_points = Current(b).total_points + Points(Data[e])
      BY DEF ScoredProfile
    <2> HIDE DEF scored
    <2>9. profile'[b] = scored /\ \A a \in Analyst \ {b} : profile'[a] = profile[a]
      BY <2>2 DEF Inv, TypeInv
    <2>10. \A row \in ledger' : row.points \in Int
      BY <2>2, RowsOfDecision DEF ProfilesAddUp
    <2> SUFFICES ASSUME NEW a \in Analyst
                 PROVE  /\ IsFiniteSet(LedgerOf(a)')
                        /\ IF profile'[a] = Null THEN LedgerOf(a)' = {}
                           ELSE profile'[a].total_points = Earnings(LedgerOf(a)')
      BY <2>10 DEF ProfilesAddUp
    <2>11. CASE a = b
      BY <2>2, <2>4, <2>6, <2>7, <2>8, <2>9, <2>11
    <2>12. CASE a # b
      BY <2>4, <2>9, <2>12 DEF ProfilesAddUp
    <2> QED
      BY <2>11, <2>12
  <1> QED
    BY <1>1, <1>2, <1>3, TablesChange

(* A profile is the summary of its ledger and the ledger that of the       *)
(* decisions processed, whichever workers score an analyst's decisions at  *)
(* the same time and whatever is redelivered: points, cases and level      *)
(* (EventService.process, score_case, level_for).                          *)
THEOREM ProfileAlwaysSumsTheLedger == Spec => []ProfileSumsTheLedger
  <1>1. Init => ProfilesCount /\ ProfilesAddUp
    BY FS_EmptySet DEF Init, ProfilesCount, ProfilesAddUp, Counted, LedgerOf
  <1>2. LedgerIsProcessed /\ ProfilesCount /\ ProfilesAddUp => ProfileSumsTheLedger
    BY DEF LedgerIsProcessed, ProfilesCount, ProfilesAddUp, ProfileSumsTheLedger, Earnings
  <1> QED
    BY <1>1, <1>2, ProfileStep, AddUpStep, LedgerIsComplete, Invariance, PTL DEF Spec

------------------------------------------------------------------------------
(* The mapping to ExactlyOnceScoring, by the names of its variables.       *)
TotalOf == [a \in Analyst |-> IF profile[a] = Null THEN 0 ELSE profile[a].total_points]
ResolvedOf == [a \in Analyst |-> IF profile[a] = Null THEN 0 ELSE profile[a].resolved_cases]
BadgeOf == [a \in Analyst |-> \E b \in badges : b.analyst_id = a]

LEMMA ScoreMaps ==
  ASSUME Inv, NEW w \in Worker, CommitScore(w)
  PROVE  \E e \in DecisionEvent : Promise!Count(e)
  <1>1. PICK b \in Analyst, e \in DecisionEvent : b = AnalystFor(w) /\ e = delivery[w] /\ b = AnalystOf[e]
    BY CommitEffect
  <1> DEFINE scored == ScoredProfile(Current(b), e)
  <1>2. /\ profile' = [profile EXCEPT ![b] = scored] /\ scored # Null
        /\ e \notin processed
        /\ badges' = badges \cup NewBadges(b, e)
    BY <1>1, CommitEffect
  <1>3. processed' \cap DecisionEvent = (processed \cap DecisionEvent) \cup {e}
    BY <1>1, OneMoreCounted
  <1>4. /\ scored.total_points = Current(b).total_points + Points(Data[e])
        /\ scored.resolved_cases = Current(b).resolved_cases + 1
    BY DEF ScoredProfile
  <1>5. /\ Current(b).total_points = TotalOf[b]
        /\ Current(b).resolved_cases = ResolvedOf[b]
    BY DEF Current, NewProfile, TotalOf, ResolvedOf
  <1> HIDE DEF scored
  <1>6. profile'[b] = scored /\ \A a \in Analyst \ {b} : profile'[a] = profile[a]
    BY <1>2 DEF Inv, TypeInv
  <1>7. TotalOf' = [TotalOf EXCEPT ![b] = @ + Points(Data[e])]
    <2>1. TotalOf'[b] = TotalOf[b] + Points(Data[e])
      BY <1>2, <1>4, <1>5, <1>6 DEF TotalOf
    <2>2. \A a \in Analyst \ {b} : TotalOf'[a] = TotalOf[a]
      BY <1>6 DEF TotalOf
    <2>3. DOMAIN TotalOf = Analyst /\ TotalOf' = [a \in Analyst |-> TotalOf'[a]]
      BY DEF TotalOf
    <2> QED
      BY <2>1, <2>2, <2>3
  <1>8. ResolvedOf' = [ResolvedOf EXCEPT ![b] = @ + 1]
    <2>1. ResolvedOf'[b] = ResolvedOf[b] + 1
      BY <1>2, <1>4, <1>5, <1>6 DEF ResolvedOf
    <2>2. \A a \in Analyst \ {b} : ResolvedOf'[a] = ResolvedOf[a]
      BY <1>6 DEF ResolvedOf
    <2>3. DOMAIN ResolvedOf = Analyst /\ ResolvedOf' = [a \in Analyst |-> ResolvedOf'[a]]
      BY DEF ResolvedOf
    <2> QED
      BY <2>1, <2>2, <2>3
  <1>9. BadgeOf' = [BadgeOf EXCEPT ![b] = @ \/ ConfirmedFraud(Data[e])]
    <2>1. \A a \in Analyst : (\E x \in badges' : x.analyst_id = a)
            <=> (\E x \in badges : x.analyst_id = a) \/ (a = b /\ ConfirmedFraud(Data[e]))
      <3>1. \A x \in NewBadges(b, e) : x.analyst_id = b /\ ConfirmedFraud(Data[e])
        BY DEF NewBadges
      <3>2. ConfirmedFraud(Data[e]) =>
              NewBadges(b, e) # {} \/ \E x \in badges : x.analyst_id = b
        BY DEF NewBadges
      <3> QED
        BY <1>2, <3>1, <3>2
    <2> QED
      BY <2>1 DEF BadgeOf
  <1>10. Promise!Count(e)
    BY <1>1, <1>2, <1>3, <1>7, <1>8, <1>9 DEF Promise!Count, TotalOf, ResolvedOf, BadgeOf
  <1> QED
    BY <1>10

(* The workers, with their locks, redeliveries, conflicts, broken          *)
(* connections and crashes, count as the event contract promises.          *)
THEOREM CountingIsExactlyOnce == Spec => CountsExactlyOnce
  <1>1. Init => Promise!Init
    BY DEF Init, Promise!Init
  <1>2. Inv /\ [Next]_vars => [Promise!Next]_(Promise!svars)
    <2> SUFFICES ASSUME Inv, [Next]_vars
                 PROVE  Promise!Next \/ UNCHANGED Promise!svars
      OBVIOUS
    <2>1. CASE UNCHANGED tables
      BY <2>1 DEF tables, Promise!svars
    <2>2. ASSUME NEW w \in Worker, FeedbackMarked(w) PROVE UNCHANGED Promise!svars
      BY <2>2, FeedbackCountsNothing DEF FeedbackMarked, Promise!svars
    <2>3. ASSUME NEW w \in Worker, CommitScore(w) PROVE Promise!Next
      BY <2>3, ScoreMaps DEF Promise!Next
    <2> QED
      BY <2>1, <2>2, <2>3, TablesChange
  <1> QED
    BY <1>1, <1>2, Invariance, PTL DEF Spec, CountsExactlyOnce, Promise!Spec
=============================================================================
