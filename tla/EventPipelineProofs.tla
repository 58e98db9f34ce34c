------------------------ MODULE EventPipelineProofs ------------------------
(***************************************************************************)
(* Proofs about EventPipeline.  A step of the pipeline is a step of        *)
(* EventService or leaves it alone, so that everything EventServiceProofs  *)
(* shows of the event worker is so in the pipeline too; what remains is    *)
(* the outbox, and where its rows and the queue meet.                      *)
(***************************************************************************)
EXTENDS EventPipeline, EventServiceProofs

LEMMA StepsOfEventService == [PipelineNext]_pipelineVars => [Next]_vars
  BY DEF PipelineNext, OutboxStep, Routed, ScoringStep, Next, pipelineVars

(* The pipeline's queue and workers are those of EventService: the outbox  *)
(* adds nothing that the event worker does not allow for (the outbox may   *)
(* publish any event again).                                               *)
THEOREM PipelineScores == PipelineSpec => Spec
  BY StepsOfEventService, PTL DEF PipelineSpec, PipelineInit, Spec

(* From the outbox to the profile every event counts once, whatever the    *)
(* outbox worker publishes again (publish_one, EventService.process).      *)
THEOREM PipelineCountsExactlyOnce == PipelineSpec => CountsExactlyOnce
  BY PipelineScores, CountingIsExactlyOnce
------------------------------------------------------------------------------
OutboxTypes ==
  /\ status \in [Event -> {"absent", "pending", "published"}]
  /\ rowLock \in [Event -> Publisher \cup {"orphan", Null}]
  /\ publisher \in [Publisher -> {"idle", "publishing", "confirmed", "failed"}]
  /\ row \in [Publisher -> Event \cup {Null}]
  /\ outboxFaults \in Nat

(* A worker that is not idle holds the lock of a pending row, and has told *)
(* the queue of it when the confirm has come.                              *)
Holding ==
  \A p \in Publisher :
    publisher[p] # "idle" =>
      /\ row[p] \in Event /\ rowLock[row[p]] = p /\ status[row[p]] = "pending"
      /\ publisher[p] = "confirmed" => published[row[p]] > 0

PublishedForGood == \A e \in Event : status[e] = "published" => published[e] > 0

OutboxInv == OutboxTypes /\ Holding /\ PublishedForGood

LEMMA Events ==
  /\ Outbox!Row = Event /\ IsFiniteSet(Event)
  /\ \A e \in Event : e \in DecisionEvent \cup FeedbackEvent
  BY EventPipelineConstants, EventServiceConstants, FS_Interval
  DEF Outbox!Row, DecisionEvent, FeedbackEvent

(* What a step of the outbox worker's process does to the rows.            *)
LEMMA OutboxStepKeeps ==
  ASSUME published \in [Event -> Nat], OutboxInv, Outbox!Next
  PROVE  OutboxInv'
  <1> USE Events, EventPipelineConstants DEF OutboxInv, OutboxTypes, Holding, PublishedForGood
  <1>1. CASE Outbox!Bind
    BY <1>1 DEF Outbox!Bind
  <1>2. ASSUME NEW e \in Event, Outbox!Commit(e) PROVE OutboxInv'
    BY <1>2 DEF Outbox!Commit
  <1>3. ASSUME NEW e \in Event, Outbox!RollBackOrphan(e) PROVE OutboxInv'
    BY <1>3 DEF Outbox!RollBackOrphan
  <1>4. ASSUME NEW p \in Publisher, Outbox!NextPending(p) PROVE OutboxInv'
    BY <1>4 DEF Outbox!NextPending, Outbox!Available
  <1>5. ASSUME NEW p \in Publisher, publisher[p] # "idle",
               Outbox!Publish(p) \/ Outbox!Unroutable(p) \/ Outbox!PublishFails(p)
        PROVE  OutboxInv'
    <2>1. PICK e \in Event : e = row[p] /\ rowLock[e] = p /\ status[e] = "pending"
      BY <1>5
    <2>2. /\ \/ published' = published
             \/ published' = [published EXCEPT ![e] = published[e] + 1]
          /\ \/ publisher' = [publisher EXCEPT ![p] = "failed"]
             \/ /\ publisher' = [publisher EXCEPT ![p] = "confirmed"]
                /\ published' = [published EXCEPT ![e] = published[e] + 1]
          /\ outboxFaults' \in Nat
          /\ UNCHANGED <<status, rowLock, row>>
      BY <1>5, <2>1 DEF Outbox!Publish, Outbox!Unroutable, Outbox!PublishFails, Outbox!Goto, Outbox!Fault
    <2>3. /\ published' \in [Event -> Nat]
          /\ \A d \in Event : published[d] > 0 => published'[d] > 0
          /\ publisher'[p] = "confirmed" => published'[e] > 0
      <3>1. CASE published' = published
        BY <2>2, <3>1
      <3>2. CASE published' = [published EXCEPT ![e] = published[e] + 1]
        BY <2>2, <3>2
      <3> QED
        BY <2>2, <3>1, <3>2
    <2>4. OutboxTypes'
      BY <2>2
    <2>5. Holding'
      BY <2>1, <2>2, <2>3
    <2> QED
      BY <2>2, <2>3, <2>4, <2>5
  <1>6. ASSUME NEW p \in Publisher, publisher[p] # "idle",
               Outbox!MarkPublished(p) \/ Outbox!MarkFailed(p) \/ Outbox!CommitFails(p) \/ Outbox!Crash(p)
        PROVE  OutboxInv'
    <2>1. PICK e \in Event : e = row[p] /\ rowLock[e] = p /\ status[e] = "pending"
      BY <1>6
    <2>2. /\ \/ status' = status
             \/ publisher[p] = "confirmed" /\ status' = [status EXCEPT ![e] = "published"]
          /\ \E holder \in {Null, "orphan"} : rowLock' = [rowLock EXCEPT ![e] = holder]
          /\ row' = [row EXCEPT ![p] = Null]
          /\ publisher' = [publisher EXCEPT ![p] = "idle"]
          /\ outboxFaults' \in Nat /\ published' = published
      BY <1>6, <2>1
      DEF Outbox!MarkPublished, Outbox!MarkFailed, Outbox!CommitFails, Outbox!Crash,
          Outbox!EndTransaction, Outbox!Goto, Outbox!Fault
    <2>3. \A q \in Publisher : publisher'[q] # "idle" => q # p /\ row'[q] = row[q] /\ row[q] # e
      BY <2>1, <2>2
    <2>4. OutboxTypes'
      BY <2>1, <2>2
    <2> QED
      BY <2>1, <2>2, <2>3, <2>4
  <1> QED
    BY <1>1, <1>2, <1>3, <1>4, <1>5, <1>6
    DEF Outbox!Next, Outbox!Work, Outbox!Publish, Outbox!Unroutable, Outbox!PublishFails,
        Outbox!MarkPublished, Outbox!MarkFailed, Outbox!CommitFails, Outbox!Crash
------------------------------------------------------------------------------
LEMMA WorkersLeaveTheOutbox ==
  ASSUME [PipelineNext]_pipelineVars
  PROVE  Outbox!Next \/ UNCHANGED <<outbox, published>>
  <1>1. ASSUME NEW w \in Worker, Step(w) PROVE published' = published
    BY <1>1 DEF Step, Work, Deliver, SelectProfile, InsertProfile, CheckProcessed, MarkProcessed,
         Score, CommitScore, ScoreConflict, Recheck, Ack, Nack, Reject, Reconnect, DatabaseError,
         CommitUnseen, LoseBroker, Crash
  <1> QED
    BY <1>1 DEF PipelineNext, OutboxStep, ScoringStep, pipelineVars, vars

LEMMA PipelineKeeps ==
  ASSUME Inv, OutboxInv, [PipelineNext]_pipelineVars
  PROVE  OutboxInv'
  <1>1. CASE Outbox!Next
    BY <1>1, OutboxStepKeeps DEF Inv, TypeInv
  <1>2. CASE UNCHANGED <<outbox, published>>
    BY <1>2 DEF outbox, OutboxInv, OutboxTypes, Holding, PublishedForGood
  <1> QED
    BY <1>1, <1>2, WorkersLeaveTheOutbox

(* A worker of the outbox that is not idle holds the lock of a row that is *)
(* still pending, and no row is published that the queue was not given     *)
(* (next_pending, publish_one).                                            *)
THEOREM OutboxIsSound == PipelineSpec => []OutboxInv
  <1>1. PipelineInit => OutboxInv
    BY Events, EventPipelineConstants
    DEF PipelineInit, Outbox!Init, OutboxInv, OutboxTypes, Holding, PublishedForGood
  <1> QED
    BY <1>1, PipelineKeeps, PipelineScores, Invariance, PTL DEF PipelineSpec

(* An event that a handler committed is somewhere until it is counted:     *)
(* pending in the outbox, in the queue, or with a worker the broker still  *)
(* waits for, whatever fails between (publish_one, handle_delivery).       *)
THEOREM SomebodyAlwaysHasIt == PipelineSpec => []SomebodyHasIt
  <1>1. OutboxInv /\ NothingIsForgotten => SomebodyHasIt
    BY Events DEF OutboxInv, OutboxTypes, PublishedForGood, NothingIsForgotten, SomebodyHasIt
  <1> QED
    BY <1>1, OutboxIsSound, PipelineScores, NothingIsEverForgotten, PTL
------------------------------------------------------------------------------
Copies == SumOf(published, Event)

CopiesArePaidFor == Copies <= Cardinality(Outbox!Settled) + outboxFaults

(* What a step means for the copies and for the rows that are settled.     *)
Same == published' = published /\ Outbox!Settled' = Outbox!Settled /\ outboxFaults' = outboxFaults

OneSettled(e) ==
  /\ published' = [published EXCEPT ![e] = published[e] + 1]
  /\ e \notin Outbox!Settled /\ Outbox!Settled' = Outbox!Settled \cup {e}
  /\ outboxFaults' = outboxFaults

CopyForNothing(e) ==
  /\ published' = published \/ published' = [published EXCEPT ![e] = published[e] + 1]
  /\ Outbox!Settled' = Outbox!Settled
  /\ outboxFaults' = outboxFaults + 1

OneUnsettled(e) ==
  /\ published' = published
  /\ Outbox!Settled \subseteq Outbox!Settled' \cup {e}
  /\ outboxFaults' = outboxFaults + 1

IsSettled(e) ==
  status[e] = "published" \/ \E p \in Publisher : row[p] = e /\ publisher[p] = "confirmed"

LEMMA SettledMembers ==
  /\ Outbox!Settled = {e \in Event : IsSettled(e)}
  /\ Outbox!Settled' = {e \in Event : IsSettled(e)'}
  BY Events DEF Outbox!Settled, IsSettled

LEMMA SameSettled ==
  ASSUME \A e \in Event : IsSettled(e)' <=> IsSettled(e)
  PROVE  Outbox!Settled' = Outbox!Settled
  BY SettledMembers

(* A copy beyond the first of a row costs a failure.                       *)
LEMMA WhatACopyCosts ==
  ASSUME OutboxInv, OutboxInv', Outbox!Next
  PROVE  \/ Same
         \/ \E e \in Event : OneSettled(e) \/ CopyForNothing(e) \/ OneUnsettled(e)
  <1> USE Events, EventPipelineConstants
      DEF OutboxInv, OutboxTypes, Holding
  <1>1. CASE Outbox!Bind
    <2>1. \A d \in Event : IsSettled(d)' <=> IsSettled(d)
      BY <1>1 DEF Outbox!Bind, IsSettled
    <2> QED
      BY <1>1, <2>1, SameSettled DEF Outbox!Bind, Same
  <1>2. ASSUME NEW e \in Event, Outbox!Commit(e) PROVE Same
    <2>1. \A d \in Event : IsSettled(d)' <=> IsSettled(d)
      BY <1>2 DEF Outbox!Commit, IsSettled
    <2> QED
      BY <1>2, <2>1, SameSettled DEF Outbox!Commit, Same
  <1>3. ASSUME NEW e \in Event, Outbox!RollBackOrphan(e) PROVE Same
    <2>1. \A d \in Event : IsSettled(d)' <=> IsSettled(d)
      BY <1>3 DEF Outbox!RollBackOrphan, IsSettled
    <2> QED
      BY <1>3, <2>1, SameSettled DEF Outbox!RollBackOrphan, Same
  <1>4. ASSUME NEW p \in Publisher, Outbox!NextPending(p) PROVE Same
    <2>1. \A d \in Event : IsSettled(d)' <=> IsSettled(d)
      BY <1>4 DEF Outbox!NextPending, Outbox!Available, IsSettled
    <2> QED
      BY <1>4, <2>1, SameSettled DEF Outbox!NextPending, Outbox!Available, Same
  <1>5. ASSUME NEW p \in Publisher, Outbox!Unroutable(p) PROVE Same
    <2>1. \A d \in Event : IsSettled(d)' <=> IsSettled(d)
      BY <1>5 DEF Outbox!Unroutable, Outbox!Goto, IsSettled
    <2> QED
      BY <1>5, <2>1, SameSettled DEF Outbox!Unroutable, Outbox!Goto, Same
  <1>6. ASSUME NEW p \in Publisher, Outbox!Publish(p)
        PROVE  \E e \in Event : OneSettled(e)
    <2>1. PICK e \in Event : e = row[p] /\ rowLock[e] = p /\ status[e] = "pending"
      BY <1>6 DEF Outbox!Publish
    <2>2. /\ published' = [published EXCEPT ![e] = published[e] + 1]
          /\ publisher[p] = "publishing" /\ publisher' = [publisher EXCEPT ![p] = "confirmed"]
          /\ UNCHANGED <<status, row, outboxFaults>>
      BY <1>6, <2>1 DEF Outbox!Publish, Outbox!Goto
    <2>3. ~IsSettled(e) /\ IsSettled(e)'
      BY <2>1, <2>2 DEF IsSettled
    <2>4. \A d \in Event \ {e} : IsSettled(d)' <=> IsSettled(d)
      BY <2>1, <2>2 DEF IsSettled
    <2>5. e \notin Outbox!Settled /\ Outbox!Settled' = Outbox!Settled \cup {e}
      BY <2>3, <2>4, SettledMembers
    <2> QED
      BY <2>2, <2>5 DEF OneSettled
  <1>7. ASSUME NEW p \in Publisher, Outbox!PublishFails(p)
        PROVE  \E e \in Event : CopyForNothing(e)
    <2>1. PICK e \in Event : e = row[p]
      BY <1>7 DEF Outbox!PublishFails
    <2>2. /\ published' = published \/ published' = [published EXCEPT ![e] = published[e] + 1]
          /\ publisher[p] = "publishing" /\ publisher' = [publisher EXCEPT ![p] = "failed"]
          /\ UNCHANGED <<status, row>> /\ outboxFaults' = outboxFaults + 1
      BY <1>7, <2>1 DEF Outbox!PublishFails, Outbox!Goto, Outbox!Fault
    <2>3. \A d \in Event : IsSettled(d)' <=> IsSettled(d)
      BY <2>2 DEF IsSettled
    <2> QED
      BY <2>2, <2>3, SameSettled DEF CopyForNothing
  <1>8. ASSUME NEW p \in Publisher, Outbox!MarkPublished(p) \/ Outbox!MarkFailed(p) PROVE Same
    <2>1. PICK e \in Event : e = row[p] /\ rowLock[e] = p /\ status[e] = "pending"
      BY <1>8 DEF Outbox!MarkPublished, Outbox!MarkFailed
    <2>2. /\ \/ publisher[p] = "failed" /\ status' = status
             \/ publisher[p] = "confirmed" /\ status' = [status EXCEPT ![e] = "published"]
          /\ row' = [row EXCEPT ![p] = Null] /\ publisher' = [publisher EXCEPT ![p] = "idle"]
          /\ UNCHANGED <<published, outboxFaults>>
      BY <1>8, <2>1
      DEF Outbox!MarkPublished, Outbox!MarkFailed, Outbox!EndTransaction, Outbox!Goto
    <2>3. IsSettled(e)' <=> IsSettled(e)
      BY <2>1, <2>2 DEF IsSettled
    <2>4. \A d \in Event \ {e} : IsSettled(d)' <=> IsSettled(d)
      BY <2>1, <2>2 DEF IsSettled
    <2> QED
      BY <2>2, <2>3, <2>4, SameSettled DEF Same
  <1>9. ASSUME NEW p \in Publisher, Outbox!CommitFails(p) \/ Outbox!Crash(p)
        PROVE  \E e \in Event : OneUnsettled(e)
    <2>1. PICK e \in Event : e = row[p] /\ rowLock[e] = p /\ status[e] = "pending"
      BY <1>9 DEF Outbox!CommitFails, Outbox!Crash
    <2>2. /\ status' = status \/ status' = [status EXCEPT ![e] = "published"]
          /\ row' = [row EXCEPT ![p] = Null] /\ publisher' = [publisher EXCEPT ![p] = "idle"]
          /\ published' = published /\ outboxFaults' = outboxFaults + 1
      BY <1>9, <2>1 DEF Outbox!CommitFails, Outbox!Crash, Outbox!EndTransaction, Outbox!Goto, Outbox!Fault
    <2>3. \A d \in Event \ {e} : IsSettled(d) => IsSettled(d)'
      BY <2>1, <2>2 DEF IsSettled
    <2> QED
      BY <2>2, <2>3, SettledMembers DEF OneUnsettled
  <1> QED
    BY <1>1, <1>2, <1>3, <1>4, <1>5, <1>6, <1>7, <1>8, <1>9 DEF Outbox!Next, Outbox!Work

LEMMA OneMoreCopy ==
  ASSUME published \in [Event -> Nat], NEW e \in Event,
         published' = [published EXCEPT ![e] = published[e] + 1]
  PROVE  SumOf(published', Event) = Copies + 1
  <1> DEFINE others == Event \ {e}
  <1>1. published' \in [Event -> Nat] /\ published'[e] = published[e] + 1
        /\ \A x \in others : published[x] = published'[x]
    OBVIOUS
  <1>2. IsFiniteSet(others)
    BY Events, FS_Subset
  <1>3. SumOf(published, others) = SumOf(published', others)
    BY <1>1, <1>2, SumSame
  <1>4. SumOf(published, Event) = published[e] + SumOf(published, others)
    <2>1. \A x \in Event : published[x] \in Int
      OBVIOUS
    <2> QED
      BY <2>1, Events, SumRemove
  <1>5. SumOf(published', Event) = published'[e] + SumOf(published', others)
    <2>1. \A x \in Event : published'[x] \in Int
      BY <1>1
    <2> QED
      BY <2>1, Events, SumRemove
  <1>6. SumOf(published, others) \in Int
    <2>1. \A x \in others : published[x] \in Int
      OBVIOUS
    <2> QED
      BY <1>2, <2>1, SumType
  <1> HIDE DEF others
  <1> QED
    BY <1>1, <1>3, <1>4, <1>5, <1>6 DEF Copies

LEMMA DuplicatesStep ==
  ASSUME Inv, OutboxInv, OutboxInv', CopiesArePaidFor, [PipelineNext]_pipelineVars
  PROVE  CopiesArePaidFor'
  <1> DEFINE old == Cardinality(Outbox!Settled)
             new == Cardinality(Outbox!Settled')
  <1>1. IsFiniteSet(Outbox!Settled) /\ IsFiniteSet(Outbox!Settled')
    BY Events, SettledMembers, FS_Subset
  <1>2. old \in Nat /\ new \in Nat
    BY <1>1, FS_CardinalityType
  <1>3. outboxFaults \in Nat /\ outboxFaults' \in Nat /\ published \in [Event -> Nat]
    BY DEF OutboxInv, OutboxTypes, Inv, TypeInv
  <1>4. Copies \in Int
    <2>1. \A x \in Event : published[x] \in Int
      BY <1>3
    <2> QED
      BY <2>1, Events, SumType DEF Copies
  <1>5. Copies <= old + outboxFaults
    BY DEF CopiesArePaidFor
  <1> SUFFICES SumOf(published', Event) <= new + outboxFaults'
    BY DEF CopiesArePaidFor, Copies
  <1>6. CASE Same
    BY <1>5, <1>6 DEF Same, Copies
  <1>7. CASE UNCHANGED <<outbox, published>>
    <2>1. \A d \in Event : IsSettled(d)' <=> IsSettled(d)
      BY <1>7 DEF outbox, IsSettled
    <2> QED
      BY <1>5, <1>7, <2>1, SameSettled DEF outbox, Copies
  <1>8. ASSUME NEW e \in Event, OneSettled(e) PROVE SumOf(published', Event) <= new + outboxFaults'
    <2>1. new = old + 1
      BY <1>1, <1>8, FS_AddElement DEF OneSettled
    <2>2. SumOf(published', Event) = Copies + 1
      BY <1>3, <1>8, OneMoreCopy DEF OneSettled
    <2> HIDE DEF old, new
    <2> QED
      BY <1>2, <1>3, <1>4, <1>5, <1>8, <2>1, <2>2 DEF OneSettled
  <1>9. ASSUME NEW e \in Event, CopyForNothing(e) PROVE SumOf(published', Event) <= new + outboxFaults'
    <2>1. SumOf(published', Event) = Copies \/ SumOf(published', Event) = Copies + 1
      BY <1>3, <1>9, OneMoreCopy DEF CopyForNothing, Copies
    <2>2. new = old
      BY <1>9 DEF CopyForNothing
    <2> HIDE DEF old, new
    <2> QED
      BY <1>2, <1>3, <1>4, <1>5, <1>9, <2>1, <2>2 DEF CopyForNothing
  <1>10. ASSUME NEW e \in Event, OneUnsettled(e) PROVE SumOf(published', Event) <= new + outboxFaults'
    <2>1. /\ IsFiniteSet(Outbox!Settled' \cup {e})
          /\ \/ Cardinality(Outbox!Settled' \cup {e}) = new
             \/ Cardinality(Outbox!Settled' \cup {e}) = new + 1
      BY <1>1, FS_AddElement
    <2>2. old <= Cardinality(Outbox!Settled' \cup {e}) /\ Cardinality(Outbox!Settled' \cup {e}) \in Nat
      BY <1>10, <2>1, FS_Subset, FS_CardinalityType DEF OneUnsettled
    <2>3. SumOf(published', Event) = Copies
      BY <1>10 DEF OneUnsettled, Copies
    <2> HIDE DEF old, new
    <2> QED
      BY <1>2, <1>3, <1>4, <1>5, <1>10, <2>1, <2>2, <2>3 DEF OneUnsettled
  <1> QED
    BY <1>6, <1>7, <1>8, <1>9, <1>10, WorkersLeaveTheOutbox, WhatACopyCosts

(* Every copy but the first of an event costs a failure of its own,        *)
(* however many outbox workers there are (next_pending, publish_one).      *)
THEOREM DuplicatesAlwaysComeFromFaults == PipelineSpec => []DuplicatesComeFromFaults
  <1>1. PipelineInit => CopiesArePaidFor
    <2> SUFFICES ASSUME PipelineInit PROVE CopiesArePaidFor
      OBVIOUS
    <2>1. published = [e \in Event |-> 0] /\ outboxFaults = 0
      BY DEF PipelineInit, Init, Outbox!Init
    <2>2. Cardinality(Outbox!Settled) \in Nat
      BY Events, SettledMembers, FS_Subset, FS_CardinalityType
    <2>3. Copies = 0
      BY <2>1, Events, SumZero DEF Copies
    <2> QED
      BY <2>1, <2>2, <2>3 DEF CopiesArePaidFor
  <1>2. CopiesArePaidFor => DuplicatesComeFromFaults
    BY DEF CopiesArePaidFor, DuplicatesComeFromFaults, Copies, SumOf
  <1> QED
    BY <1>1, <1>2, DuplicatesStep, OutboxIsSound, PipelineScores, Invariance, PTL DEF PipelineSpec
=============================================================================
