---------------------------- MODULE EventPipeline ----------------------------
(***************************************************************************)
(* An event's whole way: a handler commits it to the outbox, an outbox     *)
(* worker publishes it, RabbitMQ delivers it and a gamification worker     *)
(* counts it.  OutboxPublisher and EventService share nothing but the      *)
(* queue: a message the one publishes is the other's to deliver.  Row i of *)
(* the outbox is event i.                                                  *)
(***************************************************************************)
EXTENDS EventService

CONSTANTS
  Rows,            \* how many events there will be
  Publisher        \* outbox workers

(* The case endpoints commit two types of events, the two the queue is     *)
(* bound for.                                                              *)
ASSUME EventPipelineConstants ==
  /\ Rows \in Nat /\ Event = 1..Rows
  /\ \A e \in Event : EventType[e] # "invalid"
  /\ Null \notin Publisher /\ "orphan" \notin Publisher

VARIABLES status, rowLock, publisher, row, bound, outboxFaults

Outbox == INSTANCE OutboxPublisher WITH
  lock <- rowLock, pc <- publisher, copies <- published,
  faults <- outboxFaults

outbox == <<status, rowLock, publisher, row, bound, outboxFaults>>
pipelineVars == <<outbox, vars>>
-----------------------------------------------------------------------------
PipelineInit == Outbox!Init /\ Init

(* What a step of the outbox side gives to the broker, which routes it to  *)
(* the queue, is the worker's to deliver.                                  *)
Routed == UNCHANGED vars \/ \E e \in Event : Publish(e)

(* A handler commits an event (Commit), the consumer binds its queue, or   *)
(* an outbox worker goes on.                                               *)
OutboxStep == Outbox!Next /\ Routed

ScoringStep(w) == Step(w) /\ UNCHANGED outbox

PipelineNext ==
  /\ OutboxStep \/ \E w \in Worker : ScoringStep(w)
  /\ outboxFaults' + faults' <= MaxFaults    \* bound: failures on both sides together

PipelineSpec == PipelineInit /\ [][PipelineNext]_pipelineVars

(* The outbox worker's run() polls for ever, the consumer starts in the    *)
(* end and its run() consumes for ever, and PostgreSQL ends the            *)
(* transaction of a client that is gone and serves those who wait for a    *)
(* row in turn.                                                            *)
Fairness ==
  /\ WF_pipelineVars(Outbox!Bind /\ Routed)
  /\ \A i \in Event : WF_pipelineVars(Outbox!RollBackOrphan(i) /\ Routed)
  /\ \A p \in Publisher : WF_pipelineVars(Outbox!Work(p) /\ Routed)
  /\ \A w \in Worker :
       /\ WF_pipelineVars(Deliver(w) /\ UNCHANGED outbox)
       /\ WF_pipelineVars(Work(w) /\ UNCHANGED outbox)
       /\ SF_pipelineVars(SelectProfile(w) /\ UNCHANGED outbox)
       /\ SF_pipelineVars(InsertProfile(w) /\ UNCHANGED outbox)

FairSpec == PipelineSpec /\ Fairness
-----------------------------------------------------------------------------
(* Every copy but the first of an event costs a failure of its own: two    *)
(* outbox workers never publish the same row, and no retry comes without   *)
(* cause (next_pending, publish_one).                                      *)
DuplicatesComeFromFaults ==
  MapThenSumSet(LAMBDA e : published[e], Event) <= Cardinality(Outbox!Settled) + outboxFaults

(* An event is never lost on its way: it is pending in the outbox, in the  *)
(* queue, with a worker the broker still waits for, or counted, whichever  *)
(* of the two commits or the two broker connections fails, and also if     *)
(* nothing had bound a queue when it was published (published_at is set    *)
(* after a confirm with mandatory=True, the message is acknowledged after  *)
(* the commit).                                                            *)
SomebodyHasIt ==
  \A e \in Event :
    status[e] # "absent" =>
      \/ status[e] = "pending" \/ queue[e] > 0 \/ e \in processed
      \/ \E w \in Worker : unacked[w] /\ delivery[w] = e

(* Every event that was committed is counted in the end, with whatever     *)
(* rows before it, and is then no longer pending.                          *)
EventuallyCounted ==
  \A e \in Event : status[e] = "pending" ~> e \in processed /\ status[e] = "published"
=============================================================================
