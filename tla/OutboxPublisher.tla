--------------------------- MODULE OutboxPublisher ---------------------------
(***************************************************************************)
(* The outbox worker of the Transaction Service.  A handler commits a row  *)
(* of outbox_events with its case (CaseService); a worker locks the oldest *)
(* pending row, publishes it with a publisher confirm, and commits         *)
(* published_at.  RabbitMQ is not in that transaction, so a failure        *)
(* between the two leaves a published row pending.  Nothing reads the      *)
(* columns attempts and last_error, which are left out.                    *)
(***************************************************************************)
EXTENDS Integers

CONSTANTS
  Rows,            \* how many rows there will be; row i is the i-th created
  Publisher,       \* outbox workers
  Null,
  MaxFaults        \* bound: how many failures a behaviour has

Row == 1..Rows

VARIABLES
  status,          \* status[i]: absent, "pending" (published_at is null), "published"
  lock,            \* lock[i]: who holds row i: a worker, "orphan", or Null
  pc,              \* pc[p]: where publish_one is in worker p
  row,             \* row[p]: the row p works on, or Null
  copies,          \* copies[i]: how often the queue was given i
  bound,           \* whether the consumer has bound its queue to the exchange
  faults           \* failures so far

vars == <<status, lock, pc, row, copies, bound, faults>>
-----------------------------------------------------------------------------
Init ==
  /\ status = [i \in Row |-> "absent"]
  /\ lock = [i \in Row |-> Null]
  /\ pc = [p \in Publisher |-> "idle"]
  /\ row = [p \in Publisher |-> Null]
  /\ copies = [i \in Row |-> 0]
  /\ bound = FALSE
  /\ faults = 0

(* A handler commits row i, perhaps before one that was created earlier.   *)
Commit(i) ==
  /\ status[i] = "absent"
  /\ status' = [status EXCEPT ![i] = "pending"]
  /\ UNCHANGED <<lock, pc, row, copies, bound, faults>>

(* The consumer declares and binds its durable queue, once for ever.       *)
Bind ==
  /\ ~bound
  /\ bound' = TRUE
  /\ UNCHANGED <<status, lock, pc, row, copies, faults>>

(* Mutant: a row somebody works on is taken again.                         *)
AnyPending == {i \in Row : status[i] = "pending"}

(* published_at IS NULL ... FOR UPDATE SKIP LOCKED.                        *)
Available == {i \in Row : status[i] = "pending" /\ lock[i] = Null}

NextPending(p) ==
  /\ pc[p] = "idle"
  /\ \E i \in Available :
       /\ \A j \in Available : i <= j
       /\ lock' = [lock EXCEPT ![i] = p]
       /\ row' = [row EXCEPT ![p] = i]
  /\ pc' = [pc EXCEPT ![p] = "publishing"]
  /\ UNCHANGED <<status, copies, bound, faults>>

Goto(p, label) == pc' = [pc EXCEPT ![p] = label]

(* The broker routes the message to the queue and confirms it.             *)
Publish(p) ==
  /\ pc[p] = "publishing"
  /\ bound
  /\ copies' = [copies EXCEPT ![row[p]] = @ + 1]
  /\ Goto(p, "confirmed")
  /\ UNCHANGED <<status, lock, row, bound, faults>>

(* Mutant: without mandatory=True an unroutable message is confirmed.      *)
UnroutableConfirmed(p) ==
  /\ pc[p] = "publishing"
  /\ ~bound
  /\ Goto(p, "confirmed")
  /\ UNCHANGED <<status, lock, row, copies, bound, faults>>

(* mandatory=True: a message no queue is bound for comes back as an error. *)
Unroutable(p) ==
  /\ pc[p] = "publishing"
  /\ ~bound
  /\ Goto(p, "failed")
  /\ UNCHANGED <<status, lock, row, copies, bound, faults>>

(* Mutant: the transaction is left open.                                   *)
KeepTransaction(p) ==
  /\ row' = [row EXCEPT ![p] = Null]
  /\ Goto(p, "idle")
  /\ UNCHANGED lock

EndTransaction(p) ==
  /\ lock' = [lock EXCEPT ![row[p]] = Null]
  /\ row' = [row EXCEPT ![p] = Null]
  /\ Goto(p, "idle")

(* mark_published and the commit.                                          *)
MarkPublished(p) ==
  /\ pc[p] = "confirmed"
  /\ status' = [status EXCEPT ![row[p]] = "published"]
  /\ EndTransaction(p)
  /\ UNCHANGED <<copies, bound, faults>>

(* mark_failed and its commit, then the exception ends publish_one; the    *)
(* row stays pending.                                                      *)
MarkFailed(p) ==
  /\ pc[p] = "failed"
  /\ EndTransaction(p)
  /\ UNCHANGED <<status, copies, bound, faults>>
-----------------------------------------------------------------------------
Fault == faults < MaxFaults /\ faults' = faults + 1

(* RabbitMQ cannot be reached, or nacks, or the connection is lost before  *)
(* the confirm, and then the broker may have taken the message or not.     *)
PublishFails(p) ==
  /\ Fault
  /\ pc[p] = "publishing"
  /\ \/ UNCHANGED copies
     \/ bound /\ copies' = [copies EXCEPT ![row[p]] = @ + 1]
  /\ Goto(p, "failed")
  /\ UNCHANGED <<status, lock, row, bound>>

(* PostgreSQL rolls the transaction back, or completes the commit of       *)
(* mark_published without the worker hearing of it.                        *)
CommitFails(p) ==
  /\ Fault
  /\ pc[p] \in {"confirmed", "failed"}
  /\ \/ UNCHANGED status
     \/ pc[p] = "confirmed" /\ status' = [status EXCEPT ![row[p]] = "published"]
  /\ EndTransaction(p)
  /\ UNCHANGED <<copies, bound>>

(* The worker dies and is started again.  PostgreSQL may keep the row      *)
(* locked until it notices that the client is gone.                        *)
Crash(p) ==
  /\ Fault
  /\ pc[p] # "idle"
  /\ \E holder \in {Null, "orphan"} : lock' = [lock EXCEPT ![row[p]] = holder]
  /\ row' = [row EXCEPT ![p] = Null]
  /\ Goto(p, "idle")
  /\ UNCHANGED <<status, copies, bound>>

RollBackOrphan(i) ==
  /\ lock[i] = "orphan"
  /\ lock' = [lock EXCEPT ![i] = Null]
  /\ UNCHANGED <<status, pc, row, copies, bound, faults>>

Work(p) ==
  \/ NextPending(p) \/ Publish(p) \/ Unroutable(p) \/ MarkPublished(p) \/ MarkFailed(p)

Next ==
  \/ Bind
  \/ \E i \in Row : Commit(i) \/ RollBackOrphan(i)
  \/ \E p \in Publisher : Work(p) \/ PublishFails(p) \/ CommitFails(p) \/ Crash(p)

Spec == Init /\ [][Next]_vars
-----------------------------------------------------------------------------
(* The rows the queue surely has: published, or confirmed and not yet      *)
(* committed.                                                              *)
Settled ==
  {i \in Row : status[i] = "published"
               \/ \E p \in Publisher : row[p] = i /\ pc[p] = "confirmed"}
=============================================================================
