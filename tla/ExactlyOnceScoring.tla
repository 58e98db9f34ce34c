-------------------------- MODULE ExactlyOnceScoring --------------------------
(***************************************************************************)
(* What the event contract promises about scoring, whatever RabbitMQ and   *)
(* the workers go through: a decision counts once, in full, for the        *)
(* analyst it names (EVENTS.md, "Teslim ve recovery davranisi", 5 and 6).  *)
(* EventService implements this module.                                    *)
(***************************************************************************)
EXTENDS Integers

CONSTANTS
  Decision,   \* the decision events
  Analyst,    \* the analysts they name
  Scorer,     \* Scorer[e]: the analyst of decision e
  Gain,       \* Gain[e]: what e is worth
  Caught      \* the decisions that are a confirmed fraud

VARIABLES
  counted,    \* the decisions that have been counted
  total,      \* total[a]: the points of analyst a
  resolved,   \* resolved[a]: how many of a's cases were counted
  badge       \* badge[a]: whether a has the badge of the first confirmed fraud

svars == <<counted, total, resolved, badge>>

Init ==
  /\ counted = {}
  /\ total = [a \in Analyst |-> 0]
  /\ resolved = [a \in Analyst |-> 0]
  /\ badge = [a \in Analyst |-> FALSE]

Count(e) ==
  /\ e \notin counted
  /\ counted' = counted \cup {e}
  /\ total' = [total EXCEPT ![Scorer[e]] = @ + Gain[e]]
  /\ resolved' = [resolved EXCEPT ![Scorer[e]] = @ + 1]
  /\ badge' = [badge EXCEPT ![Scorer[e]] = @ \/ e \in Caught]

Next == \E e \in Decision : Count(e)

Spec == Init /\ [][Next]_svars
==============================================================================
