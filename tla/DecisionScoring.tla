--------------------------- MODULE DecisionScoring ---------------------------
(***************************************************************************)
(* One case waiting for its decision: at every moment, what the decision   *)
(* would be worth if it were taken now.  The payload is built by the       *)
(* Transaction Service and scored by the Gamification Service, so these    *)
(* properties tie together limits that two code bases state separately.    *)
(***************************************************************************)
EXTENDS ScoringRules

CONSTANT Moments       \* when the case may be decided, counted from its creation

ASSUME MomentsAreTimes == Moments \subseteq Int

VARIABLES
  risk,                \* the risk level AI scoring gave the case
  decision,            \* what the analyst will decide
  response,            \* what the customer said
  elapsed              \* the time since case.created_at

vars == <<risk, decision, response, elapsed>>

(* A clock set back after the creation makes elapsed negative.             *)
Init ==
  /\ risk \in RiskLevel
  /\ decision \in Decision
  /\ response \in CustomerResponse
  /\ elapsed \in Moments

Wait ==
  /\ \E later \in Moments :
       /\ later > elapsed
       /\ elapsed' = later
  /\ UNCHANGED <<risk, decision, response>>

Next == Wait

Spec == Init /\ [][Next]_vars
------------------------------------------------------------------------------
DecidedNow == DecisionData(risk, decision, response, elapsed)

(* What the Transaction Service sends is what the Gamification Service     *)
(* validates: an event that fails CaseDecisionData is rejected for good.   *)
PayloadIsValid == DecidedNow \in CaseDecisionData

(* A fast decision is never a late one, at any risk level: the 900 seconds *)
(* of score_case lie within every limit of SLA_DURATIONS, although one     *)
(* counts whole seconds and the other compares timestamps.                 *)
FastIsInTime ==
  ~({"FAST_DECISION", "SLA_EXCEEDED"} \subseteq Awards(DecidedNow))

(* Waiting never pays.                                                     *)
WaitingNeverPays == [][Points(DecidedNow') <= Points(DecidedNow)]_vars
==============================================================================
