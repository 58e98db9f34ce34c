-------------------------- MODULE MCDecisionScoring --------------------------
(***************************************************************************)
(* DecisionScoring in half seconds, at and around every limit of the code. *)
(***************************************************************************)
EXTENDS DecisionScoring

Around(limit) == (limit - 2)..(limit + 2)

MCMoments ==
  Around(0) \cup UNION {Around(SlaDuration(r)) : r \in RiskLevel}
    \cup Around(Minutes(1440) + Minutes(15))
==============================================================================
