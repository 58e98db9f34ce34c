--------------------------- MODULE MCEventPipeline ---------------------------
(***************************************************************************)
(* The first two decisions of one analyst, and two workers on either side. *)
(***************************************************************************)
EXTENDS EventPipeline

CONSTANTS a1

Caught == DecisionData("KRITIK", "BLOKLANDI", "BEN_YAPMADIM", 0)

MCEventType == <<"case.decision_made", "case.decision_made">>
MCAnalystOf == [e \in Event |-> a1]
MCData == [e \in Event |-> Caught]
=============================================================================
