--------------------------- MODULE MCEventService ---------------------------
(***************************************************************************)
(* Small instances of EventService: three decisions of one analyst, of     *)
(* which the first makes the profile and the others meet at it, a feedback *)
(* event, and a message that process refuses.                              *)
(***************************************************************************)
EXTENDS EventService, TLC

CONSTANTS d1, d2, d3, f1, x1, a1

TypeOf(e) ==
  CASE e \in {d1, d2, d3} -> "case.decision_made"
    [] e = f1             -> "feedback.submitted"
    [] e = x1             -> "invalid"

MCEventType == [e \in Event |-> TypeOf(e)]
MCAnalystOf == [e \in DecisionEvent |-> a1]

(* A critical fraud blocked in time, and a block nobody confirmed.         *)
Caught  == DecisionData("KRITIK", "BLOKLANDI", "BEN_YAPMADIM", 0)
Blocked == DecisionData("DUSUK", "BLOKLANDI", "YANIT_YOK", 0)

TwoOfThree == [e \in DecisionEvent |-> IF e = d3 THEN Blocked ELSE Caught]

Interchangeable == Permutations(Worker) \cup Permutations({d1, d2})
=============================================================================
