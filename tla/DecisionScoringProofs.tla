------------------------ MODULE DecisionScoringProofs ------------------------
(***************************************************************************)
(* The properties of DecisionScoring for every moment and every resolution *)
(* of the clock.  Everything follows from one fact about whole seconds     *)
(* (FastMeansEarly) and one about the limits (EveryLimitIsFifteenMinutes). *)
(***************************************************************************)
EXTENDS DecisionScoring, TLAPS

TypeInv ==
  /\ risk \in RiskLevel
  /\ decision \in Decision
  /\ response \in CustomerResponse
  /\ elapsed \in Int

(* Division by the clock's resolution counts the whole seconds.            *)
LEMMA WholeSeconds ==
  ASSUME NEW t \in Nat, NEW n \in Nat
  PROVE  /\ t \div UnitsPerSecond \in Nat
         /\ t \div UnitsPerSecond < n <=> t < n * UnitsPerSecond
  <1> DEFINE u == UnitsPerSecond
             q == t \div u
  <1>1. u \in Nat /\ u > 0
    BY UnitsPositive
  <1>2. q \in Nat /\ q * u <= t /\ t < (q + 1) * u
    BY <1>1, Z3
  <1> HIDE DEF q
  <1>3. ASSUME q < n PROVE t < n * u
    <2>1. (q + 1) * u <= n * u
      BY <1>1, <1>2, <1>3, Z3
    <2> QED
      BY <1>1, <1>2, <2>1, Z3
  <1>4. ASSUME q >= n PROVE ~(t < n * u)
    <2>1. n * u <= q * u
      BY <1>1, <1>2, <1>4, Z3
    <2> QED
      BY <1>1, <1>2, <2>1, Z3
  <1> QED
    BY <1>2, <1>3, <1>4 DEF q

(* A decision is fast if and only if it comes before fifteen minutes.      *)
LEMMA FastMeansEarly ==
  ASSUME NEW t \in Int
  PROVE  /\ ResolutionSeconds(t) \in Nat
         /\ ResolutionSeconds(t) < 900 <=> t < 900 * UnitsPerSecond
  <1>1. UnitsPerSecond \in Nat /\ UnitsPerSecond > 0
    BY UnitsPositive
  <1>2. CASE t < 0
    BY <1>1, <1>2 DEF ResolutionSeconds
  <1>3. CASE t >= 0
    <2>1. t \in Nat
      BY <1>3
    <2>2. /\ t \div UnitsPerSecond \in Nat
          /\ t \div UnitsPerSecond < 900 <=> t < 900 * UnitsPerSecond
      BY <2>1, WholeSeconds
    <2> QED
      BY <2>2, <1>3 DEF ResolutionSeconds
  <1> QED
    BY <1>2, <1>3

(* No limit of SLA_DURATIONS is shorter than that.                         *)
LEMMA EveryLimitIsFifteenMinutes ==
  ASSUME NEW r \in RiskLevel
  PROVE  SlaDuration(r) \in Nat /\ SlaDuration(r) >= 900 * UnitsPerSecond
  BY UnitsPositive DEF RiskLevel, SlaDuration, Minutes

(* The conditions of score_case, one by one.                               *)
LEMMA EarnedCases ==
  ASSUME NEW data
  PROVE  /\ Earned("CASE_RESOLVED", data) <=> data.decision \in Decision
         /\ Earned("FAST_DECISION", data) <=> data.resolution_seconds < 900
         /\ Earned("CONFIRMED_FRAUD", data) <=> ConfirmedFraud(data)
         /\ Earned("CRITICAL_WITHIN_SLA", data) <=> data.risk_level = "KRITIK" /\ ~data.sla_exceeded
         /\ Earned("SLA_EXCEEDED", data) <=> data.sla_exceeded
         /\ Earned("FALSE_POSITIVE", data) <=> data.is_false_positive
  BY DEF Earned

(* The awards of a decision, in terms of the time it took.                 *)
LEMMA AwardsOverTime ==
  ASSUME NEW r \in RiskLevel, NEW d \in Decision, NEW a \in CustomerResponse, NEW t \in Int
  PROVE  /\ DecisionData(r, d, a, t) \in CaseDecisionData
         /\ Earned("CASE_RESOLVED", DecisionData(r, d, a, t))
         /\ Earned("FAST_DECISION", DecisionData(r, d, a, t)) <=> t < 900 * UnitsPerSecond
         /\ Earned("CONFIRMED_FRAUD", DecisionData(r, d, a, t))
              <=> d = "BLOKLANDI" /\ a = "BEN_YAPMADIM"
         /\ Earned("CRITICAL_WITHIN_SLA", DecisionData(r, d, a, t))
              <=> r = "KRITIK" /\ ~(t > SlaDuration(r))
         /\ Earned("SLA_EXCEEDED", DecisionData(r, d, a, t)) <=> t > SlaDuration(r)
         /\ ~Earned("FALSE_POSITIVE", DecisionData(r, d, a, t))
  <1> DEFINE data == DecisionData(r, d, a, t)
  <1>1. /\ ResolutionSeconds(t) \in Nat
        /\ ResolutionSeconds(t) < 900 <=> t < 900 * UnitsPerSecond
    BY FastMeansEarly
  <1>2. SlaDuration(r) \in Nat
    BY EveryLimitIsFifteenMinutes
  <1>3. /\ data.risk_level = r /\ data.decision = d /\ data.customer_response = a
        /\ data.resolution_seconds = ResolutionSeconds(t)
        /\ data.sla_exceeded = (t > SlaDuration(r))
        /\ data.is_false_positive = FALSE
    BY DEF DecisionData
  <1>4. data \in CaseDecisionData
    <2>1. (t > SlaDuration(r)) \in BOOLEAN
      BY <1>2
    <2> QED
      BY <1>1, <2>1 DEF DecisionData, CaseDecisionData
  <1>5. ConfirmedFraud(data) <=> d = "BLOKLANDI" /\ a = "BEN_YAPMADIM"
    BY <1>3 DEF ConfirmedFraud
  <1> HIDE DEF data
  <1>6. Earned("CASE_RESOLVED", data)
    BY <1>3, EarnedCases, Zenon
  <1>7. Earned("FAST_DECISION", data) <=> t < 900 * UnitsPerSecond
    <2>1. data.resolution_seconds < 900 <=> t < 900 * UnitsPerSecond
      BY <1>1, <1>3
    <2> QED
      BY <2>1, EarnedCases, Zenon
  <1>8. Earned("CONFIRMED_FRAUD", data) <=> d = "BLOKLANDI" /\ a = "BEN_YAPMADIM"
    BY <1>5, EarnedCases, Zenon
  <1>9. Earned("CRITICAL_WITHIN_SLA", data) <=> r = "KRITIK" /\ ~(t > SlaDuration(r))
    <2>1. Earned("CRITICAL_WITHIN_SLA", data) <=> data.risk_level = "KRITIK" /\ ~data.sla_exceeded
      BY EarnedCases, Zenon
    <2>2. data.risk_level = "KRITIK" /\ ~data.sla_exceeded <=> r = "KRITIK" /\ ~(t > SlaDuration(r))
      BY <1>3, Zenon
    <2> QED
      BY <2>1, <2>2, Zenon
  <1>10. Earned("SLA_EXCEEDED", data) <=> t > SlaDuration(r)
    BY <1>3, EarnedCases, Zenon
  <1>11. ~Earned("FALSE_POSITIVE", data)
    BY <1>3, EarnedCases, Zenon
  <1> QED
    BY <1>4, <1>6, <1>7, <1>8, <1>9, <1>10, <1>11 DEF data

(* The points of a decision, as the four independent conditions add up.    *)
LEMMA PointsOverTime ==
  ASSUME NEW r \in RiskLevel, NEW d \in Decision, NEW a \in CustomerResponse, NEW t \in Int
  PROVE  Points(DecisionData(r, d, a, t)) =
           10 + (IF t < 900 * UnitsPerSecond THEN 5 ELSE 0)
              + (IF d = "BLOKLANDI" /\ a = "BEN_YAPMADIM" THEN 15 ELSE 0)
              + (IF r = "KRITIK" /\ ~(t > SlaDuration(r)) THEN 15 ELSE 0)
              + (IF t > SlaDuration(r) THEN -5 ELSE 0)
  <1> DEFINE data == DecisionData(r, d, a, t)
  <1> HIDE DEF data
  <1>1. /\ Award("CASE_RESOLVED", data) = 10
        /\ Award("FAST_DECISION", data) = IF t < 900 * UnitsPerSecond THEN 5 ELSE 0
        /\ Award("CONFIRMED_FRAUD", data) = IF d = "BLOKLANDI" /\ a = "BEN_YAPMADIM" THEN 15 ELSE 0
        /\ Award("CRITICAL_WITHIN_SLA", data) =
             IF r = "KRITIK" /\ ~(t > SlaDuration(r)) THEN 15 ELSE 0
        /\ Award("SLA_EXCEEDED", data) = IF t > SlaDuration(r) THEN -5 ELSE 0
        /\ Award("FALSE_POSITIVE", data) = 0
    BY AwardsOverTime DEF data, Award, Worth
  <1> QED
    BY <1>1 DEF data, Points

------------------------------------------------------------------------------
LEMMA TypeCorrect == Spec => []TypeInv
  <1>1. Init => TypeInv
    BY MomentsAreTimes DEF Init, TypeInv
  <1>2. TypeInv /\ [Next]_vars => TypeInv'
    BY MomentsAreTimes DEF TypeInv, Next, Wait, vars
  <1> QED
    BY <1>1, <1>2, PTL DEF Spec

(* Every decision the Transaction Service can send passes the validation   *)
(* of the Gamification Service (CaseDecisionData).                         *)
THEOREM PayloadAlwaysValid == Spec => []PayloadIsValid
  <1>1. TypeInv => PayloadIsValid
    BY AwardsOverTime DEF TypeInv, PayloadIsValid, DecidedNow
  <1> QED
    BY <1>1, TypeCorrect, PTL

(* No decision earns the bonus for speed and the penalty for lateness.     *)
THEOREM FastAlwaysInTime == Spec => []FastIsInTime
  <1>1. TypeInv => FastIsInTime
    <2> SUFFICES ASSUME TypeInv,
                        Earned("FAST_DECISION", DecidedNow), Earned("SLA_EXCEEDED", DecidedNow)
                 PROVE  FALSE
      BY DEF FastIsInTime, Awards
    <2>1. elapsed < 900 * UnitsPerSecond /\ elapsed > SlaDuration(risk)
      BY AwardsOverTime DEF TypeInv, DecidedNow
    <2>2. SlaDuration(risk) \in Nat /\ SlaDuration(risk) >= 900 * UnitsPerSecond
      BY EveryLimitIsFifteenMinutes DEF TypeInv
    <2>3. 900 * UnitsPerSecond \in Nat
      BY UnitsPositive
    <2> QED
      BY <2>1, <2>2, <2>3 DEF TypeInv
  <1> QED
    BY <1>1, TypeCorrect, PTL

(* The points of a decision never rise while the case waits.               *)
THEOREM WaitingNeverEverPays == Spec => WaitingNeverPays
  <1>1. TypeInv /\ [Next]_vars => [Points(DecidedNow') <= Points(DecidedNow)]_vars
    <2> SUFFICES ASSUME TypeInv, Next
                 PROVE  Points(DecidedNow') <= Points(DecidedNow)
      OBVIOUS
    <2>1. elapsed \in Int /\ elapsed' \in Int /\ elapsed' > elapsed
      BY MomentsAreTimes DEF TypeInv, Next, Wait
    <2>2. risk' = risk /\ decision' = decision /\ response' = response
      BY DEF Next, Wait
    <2>3. DecidedNow' = DecisionData(risk, decision, response, elapsed')
      BY <2>2 DEF DecidedNow
    <2>4. /\ SlaDuration(risk) \in Nat
          /\ 900 * UnitsPerSecond \in Nat
      BY EveryLimitIsFifteenMinutes, UnitsPositive DEF TypeInv
    <2> DEFINE PointsAt(t) == Points(DecisionData(risk, decision, response, t))
    <2>5. PointsAt(elapsed') <= PointsAt(elapsed)
      BY <2>1, <2>4, PointsOverTime DEF TypeInv
    <2> QED
      BY <2>3, <2>5 DEF DecidedNow
  <1> QED
    BY <1>1, TypeCorrect, PTL DEF Spec, WaitingNeverPays

(* A decision is worth at least 5 points and at most 45.                   *)
THEOREM PointsInRange ==
  ASSUME NEW r \in RiskLevel, NEW d \in Decision, NEW a \in CustomerResponse, NEW t \in Int
  PROVE  Points(DecisionData(r, d, a, t)) \in 5..45
  <1>1. /\ SlaDuration(r) \in Nat
        /\ SlaDuration(r) >= 900 * UnitsPerSecond
        /\ 900 * UnitsPerSecond \in Nat
    BY EveryLimitIsFifteenMinutes, UnitsPositive
  <1> QED
    BY <1>1, PointsOverTime

(* More points never lower the level.                                      *)
THEOREM LevelNeverFalls ==
  ASSUME NEW p \in Int, NEW gained \in Nat
  PROVE  /\ LevelFor(p) = "PLATIN" => LevelFor(p + gained) = "PLATIN"
         /\ LevelFor(p) = "ALTIN" => LevelFor(p + gained) \in {"ALTIN", "PLATIN"}
         /\ LevelFor(p) = "GUMUS" => LevelFor(p + gained) \in {"GUMUS", "ALTIN", "PLATIN"}
         /\ LevelFor(p) \in Level
  BY DEF LevelFor, Level
==============================================================================
