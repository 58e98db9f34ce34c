---------------------------- MODULE ScoringRules ----------------------------
(***************************************************************************)
(* The arithmetic of a decision, which two services share: the Transaction *)
(* Service fixes the SLA of a case and computes the resolution time, the   *)
(* Gamification Service turns the event into awards, points and a level.   *)
(* Durations are counted in units of 1/UnitsPerSecond second (the code's   *)
(* timestamps have microseconds).                                          *)
(***************************************************************************)
EXTENDS Integers

CONSTANT UnitsPerSecond

ASSUME UnitsPositive == UnitsPerSecond \in Nat \ {0}

RiskLevel == {"DUSUK", "ORTA", "YUKSEK", "KRITIK", "BELIRSIZ"}
Decision  == {"ONAYLANDI", "BLOKLANDI"}
CustomerResponse == {"BEN_YAPTIM", "BEN_YAPMADIM", "YANIT_YOK"}

Minutes(n) == n * 60 * UnitsPerSecond

(* SLA_DURATIONS.                                                          *)
SlaDuration(risk) ==
  CASE risk = "KRITIK"   -> Minutes(15)
    [] risk = "YUKSEK"   -> Minutes(60)
    [] risk = "ORTA"     -> Minutes(240)
    [] risk = "DUSUK"    -> Minutes(1440)
    [] risk = "BELIRSIZ" -> Minutes(60)

(* Mutant: the result is not clamped at zero.                              *)
Unclamped(elapsed) == elapsed \div UnitsPerSecond

(* Mutant: timedelta.seconds, which starts again every day.                *)
SecondsOfTheDay(elapsed) ==
  IF elapsed < 0 THEN 0 ELSE (elapsed \div UnitsPerSecond) % 86400

(* max(0, int(seconds)): int() drops the fraction, and a decision that the *)
(* clock puts before the creation counts as taken at once.                 *)
ResolutionSeconds(elapsed) == IF elapsed < 0 THEN 0 ELSE elapsed \div UnitsPerSecond

(* The scored part of the payload of a decision taken `elapsed` after the  *)
(* case was created; this producer never reports a false positive.         *)
DecisionData(risk, decision, response, elapsed) ==
  [risk_level |-> risk, decision |-> decision, customer_response |-> response,
   resolution_seconds |-> ResolutionSeconds(elapsed),
   sla_exceeded |-> elapsed > SlaDuration(risk),
   is_false_positive |-> FALSE]

CaseDecisionData ==
  [risk_level: RiskLevel, decision: Decision, customer_response: CustomerResponse,
   resolution_seconds: Nat, sla_exceeded: BOOLEAN, is_false_positive: BOOLEAN]
-----------------------------------------------------------------------------
ScoreReason == {"CASE_RESOLVED", "FAST_DECISION", "CONFIRMED_FRAUD",
                "CRITICAL_WITHIN_SLA", "SLA_EXCEEDED", "FALSE_POSITIVE"}

Worth == [CASE_RESOLVED |-> 10, FAST_DECISION |-> 5, CONFIRMED_FRAUD |-> 15,
          CRITICAL_WITHIN_SLA |-> 15, SLA_EXCEEDED |-> -5, FALSE_POSITIVE |-> -8]

ConfirmedFraud(data) ==
  data.decision = "BLOKLANDI" /\ data.customer_response = "BEN_YAPMADIM"

(* Mutant: fifteen minutes exactly, or more by less than a second, is fast.*)
EarnedAtTheBoundary(reason, data) ==
  CASE reason = "CASE_RESOLVED"       -> data.decision \in Decision
    [] reason = "FAST_DECISION"       -> data.resolution_seconds <= 900
    [] reason = "CONFIRMED_FRAUD"     -> ConfirmedFraud(data)
    [] reason = "CRITICAL_WITHIN_SLA" -> data.risk_level = "KRITIK" /\ ~data.sla_exceeded
    [] reason = "SLA_EXCEEDED"        -> data.sla_exceeded
    [] reason = "FALSE_POSITIVE"      -> data.is_false_positive

(* score_case: the conditions are independent of each other.               *)
Earned(reason, data) ==
  CASE reason = "CASE_RESOLVED"       -> data.decision \in Decision
    [] reason = "FAST_DECISION"       -> data.resolution_seconds < 900
    [] reason = "CONFIRMED_FRAUD"     -> ConfirmedFraud(data)
    [] reason = "CRITICAL_WITHIN_SLA" -> data.risk_level = "KRITIK" /\ ~data.sla_exceeded
    [] reason = "SLA_EXCEEDED"        -> data.sla_exceeded
    [] reason = "FALSE_POSITIVE"      -> data.is_false_positive

Awards(data) == {reason \in ScoreReason : Earned(reason, data)}

Award(reason, data) == IF Earned(reason, data) THEN Worth[reason] ELSE 0

(* The sum of the awards.                                                  *)
Points(data) ==
  Award("CASE_RESOLVED", data) + Award("FAST_DECISION", data)
    + Award("CONFIRMED_FRAUD", data) + Award("CRITICAL_WITHIN_SLA", data)
    + Award("SLA_EXCEEDED", data) + Award("FALSE_POSITIVE", data)

(* level_for.                                                              *)
Level == {"BRONZ", "GUMUS", "ALTIN", "PLATIN"}
LevelFor(points) ==
  CASE points >= 3000                   -> "PLATIN"
    [] points >= 1500 /\ points < 3000  -> "ALTIN"
    [] points >= 500 /\ points < 1500   -> "GUMUS"
    [] points < 500                     -> "BRONZ"
=============================================================================
