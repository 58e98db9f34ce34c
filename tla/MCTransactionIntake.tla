------------------------- MODULE MCTransactionIntake -------------------------
(***************************************************************************)
(* Small instances of TransactionIntake: up to three transactions, two     *)
(* analysts who are alike and one who is a specialist.                     *)
(***************************************************************************)
EXTENDS TransactionIntake, TLC

CONSTANTS t1, t2, t3, a1, a2, a3

Room(active, max) == [active_cases |-> active, max_active_cases |-> max, is_active |-> TRUE]

(* On both sides of the limits, and where the rounding meets them.         *)
MCScore  == {3999996, 9000000, 9000004}
OneScore == {9000004}

(* Two who are alike, and one everybody is sent to but who has one place.  *)
TwinsAndBusy == [a \in Analyst |-> IF a = a3 THEN Room(0, 1) ELSE Room(0, 2)]
(* One with room for a case; another who is not there yet.                 *)
OneToJoin  == [a \in Analyst |-> IF a = a1 THEN Null ELSE Room(0, 1)]
Unequal    == [a \in Analyst |-> IF a = a1 THEN Room(1, 2) ELSE IF a = a2 THEN Room(0, 1) ELSE Null]
OneSpecial  == {<<t1, a1>>}
BusySpecial == Transaction \X {a3}
MCAccuracy == [a \in Analyst |-> 80]
MCRank     == [a \in Analyst |-> IF a = a1 THEN 1 ELSE IF a = a2 THEN 2 ELSE 3]

NoSync == {}
(* An analyst who is new: one who is inserted while cases are assigned.    *)
Joining == {[analyst_id |-> a1, values |-> Room(0, 1)]}
(* An analyst with one case whose capacity is lowered to one.              *)
LessRoom == {[analyst_id |-> a1, values |-> Room(1, 1)]}

Interchangeable == Permutations(Transaction)
==============================================================================
