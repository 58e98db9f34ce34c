--------------------------- MODULE MCCaseService ---------------------------
(***************************************************************************)
(* Small instances of CaseService: one case, two analysts, its owner and   *)
(* another customer, and the requests that can interfere with each other.  *)
(* A supervisor may assign the case to an id that is no analyst's.         *)
(***************************************************************************)
EXTENDS CaseService, TLC

CONSTANTS c1, missing, a1, a2, owner, stranger, boss

MCOwner   == [c \in Case |-> owner]
MCSlaDue  == [c \in Case |-> 0]
MCScored  == {[decision |-> "INCELEME", temporary_blocked |-> FALSE],
              [decision |-> "BLOK", temporary_blocked |-> TRUE]}
OneScored == {[decision |-> "INCELEME", temporary_blocked |-> TRUE]}

Supervised ==
  {[op |-> "assign", case |-> c1, by |-> boss, analyst |-> a] : a \in Assignee}
    \cup {[op |-> "close", case |-> c1, by |-> boss]}

Reviewed(A) ==
  [op: {"start", "request_verification"}, case: {c1}, by: A]
    \cup [op: {"decide"}, case: {c1}, by: A, decision: {"BLOKLANDI"}, note: BOOLEAN]
    \cup [op: {"decide"}, case: {c1}, by: A, decision: {"ONAYLANDI"}, note: {FALSE}]

Answered(C) ==
  [op: {"customer_response"}, case: {c1}, by: C, response: GivenResponse]
    \cup [op: {"submit_feedback"}, case: {c1}, by: C, rating: Rating]

AllRequests ==
  Supervised \cup Reviewed(Analyst) \cup Answered({owner})
    \cup {[op |-> "customer_response", case |-> c1, by |-> stranger, response |-> "BEN_YAPTIM"],
          [op |-> "close", case |-> missing, by |-> boss]}

(* The requests of one analyst and the owner, for the longer runs.         *)
FewRequests ==
  Supervised \cup Reviewed({a1})
    \cup [op: {"customer_response"}, case: {c1}, by: {owner}, response: {"BEN_YAPMADIM"}]
    \cup [op: {"submit_feedback"}, case: {c1}, by: {owner}, rating: Rating]
    \cup {[op |-> "close", case |-> missing, by |-> boss]}

Interchangeable == Permutations(Analyst) \cup Permutations(Session)
============================================================================
