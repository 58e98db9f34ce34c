---------------------------- MODULE CaseLifecycle ----------------------------
(***************************************************************************)
(* What the Transaction Service promises about a risk case, with no        *)
(* sessions, locks, retries or failures: every accepted request is one     *)
(* atomic step, and each verdict and each rating is announced exactly once *)
(* in a log of events.  CaseService implements this module.                *)
(***************************************************************************)
EXTENDS Sequences

CONSTANTS
  Case,       \* the risk cases
  Analyst,    \* the ids a case can be assigned to
  Rating,     \* the ratings a customer can give
  Null        \* "not set"

VARIABLES
  status,     \* status[c]: where case c is in its life
  analyst,    \* analyst[c]: the analyst responsible for c, or Null
  answer,     \* answer[c]: what the customer said about c, or Null
  log         \* the events announced to the other services, in order

lvars == <<status, analyst, answer, log>>

Verdict == {"ONAYLANDI", "BLOKLANDI"}
Answer  == {"BEN_YAPTIM", "BEN_YAPMADIM"}

Init ==
  /\ analyst \in [Case -> Analyst \cup {Null}]
  /\ status = [c \in Case |-> IF analyst[c] = Null THEN "YENI" ELSE "ATANDI"]
  /\ answer = [c \in Case |-> Null]
  /\ log = <<>>

Assign(c, a) ==
  /\ status[c] = "YENI"
  /\ status' = [status EXCEPT ![c] = "ATANDI"]
  /\ analyst' = [analyst EXCEPT ![c] = a]
  /\ UNCHANGED <<answer, log>>

(* The review starts, or resumes without an answer. *)
Review(c) ==
  /\ status[c] \in {"ATANDI", "MUSTERI_DOGRULAMA"}
  /\ status' = [status EXCEPT ![c] = "INCELENIYOR"]
  /\ UNCHANGED <<analyst, answer, log>>

AskCustomer(c) ==
  /\ status[c] = "INCELENIYOR"
  /\ status' = [status EXCEPT ![c] = "MUSTERI_DOGRULAMA"]
  /\ UNCHANGED <<analyst, answer, log>>

(* The answer always brings the case back under review; the code takes one *)
(* from ATANDI as well (see the README, "Findings").                       *)
CustomerAnswers(c, r) ==
  /\ status[c] \in {"ATANDI", "MUSTERI_DOGRULAMA"}
  /\ status' = [status EXCEPT ![c] = "INCELENIYOR"]
  /\ answer' = [answer EXCEPT ![c] = r]
  /\ UNCHANGED <<analyst, log>>

(* The verdict names the responsible analyst and the latest answer. *)
Decide(c, v) ==
  /\ status[c] = "INCELENIYOR"
  /\ status' = [status EXCEPT ![c] = v]
  /\ log' = Append(log, [type |-> "case.decision_made", case |-> c, verdict |-> v,
                         analyst |-> analyst[c], answer |-> answer[c]])
  /\ UNCHANGED <<analyst, answer>>

Close(c) ==
  /\ status[c] \in Verdict
  /\ status' = [status EXCEPT ![c] = "KAPANDI"]
  /\ UNCHANGED <<analyst, answer, log>>

(* Once per case, and only after it is closed. *)
Rate(c, n) ==
  /\ status[c] = "KAPANDI"
  /\ \A i \in DOMAIN log : log[i].case = c => log[i].type # "feedback.submitted"
  /\ log' = Append(log, [type |-> "feedback.submitted", case |-> c, rating |-> n])
  /\ UNCHANGED <<status, analyst, answer>>

Next ==
  \E c \in Case :
    \/ \E a \in Analyst : Assign(c, a)
    \/ Review(c)
    \/ AskCustomer(c)
    \/ \E r \in Answer : CustomerAnswers(c, r)
    \/ \E v \in Verdict : Decide(c, v)
    \/ Close(c)
    \/ \E n \in Rating : Rate(c, n)

Spec == Init /\ [][Next]_lvars
==============================================================================
