-------------------------- MODULE WorkspacesProofs --------------------------
(***************************************************************************)
(* What holds of the pages for every number of cases, loads and scenes.    *)
(* A page acts on copies, so the invariant says of each copy, shown or     *)
(* still on its way, what stays true of it while the services move on:     *)
(* a question it shows was asked (CopyOK), and a profile is behind the     *)
(* tables in the order in which its statements read them (ViewOK).  What a *)
(* copy offers then stays allowed until the request arrives (RequestsInv). *)
(***************************************************************************)
EXTENDS Workspaces, FiniteSetTheorems, SequenceTheorems, TLAPS

(* Sequences of no matter what.                                            *)
Sequence(s) == s \in Seq({s[i] : i \in DOMAIN s})

(* Typed or not, a sequence is one of what it holds.                       *)
LEMMA IsSequence ==
  ASSUME NEW T, NEW s \in Seq(T)
  PROVE  Sequence(s)
  <1> DEFINE R == {s[i] : i \in DOMAIN s}
  <1>1. Len(s) \in Nat /\ s \in [1..Len(s) -> T] /\ DOMAIN s = 1..Len(s)
    OBVIOUS
  <1>2. s \in [1..Len(s) -> R]
    BY <1>1
  <1> HIDE DEF R
  <1>3. s \in Seq(R)
    BY <1>1, <1>2, SeqDef
  <1> QED
    BY <1>3 DEF Sequence, R

(* Append keeps what there is and adds one element.                        *)
LEMMA Appended ==
  ASSUME NEW s, Sequence(s), NEW e
  PROVE  /\ Sequence(Append(s, e))
         /\ \A k \in DOMAIN Append(s, e) :
              Append(s, e)[k] = e \/ \E j \in DOMAIN s : Append(s, e)[k] = s[j]
  <1>1. PICK T : s \in Seq(T)
    BY DEF Sequence
  <1>2. PICK U : U = T \cup {e}
    OBVIOUS
  <1>3. s \in Seq(U) /\ e \in U
    <2>1. s \in [1..Len(s) -> T] /\ Len(s) \in Nat
      BY <1>1
    <2> QED
      BY <1>2, <2>1, SeqDef
  <1>4. Append(s, e) \in Seq(U)
    BY <1>3
  <1>5. /\ DOMAIN s = 1..Len(s) /\ Len(s) \in Nat
        /\ DOMAIN Append(s, e) = 1..(Len(s) + 1)
        /\ \A k \in 1..Len(s) : Append(s, e)[k] = s[k]
        /\ Append(s, e)[Len(s) + 1] = e
    BY <1>3
  <1>6. ASSUME NEW k \in DOMAIN Append(s, e)
        PROVE  Append(s, e)[k] = e \/ \E j \in DOMAIN s : Append(s, e)[k] = s[j]
    <2>1. k \in 1..Len(s) \/ k = Len(s) + 1
      BY <1>5
    <2> QED
      BY <1>5, <2>1
  <1> QED
    BY <1>4, <1>6, IsSequence

(* RemoveAt adds nothing.                                                  *)
LEMMA Removed ==
  ASSUME NEW s, Sequence(s), NEW i \in DOMAIN s
  PROVE  /\ Sequence(RemoveAt(s, i))
         /\ \A k \in DOMAIN RemoveAt(s, i) : \E j \in DOMAIN s : RemoveAt(s, i)[k] = s[j]
  <1>1. PICK T : s \in Seq(T)
    BY DEF Sequence
  <1>2. i \in 1..Len(s) /\ Len(s) \in Nat /\ DOMAIN s = 1..Len(s)
    BY <1>1
  <1> DEFINE a == SubSeq(s, 1, i - 1)
             b == SubSeq(s, i + 1, Len(s))
  <1>3. /\ a \in Seq(T) /\ Len(a) = i - 1
        /\ \A k \in 1..(i - 1) : a[k] = s[k]
    BY <1>1, <1>2
  <1>4. /\ b \in Seq(T) /\ Len(b) = Len(s) - i
        /\ \A k \in 1..(Len(s) - i) : b[k] = s[k + i]
    BY <1>1, <1>2
  <1>5. RemoveAt(s, i) = a \o b
    BY DEF RemoveAt
  <1> HIDE DEF a, b
  <1>6. PICK n \in Nat, m \in Nat : n = Len(s) /\ m = i - 1
    <2>1. i \in Int /\ i >= 1 /\ i - 1 \in Nat
      BY <1>2
    <2> QED
      BY <1>2, <2>1
  <1>7. /\ a \o b \in Seq(T) /\ Len(a \o b) = n - 1
        /\ \A k \in 1..(n - 1) : (a \o b)[k] = IF k <= m THEN a[k] ELSE b[k - m]
    <2>1. Len(a) = m /\ Len(b) = n - m - 1
      BY <1>2, <1>3, <1>4, <1>6
    <2>3. /\ a \o b \in Seq(T) /\ Len(a \o b) = Len(a) + Len(b)
          /\ \A k \in 1..(Len(a) + Len(b)) : (a \o b)[k] = IF k <= Len(a) THEN a[k] ELSE b[k - Len(a)]
      BY <1>3, <1>4, ConcatProperties
    <2>4. Len(a) + Len(b) = n - 1
      BY <2>1
    <2> QED
      BY <2>1, <2>3, <2>4
  <1>8. ASSUME NEW k \in 1..(n - 1)
        PROVE  \E j \in 1..n : (a \o b)[k] = s[j]
    <2>1. CASE k <= m
      <3>1. k \in 1..(i - 1) /\ k \in 1..n
        BY <1>2, <1>6, <2>1
      <3> QED
        BY <1>3, <1>7, <2>1, <3>1
    <2>2. CASE k > m
      <3>1. k - m \in 1..(Len(s) - i) /\ (k - m) + i \in 1..n /\ ~(k <= m)
        BY <1>2, <1>6, <2>2
      <3>2. b[k - m] = s[(k - m) + i]
        BY <1>4, <3>1
      <3>3. (a \o b)[k] = b[k - m]
        BY <1>7, <3>1
      <3> QED
        BY <3>1, <3>2, <3>3
    <2>3. k <= m \/ k > m
      OBVIOUS
    <2> QED
      BY <2>1, <2>2, <2>3
  <1>9. DOMAIN (a \o b) = 1..(n - 1) /\ DOMAIN s = 1..n
    <2>1. PICK c : c = a \o b
      OBVIOUS
    <2>2. c \in Seq(T) /\ Len(c) = n - 1
      BY <1>7, <2>1
    <2>3. DOMAIN c = 1..(n - 1)
      BY <2>2
    <2> QED
      BY <1>2, <1>6, <2>1, <2>3
  <1> QED
    BY <1>5, <1>7, <1>8, <1>9, IsSequence

(* One element of a sequence is replaced.                                  *)
LEMMA Replaced ==
  ASSUME NEW s, Sequence(s), NEW i \in DOMAIN s, NEW x
  PROVE  /\ Sequence([s EXCEPT ![i] = x])
         /\ DOMAIN [s EXCEPT ![i] = x] = DOMAIN s
         /\ \A k \in DOMAIN s : [s EXCEPT ![i] = x][k] = IF k = i THEN x ELSE s[k]
  <1>1. PICK T : s \in Seq(T)
    BY DEF Sequence
  <1>2. PICK U : U = T \cup {x}
    OBVIOUS
  <1>3. [s EXCEPT ![i] = x] \in Seq(U)
    <2>1. s \in [1..Len(s) -> T] /\ Len(s) \in Nat /\ DOMAIN s = 1..Len(s)
      BY <1>1
    <2>2. [s EXCEPT ![i] = x] \in [1..Len(s) -> U]
      BY <1>2, <2>1
    <2> QED
      BY <2>1, <2>2, SeqDef
  <1> QED
    BY <1>3, IsSequence
-----------------------------------------------------------------------------
Operation == {"assign", "start", "ask", "answer", "decide", "close", "rate"}
Request == [op: Operation, case: Case, at: {"sent", "done", "loading"}]

Confirmed == {c \in counted : Rules!ConfirmedFraud(Data(c))}

(* What the services keep true.                                            *)
ServiceInv ==
  /\ status \in [Case -> CaseStatus]
  /\ answer \in [Case -> Lifecycle!Answer \cup {Null}]
  /\ asked \in [Case -> Nat]
  /\ toasts \in [Case -> {0, 1}] /\ seen = {c \in Case : toasts[c] = 1}
  /\ \A c \in Case :
       /\ status[c] = "MUSTERI_DOGRULAMA" => asked[c] > 0
       /\ answer[c] # Null => asked[c] > 0 /\ c \in seen
       /\ \A n : Announces(n, c) =>
            /\ status[c] \in Lifecycle!Verdict \cup {"KAPANDI"}
            /\ \A m : Announces(m, c) => m = n
  /\ Sequence(log)
  /\ counted \subseteq Case
  /\ \A c \in counted : \E n : Announces(n, c)

(* A customer's copy shows no question that was never asked.               *)
CopyOK(items) == \A c \in ToVerify(items) : asked[c] > 0

(* A profile is behind the table, and without the badge only behind the    *)
(* cases that earn none.                                                   *)
ViewOK(v) ==
  /\ v = [total_points |-> v.total_points, resolved_cases |-> v.resolved_cases,
          badge |-> v.badge, daily_rank |-> v.daily_rank]
  /\ v.badge \in BOOLEAN \cup {Null}
  /\ v.daily_rank # Null => v.badge # Null
  /\ v.badge # Null => v.total_points # Null
  /\ v.total_points # Null => v.resolved_cases \in Nat /\ v.resolved_cases <= Cardinality(counted)
  /\ v.badge = FALSE => v.resolved_cases <= Cardinality(counted \ Confirmed)

ReplyOK(l, v) == (l = "customer" => CopyOK(v)) /\ (l = "profile" => ViewOK(v))

LoadOK(l, load) ==
  /\ load = [by |-> load.by, reply |-> load.reply]
  /\ ReplyOK(l, load.reply)

MayAnswer(c) == asked[c] > 0 /\ c \in seen

(* What the requests of the pages keep true: an answer is to a question.   *)
RequestsInv ==
  /\ pending \in [Page -> Request \cup {Null}]
  /\ late \subseteq [op: Operation, case: Case]
  /\ \A p \in Page : pending[p] # Null /\ pending[p].op = "answer" => MayAnswer(pending[p].case)
  /\ \A r \in late : r.op = "answer" => MayAnswer(r.case)

(* What the copies, shown or on their way, keep true.                      *)
CopiesInv ==
  /\ shown = [l \in List |-> shown[l]] /\ out = [l \in List |-> out[l]]
  /\ \A l \in List :
       /\ ReplyOK(l, shown[l])
       /\ Sequence(out[l])
       /\ \A i \in DOMAIN out[l] : LoadOK(l, out[l][i])
  /\ ToVerify(shown["customer"]) \subseteq seen

Inv == ServiceInv /\ RequestsInv /\ CopiesInv
-----------------------------------------------------------------------------
(* The decision that is announced of c.                                    *)
LEMMA TheDecision ==
  ASSUME NEW lg, NEW c, NEW n, n \in DOMAIN lg, lg[n].type = "case.decision_made", lg[n].case = c,
         \A m \in DOMAIN lg : lg[m].type = "case.decision_made" /\ lg[m].case = c => m = n
  PROVE  (CHOOSE k \in DOMAIN lg :
            k \in DOMAIN lg /\ lg[k].type = "case.decision_made" /\ lg[k].case = c) = n
  OBVIOUS

(* So Announced finds it,                                                  *)
LEMMA AnnouncedIs ==
  ASSUME NEW c, NEW n, Announces(n, c), \A m : Announces(m, c) => m = n
  PROVE  Announced(c) = log[n]
  <1>1. (CHOOSE k \in DOMAIN log :
           k \in DOMAIN log /\ log[k].type = "case.decision_made" /\ log[k].case = c) = n
    BY TheDecision DEF Announces
  <1> QED
    BY <1>1 DEF Announced, Announces

(* in the next state as well,                                              *)
LEMMA AnnouncedWillBe ==
  ASSUME NEW c, NEW n, Announces(n, c)', \A m : Announces(m, c)' => m = n
  PROVE  Announced(c)' = log'[n]
  <1>1. (CHOOSE k \in DOMAIN log' :
           k \in DOMAIN log' /\ log'[k].type = "case.decision_made" /\ log'[k].case = c) = n
    BY TheDecision DEF Announces
  <1> QED
    BY <1>1 DEF Announced, Announces

(* and the data that the rules judge depend on nothing else.               *)
LEMMA SameData ==
  ASSUME NEW c, Announced(c)' = Announced(c)
  PROVE  Data(c)' = Data(c)
  BY DEF Data

(* Another event in the log.                                               *)
LEMMA LogGrows ==
  ASSUME Sequence(log), NEW e, log' = Append(log, e)
  PROVE  /\ Sequence(log)'
         /\ \A n \in DOMAIN log : n \in DOMAIN log' /\ log'[n] = log[n]
         /\ \A n, c : Announces(n, c)' => Announces(n, c)
                        \/ (n = Len(log) + 1 /\ e.type = "case.decision_made" /\ e.case = c)
         /\ \A n, c : Announces(n, c) => Announces(n, c)'
  <1>1. PICK lg : lg = log
    OBVIOUS
  <1>2. PICK T : lg \in Seq(T)
    BY <1>1 DEF Sequence
  <1>3. PICK U : U = T \cup {e}
    OBVIOUS
  <1>4. lg \in Seq(U) /\ e \in U
    <2>1. lg \in [1..Len(lg) -> T] /\ Len(lg) \in Nat
      BY <1>2
    <2> QED
      BY <1>3, <2>1, SeqDef
  <1>5. /\ DOMAIN lg = 1..Len(lg) /\ Len(lg) \in Nat
        /\ DOMAIN Append(lg, e) = 1..(Len(lg) + 1)
        /\ \A k \in 1..Len(lg) : Append(lg, e)[k] = lg[k]
        /\ Append(lg, e)[Len(lg) + 1] = e
    BY <1>4
  <1>6. Sequence(Append(lg, e))
    BY <1>1, Appended
  <1>7. \A n \in DOMAIN log : n \in DOMAIN log' /\ log'[n] = log[n]
    BY <1>1, <1>5
  <1>8. ASSUME NEW n, NEW c, Announces(n, c)'
        PROVE  Announces(n, c) \/ (n = Len(log) + 1 /\ e.type = "case.decision_made" /\ e.case = c)
    <2>1. n \in 1..Len(lg) \/ n = Len(lg) + 1
      BY <1>1, <1>5, <1>8 DEF Announces
    <2> QED
      BY <1>1, <1>5, <1>8, <2>1 DEF Announces
  <1>9. Sequence(log)'
    BY <1>1, <1>6 DEF Sequence
  <1> QED
    BY <1>7, <1>8, <1>9 DEF Announces
-----------------------------------------------------------------------------
(* Which of the counted cases earn the badge is settled.                   *)
LEMMA SameConfirmed ==
  ASSUME ServiceInv, ServiceInv', counted' = counted,
         log' = log \/ \E e : log' = Append(log, e)
  PROVE  Confirmed' = Confirmed
  <1>1. ASSUME NEW c \in counted PROVE Data(c)' = Data(c)
    <2>1. CASE log' = log
      <3>1. Announced(c)' = Announced(c)
        BY <2>1 DEF Announced, Announces
      <3> QED
        BY <3>1, SameData
    <2>2. ASSUME NEW e, log' = Append(log, e) PROVE Data(c)' = Data(c)
      <3>1. c \in Case /\ Sequence(log)
        BY <1>1 DEF ServiceInv
      <3>2. PICK n : Announces(n, c)
        BY <1>1 DEF ServiceInv
      <3>3. \A m : Announces(m, c) => m = n
        BY <3>1, <3>2 DEF ServiceInv
      <3>4. Announces(n, c)' /\ log'[n] = log[n]
        BY <2>2, <3>1, <3>2, LogGrows DEF Announces
      <3>5. \A m : Announces(m, c)' => m = n
        BY <3>1, <3>4 DEF ServiceInv
      <3>6. Announced(c)' = log'[n] /\ Announced(c) = log[n]
        BY <3>2, <3>3, <3>4, <3>5, AnnouncedIs, AnnouncedWillBe
      <3> QED
        BY <3>4, <3>6, SameData
    <2> QED
      BY <2>1, <2>2
  <1> QED
    BY <1>1 DEF Confirmed

(* A request that the service carries out.                                 *)
LEMMA AcceptedLog ==
  ASSUME NEW op, NEW c, Accepts(op, c)
  PROVE  log' = log \/ \E e : log' = Append(log, e)
  BY DEF Accepts, Reviewed, Lifecycle!Assign, Lifecycle!Review, Lifecycle!CustomerAnswers,
         Lifecycle!Close, Lifecycle!Rate, Lifecycle!AskCustomer, Lifecycle!Decide

(* It keeps ServiceInv, and no question is taken back.                     *)
LEMMA AcceptKeeps ==
  ASSUME ServiceInv, NEW op, NEW c \in Case, Accepts(op, c),
         op = "answer" => MayAnswer(c), UNCHANGED <<counted, seen, toasts>>
  PROVE  /\ ServiceInv'
         /\ \A d \in Case : asked[d] > 0 => asked'[d] > 0
  <1> USE DEF CaseStatus
  <1>1. ASSUME log' = log, status' \in [Case -> CaseStatus], counted' = counted,
               \A d \in Case : status[d] \in Lifecycle!Verdict \cup {"KAPANDI"}
                               => status'[d] \in Lifecycle!Verdict \cup {"KAPANDI"}
        PROVE  /\ Sequence(log)' /\ counted' \subseteq Case
               /\ \A d \in counted' : \E n : Announces(n, d)'
               /\ \A d \in Case : \A n : Announces(n, d)' =>
                    /\ status'[d] \in Lifecycle!Verdict \cup {"KAPANDI"}
                    /\ \A m : Announces(m, d)' => m = n
    <2>1. \A d, n : Announces(n, d)' <=> Announces(n, d)
      BY <1>1 DEF Announces
    <2>2. Sequence(log)'
      BY <1>1 DEF Sequence, ServiceInv
    <2> QED
      BY <1>1, <2>1, <2>2 DEF ServiceInv
  <1>2. ASSUME op \notin {"decide", "rate"}
        PROVE  /\ log' = log /\ status' \in [Case -> CaseStatus]
               /\ \A d \in Case : status[d] \in Lifecycle!Verdict \cup {"KAPANDI"}
                                   => status'[d] \in Lifecycle!Verdict \cup {"KAPANDI"}
    BY <1>2 DEF Accepts, Reviewed, Lifecycle!Assign, Lifecycle!Review, Lifecycle!CustomerAnswers,
         Lifecycle!Close, Lifecycle!AskCustomer, ServiceInv, Lifecycle!Verdict
  <1>3. ASSUME op \notin {"decide", "rate"}
        PROVE  /\ answer' \in [Case -> Lifecycle!Answer \cup {Null}]
               /\ asked' \in [Case -> Nat]
               /\ \A d \in Case : asked[d] > 0 => asked'[d] > 0
               /\ \A d \in Case : status'[d] = "MUSTERI_DOGRULAMA" => asked'[d] > 0
               /\ \A d \in Case : answer'[d] # Null => asked'[d] > 0 /\ d \in seen
    <2>1. CASE op = "answer"
      BY <2>1, WorkspacesConstants DEF Accepts, Reviewed, Lifecycle!CustomerAnswers,
         ServiceInv, MayAnswer
    <2>2. CASE op = "ask"
      BY <2>2 DEF Accepts, Reviewed, Lifecycle!AskCustomer, ServiceInv
    <2>3. CASE op \in {"assign", "start", "close"}
      BY <2>3 DEF Accepts, Reviewed, Lifecycle!Assign, Lifecycle!Review, Lifecycle!Close, ServiceInv
    <2> QED
      BY <1>3, <2>1, <2>2, <2>3 DEF Accepts, Reviewed
  <1>4. CASE op \notin {"decide", "rate"}
    BY <1>1, <1>2, <1>3, <1>4 DEF ServiceInv
  <1>5. CASE op = "decide"
    <2>1. PICK v \in Verdicts : Lifecycle!Decide(c, v)
      BY <1>5 DEF Accepts, Reviewed
    <2>2. v \in Lifecycle!Verdict /\ status[c] = "INCELENIYOR" /\ c \in Case
      BY <2>1, WorkspacesConstants DEF Lifecycle!Decide
    <2>3. /\ status' = [status EXCEPT ![c] = v] /\ answer' = answer /\ asked' = asked
      BY <1>5, <2>1 DEF Lifecycle!Decide, Accepts, Reviewed
    <2> DEFINE e == [type |-> "case.decision_made", case |-> c, verdict |-> v,
                     analyst |-> analyst[c], answer |-> answer[c]]
    <2>4. log' = Append(log, e) /\ Sequence(log) /\ e.case = c
      BY <2>1 DEF Lifecycle!Decide, ServiceInv
    <2> HIDE DEF e
    <2>5. /\ Sequence(log)'
          /\ \A n, d : Announces(n, d)' => Announces(n, d) \/ (n = Len(log) + 1 /\ d = c)
          /\ \A n, d : Announces(n, d) => Announces(n, d)'
      BY <2>4, LogGrows
    <2>6. \A n : ~ Announces(n, c)
      BY <2>2 DEF ServiceInv, Lifecycle!Verdict
    <2>7. ASSUME NEW d \in Case, NEW n, Announces(n, d)'
          PROVE  /\ status'[d] \in Lifecycle!Verdict \cup {"KAPANDI"}
                 /\ \A m : Announces(m, d)' => m = n
      <3>1. CASE d = c
        BY <2>2, <2>3, <2>5, <2>6, <2>7, <3>1 DEF ServiceInv
      <3>2. CASE d # c
        BY <2>3, <2>5, <2>7, <3>2 DEF ServiceInv
      <3> QED
        BY <3>1, <3>2
    <2>8. /\ status' \in [Case -> CaseStatus]
          /\ \A d \in Case : status'[d] = "MUSTERI_DOGRULAMA" => asked'[d] > 0
      BY <2>2, <2>3 DEF ServiceInv, Lifecycle!Verdict
    <2>9. /\ counted' \subseteq Case
          /\ \A d \in counted' : \E n : Announces(n, d)'
      BY <2>5 DEF ServiceInv
    <2> QED
      BY <2>3, <2>5, <2>7, <2>8, <2>9 DEF ServiceInv
  <1>6. CASE op = "rate"
    <2>1. Lifecycle!Rate(c, 5) /\ asked' = asked
      BY <1>6 DEF Accepts, Reviewed
    <2>2. status' = status /\ answer' = answer
      BY <2>1 DEF Lifecycle!Rate
    <2> DEFINE e == [type |-> "feedback.submitted", case |-> c, rating |-> 5]
    <2>3. log' = Append(log, e) /\ Sequence(log) /\ e.type # "case.decision_made"
      BY <2>1 DEF Lifecycle!Rate, ServiceInv
    <2> HIDE DEF e
    <2>4. /\ Sequence(log)'
          /\ \A n, d : Announces(n, d)' <=> Announces(n, d)
      BY <2>3, LogGrows
    <2> QED
      BY <2>1, <2>2, <2>4 DEF ServiceInv
  <1> QED
    BY <1>4, <1>5, <1>6
-----------------------------------------------------------------------------
(* Questions stay asked, and the tables only grow ahead of the profiles.   *)
Advance ==
  /\ \A d \in Case : asked[d] > 0 => asked'[d] > 0
  /\ seen \subseteq seen'
  /\ Cardinality(counted) <= Cardinality(counted')
  /\ Cardinality(counted \ Confirmed) <= Cardinality(counted' \ Confirmed')

(* There are finitely many cases, so they can be counted.                  *)
LEMMA Counts ==
  ASSUME ServiceInv
  PROVE  /\ IsFiniteSet(counted) /\ Cardinality(counted) \in Nat
         /\ IsFiniteSet(counted \ Confirmed) /\ Cardinality(counted \ Confirmed) \in Nat
  <1>1. IsFiniteSet(counted)
    BY FS_Subset, WorkspacesConstants DEF ServiceInv
  <1>2. IsFiniteSet(counted \ Confirmed)
    BY <1>1, FS_Subset
  <1> QED
    BY <1>1, <1>2, FS_CardinalityType

(* The same of the next state.                                             *)
LEMMA CountsWillBe ==
  ASSUME ServiceInv'
  PROVE  /\ IsFiniteSet(counted') /\ Cardinality(counted') \in Nat
         /\ IsFiniteSet(counted' \ Confirmed') /\ Cardinality(counted' \ Confirmed') \in Nat
  <1>1. IsFiniteSet(counted')
    BY FS_Subset, WorkspacesConstants DEF ServiceInv
  <1>2. IsFiniteSet(counted' \ Confirmed')
    BY <1>1, FS_Subset
  <1> QED
    BY <1>1, <1>2, FS_CardinalityType

(* What is true of a copy stays true while the services move on.           *)
LEMMA ReplyKept ==
  ASSUME ServiceInv, ServiceInv', Advance, NEW l \in List, NEW v, ReplyOK(l, v)
  PROVE  ReplyOK(l, v)'
  <1>1. CASE l = "customer"
    BY <1>1 DEF ReplyOK, CopyOK, ToVerify, Advance
  <1>2. CASE l = "profile"
    <2>1. ViewOK(v)
      BY <1>2 DEF ReplyOK
    <2>2. PICK i \in Nat, j \in Nat, k \in Nat, m \in Nat :
            /\ i = Cardinality(counted) /\ j = Cardinality(counted \ Confirmed)
            /\ k = Cardinality(counted') /\ m = Cardinality(counted' \ Confirmed')
      BY Counts, CountsWillBe
    <2>3. i <= k /\ j <= m
      BY <2>2 DEF Advance
    <2>4. v.badge = FALSE => v.badge # Null
      BY WorkspacesConstants
    <2>5. v.total_points # Null => v.resolved_cases \in Nat /\ v.resolved_cases <= k
      BY <2>1, <2>2, <2>3 DEF ViewOK
    <2>6. v.badge = FALSE => v.resolved_cases <= m
      BY <2>1, <2>2, <2>3, <2>4 DEF ViewOK
    <2>7. ViewOK(v)'
      BY <2>1, <2>2, <2>5, <2>6 DEF ViewOK
    <2> QED
      BY <1>2, <2>7 DEF ReplyOK
  <1> QED
    BY <1>1, <1>2 DEF ReplyOK

(* The next statement of a profile.                                        *)
LEMMA ViewRead ==
  ASSUME ServiceInv, NEW v, ViewOK(v)
  PROVE  ViewOK(Read(v, Me, Ledger, Cardinality(counted), HasBadge, day))
  <1>1. PICK t, r, b, d : v = [total_points |-> t, resolved_cases |-> r, badge |-> b, daily_rank |-> d]
    BY DEF ViewOK
  <1>2. PICK n \in Nat : n = Cardinality(counted)
    BY Counts
  <1>3. HasBadge \in BOOLEAN /\ (HasBadge = FALSE => counted \ Confirmed = counted)
    BY DEF HasBadge, Confirmed
  <1>4. PICK h \in BOOLEAN : h = HasBadge
    BY <1>3
  <1>5. Null \notin BOOLEAN
    BY WorkspacesConstants
  <1>6. /\ b \in BOOLEAN \cup {Null} /\ (d # Null => b # Null) /\ (b # Null => t # Null)
        /\ t # Null => r \in Nat /\ r <= n
        /\ b = FALSE => r <= Cardinality(counted \ Confirmed)
    BY <1>1, <1>2 DEF ViewOK
  <1>7. CASE t = Null
    <2>1. PICK u : Read(v, Me, Ledger, n, h, day) =
            [total_points |-> u, resolved_cases |-> n, badge |-> b, daily_rank |-> d]
      BY <1>1, <1>7 DEF Read, ReadRow
    <2>2. b = Null /\ d = Null
      BY <1>6, <1>7
    <2>3. PICK w : w = Read(v, Me, Ledger, n, h, day)
      OBVIOUS
    <2>4. /\ w = [total_points |-> w.total_points, resolved_cases |-> w.resolved_cases,
                  badge |-> w.badge, daily_rank |-> w.daily_rank]
          /\ w.resolved_cases = n /\ w.badge = Null /\ w.daily_rank = Null
      BY <2>1, <2>2, <2>3
    <2>5. n <= Cardinality(counted)
      BY <1>2
    <2>6. ViewOK(w)
      BY <1>2, <1>5, <2>4, <2>5 DEF ViewOK
    <2> QED
      BY <1>2, <1>4, <2>3, <2>6
  <1>8. CASE t # Null /\ b = Null
    <2>1. Read(v, Me, Ledger, n, h, day) =
            [total_points |-> t, resolved_cases |-> r, badge |-> h, daily_rank |-> d]
      BY <1>1, <1>8 DEF Read, ReadBadge
    <2>2. h = FALSE => r <= Cardinality(counted \ Confirmed)
      BY <1>2, <1>3, <1>4, <1>6, <1>8
    <2> QED
      BY <1>2, <1>4, <1>5, <1>6, <1>8, <2>1, <2>2 DEF ViewOK
  <1>9. CASE t # Null /\ b # Null
    <2>1. PICK u : Read(v, Me, Ledger, n, h, day) =
            [total_points |-> t, resolved_cases |-> r, badge |-> b, daily_rank |-> u]
      BY <1>1, <1>9 DEF Read, ReadRank
    <2> QED
      BY <1>2, <1>4, <1>6, <1>9, <2>1 DEF ViewOK
  <1> QED
    BY <1>7, <1>8, <1>9

(* A load that starts.                                                     *)
LEMMA FreshLoad ==
  ASSUME ServiceInv, NEW l \in List, NEW by
  PROVE  LoadOK(l, Load(by, l))
  <1>1. CASE l = "profile"
    <2>1. ViewOK(Unread)
      BY WorkspacesConstants DEF ViewOK, Unread
    <2> QED
      BY <1>1, <2>1 DEF LoadOK, Load, ReplyOK
  <1>2. CASE l = "customer"
    <2>1. CopyOK(Cases(l))
      BY <1>2 DEF CopyOK, ToVerify, Cases, Listed, ServiceInv
    <2> QED
      BY <1>2, <2>1 DEF LoadOK, Load, ReplyOK
  <1> QED
    BY <1>1, <1>2 DEF LoadOK, Load, ReplyOK

(* The same of a load.                                                     *)
LEMMA LoadKept ==
  ASSUME ServiceInv, ServiceInv', Advance, NEW l \in List, NEW x, LoadOK(l, x)
  PROVE  LoadOK(l, x)'
  <1>1. PICK v : v = x.reply
    OBVIOUS
  <1>2. ReplyOK(l, v)'
    BY <1>1, ReplyKept DEF LoadOK
  <1>3. x = [by |-> x.by, reply |-> x.reply]
    BY DEF LoadOK
  <1> QED
    BY <1>1, <1>2, <1>3 DEF LoadOK

(* What is on its way after a step was or could have been before it.       *)
FreshOut ==
  /\ out' = [l \in List |-> out'[l]]
  /\ \A l \in List : Sequence(out'[l]) /\ \A k \in DOMAIN out'[l] : LoadOK(l, out'[l][k])

FreshShown ==
  /\ shown' = [l \in List |-> shown'[l]]
  /\ \A l \in List : ReplyOK(l, shown'[l])
  /\ ToVerify(shown'["customer"]) \subseteq seen'

(* The copies after a step, from what they were before it.                 *)
LEMMA CopiesStep ==
  ASSUME ServiceInv, ServiceInv', Advance, FreshOut, FreshShown
  PROVE  CopiesInv'
  <1>1. ASSUME NEW l \in List PROVE ReplyOK(l, shown[l])'
    <2>1. PICK v : v = shown'[l]
      OBVIOUS
    <2>2. ReplyOK(l, v)'
      BY <2>1, ReplyKept DEF FreshShown
    <2> QED
      BY <2>1, <2>2
  <1>2. ASSUME NEW l \in List, NEW k \in DOMAIN out'[l] PROVE LoadOK(l, out[l][k])'
    <2>1. PICK x : x = out'[l][k]
      OBVIOUS
    <2>2. LoadOK(l, x)'
      BY <2>1, LoadKept DEF FreshOut
    <2> QED
      BY <2>1, <2>2
  <1>3. \A l \in List : Sequence(out[l])'
    BY DEF FreshOut, Sequence
  <1>4. ToVerify(shown["customer"])' \subseteq seen'
    BY DEF FreshShown, ToVerify
  <1> QED
    BY <1>1, <1>2, <1>3, <1>4 DEF CopiesInv, FreshOut, FreshShown

(* Nothing is sent and nothing arrives.                                    *)
LEMMA SameOut ==
  ASSUME CopiesInv, out' = out
  PROVE  FreshOut
  BY DEF CopiesInv, FreshOut

(* Nothing that is shown changes.                                          *)
LEMMA SameShown ==
  ASSUME CopiesInv, shown' = shown, seen \subseteq seen'
  PROVE  FreshShown
  BY DEF CopiesInv, FreshShown

(* A load is sent.                                                         *)
LEMMA LoadSent ==
  ASSUME ServiceInv, CopiesInv, NEW l \in List, NEW by,
         out' = [out EXCEPT ![l] = Append(@, Load(by, l))]
  PROVE  FreshOut
  <1>1. LoadOK(l, Load(by, l)) /\ Sequence(out[l])
    BY FreshLoad DEF CopiesInv
  <1>2. PICK x : x = Load(by, l)
    OBVIOUS
  <1>3. /\ out = [m \in List |-> out[m]]
        /\ \A m \in List : out'[m] = IF m = l THEN Append(out[l], x) ELSE out[m]
    BY <1>2 DEF CopiesInv
  <1>4. out' = [m \in List |-> out'[m]]
    BY <1>3
  <1>5. /\ Sequence(Append(out[l], x))
        /\ \A k \in DOMAIN Append(out[l], x) :
             Append(out[l], x)[k] = x \/ \E j \in DOMAIN out[l] : Append(out[l], x)[k] = out[l][j]
    BY <1>1, Appended
  <1>6. \A k \in DOMAIN Append(out[l], x) : LoadOK(l, Append(out[l], x)[k])
    BY <1>1, <1>2, <1>5 DEF CopiesInv
  <1> QED
    BY <1>3, <1>4, <1>5, <1>6 DEF FreshOut, CopiesInv

(* A load is over; a decision sends one for the profile after it.          *)
LEMMA LoadOver ==
  ASSUME ServiceInv, CopiesInv, NEW l \in List, NEW i \in DOMAIN out[l], out' = AfterLoad(l, i)
  PROVE  FreshOut
  <1>1. PICK r : r = RemoveAt(out[l], i)
    OBVIOUS
  <1>2. Sequence(r) /\ \A k \in DOMAIN r : \E j \in DOMAIN out[l] : r[k] = out[l][j]
    BY <1>1, Removed DEF CopiesInv
  <1>3. \A k \in DOMAIN r : LoadOK(l, r[k])
    BY <1>2 DEF CopiesInv
  <1>4. PICK o : o = [out EXCEPT ![l] = r]
    OBVIOUS
  <1>5. Unloaded(l, i) = o
    BY <1>1, <1>4 DEF Unloaded
  <1>6. out = [m \in List |-> out[m]] /\ o = [m \in List |-> o[m]]
        /\ \A m \in List : o[m] = IF m = l THEN r ELSE out[m]
    BY <1>4 DEF CopiesInv
  <1>7. \A m \in List : Sequence(o[m]) /\ \A k \in DOMAIN o[m] : LoadOK(m, o[m][k])
    BY <1>2, <1>3, <1>6 DEF CopiesInv
  <1>8. CASE out' = o
    BY <1>6, <1>7, <1>8 DEF FreshOut
  <1>9. CASE out' = [o EXCEPT !["profile"] = Append(@, Load("action", "profile"))]
    <2>1. "profile" \in List
      BY DEF List
    <2>2. PICK x : x = Load("action", "profile")
      OBVIOUS
    <2>3. LoadOK("profile", x)
      BY <2>1, <2>2, FreshLoad
    <2>4. PICK s : s = o["profile"]
      OBVIOUS
    <2>5. Sequence(s) /\ \A k \in DOMAIN s : LoadOK("profile", s[k])
      BY <1>7, <2>1, <2>4
    <2>6. /\ Sequence(Append(s, x))
          /\ \A k \in DOMAIN Append(s, x) :
               Append(s, x)[k] = x \/ \E j \in DOMAIN s : Append(s, x)[k] = s[j]
      BY <2>5, Appended
    <2>7. \A k \in DOMAIN Append(s, x) : LoadOK("profile", Append(s, x)[k])
      BY <2>3, <2>5, <2>6
    <2>8. \A m \in List : out'[m] = IF m = "profile" THEN Append(s, x) ELSE o[m]
      BY <1>6, <1>9, <2>2, <2>4
    <2>9. out' = [m \in List |-> out'[m]]
      BY <1>6, <1>9
    <2> QED
      BY <1>7, <2>6, <2>7, <2>8, <2>9 DEF FreshOut
  <1> QED
    BY <1>5, <1>8, <1>9 DEF AfterLoad

(* A statement of a profile's load is run.                                 *)
LEMMA LoadRead ==
  ASSUME ServiceInv, CopiesInv, ReadProfile
  PROVE  FreshOut
  <1>1. "profile" \in List
    BY DEF List
  <1>2. PICK i \in DOMAIN out["profile"] :
          out' = [out EXCEPT !["profile"][i].reply =
                    Read(@, Me, Ledger, Cardinality(counted), HasBadge, day)]
    BY DEF ReadProfile
  <1>3. PICK s : s = out["profile"]
    OBVIOUS
  <1>4. PICK b, v : s[i] = [by |-> b, reply |-> v]
    BY <1>1, <1>2, <1>3 DEF CopiesInv, LoadOK
  <1>5. PICK w : w = Read(v, Me, Ledger, Cardinality(counted), HasBadge, day)
    OBVIOUS
  <1>6. ViewOK(v)
    BY <1>1, <1>2, <1>3, <1>4 DEF CopiesInv, LoadOK, ReplyOK
  <1>7. ViewOK(w)
    BY <1>5, <1>6, ViewRead
  <1>8. PICK x : x = [by |-> b, reply |-> w]
    OBVIOUS
  <1>9. LoadOK("profile", x)
    BY <1>7, <1>8 DEF LoadOK, ReplyOK
  <1>10. Sequence(s) /\ \A k \in DOMAIN s : LoadOK("profile", s[k])
    BY <1>1, <1>3 DEF CopiesInv
  <1>11. /\ Sequence([s EXCEPT ![i] = x])
         /\ DOMAIN [s EXCEPT ![i] = x] = DOMAIN s
         /\ \A k \in DOMAIN s : [s EXCEPT ![i] = x][k] = IF k = i THEN x ELSE s[k]
    BY <1>2, <1>3, <1>10, Replaced
  <1>12. [s[i] EXCEPT !.reply = Read(@, Me, Ledger, Cardinality(counted), HasBadge, day)] = x
    BY <1>4, <1>5, <1>8
  <1>13. out' = [out EXCEPT !["profile"] = [s EXCEPT ![i] = x]]
    BY <1>2, <1>3, <1>12
  <1>14. PICK t : t = [s EXCEPT ![i] = x]
    OBVIOUS
  <1>15. Sequence(t) /\ \A k \in DOMAIN t : LoadOK("profile", t[k])
    BY <1>9, <1>10, <1>11, <1>14
  <1>16. out = [m \in List |-> out[m]]
    BY DEF CopiesInv
  <1>17. /\ \A m \in List : out'[m] = IF m = "profile" THEN t ELSE out[m]
         /\ out' = [m \in List |-> out'[m]]
    BY <1>13, <1>14, <1>16
  <1> QED
    BY <1>15, <1>17 DEF FreshOut, CopiesInv
-----------------------------------------------------------------------------
(* What a page requests after a step it requested before, or may request.  *)
LEMMA RequestsStep ==
  ASSUME ServiceInv, RequestsInv, \A d \in Case : asked[d] > 0 => asked'[d] > 0, seen \subseteq seen',
         pending' \in [Page -> Request \cup {Null}],
         \A p \in Page :
           pending'[p] # Null /\ pending'[p].op = "answer" =>
             \/ MayAnswer(pending'[p].case)
             \/ /\ pending[p] # Null /\ pending[p].op = "answer"
                /\ pending[p].case = pending'[p].case,
         \A r \in late' :
           \/ r \in late
           \/ \E p \in Page :
                pending[p] # Null /\ r = [op |-> pending[p].op, case |-> pending[p].case]
  PROVE  RequestsInv'
  <1>1. \A d \in Case : MayAnswer(d) => asked'[d] > 0 /\ d \in seen'
    BY DEF MayAnswer
  <1>2. late' \subseteq [op: Operation, case: Case]
    BY DEF RequestsInv, Request
  <1>3. \A r \in late' : r.op = "answer" => MayAnswer(r.case)
    BY DEF RequestsInv
  <1>4. \A p \in Page : pending'[p] # Null /\ pending'[p].op = "answer" => MayAnswer(pending'[p].case)
    BY DEF RequestsInv
  <1>5. ASSUME NEW p \in Page, pending'[p] # Null, pending'[p].op = "answer"
        PROVE  pending'[p].case \in Case
    BY <1>5 DEF Request
  <1>6. \A r \in late' : r.case \in Case
    BY <1>2
  <1> QED
    BY <1>1, <1>2, <1>3, <1>4, <1>5, <1>6 DEF RequestsInv, MayAnswer

(* A page gives up its request,                                            *)
LEMMA Released ==
  ASSUME RequestsInv, NEW p \in Page, Release(p)
  PROVE  /\ pending' \in [Page -> Request \cup {Null}]
         /\ \A q \in Page : pending'[q] = pending[q] \/ pending'[q] = Null
  BY DEF RequestsInv, Release

(* goes on with it,                                                        *)
LEMMA Gone ==
  ASSUME RequestsInv, NEW p \in Page, NEW stage \in {"sent", "done", "loading"},
         pending[p] # Null, Goto(p, stage)
  PROVE  /\ pending' \in [Page -> Request \cup {Null}]
         /\ \A q \in Page : /\ pending'[q] # Null => pending[q] # Null
                            /\ pending[q] # Null => pending'[q].op = pending[q].op
                                                  /\ pending'[q].case = pending[q].case
  <1>1. PICK op, c, at :
          /\ op \in Operation /\ c \in Case
          /\ pending[p] = [op |-> op, case |-> c, at |-> at]
    BY DEF RequestsInv, Request
  <1>2. pending' = [pending EXCEPT ![p] = [op |-> op, case |-> c, at |-> stage]]
    <2>1. PICK q : q = pending[p]
      OBVIOUS
    <2>2. [q EXCEPT !.at = stage] = [op |-> op, case |-> c, at |-> stage]
      BY <1>1, <2>1
    <2>3. pending' = [pending EXCEPT ![p] = [q EXCEPT !.at = stage]]
      BY <2>1 DEF Goto
    <2> QED
      BY <2>2, <2>3
  <1>3. [op |-> op, case |-> c, at |-> stage] \in Request
    BY <1>1 DEF Request
  <1> QED
    BY <1>1, <1>2, <1>3 DEF RequestsInv

(* or has waited for the load after it.                                    *)
LEMMA Waited ==
  ASSUME RequestsInv, NEW l \in List, NEW load, Over(l, load)
  PROVE  /\ pending' \in [Page -> Request \cup {Null}]
         /\ \A q \in Page : pending'[q] = pending[q] \/ pending'[q] = Null
  BY DEF RequestsInv, Over

(* A step of the pages alone keeps ServiceInv.                             *)
LEMMA SameServices ==
  ASSUME ServiceInv, UNCHANGED <<services, seen, toasts>>
  PROVE  ServiceInv'
  <1>1. \A n, c : Announces(n, c)' <=> Announces(n, c)
    BY DEF Announces, services, lifecycle
  <1>2. Sequence(log)'
    BY DEF Sequence, ServiceInv, services, lifecycle
  <1> QED
    BY <1>1, <1>2 DEF ServiceInv, services, lifecycle

(* Nothing moves in the services: the customer may have been told, though. *)
LEMMA StillThere ==
  ASSUME ServiceInv, ServiceInv', UNCHANGED services, seen \subseteq seen'
  PROVE  Advance
  <1>1. log' = log /\ counted' = counted /\ asked' = asked
    BY DEF services, lifecycle
  <1>2. Confirmed' = Confirmed
    BY <1>1, SameConfirmed
  <1> QED
    BY <1>1, <1>2, Counts DEF Advance

(* Requests that are only given up.                                        *)
LEMMA RequestsShrink ==
  ASSUME ServiceInv, RequestsInv, \A d \in Case : asked[d] > 0 => asked'[d] > 0, seen \subseteq seen',
         pending' \in [Page -> Request \cup {Null}],
         \A q \in Page : pending'[q] = pending[q] \/ pending'[q] = Null,
         late' \subseteq late
  PROVE  RequestsInv'
  <1>1. \A q \in Page : pending'[q] # Null => pending'[q] = pending[q]
    OBVIOUS
  <1> QED
    BY <1>1, RequestsStep DEF RequestsInv
-----------------------------------------------------------------------------
(* The steps of the loads.                                                 *)
LEMMA QuietKeeps ==
  ASSUME Inv, UNCHANGED <<services, seen, toasts, shown>>, FreshOut, late' \subseteq late,
         pending' \in [Page -> Request \cup {Null}],
         \A q \in Page : pending'[q] = pending[q] \/ pending'[q] = Null
  PROVE  Inv'
  <1>1. ServiceInv' /\ Advance
    BY SameServices, StillThere DEF Inv
  <1>2. RequestsInv'
    BY <1>1, RequestsShrink DEF Inv, Advance
  <1>3. CopiesInv'
    BY <1>1, CopiesStep, SameShown DEF Inv
  <1> QED
    BY <1>1, <1>2, <1>3 DEF Inv

(* A timer.                                                                *)
LEMMA PollKeeps ==
  ASSUME Inv, NEW l \in List, Poll(l)
  PROVE  Inv'
  <1>1. FreshOut
    BY LoadSent DEF Inv, Poll
  <1> QED
    BY <1>1, QuietKeeps DEF Inv, Poll, RequestsInv

(* A statement of the profile.                                             *)
LEMMA ReadProfileKeeps ==
  ASSUME Inv, ReadProfile
  PROVE  Inv'
  <1>1. FreshOut
    BY LoadRead DEF Inv
  <1> QED
    BY <1>1, QuietKeeps DEF Inv, ReadProfile, RequestsInv

(* A load that fails.                                                      *)
LEMMA LoadFailsKeeps ==
  ASSUME Inv, NEW l \in List, LoadFails(l)
  PROVE  Inv'
  <1>1. PICK i \in DOMAIN out[l] : out' = AfterLoad(l, i) /\ Over(l, out[l][i])
    BY DEF LoadFails
  <1>2. FreshOut
    BY <1>1, LoadOver DEF Inv
  <1>3. PICK x : x = out[l][i]
    OBVIOUS
  <1>4. Over(l, x)
    BY <1>1, <1>3
  <1> QED
    BY <1>2, <1>4, Waited, QuietKeeps DEF Inv, LoadFails

(* The answer to a load shows the customer each question for the first     *)
(* time once.                                                              *)
LEMMA ArriveKeeps ==
  ASSUME Inv, NEW l \in List, Arrive(l)
  PROVE  Inv'
  <1>1. PICK i \in DOMAIN out[l] :
          /\ shown' = [shown EXCEPT ![l] = out[l][i].reply]
          /\ IF l = "customer"
             THEN /\ toasts' = [c \in Case |->
                              toasts[c] + IF c \in Unseen(out[l][i].reply) THEN 1 ELSE 0]
                  /\ seen' = Remembered(out[l][i].reply)
             ELSE UNCHANGED <<toasts, seen>>
          /\ out' = AfterLoad(l, i)
          /\ Over(l, out[l][i])
    BY DEF Arrive
  <1>2. PICK x : x = out[l][i]
    OBVIOUS
  <1>3. PICK v : v = x.reply
    OBVIOUS
  <1>4. ReplyOK(l, v)
    BY <1>2, <1>3 DEF Inv, CopiesInv, LoadOK
  <1>5. FreshOut
    BY <1>1, LoadOver DEF Inv
  <1>6. UNCHANGED <<services, late>>
    BY DEF Arrive
  <1>7. seen \subseteq seen' /\ (l = "customer" => ToVerify(v) \subseteq seen')
    BY <1>1, <1>2, <1>3 DEF Remembered
  <1>8. toasts' \in [Case -> {0, 1}] /\ seen' = {c \in Case : toasts'[c] = 1}
    <2>1. CASE l = "customer"
      <3>1. toasts' = [c \in Case |-> toasts[c] + IF c \in ToVerify(v) \ seen THEN 1 ELSE 0]
        BY <1>1, <1>2, <1>3, <2>1 DEF Unseen
      <3>2. seen' = seen \cup ToVerify(v)
        BY <1>1, <1>2, <1>3, <2>1 DEF Remembered
      <3>3. ToVerify(v) \subseteq Case
        BY DEF ToVerify
      <3> QED
        BY <3>1, <3>2, <3>3 DEF Inv, ServiceInv
    <2> QED
      BY <1>1, <2>1 DEF Inv, ServiceInv
  <1>9. ServiceInv'
    <2>1. \A n, c : Announces(n, c)' <=> Announces(n, c)
      BY <1>6 DEF Announces, services, lifecycle
    <2>2. Sequence(log)'
      BY <1>6 DEF Sequence, Inv, ServiceInv, services, lifecycle
    <2> QED
      BY <1>6, <1>7, <1>8, <2>1, <2>2 DEF Inv, ServiceInv, services, lifecycle
  <1>10. Advance
    BY <1>6, <1>7, <1>9, StillThere DEF Inv
  <1>11. FreshShown
    <2>1. /\ shown = [m \in List |-> shown[m]] /\ "customer" \in List
          /\ \A m \in List : shown'[m] = IF m = l THEN v ELSE shown[m]
      BY <1>1, <1>2, <1>3 DEF Inv, CopiesInv, List, CaseList, Page
    <2>2. shown' = [m \in List |-> shown'[m]]
      BY <1>1, <2>1
    <2>3. ToVerify(shown'["customer"]) \subseteq seen'
      BY <1>7, <2>1 DEF Inv, CopiesInv
    <2> QED
      BY <1>4, <2>1, <2>2, <2>3 DEF FreshShown, Inv, CopiesInv
  <1>12. CopiesInv'
    BY <1>5, <1>9, <1>10, <1>11, CopiesStep DEF Inv
  <1>13. RequestsInv'
    BY <1>1, <1>2, <1>6, <1>7, <1>10, Waited, RequestsShrink DEF Inv, Advance
  <1> QED
    BY <1>9, <1>12, <1>13 DEF Inv
-----------------------------------------------------------------------------
(* The steps of the actions.                                               *)
(* A step of the services alone keeps the copies.                          *)
LEMMA SettledKeeps ==
  ASSUME Inv, ServiceInv', Advance, UNCHANGED loading
  PROVE  CopiesInv'
  BY CopiesStep, SameOut, SameShown DEF Inv, loading

(* Only the customer may answer, and only what is shown as asked.          *)
LEMMA Offers ==
  ASSUME NEW p \in Page, NEW item, NEW op \in Offered(p, item)
  PROVE  /\ op \in Operation
         /\ op = "answer" => p = "customer" /\ item.status = "MUSTERI_DOGRULAMA"
  BY DEF Offered, Operation, Page

(* So what a click requests was asked, and the customer was told.          *)
LEMMA ClickKeeps ==
  ASSUME Inv, NEW p \in Page, Click(p)
  PROVE  Inv'
  <1>1. PICK c, op :
          /\ c \in Case /\ shown[p][c] # Null /\ op \in Offered(p, shown[p][c])
          /\ pending' = [pending EXCEPT ![p] = [op |-> op, case |-> c, at |-> "sent"]]
    BY DEF Click
  <1>2. UNCHANGED <<services, loading, late>>
    BY DEF Click
  <1>3. /\ op \in Operation
        /\ op = "answer" => MayAnswer(c)
    <2>1. PICK item : item = shown[p][c]
      OBVIOUS
    <2>2. op \in Operation /\ (op = "answer" => p = "customer" /\ item.status = "MUSTERI_DOGRULAMA")
      BY <1>1, <2>1, Offers
    <2>3. ASSUME op = "answer" PROVE MayAnswer(c)
      <3>1. p = "customer" /\ shown["customer"][c] # Null
            /\ shown["customer"][c].status = "MUSTERI_DOGRULAMA" /\ "customer" \in List
        BY <1>1, <2>1, <2>2, <2>3 DEF List, CaseList, Page
      <3>2. c \in ToVerify(shown["customer"])
        BY <1>1, <3>1 DEF ToVerify
      <3> QED
        BY <3>1, <3>2 DEF Inv, CopiesInv, ReplyOK, CopyOK, MayAnswer
    <2> QED
      BY <2>2, <2>3
  <1>4. [op |-> op, case |-> c, at |-> "sent"] \in Request
    BY <1>1, <1>3 DEF Request
  <1>5. ServiceInv' /\ Advance
    BY <1>2, SameServices, StillThere DEF Inv, loading
  <1>6. RequestsInv'
    <2>1. pending' \in [Page -> Request \cup {Null}]
      BY <1>1, <1>4 DEF Inv, RequestsInv
    <2>2. ASSUME NEW q \in Page, pending'[q] # Null, pending'[q].op = "answer"
          PROVE  MayAnswer(pending'[q].case)
      BY <1>1, <1>3, <2>2 DEF Inv, RequestsInv
    <2> QED
      BY <1>2, <1>5, <2>1, <2>2, RequestsStep DEF Inv, Advance
  <1> QED
    BY <1>2, <1>5, <1>6, SettledKeeps DEF Inv

(* The service moves on when it accepts,                                   *)
LEMMA AcceptAdvances ==
  ASSUME ServiceInv, NEW op, NEW c \in Case, Accepts(op, c),
         op = "answer" => MayAnswer(c), UNCHANGED <<counted, seen, toasts>>
  PROVE  ServiceInv' /\ Advance
  <1>1. ServiceInv' /\ \A d \in Case : asked[d] > 0 => asked'[d] > 0
    BY AcceptKeeps
  <1>2. Confirmed' = Confirmed
    BY <1>1, AcceptedLog, SameConfirmed
  <1> QED
    BY <1>1, <1>2, Counts DEF Advance

(* be it the request that the page waits for, which may be refused,        *)
LEMMA CarryKeeps ==
  ASSUME Inv, NEW p \in Page, Carry(p)
  PROVE  Inv'
  <1>1. /\ pending[p] # Null /\ pending[p] \in Request
        /\ UNCHANGED <<counted, day, loading, late>>
    BY DEF Carry, At, Inv, RequestsInv
  <1>2. PICK op, c : c \in Case /\ op = pending[p].op /\ c = pending[p].case
    BY <1>1 DEF Request
  <1>3. op = "answer" => MayAnswer(c)
    BY <1>1, <1>2 DEF Inv, RequestsInv
  <1>4. CASE Accepts(pending[p].op, pending[p].case) /\ Goto(p, "done")
    <2>1. ServiceInv' /\ Advance
      BY <1>1, <1>2, <1>3, <1>4, AcceptAdvances DEF Inv, loading
    <2>2. RequestsInv'
      BY <1>1, <1>4, <2>1, Gone, RequestsStep DEF Inv, Advance
    <2> QED
      BY <1>1, <2>1, <2>2, SettledKeeps DEF Inv
  <1>5. CASE Release(p) /\ UNCHANGED <<lifecycle, decided_on, asked>>
    <2>1. UNCHANGED services
      BY <1>1, <1>5 DEF services
    <2>2. ServiceInv' /\ Advance
      BY <1>1, <2>1, SameServices, StillThere DEF Inv, loading
    <2>3. RequestsInv'
      BY <1>1, <1>5, <2>2, Released, RequestsShrink DEF Inv, Advance
    <2> QED
      BY <1>1, <2>2, <2>3, SettledKeeps DEF Inv
  <1> QED
    BY <1>4, <1>5 DEF Carry

(* or after which it loads,                                                *)
LEMMA SucceedKeeps ==
  ASSUME Inv, NEW p \in Page, Succeed(p)
  PROVE  Inv'
  <1>1. /\ pending[p] # Null /\ Goto(p, "loading") /\ p \in List
        /\ UNCHANGED <<services, shown, seen, toasts, late>>
        /\ out' = [out EXCEPT ![p] = Append(@, Load("action", p))]
    BY DEF Succeed, At, List, CaseList
  <1>2. FreshOut
    BY <1>1, LoadSent DEF Inv
  <1>3. ServiceInv' /\ Advance
    BY <1>1, SameServices, StillThere DEF Inv
  <1>4. RequestsInv'
    BY <1>1, <1>3, Gone, RequestsStep DEF Inv, Advance
  <1> QED
    BY <1>1, <1>2, <1>3, <1>4, CopiesStep, SameShown DEF Inv

(* or which it has given up,                                               *)
LEMMA LoseKeeps ==
  ASSUME Inv, NEW p \in Page, Lose(p)
  PROVE  Inv'
  <1>1. /\ pending[p] # Null /\ Release(p) /\ UNCHANGED <<services, loading>>
        /\ late' = late \/ late' = {[op |-> pending[p].op, case |-> pending[p].case]}
    BY DEF Lose, At
  <1>2. ServiceInv' /\ Advance
    BY <1>1, SameServices, StillThere DEF Inv, loading
  <1>3. RequestsInv'
    <2>1. /\ pending' \in [Page -> Request \cup {Null}]
          /\ \A q \in Page : pending'[q] # Null => pending'[q] = pending[q]
      BY <1>1, Released DEF Inv
    <2>2. \A r \in late' :
           \/ r \in late
           \/ \E q \in Page :
                pending[q] # Null /\ r = [op |-> pending[q].op, case |-> pending[q].case]
      BY <1>1
    <2> QED
      BY <1>2, <2>1, <2>2, RequestsStep DEF Inv, Advance
  <1> QED
    BY <1>1, <1>2, <1>3, SettledKeeps DEF Inv

(* and which arrives all the same.                                         *)
LEMMA CarryLateKeeps ==
  ASSUME Inv, CarryLate
  PROVE  Inv'
  <1>1. UNCHANGED <<counted, day, loading, pending>> /\ late' = {}
    BY DEF CarryLate
  <1>2. PICK r \in late :
          \/ Accepts(r.op, r.case)
          \/ UNCHANGED <<lifecycle, decided_on, asked>>
    BY DEF CarryLate
  <1>3. PICK op, c : c \in Case /\ op = r.op /\ c = r.case
    BY DEF Inv, RequestsInv
  <1>4. op = "answer" => MayAnswer(c)
    BY <1>3 DEF Inv, RequestsInv
  <1>5. ServiceInv' /\ Advance
    <2>1. CASE Accepts(r.op, r.case)
      BY <1>1, <1>3, <1>4, <2>1, AcceptAdvances DEF Inv, loading
    <2>2. CASE UNCHANGED <<lifecycle, decided_on, asked>>
      <3>1. UNCHANGED services
        BY <1>1, <2>2 DEF services
      <3> QED
        BY <1>1, <3>1, SameServices, StillThere DEF Inv, loading
    <2> QED
      BY <1>2, <2>1, <2>2
  <1>6. RequestsInv'
    BY <1>1, <1>5, RequestsShrink DEF Inv, Advance, RequestsInv
  <1> QED
    BY <1>1, <1>5, <1>6, SettledKeeps DEF Inv
-----------------------------------------------------------------------------
(* The steps of the worker and of the calendar.                            *)
(* A decision is counted: with its badge, if it earns it.                  *)
LEMMA CountKeeps ==
  ASSUME Inv, Count
  PROVE  Inv'
  <1>1. UNCHANGED <<lifecycle, decided_on, day, asked, loading, pending, late>>
    BY DEF Count
  <1>2. PICK c \in Case \ counted : (\E n : Announces(n, c)) /\ counted' = counted \cup {c}
    BY DEF Count
  <1>3. \A n, d : Announces(n, d)' <=> Announces(n, d)
    BY <1>1 DEF Announces, lifecycle
  <1>4. ServiceInv'
    <2>1. Sequence(log)'
      BY <1>1 DEF Sequence, Inv, ServiceInv, lifecycle
    <2> QED
      BY <1>1, <1>2, <1>3, <2>1 DEF Inv, ServiceInv, lifecycle, loading
  <1>5. \A d : Data(d)' = Data(d)
    <2>1. ASSUME NEW d PROVE Announced(d)' = Announced(d)
      BY <1>1 DEF Announced, Announces, lifecycle
    <2> QED
      BY <2>1, SameData
  <1>6. counted \subseteq counted' /\ counted \ Confirmed \subseteq counted' \ Confirmed'
    BY <1>2, <1>5 DEF Confirmed
  <1>7. Advance
    <2>1. Cardinality(counted) <= Cardinality(counted')
      BY <1>4, <1>6, CountsWillBe, FS_Subset
    <2>2. Cardinality(counted \ Confirmed) <= Cardinality(counted' \ Confirmed')
      BY <1>4, <1>6, CountsWillBe, FS_Subset
    <2> QED
      BY <1>1, <2>1, <2>2 DEF Advance, loading
  <1>8. RequestsInv'
    BY <1>1, <1>7, RequestsShrink DEF Inv, Advance, RequestsInv
  <1> QED
    BY <1>1, <1>4, <1>7, <1>8, SettledKeeps DEF Inv

(* A new day.                                                              *)
LEMMA NewDayKeeps ==
  ASSUME Inv, NewDay
  PROVE  Inv'
  <1>1. UNCHANGED <<lifecycle, decided_on, counted, asked, loading, pending, late>>
    BY DEF NewDay
  <1>2. \A n, d : Announces(n, d)' <=> Announces(n, d)
    BY <1>1 DEF Announces, lifecycle
  <1>3. ServiceInv'
    <2>1. Sequence(log)'
      BY <1>1 DEF Sequence, Inv, ServiceInv, lifecycle
    <2> QED
      BY <1>1, <1>2, <2>1 DEF Inv, ServiceInv, lifecycle, loading
  <1>4. Confirmed' = Confirmed
    BY <1>1, <1>3, SameConfirmed DEF Inv, lifecycle
  <1>5. Advance
    BY <1>1, <1>4, Counts DEF Advance, Inv, loading
  <1>6. RequestsInv'
    BY <1>1, <1>5, RequestsShrink DEF Inv, Advance, RequestsInv
  <1> QED
    BY <1>1, <1>3, <1>5, <1>6, SettledKeeps DEF Inv

(* Nothing happens.                                                        *)
LEMMA StutterKeeps ==
  ASSUME Inv, UNCHANGED vars
  PROVE  Inv'
  BY QuietKeeps, SameOut DEF Inv, vars, loading, RequestsInv

(* Every step keeps the invariant,                                         *)
LEMMA NextKeeps ==
  ASSUME Inv, [Next]_vars
  PROVE  Inv'
  <1>1. ASSUME NEW l \in List, Poll(l) \/ Arrive(l) \/ LoadFails(l) PROVE Inv'
    BY <1>1, PollKeeps, ArriveKeeps, LoadFailsKeeps
  <1>2. ASSUME NEW p \in Page, Click(p) \/ Carry(p) \/ Succeed(p) \/ Lose(p) PROVE Inv'
    BY <1>2, ClickKeeps, CarryKeeps, SucceedKeeps, LoseKeeps
  <1>3. CASE ReadProfile
    BY <1>3, ReadProfileKeeps
  <1>4. CASE CarryLate
    BY <1>4, CarryLateKeeps
  <1>5. CASE Count
    BY <1>5, CountKeeps
  <1>6. CASE NewDay
    BY <1>6, NewDayKeeps
  <1>7. CASE UNCHANGED vars
    BY <1>7, StutterKeeps
  <1> QED
    BY <1>1, <1>2, <1>3, <1>4, <1>5, <1>6, <1>7 DEF Next

(* every scene begins with it,                                             *)
LEMMA SceneKeeps ==
  ASSUME Init
  PROVE  Inv
  <1>1. PICK s \in Scenes :
          status = s.status /\ analyst = s.analyst /\ answer = s.answer /\ log = s.log
    BY DEF Init
  <1>2. /\ status \in [Case -> CaseStatus \ {"MUSTERI_DOGRULAMA"}]
        /\ answer \in [Case -> Lifecycle!Answer \cup {Null}]
        /\ log \in Seq(Announcement)
        /\ \A i, j \in DOMAIN log :
             log[i].type = "case.decision_made" =>
               /\ status[log[i].case] \in Lifecycle!Verdict \cup {"KAPANDI"}
               /\ log[j].type = "case.decision_made" /\ log[j].case = log[i].case => i = j
    BY <1>1, WorkspacesConstants
  <1>3. /\ asked \in [Case -> Nat] /\ toasts \in [Case -> {0, 1}]
        /\ seen = {c \in Case : toasts[c] = 1}
        /\ \A c \in Case : answer[c] # Null => asked[c] > 0 /\ c \in seen
    <2>1. /\ asked = [c \in Case |-> IF answer[c] = Null THEN 0 ELSE 1]
          /\ toasts = asked /\ seen = {c \in Case : toasts[c] = 1}
      BY DEF Init
    <2>2. asked \in [Case -> Nat] /\ asked \in [Case -> {0, 1}]
      BY <2>1
    <2>3. ASSUME NEW c \in Case, answer[c] # Null PROVE asked[c] > 0 /\ c \in seen
      <3>1. asked[c] = 1
        BY <2>1, <2>3
      <3> QED
        BY <2>1, <3>1
    <2> QED
      BY <2>1, <2>2, <2>3
  <1>4. \A c \in Case : status[c] # "MUSTERI_DOGRULAMA"
    BY <1>2
  <1>5. \A c \in Case : \A n : Announces(n, c) =>
            /\ status[c] \in Lifecycle!Verdict \cup {"KAPANDI"}
            /\ \A m : Announces(m, c) => m = n
    BY <1>2 DEF Announces
  <1>6. Sequence(log) /\ status \in [Case -> CaseStatus] /\ counted = {}
    BY <1>2, IsSequence DEF Init
  <1>7. ServiceInv
    BY <1>2, <1>3, <1>4, <1>5, <1>6 DEF ServiceInv
  <1>8. RequestsInv
    BY DEF Init, RequestsInv
  <1>9. CopiesInv
    <2>1. CopyOK(Nothing) /\ ToVerify(Nothing) = {}
      BY DEF CopyOK, ToVerify, Nothing
    <2>2. ViewOK(Unread)
      BY WorkspacesConstants DEF ViewOK, Unread
    <2>3. \A l \in List : shown[l] = IF l = "profile" THEN Unread ELSE Nothing
      BY DEF Init
    <2>4. /\ shown = [l \in List |-> shown[l]] /\ out = [l \in List |-> out[l]]
          /\ \A l \in List : out[l] = <<>>
      BY DEF Init
    <2>5. \A l \in List : ReplyOK(l, shown[l])
      BY <2>1, <2>2, <2>3 DEF ReplyOK
    <2>6. Sequence(<<>>) /\ DOMAIN <<>> = {}
      <3>1. <<>> \in Seq(Case)
        OBVIOUS
      <3>2. Sequence(<<>>)
        BY <3>1, IsSequence
      <3>3. DOMAIN <<>> = {}
        OBVIOUS
      <3> QED
        BY <3>2, <3>3
    <2>7. "customer" \in List /\ "customer" # "profile"
      BY DEF List, CaseList, Page
    <2> QED
      BY <2>1, <2>3, <2>4, <2>5, <2>6, <2>7 DEF CopiesInv
  <1> QED
    BY <1>7, <1>8, <1>9 DEF Inv
-----------------------------------------------------------------------------
(* and so it always holds: of the services, of the requests of the pages   *)
(* and of all copies, those shown and those on their way (loadCases,    *)
(* loadTransactions, ProfileService.profile).                              *)
THEOREM PagesSpec == Spec => []Inv
  <1>1. Init => Inv
    BY SceneKeeps
  <1>2. Inv /\ [Next]_vars => Inv'
    BY NextKeeps
  <1> QED
    BY <1>1, <1>2, PTL DEF Spec

(* However late the pages show what is, and whatever they send twice or    *)
(* late, the answer of a customer is to a question, of which he was told   *)
(* once (customer/page.tsx, respond and seenNotifications).                *)
THEOREM CustomersAnswerQuestions == Spec => []AnswersMeetAQuestion
  <1>1. ASSUME Inv PROVE AnswersMeetAQuestion
    BY <1>1 DEF Inv, ServiceInv, AnswersMeetAQuestion
  <1> QED
    BY <1>1, PagesSpec, PTL

(* A profile that counts a confirmed fraud shows its badge, although the   *)
(* two are read by statements of their own (ProfileService.profile).       *)
THEOREM BadgesKeepUp == Spec => []PointsComeWithTheirBadge
  <1>1. ASSUME Inv PROVE PointsComeWithTheirBadge
    <2>1. PICK v : v = shown["profile"]
      OBVIOUS
    <2>2. ViewOK(v)
      BY <1>1, <2>1 DEF Inv, CopiesInv, ReplyOK, List
    <2>3. PICK m \in Nat : m = Cardinality(counted \ Confirmed)
      BY <1>1, Counts DEF Inv
    <2>4. ASSUME v.daily_rank # Null, v.resolved_cases > m
          PROVE  v.badge
      <3>1. v.badge # Null /\ v.badge \in BOOLEAN /\ v.resolved_cases \in Nat
        BY <2>2, <2>4 DEF ViewOK
      <3>2. v.badge # FALSE
        <4>1. PICK r \in Nat : r = v.resolved_cases
          BY <3>1
        <4>2. v.badge = FALSE => r <= m
          BY <2>2, <2>3, <4>1 DEF ViewOK
        <4>3. ~(r <= m)
          BY <2>4, <4>1
        <4> QED
          BY <4>2, <4>3
      <3> QED
        BY <3>1, <3>2
    <2> QED
      BY <2>1, <2>3, <2>4 DEF PointsComeWithTheirBadge, IsRead, Confirmed
  <1> QED
    BY <1>1, PagesSpec, PTL
=============================================================================
