----------------------------- MODULE Workspaces -----------------------------
(***************************************************************************)
(* The customer's, the analyst's and the supervisor's page of the frontend *)
(* over the services behind them.  A page shows copies: every timer, and   *)
(* every action that succeeded, starts a load; loads are never cancelled,  *)
(* so answers arrive in any order and an old one replaces a newer one.     *)
(* Buttons are offered from the copy, and judged by the service from the   *)
(* row (CaseLifecycle, which CaseService implements).  The gamification    *)
(* worker counts a decision some time after it was made, once and in full  *)
(* (ExactlyOnceScoring, which EventService implements).                    *)
(***************************************************************************)
EXTENDS ProfileQueries, SequencesExt

CONSTANTS
  Case,
  Me,              \* the analyst whose page is open
  Earlier,         \* rows of score_ledger from before
  FirstDay, LastDay,
  Answers, Verdicts, \* what the customer and the analyst may say
  MaxAsks,         \* bound: verification requests per case
  Scenes           \* how a behaviour begins: the state of the cases, the lists that
                   \* are open, and bounds: overlaps, the loads a timer starts while
                   \* the last one is out, and faults, the requests that fail

VARIABLES
  status, analyst, answer, log,   \* the Transaction Service, see CaseLifecycle
  decided_on,                     \* the day of a decision, or Null
  counted,                        \* the cases whose decision is in score_ledger
  day,                            \* today
  shown,                          \* shown[l]: the copy that list l shows
  out,                            \* out[l]: the loads of l that are not answered
  pending,                        \* pending[p]: the action of page p that runs, or Null
  seen,                           \* seenNotifications of the customer's page
  toasts,                         \* toasts[c]: how often the customer was told of c
  asked,                          \* asked[c]: how often the customer was asked
  late,                           \* requests the page has given up, still on their way
  open,                           \* the lists that are open
  overlaps, faults                \* how many may still come

lifecycle == <<status, analyst, answer, log>>
services == <<lifecycle, decided_on, counted, day, asked>>
loading == <<shown, out, seen, toasts>>
bounds == <<open, overlaps, faults>>
vars == <<services, loading, pending, late, bounds>>

Lifecycle == INSTANCE CaseLifecycle WITH Analyst <- {Me}, Rating <- {5}
Rules == INSTANCE ScoringRules WITH UnitsPerSecond <- 1

Page == {"customer", "analyst", "supervisor"}
CaseList == Page                       \* each page has one list of cases
List == CaseList \cup {"profile"}      \* the analyst's page has the profile, too

CaseStatus == {"YENI", "ATANDI", "INCELENIYOR", "MUSTERI_DOGRULAMA",
               "ONAYLANDI", "BLOKLANDI", "KAPANDI"}

Announcement ==
  [type: {"case.decision_made"}, case: Case, verdict: Lifecycle!Verdict,
   analyst: Analyst \cup {Null}, answer: Lifecycle!Answer \cup {Null}]
  \cup [type: {"feedback.submitted"}, case: Case, rating: {5}]

(* A scene is a state the cases can be in while no question to a customer  *)
(* is open: what was decided is announced, once.                           *)
ASSUME WorkspacesConstants ==
  /\ Me \in Analyst /\ Null \notin Analyst /\ Null \notin BOOLEAN
  /\ FirstDay \in Nat /\ LastDay \in Nat
  /\ IsFiniteSet(Case)
  /\ Answers \subseteq Lifecycle!Answer /\ Verdicts \subseteq Lifecycle!Verdict
  /\ \A s \in Scenes :
       /\ s.status \in [Case -> CaseStatus \ {"MUSTERI_DOGRULAMA"}]
       /\ s.analyst \in [Case -> Analyst \cup {Null}]
       /\ s.answer \in [Case -> Lifecycle!Answer \cup {Null}]
       /\ s.log \in Seq(Announcement)
       /\ \A i, j \in DOMAIN s.log :
            s.log[i].type = "case.decision_made" =>
              /\ s.status[s.log[i].case] \in Lifecycle!Verdict \cup {"KAPANDI"}
              /\ s.log[j].type = "case.decision_made" /\ s.log[j].case = s.log[i].case => i = j
-----------------------------------------------------------------------------
(* What a load returns.                                                    *)
Rated(c) == \E i \in DOMAIN log : log[i].type = "feedback.submitted" /\ log[i].case = c

Listed(l, c) == l = "analyst" => analyst[c] = Me

Cases(l) ==
  [c \in Case |-> IF Listed(l, c) THEN [status |-> status[c], rated |-> Rated(c)] ELSE Null]

Announces(n, c) == n \in DOMAIN log /\ log[n].type = "case.decision_made" /\ log[n].case = c
Announced(c) == log[CHOOSE n \in DOMAIN log : Announces(n, c)]

Data(c) ==
  Rules!DecisionData("ORTA", Announced(c).verdict,
    IF Announced(c).answer = Null THEN "YANIT_YOK" ELSE Announced(c).answer, 0)

Ledger ==
  Earlier \cup {[event |-> c, analyst_id |-> Me, points |-> Rules!Points(Data(c)),
                 day |-> decided_on[c]] : c \in counted}
HasBadge == \E c \in counted : Rules!ConfirmedFraud(Data(c))

Profile == Current(Me, Ledger, Cardinality(counted), HasBadge, day)

Actual(l) == IF l = "profile" THEN Profile ELSE Cases(l)

Nothing == [c \in Case |-> Null]

Init ==
  /\ \E s \in Scenes :
       /\ status = s.status /\ analyst = s.analyst /\ answer = s.answer /\ log = s.log
       /\ open = s.open /\ overlaps = s.overlaps /\ faults = s.faults
  /\ decided_on = [c \in Case |-> IF status[c] \in Lifecycle!Verdict THEN FirstDay ELSE Null]
  /\ counted = {}
  /\ day = FirstDay
  /\ shown = [l \in List |-> IF l = "profile" THEN Unread ELSE Nothing]
  /\ out = [l \in List |-> <<>>]
  /\ pending = [p \in Page |-> Null]
  /\ asked = [c \in Case |-> IF answer[c] = Null THEN 0 ELSE 1]
  /\ toasts = asked
  /\ seen = {c \in Case : toasts[c] = 1}
  /\ late = {}
-----------------------------------------------------------------------------
(* The loads.  A list of cases is read by several statements, of which only *)
(* the one that reads the status matters: the first of the analyst's and    *)
(* the supervisor's list, the second of the customer's, whose first reads   *)
(* the transactions.  The ratings come later, but count for closed cases    *)
(* only, and those stay closed.  When the load is sent does not matter.     *)
Load(by, l) == [by |-> by, reply |-> IF l = "profile" THEN Unread ELSE Cases(l)]
Answered(l, load) == l = "profile" => IsRead(load.reply)

(* A page is opened, its timer fires, or the user asks for a refresh.      *)
Poll(l) ==
  /\ l \in open
  /\ IF out[l] = <<>> THEN UNCHANGED overlaps
     ELSE overlaps > 0 /\ overlaps' = overlaps - 1
  /\ out' = [out EXCEPT ![l] = Append(@, Load("timer", l))]
  /\ UNCHANGED <<services, shown, seen, toasts, pending, late, open, faults>>

(* The Gamification Service runs the next statement of a load.             *)
ReadProfile ==
  /\ \E i \in DOMAIN out["profile"] :
       /\ ~IsRead(out["profile"][i].reply)
       /\ out' = [out EXCEPT !["profile"][i].reply =
            Read(@, Me, Ledger, Cardinality(counted), HasBadge, day)]
  /\ UNCHANGED <<services, shown, seen, toasts, pending, late, bounds>>

(* activeVerificationCases and unseenVerificationIds.                      *)
ToVerify(items) == {c \in Case : items[c] # Null /\ items[c].status = "MUSTERI_DOGRULAMA"}
Unseen(items) == ToVerify(items) \ seen

Remembered(items) == seen \cup ToVerify(items)

(* finally: the action that waited for this load is over.                  *)
Over(l, load) ==
  pending' = IF load.by = "action" /\ l \in Page THEN [pending EXCEPT ![l] = Null] ELSE pending

(* After a decision the analyst's page loads the profile as well.          *)
Unloaded(l, i) == [out EXCEPT ![l] = RemoveAt(@, i)]
AfterLoad(l, i) ==
  IF l = "analyst" /\ out[l][i].by = "action" /\ pending[l].op = "decide" /\ "profile" \in open
  THEN [Unloaded(l, i) EXCEPT !["profile"] = Append(@, Load("action", "profile"))]
  ELSE Unloaded(l, i)

(* The answer arrives, and replaces what the list shows.                   *)
Arrive(l) ==
  /\ \E i \in DOMAIN out[l] :
       LET load == out[l][i] IN
       /\ Answered(l, load)
       /\ shown' = [shown EXCEPT ![l] = load.reply]
       /\ IF l = "customer"
          THEN /\ toasts' = [c \in Case |-> toasts[c] + IF c \in Unseen(load.reply) THEN 1 ELSE 0]
               /\ seen' = Remembered(load.reply)
          ELSE UNCHANGED <<toasts, seen>>
       /\ out' = AfterLoad(l, i)
       /\ Over(l, load)
  /\ UNCHANGED <<services, late, bounds>>

Fault == faults > 0 /\ faults' = faults - 1

(* The load fails: the list shows what it showed, and an error.            *)
LoadFails(l) ==
  /\ Fault
  /\ \E i \in DOMAIN out[l] : out' = AfterLoad(l, i) /\ Over(l, out[l][i])
  /\ UNCHANGED <<services, shown, seen, toasts, late, open, overlaps>>
-----------------------------------------------------------------------------
(* The actions.                                                            *)

(* Mutant: the buttons are there until the customer has answered.          *)
OfferedUntilDecided(p, item) ==
  CASE p = "customer"   -> IF item.status \notin {"ONAYLANDI", "BLOKLANDI", "KAPANDI"}
                           THEN {"answer"} ELSE {}
    [] p = "analyst"    -> IF item.status = "ATANDI" THEN {"start"}
                           ELSE IF item.status = "INCELENIYOR" THEN {"ask", "decide"} ELSE {}
    [] p = "supervisor" -> IF item.status = "YENI" THEN {"assign"} ELSE {}

(* The buttons page p has for a case it shows.                             *)
Offered(p, item) ==
  CASE p = "customer" /\ item.status = "MUSTERI_DOGRULAMA"             -> {"answer"}
    [] p = "customer" /\ item.status = "KAPANDI" /\ ~item.rated        -> {"rate"}
    [] p = "analyst" /\ item.status = "ATANDI"                         -> {"start"}
    [] p = "analyst" /\ item.status = "INCELENIYOR"                    -> {"ask", "decide"}
    [] p = "supervisor" /\ item.status = "YENI"                        -> {"assign"}
    [] p = "supervisor" /\ item.status \in {"ONAYLANDI", "BLOKLANDI"}  -> {"close"}
    [] OTHER                                                           -> {}

(* One action of a page at a time: pending disables its buttons.           *)
Click(p) ==
  /\ pending[p] = Null
  /\ \E c \in Case :
       /\ shown[p][c] # Null
       /\ \E op \in Offered(p, shown[p][c]) :
            /\ op = "ask" => asked[c] < MaxAsks
            /\ pending' = [pending EXCEPT ![p] = [op |-> op, case |-> c, at |-> "sent"]]
  /\ UNCHANGED <<services, loading, late, bounds>>

Reviewed(op, c) ==
  \/ op = "assign" /\ Lifecycle!Assign(c, Me)
  \/ op = "start" /\ Lifecycle!Review(c)
  \/ op = "answer" /\ \E r \in Answers : Lifecycle!CustomerAnswers(c, r)
  \/ op = "close" /\ Lifecycle!Close(c)
  \/ op = "rate" /\ Lifecycle!Rate(c, 5)

(* The Transaction Service carries a request out.                          *)
Accepts(op, c) ==
  \/ Reviewed(op, c) /\ UNCHANGED <<decided_on, asked>>
  \/ /\ op = "ask" /\ Lifecycle!AskCustomer(c)
     /\ asked' = [asked EXCEPT ![c] = @ + 1]
     /\ UNCHANGED decided_on
  \/ /\ op = "decide" /\ \E v \in Verdicts : Lifecycle!Decide(c, v)
     /\ decided_on' = [decided_on EXCEPT ![c] = day]
     /\ UNCHANGED asked

From ==
  [assign |-> {"YENI"}, start |-> {"ATANDI", "MUSTERI_DOGRULAMA"}, ask |-> {"INCELENIYOR"},
   answer |-> {"ATANDI", "MUSTERI_DOGRULAMA"}, decide |-> {"INCELENIYOR"},
   close |-> {"ONAYLANDI", "BLOKLANDI"}, rate |-> {"KAPANDI"}]
Refuses(op, c) == status[c] \notin From[op] \/ (op = "rate" /\ Rated(c))

At(p, stage) == pending[p] # Null /\ pending[p].at = stage
Goto(p, stage) == pending' = [pending EXCEPT ![p].at = stage]

(* Mutant: pending is reset after a success only.                          *)
StayPending(p) == Goto(p, "refused")

(* finally: the buttons come back.                                         *)
Release(p) == pending' = [pending EXCEPT ![p] = Null]

(* A request that is refused ends with an error on the page.               *)
Carry(p) ==
  /\ At(p, "sent")
  /\ \/ Accepts(pending[p].op, pending[p].case) /\ Goto(p, "done")
     \/ /\ Refuses(pending[p].op, pending[p].case)
        /\ Release(p)
        /\ UNCHANGED <<lifecycle, decided_on, asked>>
  /\ UNCHANGED <<counted, day, loading, late, bounds>>

(* Success: a notice, and a load that the buttons wait for.                *)
Succeed(p) ==
  /\ At(p, "done")
  /\ Goto(p, "loading")
  /\ out' = [out EXCEPT ![p] = Append(@, Load("action", p))]
  /\ UNCHANGED <<services, shown, seen, toasts, late, bounds>>

(* The connection breaks: the page complains, while the request may still  *)
(* be on its way.                                                          *)
Lose(p) ==
  /\ Fault
  /\ At(p, "sent") \/ At(p, "done")
  /\ Release(p)
  /\ \/ UNCHANGED late
     \/ At(p, "sent") /\ late' = {[op |-> pending[p].op, case |-> pending[p].case]}
  /\ UNCHANGED <<services, loading, open, overlaps>>

CarryLate ==
  /\ \E r \in late :
       \/ Accepts(r.op, r.case)
       \/ Refuses(r.op, r.case) /\ UNCHANGED <<lifecycle, decided_on, asked>>
  /\ late' = {}
  /\ UNCHANGED <<counted, day, loading, pending, bounds>>
-----------------------------------------------------------------------------
(* The gamification worker counts a decision; only the profile shows it.   *)
Count ==
  /\ "profile" \in open
  /\ \E c \in Case \ counted :
       /\ \E n \in DOMAIN log : Announces(n, c)
       /\ counted' = counted \cup {c}
  /\ UNCHANGED <<lifecycle, decided_on, day, asked, loading, pending, late, bounds>>

NewDay ==
  /\ "profile" \in open
  /\ day < LastDay
  /\ day' = day + 1
  /\ UNCHANGED <<lifecycle, decided_on, counted, asked, loading, pending, late, bounds>>

Next ==
  \/ \E l \in List : Poll(l) \/ Arrive(l) \/ LoadFails(l)
  \/ \E p \in Page : Click(p) \/ Carry(p) \/ Succeed(p) \/ Lose(p)
  \/ ReadProfile \/ CarryLate \/ Count \/ NewDay

Spec == Init /\ [][Next]_vars

(* The pages stay open, so their timers fire; requests are answered or     *)
(* fail; the event pipeline counts every decision (EventPipeline).  Users  *)
(* may do nothing at all.                                                  *)
Fairness ==
  /\ \A l \in List : WF_vars(Poll(l)) /\ WF_vars(Arrive(l))
  /\ \A p \in Page : WF_vars(Carry(p)) /\ WF_vars(Succeed(p))
  /\ WF_vars(ReadProfile) /\ WF_vars(CarryLate) /\ WF_vars(Count) /\ WF_vars(NewDay)

FairSpec == Spec /\ Fairness
-----------------------------------------------------------------------------
(***************************************************************************)
(* Correctness.                                                            *)
(***************************************************************************)

(* If the pages are the only clients, then whatever they show too late,    *)
(* send twice or send late, a customer's answer is one to a question: the  *)
(* service alone would take one before the review has begun.  And the      *)
(* customer was told of the case, once (customer/page.tsx, respond and     *)
(* seenNotifications).                                                     *)
AnswersMeetAQuestion ==
  \A c \in Case :
    /\ toasts[c] <= 1
    /\ answer[c] # Null => asked[c] > 0 /\ toasts[c] = 1

(* A profile never shows a confirmed fraud among the cases and points that *)
(* it counts without its badge, although both are read by statements of    *)
(* their own while the worker writes them (ProfileService.profile).        *)
PointsComeWithTheirBadge ==
  LET confirmed == {c \in counted : Rules!ConfirmedFraud(Data(c))} IN
  IsRead(shown["profile"]) /\ shown["profile"].resolved_cases > Cardinality(counted \ confirmed)
    => shown["profile"].badge

(* Whatever answers overtake each other or fail, in the end every page     *)
(* shows the rows, the points and the ranks as they are, and its buttons   *)
(* can be used again.                                                      *)
PagesCatchUp ==
  <>[](/\ \A l \in open : shown[l] = Actual(l)
       /\ \A p \in Page : pending[p] = Null)
=============================================================================
