-------------------------- MODULE TransactionIntake --------------------------
(***************************************************************************)
(* POST /transactions.  TransactionService.create asks the AI Service for  *)
(* a score and an analyst, gives it up after a timeout, and then stores    *)
(* the transaction, its number and its case in one commit of its own       *)
(* database.  The AI Service reserves the analyst's capacity in a commit   *)
(* of its own database, which goes on when the caller has given up.        *)
(* Analyst profiles are synchronised at the same time.                     *)
(***************************************************************************)
EXTENDS Integers, FiniteSets

CONSTANTS
  Transaction,       \* the requests; a request that is repeated is another one
  Analyst,
  Null,
  Score,             \* the scores the model may give, in units of 1/10^7
  Specialist,        \* the pairs <<i, a>> where a is a specialist of i's fraud type
  Accuracy,          \* Accuracy[a]: accuracy_rate, in percent
  Rank,              \* Rank[a]: the place of a's id in the order of ids
  Profiles,          \* the analyst profiles at the start; Null for none
  Sync,              \* the AnalystSyncRequests of this instance
  LastYear,          \* bound: the years are 1..LastYear
  MaxNumber          \* the last number of a year (999999 in the code)

Year == 1..LastYear
Profile == [active_cases: Nat, max_active_cases: Nat \ {0}, is_active: BOOLEAN]
SyncRequest == [analyst_id: Analyst, values: {p \in Profile : p.active_cases <= p.max_active_cases}]

Decision  == {"ONAY", "INCELEME", "BLOK"}
RiskLevel == {"DUSUK", "ORTA", "YUKSEK", "KRITIK", "BELIRSIZ"}
CaseRow   == [status: {"YENI", "ATANDI"}, assigned_analyst_id: Analyst \cup {Null}]
Row == [year: Year, number: Nat, risk_score: Int \cup {Null}, decision: Decision,
        risk_level: RiskLevel, ai_status: {"SCORED", "UNAVAILABLE"},
        temporary_blocked: BOOLEAN, case: CaseRow \cup {Null}]

ASSUME IntakeConstants ==
  /\ Score \subseteq Nat
  /\ Specialist \subseteq Transaction \X Analyst
  /\ Accuracy \in [Analyst -> 0..100]
  /\ Rank \in [Analyst -> Nat] /\ \A a, b \in Analyst : Rank[a] = Rank[b] => a = b
  /\ DOMAIN Profiles = Analyst
  /\ \A a \in Analyst : Profiles[a] = Null \/ Profiles[a] \in Profile
  /\ Sync \subseteq SyncRequest
  /\ LastYear \in Nat \ {0} /\ MaxNumber \in Nat
  /\ Null \notin Transaction \cup Analyst \cup Int
  /\ Null \notin Profile /\ Null \notin CaseRow /\ Null \notin Row

VARIABLES
  profile,           \* AI database: table analyst_profiles
  rowlock,           \* AI database: the scoring session that locked a's profile
  ai,                \* ai[i]: where the scoring session of i is
  wants,             \* wants[i]: the profile that session is about to lock, or Null
  eligible,          \* eligible[i]: the profiles its SELECT still has to return
  answer,            \* answer[i]: what the AI Service answered, or Null
  pc,                \* pc[i]: where create is
  verdict,           \* verdict[i]: the scoring values create goes on with, or Null
  stamp,             \* stamp[i]: the year of `now` in create, or Null
  year,              \* wall clock
  sequence,          \* table transaction_number_sequences
  seqlock,           \* seqlock[y]: the transaction that has updated the row of y
  number,            \* number[i]: the last_value its update returned, or Null
  stored,            \* table transactions, with the case of each, or Null
  syncing            \* syncing[y]: where sync of y is, and what upsert has read

aivars  == <<profile, rowlock, ai, wants, eligible, answer>>
txvars  == <<pc, verdict, stamp, sequence, seqlock, number, stored>>
vars    == <<aivars, txvars, year, syncing>>
------------------------------------------------------------------------------
DecisionFor(score) ==
  CASE score < 4000000                        -> "ONAY"
    [] score >= 4000000 /\ score <= 9000000   -> "INCELEME"
    [] score > 9000000                        -> "BLOK"

RiskLevelFor(score) ==
  CASE score < 4000000                        -> "DUSUK"
    [] score >= 4000000 /\ score < 7000000    -> "ORTA"
    [] score >= 7000000 /\ score <= 9000000   -> "YUKSEK"
    [] score > 9000000                        -> "KRITIK"

(* round(risk_score, 6): the answer carries less than what was compared.   *)
Rounded(score) == ((score + 5) \div 10) * 10

Answered(score, a) ==
  [risk_score |-> Rounded(score), decision |-> DecisionFor(score),
   risk_level |-> RiskLevelFor(score), assigned_analyst_id |-> a]

(* _scoring_values without an answer.                                      *)
Fallback ==
  [risk_score |-> Null, decision |-> "INCELEME", risk_level |-> "BELIRSIZ",
   assigned_analyst_id |-> Null]

(* Mutant: the rounded score alone decides on the block.                   *)
BlockedByScore(v) == v.risk_score # Null /\ v.risk_score > 9000000

TemporarilyBlocked(v) ==
  v.decision = "BLOK" \/ (v.risk_score # Null /\ v.risk_score > 9000000)

NeedsCase(v) == v = Fallback \/ v.decision # "ONAY" \/ v.risk_level # "DUSUK"

NewCase(v) ==
  [status |-> IF v.assigned_analyst_id = Null THEN "YENI" ELSE "ATANDI",
   assigned_analyst_id |-> v.assigned_analyst_id]

NewRow(v, y, n) ==
  [year |-> y, number |-> n, risk_score |-> v.risk_score, decision |-> v.decision,
   risk_level |-> v.risk_level, ai_status |-> IF v = Fallback THEN "UNAVAILABLE" ELSE "SCORED",
   temporary_blocked |-> TemporarilyBlocked(v),
   case |-> IF NeedsCase(v) THEN NewCase(v) ELSE Null]
------------------------------------------------------------------------------
Init ==
  /\ profile = Profiles
  /\ rowlock = [a \in Analyst |-> Null]
  /\ ai = [i \in Transaction |-> "idle"]
  /\ wants = [i \in Transaction |-> Null]
  /\ eligible = [i \in Transaction |-> {}]
  /\ answer = [i \in Transaction |-> Null]
  /\ pc = [i \in Transaction |-> "idle"]
  /\ verdict = [i \in Transaction |-> Null]
  /\ stamp = [i \in Transaction |-> Null]
  /\ year = 1
  /\ sequence = [y \in Year |-> 0]
  /\ seqlock = [y \in Year |-> Null]
  /\ number = [i \in Transaction |-> Null]
  /\ stored = [i \in Transaction |-> Null]
  /\ syncing = [y \in Sync |-> [at |-> "idle", read |-> Null]]

(* create has made its transaction id and posts it to the AI Service.      *)
Create(i) ==
  /\ pc[i] = "idle"
  /\ pc' = [pc EXCEPT ![i] = "calling"]
  /\ UNCHANGED <<aivars, verdict, stamp, year, sequence, seqlock, number, stored, syncing>>
------------------------------------------------------------------------------
(* Mutant: a full analyst may take one more.                               *)
UpToTheLimit(p) == p.is_active /\ p.active_cases <= p.max_active_cases

HasCapacity(p) == p.is_active /\ p.active_cases < p.max_active_cases

Eligible == {a \in Analyst : profile[a] # Null /\ HasCapacity(profile[a])}

(* The request reaches the AI Service and is scored.  An approval needs no *)
(* analyst; the others start SELECT ... FOR UPDATE with what is eligible.  *)
Predict(i) ==
  /\ pc[i] # "idle"
  /\ ai[i] = "idle"
  /\ \E score \in Score :
       IF DecisionFor(score) = "ONAY"
       THEN /\ ai' = [ai EXCEPT ![i] = "answered"]
            /\ answer' = [answer EXCEPT ![i] = Answered(score, Null)]
            /\ UNCHANGED eligible
       ELSE /\ ai' = [ai EXCEPT ![i] = "locking"]
            /\ answer' = [answer EXCEPT ![i] = Answered(score, Null)]
            /\ eligible' = [eligible EXCEPT ![i] = Eligible]
  /\ UNCHANGED <<profile, rowlock, wants, txvars, year, syncing>>

Held(i) == {a \in Analyst : rowlock[a] = i}

(* The statement has no ORDER BY: the rows come in any order.              *)
NextRow(i) ==
  /\ ai[i] = "locking"
  /\ wants[i] = Null
  /\ \E a \in eligible[i] \ Held(i) : wants' = [wants EXCEPT ![i] = a]
  /\ UNCHANGED <<profile, rowlock, ai, eligible, answer, txvars, year, syncing>>

(* PostgreSQL checks the condition again on the row it has waited for.     *)
LockRow(i) ==
  LET a == wants[i] IN
  /\ a # Null
  /\ rowlock[a] = Null
  /\ rowlock' = [rowlock EXCEPT ![a] = i]
  /\ eligible' = [eligible EXCEPT ![i] = IF a \in Eligible THEN @ ELSE @ \ {a}]
  /\ wants' = [wants EXCEPT ![i] = Null]
  /\ UNCHANGED <<profile, ai, answer, txvars, year, syncing>>

(* score, times 500 * max_active_cases: half for a specialist, 30% for the *)
(* free share of the capacity, 20% for the accuracy.                       *)
Weight(i, a) ==
  LET p == profile[a] IN
  (IF <<i, a>> \in Specialist THEN 250 ELSE 0) * p.max_active_cases
    + 150 * (p.max_active_cases - p.active_cases)
    + Accuracy[a] * p.max_active_cases

(* Mutant: the load of the analysts is left out of the ranking.            *)
BeforeInOrderOfIds(i, a, b) == Rank[a] < Rank[b]

(* The order of `sorted`: a better score, then fewer cases, then the id.   *)
Before(i, a, b) ==
  LET ours   == Weight(i, a) * profile[b].max_active_cases
      theirs == Weight(i, b) * profile[a].max_active_cases IN
  \/ ours > theirs
  \/ /\ ours = theirs
     /\ \/ profile[a].active_cases < profile[b].active_cases
        \/ profile[a].active_cases = profile[b].active_cases /\ Rank[a] < Rank[b]

(* Mutant: the answer goes out and the session is not closed.              *)
EndScoringOpen(i, result) ==
  /\ wants' = [wants EXCEPT ![i] = Null]
  /\ eligible' = [eligible EXCEPT ![i] = {}]
  /\ ai' = [ai EXCEPT ![i] = result]
  /\ UNCHANGED rowlock

(* COMMIT and ROLLBACK release the rows.                                   *)
EndScoring(i, result) ==
  /\ rowlock' = [a \in Analyst |-> IF rowlock[a] = i THEN Null ELSE rowlock[a]]
  /\ wants' = [wants EXCEPT ![i] = Null]
  /\ eligible' = [eligible EXCEPT ![i] = {}]
  /\ ai' = [ai EXCEPT ![i] = result]

(* Mutant: the answer goes out without session.commit().                   *)
ReserveUncommitted(i) ==
  /\ ai[i] = "locking" /\ wants[i] = Null
  /\ eligible[i] # {} /\ eligible[i] \subseteq Held(i)
  /\ \E a \in eligible[i] :
       /\ \A b \in eligible[i] \ {a} : Before(i, a, b)
       /\ answer' = [answer EXCEPT ![i].assigned_analyst_id = a]
  /\ EndScoring(i, "answered")
  /\ UNCHANGED <<profile, txvars, year, syncing>>

(* Every eligible row is locked: the first of them is reserved.  The rows  *)
(* were checked under their lock, so the update's condition holds.         *)
Reserve(i) ==
  /\ ai[i] = "locking" /\ wants[i] = Null
  /\ eligible[i] # {} /\ eligible[i] \subseteq Held(i)
  /\ \E a \in eligible[i] :
       /\ \A b \in eligible[i] \ {a} : Before(i, a, b)
       /\ profile' = [profile EXCEPT ![a].active_cases = @ + 1]
       /\ answer' = [answer EXCEPT ![i].assigned_analyst_id = a]
  /\ EndScoring(i, "answered")
  /\ UNCHANGED <<txvars, year, syncing>>

(* No analyst has room: the answer is QUEUED.                              *)
Queue(i) ==
  /\ ai[i] = "locking" /\ wants[i] = Null
  /\ eligible[i] = {}
  /\ EndScoring(i, "answered")
  /\ UNCHANGED <<profile, answer, txvars, year, syncing>>

AiFails(i) ==
  /\ EndScoring(i, "failed")
  /\ UNCHANGED <<profile, answer, txvars, year, syncing>>

(* The session or its process fails before the commit.                     *)
ScoringError(i) == ai[i] = "locking" /\ AiFails(i)

Waiting(i) == ai[i] = "locking" /\ wants[i] # Null /\ rowlock[wants[i]] # Null

(* Two sessions that lock the profiles in different orders wait for each   *)
(* other; PostgreSQL finds the circle and fails one of them.               *)
Deadlocked(i) ==
  \E S \in SUBSET Transaction :
    /\ i \in S
    /\ \A j \in S : Waiting(j)
    /\ {rowlock[wants[j]] : j \in S} = S

DeadlockVictim(i) == Deadlocked(i) /\ AiFails(i)
------------------------------------------------------------------------------
(* AnalystService.sync: upsert reads the profile without locking it ...    *)
SyncRead(y) ==
  /\ syncing[y].at = "idle"
  /\ syncing' = [syncing EXCEPT ![y] = [at |-> "writing", read |-> profile[y.analyst_id]]]
  /\ UNCHANGED <<aivars, txvars, year>>

(* ... and the commit writes the columns that differ from what was read,   *)
(* or inserts the row (a conflict, if somebody else has, is an error).     *)
SyncWrite(y) ==
  LET a == y.analyst_id IN
  /\ syncing[y].at = "writing"
  /\ rowlock[a] = Null
  /\ LET read == syncing[y].read IN
     profile' = [profile EXCEPT ![a] =
       IF read = Null THEN IF @ = Null THEN y.values ELSE @
       ELSE [f \in DOMAIN @ |-> IF y.values[f] = read[f] THEN @[f] ELSE y.values[f]]]
  /\ syncing' = [syncing EXCEPT ![y] = [at |-> "done", read |-> Null]]
  /\ UNCHANGED <<rowlock, ai, wants, eligible, answer, txvars, year>>
------------------------------------------------------------------------------
GoOnWith(i, v) ==
  /\ pc[i] = "calling"
  /\ verdict' = [verdict EXCEPT ![i] = v]
  /\ stamp' = [stamp EXCEPT ![i] = year]
  /\ pc' = [pc EXCEPT ![i] = "numbering"]
  /\ UNCHANGED <<aivars, year, sequence, seqlock, number, stored, syncing>>

Receive(i) == ai[i] = "answered" /\ GoOnWith(i, answer[i])

(* Mutant: create waits until the AI Service reports its failure.          *)
UnavailableWhenToldSo(i) == ai[i] = "failed" /\ GoOnWith(i, Fallback)

(* AIServiceUnavailable: a timeout, an HTTP error or an answer that is no  *)
(* AIScoringResult, whatever the AI Service did or still does.             *)
Unavailable(i) == GoOnWith(i, Fallback)

(* Mutant: the counter is read without keeping others from reading it.     *)
NobodyWaits(y) == TRUE

SequenceFree(y) == seqlock[y] = Null

(* INSERT ... ON CONFLICT DO UPDATE locks the year's row until the end.    *)
TakeNumber(i) ==
  LET y == stamp[i] IN
  /\ pc[i] = "numbering"
  /\ SequenceFree(y)
  /\ IF sequence[y] + 1 > MaxNumber
     THEN pc' = [pc EXCEPT ![i] = "exhausted"] /\ UNCHANGED <<seqlock, number>>
     ELSE /\ pc' = [pc EXCEPT ![i] = "inserting"]
          /\ seqlock' = [seqlock EXCEPT ![y] = i]
          /\ number' = [number EXCEPT ![i] = sequence[y] + 1]
  /\ UNCHANGED <<aivars, verdict, stamp, year, sequence, stored, syncing>>

ReleaseSequence(i) ==
  seqlock' = [y \in Year |-> IF seqlock[y] = i THEN Null ELSE seqlock[y]]

(* The transaction, its case, the history and the number in one commit.    *)
CommitRow(i) ==
  LET y == stamp[i] IN
  /\ pc[i] = "inserting"
  /\ sequence' = [sequence EXCEPT ![y] = number[i]]
  /\ stored' = [stored EXCEPT ![i] = NewRow(verdict[i], y, number[i])]
  /\ ReleaseSequence(i)
  /\ pc' = [pc EXCEPT ![i] = "created"]
  /\ UNCHANGED <<aivars, verdict, stamp, number, year, syncing>>

(* The database or the process fails: everything is rolled back.           *)
Abort(i) ==
  /\ pc[i] = "inserting"
  /\ ReleaseSequence(i)
  /\ pc' = [pc EXCEPT ![i] = "aborted"]
  /\ UNCHANGED <<aivars, verdict, stamp, number, year, sequence, stored, syncing>>

NewYear ==
  /\ year < LastYear
  /\ year' = year + 1
  /\ UNCHANGED <<aivars, txvars, syncing>>

Serve(i) == Receive(i) \/ Unavailable(i) \/ CommitRow(i)

Assignment(i) ==
  \/ Predict(i) \/ NextRow(i) \/ LockRow(i) \/ Reserve(i) \/ Queue(i)
  \/ ScoringError(i) \/ DeadlockVictim(i)

Next ==
  \/ \E i \in Transaction :
       Create(i) \/ Assignment(i) \/ Serve(i) \/ TakeNumber(i) \/ Abort(i)
  \/ \E y \in Sync : SyncRead(y) \/ SyncWrite(y)
  \/ NewYear

Spec == Init /\ [][Next]_vars

(* create goes on to its end (its call returns or times out, PostgreSQL    *)
(* serves those who wait for the counter in turn); of the AI Service       *)
(* nothing is assumed.                                                     *)
Fairness == \A i \in Transaction : WF_vars(Serve(i)) /\ SF_vars(TakeNumber(i))

FairSpec == Spec /\ Fairness

(* What the sessions of the AI Service need to end: they run on, a lock    *)
(* that is released again and again is granted, and PostgreSQL finds a     *)
(* circle (deadlock_timeout) and fails one session of it.                  *)
ScoringFairness ==
  /\ \A i \in Transaction :
       WF_vars(NextRow(i) \/ Reserve(i) \/ Queue(i)) /\ SF_vars(LockRow(i))
  /\ WF_vars(\E i \in Transaction : DeadlockVictim(i))
------------------------------------------------------------------------------
(***************************************************************************)
(* Correctness.                                                            *)
(***************************************************************************)
Numbered(y) == {i \in Transaction : stored[i] # Null /\ stored[i].year = y}

(* The transaction numbers of a year are 1, 2, 3, ... without a gap and    *)
(* without one given twice, whatever is rolled back or races for the next  *)
(* number, across the turn of the year (next_transaction_number).          *)
NumbersHaveNoGap ==
  \A y \in Year :
    /\ {stored[i].number : i \in Numbered(y)} = 1..sequence[y]
    /\ Cardinality(Numbered(y)) = sequence[y]

(* The two services agree on a transaction: it is blocked exactly when the *)
(* AI decided so, in spite of the rounding of the score; it goes without a *)
(* case exactly when it was scored and approved; and without an answer it  *)
(* is neither approved nor blocked, and waits for a supervisor.            *)
NobodySlipsThrough ==
  \A i \in Transaction : stored[i] # Null =>
    LET r == stored[i] IN
    /\ r.temporary_blocked <=> r.decision = "BLOK"
    /\ r.case = Null <=> r.decision = "ONAY" /\ r.ai_status = "SCORED"
    /\ r.decision = "BLOK" => r.risk_level = "KRITIK"
    /\ r.ai_status = "UNAVAILABLE" =>
         r.decision = "INCELEME" /\ r.case # Null /\ r.case.status = "YENI"

(* Reservations that race for the last place never exceed the capacity.    *)
NoOverbooking ==
  \A a \in Analyst : profile[a] # Null => profile[a].active_cases <= profile[a].max_active_cases

CasesOf(a) ==
  {i \in Transaction : stored[i] # Null /\ stored[i].case # Null
                       /\ stored[i].case.assigned_analyst_id = a}

(* Every case the AI assigned is counted in its analyst's load, though the *)
(* load and the case are in two databases.  (The converse fails: a call    *)
(* that is given up, or a create that fails, leaves a load without a case.)*)
CasesAreCounted ==
  \A a \in Analyst : Profiles[a] # Null =>
    Profiles[a].active_cases + Cardinality(CasesOf(a)) <= profile[a].active_cases

Alike(a, b) ==
  /\ Profiles[a] = Profiles[b]
  /\ Accuracy[a] = Accuracy[b]
  /\ \A i \in Transaction : <<i, a>> \in Specialist <=> <<i, b>> \in Specialist

(* The work is shared: the loads of two analysts who are alike never       *)
(* differ by more than one, however the reservations interleave.           *)
LoadIsBalanced ==
  \A a, b \in Analyst : Profiles[a] # Null /\ Profiles[a].is_active /\ Alike(a, b) =>
    profile[a].active_cases - profile[b].active_cases \in -1..1

(* A transaction is answered whatever becomes of the AI Service.           *)
EveryCreateEnds ==
  \A i \in Transaction : pc[i] = "calling" ~> pc[i] \in {"created", "aborted", "exhausted"}

(* A reservation ends in the AI Service too, though reservations lock      *)
(* every eligible profile in any order, wait for each other in a circle,   *)
(* and find profiles that were filled or synchronised while they waited.   *)
EveryScoringEnds ==
  ScoringFairness => \A i \in Transaction : ai[i] = "locking" ~> ai[i] # "locking"
==============================================================================
