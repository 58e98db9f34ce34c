----------------------- MODULE TransactionIntakeProofs -----------------------
(***************************************************************************)
(* What holds of TransactionIntake for any number of transactions,         *)
(* analysts, profile synchronisations and years.  On the transaction side  *)
(* it is that only who has locked a year's counter can count on; on the AI *)
(* side that a profile which was found free under its lock is still so     *)
(* when it is reserved.                                                    *)
(***************************************************************************)
EXTENDS TransactionIntake, FiniteSetTheorems, TLAPS

(* A verdict is the one without an answer, or one the AI Service gave.     *)
GivenBy(v, score, a) == v = Answered(score, a)
Given(v) == \E score \in Score, a \in Analyst \cup {Null} : GivenBy(v, score, a)

Numbering == {"numbering", "inserting", "created"}

Shapes ==
  /\ DOMAIN pc = Transaction /\ DOMAIN verdict = Transaction /\ DOMAIN stamp = Transaction
  /\ DOMAIN number = Transaction /\ DOMAIN stored = Transaction
  /\ DOMAIN sequence = Year /\ DOMAIN seqlock = Year /\ year \in Year
  /\ DOMAIN ai = Transaction /\ DOMAIN answer = Transaction /\ DOMAIN wants = Transaction
  /\ DOMAIN eligible = Transaction /\ DOMAIN profile = Analyst /\ DOMAIN rowlock = Analyst
  /\ DOMAIN syncing = Sync

(* An answer says nobody yet while the profiles are being locked.          *)
AnswersOK ==
  \A i \in Transaction :
    /\ ai[i] \in {"locking", "answered"} => Given(answer[i])
    /\ ai[i] = "locking" => answer[i].assigned_analyst_id = Null

VerdictsOK ==
  \A i \in Transaction : pc[i] \in Numbering =>
    /\ verdict[i] = Fallback \/ (ai[i] = "answered" /\ verdict[i] = answer[i])
    /\ stamp[i] \in Year

RowsOK ==
  \A i \in Transaction :
    IF pc[i] = "created" THEN stored[i] = NewRow(verdict[i], stamp[i], number[i]) /\ number[i] \in Nat
    ELSE stored[i] = Null

(* Whoever has the next number of a year has locked its counter.           *)
CountersOK ==
  /\ \A i \in Transaction : pc[i] = "inserting" =>
       seqlock[stamp[i]] = i /\ number[i] = sequence[stamp[i]] + 1
  /\ \A y \in Year :
       /\ sequence[y] \in Nat
       /\ seqlock[y] # Null => /\ seqlock[y] \in Transaction
                               /\ pc[seqlock[y]] = "inserting" /\ stamp[seqlock[y]] = y

NumbersOK ==
  \A y \in Year :
    /\ {stored[i].number : i \in Numbered(y)} = 1..sequence[y]
    /\ IsFiniteSet(Numbered(y)) /\ Cardinality(Numbered(y)) = sequence[y]

(* What a scoring session may have locked, and what it wants.              *)
LocksOK ==
  /\ \A i \in Transaction :
       /\ eligible[i] \subseteq Analyst
       /\ ai[i] # "locking" => wants[i] = Null /\ eligible[i] = {}
       /\ wants[i] # Null => wants[i] \in eligible[i]
  /\ \A a \in Analyst : rowlock[a] # Null =>
       /\ rowlock[a] \in Transaction /\ ai[rowlock[a]] = "locking"
       /\ a \in eligible[rowlock[a]] => profile[a] # Null /\ HasCapacity(profile[a])

ProfilesOK ==
  /\ \A a \in Analyst : profile[a] = Null \/ profile[a] \in Profile
  /\ \A y \in Sync : syncing[y].at = "writing" =>
       syncing[y].read = Null \/ (syncing[y].read \in Profile /\ profile[y.analyst_id] # Null)

Inv == /\ Shapes /\ AnswersOK /\ VerdictsOK /\ RowsOK /\ CountersOK /\ NumbersOK
       /\ LocksOK /\ ProfilesOK
------------------------------------------------------------------------------
(* The analysts have room for their cases at the start, and no             *)
(* synchronisation takes it away: nobody is synchronised twice, and a      *)
(* capacity is not lowered.                                                *)
RoomIsKept ==
  /\ \A a \in Analyst : Profiles[a] # Null =>
       Profiles[a].active_cases <= Profiles[a].max_active_cases
  /\ \A y \in Sync :
       /\ Profiles[y.analyst_id] # Null =>
            Profiles[y.analyst_id].max_active_cases <= y.values.max_active_cases
       /\ \A z \in Sync : z.analyst_id = y.analyst_id => z = y

(* Until it is synchronised a profile keeps the capacity it had.           *)
Capacity(p) == IF p = Null THEN Null ELSE p.max_active_cases

RoomInv ==
  /\ NoOverbooking
  /\ \A y \in Sync :
       /\ syncing[y].at \in {"idle", "writing"} =>
            Capacity(profile[y.analyst_id]) = Capacity(Profiles[y.analyst_id])
       /\ syncing[y].at = "writing" =>
            Capacity(syncing[y].read) = Capacity(Profiles[y.analyst_id])

(* Only analysts who are new are synchronised.                             *)
OnlyNewcomers == \A y \in Sync : Profiles[y.analyst_id] = Null

ReservedFor(a) == {i \in Transaction : ai[i] = "answered" /\ answer[i].assigned_analyst_id = a}

CountInv ==
  \A a \in Analyst : Profiles[a] # Null =>
    /\ profile[a] # Null /\ profile[a].max_active_cases = Profiles[a].max_active_cases
    /\ profile[a].is_active = Profiles[a].is_active
    /\ IsFiniteSet(ReservedFor(a))
    /\ profile[a].active_cases = Profiles[a].active_cases + Cardinality(ReservedFor(a))
------------------------------------------------------------------------------
(* Scores, verdicts and rows                                               *)

(* Rounding never takes a score past the limit of a block.                 *)
LEMMA RoundingIsSafe ==
  ASSUME NEW score \in Nat
  PROVE  Rounded(score) \in Int /\ (Rounded(score) > 9000000 => score > 9000000)
  BY SMT DEF Rounded

LEMMA AnsweredFields ==
  ASSUME NEW score \in Score, NEW a \in Analyst \cup {Null}, NEW v, GivenBy(v, score, a)
  PROVE  /\ v.risk_score = Rounded(score) /\ v.risk_score \in Int /\ v.risk_score # Null
         /\ v.decision = DecisionFor(score) /\ v.decision \in Decision
         /\ v.risk_level = RiskLevelFor(score) /\ v.risk_level \in RiskLevel
         /\ v.assigned_analyst_id = a /\ v # Fallback
  <1>1. score \in Nat
    BY IntakeConstants
  <1>2. Rounded(score) \in Int /\ Rounded(score) # Null
    BY <1>1, RoundingIsSafe, IntakeConstants, SMT
  <1>3. DecisionFor(score) \in Decision /\ RiskLevelFor(score) \in RiskLevel
    BY <1>1, SMT DEF DecisionFor, RiskLevelFor, Decision, RiskLevel
  <1>4. /\ v.risk_score = Rounded(score) /\ v.decision = DecisionFor(score)
        /\ v.risk_level = RiskLevelFor(score) /\ v.assigned_analyst_id = a
    BY DEF GivenBy, Answered
  <1>5. Fallback.risk_score = Null
    BY DEF Fallback
  <1> QED
    BY <1>2, <1>3, <1>4, <1>5

LEMMA FallbackFields ==
  /\ Fallback.risk_score = Null /\ Fallback.decision = "INCELEME"
  /\ Fallback.risk_level = "BELIRSIZ" /\ Fallback.assigned_analyst_id = Null
  BY DEF Fallback

LEMMA VerdictFields ==
  ASSUME NEW v, v = Fallback \/ Given(v)
  PROVE  /\ v.risk_score \in Int \cup {Null} /\ v.decision \in Decision
         /\ v.risk_level \in RiskLevel /\ v.assigned_analyst_id \in Analyst \cup {Null}
  <1>1. CASE v = Fallback
    BY <1>1, FallbackFields DEF Decision, RiskLevel
  <1>2. CASE Given(v)
    BY <1>2, AnsweredFields DEF Given
  <1> QED
    BY <1>1, <1>2

LEMMA NewCaseType ==
  ASSUME NEW v, v.assigned_analyst_id \in Analyst \cup {Null}
  PROVE  /\ NewCase(v) \in CaseRow /\ NewCase(v) # Null
         /\ NewCase(v).assigned_analyst_id = v.assigned_analyst_id
         /\ v.assigned_analyst_id = Null => NewCase(v).status = "YENI"
  BY IntakeConstants DEF NewCase, CaseRow

LEMMA NewRowFields ==
  ASSUME NEW v, v = Fallback \/ Given(v), NEW y \in Year, NEW n \in Nat, NEW row, row = NewRow(v, y, n)
  PROVE  /\ row # Null
         /\ row.year = y /\ row.number = n /\ row.decision = v.decision
         /\ row.risk_level = v.risk_level
         /\ row.ai_status = IF v = Fallback THEN "UNAVAILABLE" ELSE "SCORED"
         /\ row.temporary_blocked <=> TemporarilyBlocked(v)
         /\ row.case = IF NeedsCase(v) THEN NewCase(v) ELSE Null
  <1>1. /\ v.risk_score \in Int \cup {Null} /\ v.decision \in Decision
        /\ v.risk_level \in RiskLevel /\ v.assigned_analyst_id \in Analyst \cup {Null}
    BY VerdictFields
  <1>2. TemporarilyBlocked(v) = TRUE \/ TemporarilyBlocked(v) = FALSE
    BY <1>1, SMT DEF TemporarilyBlocked
  <1>3. PICK blocked \in BOOLEAN : blocked = TemporarilyBlocked(v)
    BY <1>2, Zenon
  <1>4. PICK kase : kase = IF NeedsCase(v) THEN NewCase(v) ELSE Null
    OBVIOUS
  <1>5. kase \in CaseRow \cup {Null}
    BY <1>1, <1>4, NewCaseType
  <1>6. PICK status \in {"SCORED", "UNAVAILABLE"} :
          status = IF v = Fallback THEN "UNAVAILABLE" ELSE "SCORED"
    OBVIOUS
  <1>7. row = [year |-> y, number |-> n, risk_score |-> v.risk_score, decision |-> v.decision,
               risk_level |-> v.risk_level, ai_status |-> status,
               temporary_blocked |-> blocked, case |-> kase]
    BY <1>3, <1>4, <1>6 DEF NewRow
  <1>8. /\ row \in Row /\ row.year = y /\ row.number = n /\ row.decision = v.decision
        /\ row.risk_level = v.risk_level /\ row.ai_status = status
        /\ row.temporary_blocked = blocked /\ row.case = kase
    BY <1>1, <1>5, <1>7 DEF Row
  <1>9. row # Null
    BY <1>8, IntakeConstants
  <1> QED
    BY <1>3, <1>4, <1>6, <1>8, <1>9

(* The two services agree on every verdict.                                *)
LEMMA VerdictsAgree ==
  ASSUME NEW v, v = Fallback \/ Given(v), NEW y \in Year, NEW n \in Nat, NEW row, row = NewRow(v, y, n)
  PROVE  /\ row.temporary_blocked <=> row.decision = "BLOK"
         /\ row.case = Null <=> row.decision = "ONAY" /\ row.ai_status = "SCORED"
         /\ row.decision = "BLOK" => row.risk_level = "KRITIK"
         /\ row.ai_status = "UNAVAILABLE" =>
              row.decision = "INCELEME" /\ row.case # Null /\ row.case.status = "YENI"
  <1>1. /\ row.decision = v.decision /\ row.risk_level = v.risk_level
        /\ row.ai_status = IF v = Fallback THEN "UNAVAILABLE" ELSE "SCORED"
        /\ row.temporary_blocked <=> TemporarilyBlocked(v)
        /\ row.case = IF NeedsCase(v) THEN NewCase(v) ELSE Null
    BY NewRowFields
  <1>2. NewCase(v) # Null /\ (v.assigned_analyst_id = Null => NewCase(v).status = "YENI")
    BY VerdictFields, NewCaseType
  <1>3. CASE v = Fallback
    BY <1>1, <1>2, <1>3, FallbackFields, IntakeConstants, SMT DEF TemporarilyBlocked, NeedsCase
  <1>4. CASE v # Fallback
    <2>1. PICK score \in Score, a \in Analyst \cup {Null} : GivenBy(v, score, a)
      BY <1>4 DEF Given
    <2>2. /\ v.risk_score = Rounded(score) /\ v.decision = DecisionFor(score)
          /\ v.risk_level = RiskLevelFor(score)
      BY <2>1, AnsweredFields
    <2>3. score \in Nat
      BY IntakeConstants
    <2>4. Rounded(score) > 9000000 => DecisionFor(score) = "BLOK"
      BY <2>3, RoundingIsSafe, SMT DEF DecisionFor
    <2>5. /\ DecisionFor(score) = "BLOK" => RiskLevelFor(score) = "KRITIK"
          /\ DecisionFor(score) = "ONAY" <=> RiskLevelFor(score) = "DUSUK"
      BY <2>3, SMT DEF DecisionFor, RiskLevelFor
    <2>6. TemporarilyBlocked(v) <=> v.decision = "BLOK"
      BY <2>2, <2>4, SMT DEF TemporarilyBlocked
    <2>7. NeedsCase(v) <=> v.decision # "ONAY"
      BY <1>4, <2>2, <2>5 DEF NeedsCase
    <2> QED
      BY <1>1, <1>2, <1>4, <2>2, <2>5, <2>6, <2>7
  <1> QED
    BY <1>3, <1>4
------------------------------------------------------------------------------
(* Initially                                                               *)

LEMMA InitInv ==
  ASSUME Init
  PROVE  Inv
  <1>1. 1 \in Year
    BY IntakeConstants DEF Year
  <1>2. Shapes
    BY <1>1, IntakeConstants DEF Init, Shapes
  <1>3. AnswersOK
    BY DEF Init, AnswersOK
  <1>4. VerdictsOK
    BY DEF Init, VerdictsOK, Numbering
  <1>5. RowsOK
    BY DEF Init, RowsOK
  <1>6. CountersOK
    BY DEF Init, CountersOK
  <1>7. NumbersOK
    <2> SUFFICES ASSUME NEW y \in Year
                 PROVE  /\ {stored[i].number : i \in Numbered(y)} = 1..sequence[y]
                        /\ IsFiniteSet(Numbered(y)) /\ Cardinality(Numbered(y)) = sequence[y]
      BY DEF NumbersOK
    <2>1. Numbered(y) = {} /\ sequence[y] = 0
      BY DEF Init, Numbered
    <2>2. 1..0 = {}
      OBVIOUS
    <2> QED
      BY <2>1, <2>2, FS_EmptySet
  <1>8. LocksOK
    BY DEF Init, LocksOK
  <1>9. ProfilesOK
    BY IntakeConstants DEF Init, ProfilesOK
  <1> QED
    BY <1>2, <1>3, <1>4, <1>5, <1>6, <1>7, <1>8, <1>9 DEF Inv
------------------------------------------------------------------------------
(* What one side does not touch                                            *)

LEMMA TransactionsUntouched ==
  ASSUME Inv, UNCHANGED txvars
  PROVE  RowsOK' /\ CountersOK' /\ NumbersOK'
  <1>1. RowsOK'
    BY DEF Inv, RowsOK, txvars
  <1>2. CountersOK'
    BY DEF Inv, CountersOK, txvars
  <1>3. NumbersOK'
    BY DEF Inv, NumbersOK, Numbered, txvars
  <1> QED
    BY <1>1, <1>2, <1>3

LEMMA ScoringUntouched ==
  ASSUME Inv, UNCHANGED <<aivars, syncing>>
  PROVE  AnswersOK' /\ LocksOK' /\ ProfilesOK'
  BY DEF Inv, AnswersOK, LocksOK, ProfilesOK, HasCapacity, aivars

(* A verdict stands while the answers that were given stand.               *)
LEMMA VerdictsStand ==
  ASSUME Inv, UNCHANGED txvars,
         \A i \in Transaction : ai[i] = "answered" => ai'[i] = "answered" /\ answer'[i] = answer[i]
  PROVE  VerdictsOK'
  BY DEF Inv, VerdictsOK, txvars

LEMMA YearUntouched ==
  ASSUME Inv, UNCHANGED <<aivars, txvars, syncing>>, year' \in Year
  PROVE  Inv'
  <1>1. VerdictsOK'
    BY VerdictsStand DEF aivars
  <1>2. Shapes'
    BY DEF Inv, Shapes, aivars, txvars
  <1> QED
    BY <1>1, <1>2, TransactionsUntouched, ScoringUntouched DEF Inv

LEMMA InvNewYear ==
  ASSUME Inv, NewYear
  PROVE  Inv'
  <1>1. year' \in Year
    BY IntakeConstants DEF Inv, Shapes, NewYear, Year
  <1> QED
    BY <1>1, YearUntouched DEF NewYear
------------------------------------------------------------------------------
(* The AI Service's sessions                                               *)

LEMMA ShapesOfScoring ==
  ASSUME Inv, UNCHANGED <<txvars, year>>, DOMAIN ai' = Transaction, DOMAIN answer' = Transaction,
         DOMAIN wants' = Transaction, DOMAIN eligible' = Transaction, DOMAIN profile' = Analyst,
         DOMAIN rowlock' = Analyst, DOMAIN syncing' = Sync
  PROVE  Shapes'
  BY DEF Inv, Shapes, txvars

LEMMA InvPredict ==
  ASSUME Inv, NEW i \in Transaction, Predict(i)
  PROVE  Inv'
  <1>1. UNCHANGED <<profile, rowlock, wants, txvars, year, syncing>> /\ ai[i] = "idle"
    BY DEF Predict
  <1>2. PICK score \in Score :
          /\ answer' = [answer EXCEPT ![i] = Answered(score, Null)]
          /\ \/ ai' = [ai EXCEPT ![i] = "answered"] /\ eligible' = eligible
             \/ /\ ai' = [ai EXCEPT ![i] = "locking"]
                /\ eligible' = [eligible EXCEPT ![i] = Eligible]
    BY DEF Predict
  <1>3. PICK new : new = Answered(score, Null)
    OBVIOUS
  <1>4. Given(new) /\ new.assigned_analyst_id = Null
    BY <1>3 DEF Given, GivenBy, Answered
  <1>5. answer' = [answer EXCEPT ![i] = new]
    BY <1>2, <1>3
  <1>6. Shapes'
    BY <1>1, <1>2, <1>5, ShapesOfScoring DEF Inv, Shapes
  <1>7. AnswersOK'
    BY <1>2, <1>4, <1>5 DEF Inv, AnswersOK, Shapes
  <1>8. VerdictsOK'
    <2>1. \A j \in Transaction : ai[j] = "answered" => ai'[j] = "answered" /\ answer'[j] = answer[j]
      BY <1>1, <1>2, <1>5 DEF Inv, Shapes
    <2> QED
      BY <1>1, <2>1, VerdictsStand
  <1>9. LocksOK'
    <2>1. \A j \in Transaction : j # i => ai'[j] = ai[j] /\ eligible'[j] = eligible[j]
      BY <1>2 DEF Inv, Shapes
    <2>2. \A a \in Analyst : rowlock[a] # Null => rowlock[a] \in Transaction /\ rowlock[a] # i
      BY <1>1 DEF Inv, LocksOK
    <2>3. wants[i] = Null /\ eligible[i] = {}
      BY <1>1 DEF Inv, LocksOK
    <2>4. /\ eligible'[i] \subseteq Analyst
          /\ ai'[i] # "locking" => eligible'[i] = {}
      BY <1>2, <2>3 DEF Inv, Shapes, Eligible
    <2> QED
      BY <1>1, <2>1, <2>2, <2>3, <2>4 DEF Inv, LocksOK, HasCapacity
  <1>10. ProfilesOK'
    BY <1>1 DEF Inv, ProfilesOK
  <1> QED
    BY <1>1, <1>6, <1>7, <1>8, <1>9, <1>10, TransactionsUntouched DEF Inv

LEMMA InvNextRow ==
  ASSUME Inv, NEW i \in Transaction, NextRow(i)
  PROVE  Inv'
  <1>1. /\ UNCHANGED <<profile, rowlock, ai, eligible, answer, txvars, year, syncing>>
        /\ ai[i] = "locking"
    BY DEF NextRow
  <1>2. PICK a \in eligible[i] : wants' = [wants EXCEPT ![i] = a]
    BY DEF NextRow
  <1>3. Shapes'
    BY <1>1, <1>2, ShapesOfScoring DEF Inv, Shapes
  <1>4. AnswersOK' /\ VerdictsOK' /\ ProfilesOK'
    BY <1>1, VerdictsStand DEF Inv, AnswersOK, ProfilesOK
  <1>5. LocksOK'
    BY <1>1, <1>2 DEF Inv, Shapes, LocksOK, HasCapacity
  <1> QED
    BY <1>1, <1>3, <1>4, <1>5, TransactionsUntouched DEF Inv

LEMMA InvLockRow ==
  ASSUME Inv, NEW i \in Transaction, LockRow(i)
  PROVE  Inv'
  <1>1. /\ UNCHANGED <<profile, ai, answer, txvars, year, syncing>>
        /\ rowlock[wants[i]] = Null /\ wants[i] # Null
        /\ rowlock' = [rowlock EXCEPT ![wants[i]] = i]
        /\ wants' = [wants EXCEPT ![i] = Null]
    BY DEF LockRow
  <1>2. PICK a : a = wants[i]
    OBVIOUS
  <1>3. a \in eligible[i] /\ a \in Analyst /\ ai[i] = "locking"
    BY <1>1, <1>2 DEF Inv, LocksOK
  <1>4. /\ eligible'[i] = IF a \in Eligible THEN eligible[i] ELSE eligible[i] \ {a}
        /\ \A j \in Transaction : j # i => eligible'[j] = eligible[j]
        /\ DOMAIN eligible' = Transaction
    BY <1>2 DEF LockRow, Inv, Shapes
  <1>5. Shapes'
    BY <1>1, <1>4, ShapesOfScoring DEF Inv, Shapes
  <1>6. AnswersOK' /\ VerdictsOK' /\ ProfilesOK'
    BY <1>1, VerdictsStand DEF Inv, AnswersOK, ProfilesOK
  <1>7. \A j \in Transaction :
          /\ eligible'[j] \subseteq Analyst
          /\ ai'[j] # "locking" => wants'[j] = Null /\ eligible'[j] = {}
          /\ wants'[j] # Null => wants'[j] \in eligible'[j]
    <2> TAKE j \in Transaction
    <2>1. CASE j = i
      BY <1>1, <1>3, <1>4, <2>1 DEF Inv, Shapes, LocksOK
    <2>2. CASE j # i
      BY <1>1, <1>4, <2>2 DEF Inv, Shapes, LocksOK
    <2> QED
      BY <2>1, <2>2
  <1>8. \A b \in Analyst : rowlock'[b] # Null =>
          /\ rowlock'[b] \in Transaction /\ ai'[rowlock'[b]] = "locking"
          /\ b \in eligible'[rowlock'[b]] => profile'[b] # Null /\ HasCapacity(profile'[b])
    <2> TAKE b \in Analyst
    <2>1. CASE b = a
      <3>1. rowlock'[b] = i
        BY <1>1, <1>2, <1>3, <2>1 DEF Inv, Shapes
      <3>2. b \in eligible'[i] => b \in Eligible
        BY <1>4, <2>1
      <3> QED
        BY <1>1, <1>3, <3>1, <3>2 DEF Eligible
    <2>2. CASE b # a
      <3>1. rowlock'[b] = rowlock[b]
        BY <1>1, <1>2, <1>3, <2>2 DEF Inv, Shapes
      <3>2. eligible'[rowlock[b]] \subseteq eligible[rowlock[b]] \/ rowlock[b] = Null
        BY <1>4 DEF Inv, LocksOK
      <3> QED
        BY <1>1, <3>1, <3>2 DEF Inv, LocksOK
    <2> QED
      BY <2>1, <2>2
  <1>9. LocksOK'
    BY <1>7, <1>8 DEF LocksOK, HasCapacity
  <1> QED
    BY <1>1, <1>5, <1>6, <1>9, TransactionsUntouched DEF Inv

(* The end of a session disturbs nobody else's rows.                       *)
LEMMA EndedSessions ==
  ASSUME Inv, NEW i \in Transaction, NEW result \in {"answered", "failed"}, EndScoring(i, result),
         \A b \in Analyst : rowlock[b] # i /\ rowlock[b] # Null => profile'[b] = profile[b]
  PROVE  /\ LocksOK'
         /\ DOMAIN ai' = Transaction /\ DOMAIN wants' = Transaction
         /\ DOMAIN eligible' = Transaction /\ DOMAIN rowlock' = Analyst
         /\ ai'[i] = result /\ \A j \in Transaction : j # i => ai'[j] = ai[j]
  <1>1. /\ \A b \in Analyst : rowlock'[b] = IF rowlock[b] = i THEN Null ELSE rowlock[b]
        /\ DOMAIN rowlock' = Analyst
    BY DEF EndScoring
  <1>2. /\ wants'[i] = Null /\ eligible'[i] = {} /\ ai'[i] = result
        /\ \A j \in Transaction : j # i =>
             ai'[j] = ai[j] /\ wants'[j] = wants[j] /\ eligible'[j] = eligible[j]
        /\ DOMAIN ai' = Transaction /\ DOMAIN wants' = Transaction /\ DOMAIN eligible' = Transaction
    BY DEF EndScoring, Inv, Shapes
  <1>3. \A j \in Transaction :
          /\ eligible'[j] \subseteq Analyst
          /\ ai'[j] # "locking" => wants'[j] = Null /\ eligible'[j] = {}
          /\ wants'[j] # Null => wants'[j] \in eligible'[j]
    BY <1>2 DEF Inv, LocksOK
  <1>4. \A b \in Analyst : rowlock'[b] # Null =>
          /\ rowlock'[b] \in Transaction /\ ai'[rowlock'[b]] = "locking"
          /\ b \in eligible'[rowlock'[b]] => profile'[b] # Null /\ HasCapacity(profile'[b])
    BY <1>1, <1>2 DEF Inv, LocksOK
  <1> QED
    BY <1>1, <1>2, <1>3, <1>4 DEF LocksOK, HasCapacity

LEMMA InvReserve ==
  ASSUME Inv, NEW i \in Transaction, Reserve(i)
  PROVE  Inv'
  <1>1. /\ UNCHANGED <<txvars, year, syncing>> /\ ai[i] = "locking" /\ EndScoring(i, "answered")
        /\ eligible[i] \subseteq Held(i)
    BY DEF Reserve
  <1>2. PICK a \in eligible[i] :
          /\ profile' = [profile EXCEPT ![a].active_cases = @ + 1]
          /\ answer' = [answer EXCEPT ![i].assigned_analyst_id = a]
    BY DEF Reserve
  <1>3. a \in Analyst /\ rowlock[a] = i /\ i # Null
    BY <1>1, IntakeConstants DEF Held
  <1>4. profile[a] # Null /\ HasCapacity(profile[a]) /\ profile[a] \in Profile
    BY <1>3 DEF Inv, LocksOK, ProfilesOK
  <1>5. PICK p : p = [profile[a] EXCEPT !.active_cases = @ + 1]
    OBVIOUS
  <1>6. p \in Profile /\ p # Null
    BY <1>4, <1>5, IntakeConstants DEF Profile
  <1>7. profile' = [profile EXCEPT ![a] = p]
    BY <1>2, <1>5
  <1>8. /\ DOMAIN profile' = Analyst /\ profile'[a] = p
        /\ \A b \in Analyst : b # a => profile'[b] = profile[b]
    BY <1>3, <1>7 DEF Inv, Shapes
  <1>9. /\ LocksOK'
        /\ DOMAIN ai' = Transaction /\ DOMAIN wants' = Transaction
        /\ DOMAIN eligible' = Transaction /\ DOMAIN rowlock' = Analyst
        /\ ai'[i] = "answered" /\ \A j \in Transaction : j # i => ai'[j] = ai[j]
    <2>1. \A b \in Analyst : rowlock[b] # i /\ rowlock[b] # Null => profile'[b] = profile[b]
      BY <1>3, <1>8
    <2> QED
      BY <1>1, <2>1, EndedSessions
  <1>10. PICK new : new = [answer[i] EXCEPT !.assigned_analyst_id = a]
    OBVIOUS
  <1>11. Given(new)
    <2>1. PICK score \in Score, b \in Analyst \cup {Null} : GivenBy(answer[i], score, b)
      BY <1>1 DEF Inv, AnswersOK, Given
    <2>2. GivenBy(new, score, a)
      BY <1>10, <2>1 DEF GivenBy, Answered
    <2> QED
      BY <1>3, <2>2 DEF Given
  <1>12. /\ DOMAIN answer' = Transaction /\ answer'[i] = new
         /\ \A j \in Transaction : j # i => answer'[j] = answer[j]
    BY <1>2, <1>10 DEF Inv, Shapes
  <1>13. Shapes'
    BY <1>1, <1>8, <1>9, <1>12, ShapesOfScoring DEF Inv, Shapes
  <1>14. AnswersOK'
    BY <1>9, <1>11, <1>12 DEF Inv, AnswersOK
  <1>15. VerdictsOK'
    <2>1. \A j \in Transaction : ai[j] = "answered" => ai'[j] = "answered" /\ answer'[j] = answer[j]
      BY <1>1, <1>9, <1>12
    <2> QED
      BY <1>1, <2>1, VerdictsStand
  <1>16. ProfilesOK'
    BY <1>1, <1>6, <1>8, IntakeConstants DEF Inv, ProfilesOK, SyncRequest
  <1> QED
    BY <1>1, <1>9, <1>13, <1>14, <1>15, <1>16, TransactionsUntouched DEF Inv

(* A session that ends without a reservation.                              *)
LEMMA InvEndScoring ==
  ASSUME Inv, NEW i \in Transaction, NEW result \in {"answered", "failed"},
         ai[i] = "locking", EndScoring(i, result),
         UNCHANGED <<profile, answer, txvars, year, syncing>>
  PROVE  Inv'
  <1>1. /\ LocksOK'
        /\ DOMAIN ai' = Transaction /\ DOMAIN wants' = Transaction
        /\ DOMAIN eligible' = Transaction /\ DOMAIN rowlock' = Analyst
        /\ ai'[i] = result /\ \A j \in Transaction : j # i => ai'[j] = ai[j]
    BY EndedSessions
  <1>2. Shapes'
    BY <1>1, ShapesOfScoring DEF Inv, Shapes
  <1>3. AnswersOK'
    BY <1>1 DEF Inv, AnswersOK
  <1>4. VerdictsOK'
    <2>1. \A j \in Transaction : ai[j] = "answered" => ai'[j] = "answered" /\ answer'[j] = answer[j]
      BY <1>1
    <2> QED
      BY <2>1, VerdictsStand
  <1>5. ProfilesOK'
    BY DEF Inv, ProfilesOK
  <1> QED
    BY <1>1, <1>2, <1>3, <1>4, <1>5, TransactionsUntouched DEF Inv

LEMMA InvQueue ==
  ASSUME Inv, NEW i \in Transaction, Queue(i)
  PROVE  Inv'
  BY InvEndScoring DEF Queue

LEMMA InvFailures ==
  ASSUME Inv, NEW i \in Transaction, ScoringError(i) \/ DeadlockVictim(i)
  PROVE  Inv'
  <1>1. ai[i] = "locking"
    BY DEF ScoringError, DeadlockVictim, Deadlocked, Waiting
  <1> QED
    BY <1>1, InvEndScoring DEF ScoringError, DeadlockVictim, AiFails

LEMMA InvAssignment ==
  ASSUME Inv, NEW i \in Transaction, Assignment(i)
  PROVE  Inv'
  BY InvPredict, InvNextRow, InvLockRow, InvReserve, InvQueue, InvFailures DEF Assignment
------------------------------------------------------------------------------
(* The synchronisation of profiles                                         *)

LEMMA InvSyncRead ==
  ASSUME Inv, NEW y \in Sync, SyncRead(y)
  PROVE  Inv'
  <1>1. UNCHANGED <<aivars, txvars, year>>
    BY DEF SyncRead
  <1>2. PICK read : read = profile[y.analyst_id]
    OBVIOUS
  <1>3. syncing' = [syncing EXCEPT ![y] = [at |-> "writing", read |-> read]]
    BY <1>2 DEF SyncRead
  <1>4. /\ DOMAIN syncing' = Sync
        /\ syncing'[y].at = "writing" /\ syncing'[y].read = read
        /\ \A z \in Sync : z # y => syncing'[z] = syncing[z]
    BY <1>3 DEF Inv, Shapes
  <1>5. y.analyst_id \in Analyst
    BY IntakeConstants DEF SyncRequest
  <1>6. read = Null \/ (read \in Profile /\ profile[y.analyst_id] # Null)
    BY <1>2, <1>5 DEF Inv, ProfilesOK
  <1>7. Shapes'
    BY <1>1, <1>4 DEF Inv, Shapes, aivars, txvars
  <1>8. VerdictsOK'
    BY <1>1, VerdictsStand DEF aivars
  <1>9. AnswersOK' /\ LocksOK'
    BY <1>1 DEF Inv, AnswersOK, LocksOK, HasCapacity, aivars
  <1>10. ProfilesOK'
    BY <1>1, <1>4, <1>6 DEF Inv, ProfilesOK, aivars
  <1> QED
    BY <1>1, <1>7, <1>8, <1>9, <1>10, TransactionsUntouched DEF Inv

(* What the commit of a synchronisation leaves in a profile's row.         *)
Merged(p, y, read) ==
  IF read = Null THEN IF p = Null THEN y.values ELSE p
  ELSE [f \in DOMAIN p |-> IF y.values[f] = read[f] THEN p[f] ELSE y.values[f]]

LEMMA MergedFields ==
  ASSUME NEW y \in Sync, NEW p \in Profile, NEW read \in Profile, NEW new, new = Merged(p, y, read)
  PROVE  /\ new \in Profile
         /\ new.active_cases \in {p.active_cases, y.values.active_cases}
         /\ y.values.active_cases = read.active_cases => new.active_cases = p.active_cases
         /\ y.values.max_active_cases = read.max_active_cases =>
              new.max_active_cases = p.max_active_cases
         /\ y.values.max_active_cases # read.max_active_cases =>
              new.max_active_cases = y.values.max_active_cases
  <1>1. y.values \in Profile /\ read # Null
    BY IntakeConstants DEF SyncRequest
  <1>2. DOMAIN p = {"active_cases", "max_active_cases", "is_active"}
    BY DEF Profile
  <1>3. new = [f \in {"active_cases", "max_active_cases", "is_active"} |->
                 IF y.values[f] = read[f] THEN p[f] ELSE y.values[f]]
    BY <1>1, <1>2 DEF Merged
  <1>4. PICK n \in Nat, m \in Nat \ {0}, b \in BOOLEAN :
          /\ n = IF y.values.active_cases = read.active_cases
                 THEN p.active_cases ELSE y.values.active_cases
          /\ m = IF y.values.max_active_cases = read.max_active_cases
                 THEN p.max_active_cases ELSE y.values.max_active_cases
          /\ b = IF y.values.is_active = read.is_active THEN p.is_active ELSE y.values.is_active
    BY <1>1, Zenon DEF Profile
  <1>5. new = [active_cases |-> n, max_active_cases |-> m, is_active |-> b]
    BY <1>3, <1>4
  <1>6. /\ new \in Profile /\ new.active_cases = n /\ new.max_active_cases = m
    BY <1>5 DEF Profile
  <1> QED
    BY <1>4, <1>6

(* The row that SyncWrite changes, and what it makes of it.                *)
LEMMA SyncWriteFields ==
  ASSUME Inv, NEW y \in Sync, SyncWrite(y), NEW a, a = y.analyst_id,
         NEW read, read = syncing[y].read, NEW new, new = Merged(profile[a], y, read)
  PROVE  /\ a \in Analyst /\ rowlock[a] = Null /\ syncing[y].at = "writing"
         /\ read = Null \/ (read \in Profile /\ profile[a] \in Profile)
         /\ DOMAIN profile' = Analyst /\ profile'[a] = new
         /\ \A b \in Analyst : b # a => profile'[b] = profile[b]
         /\ DOMAIN syncing' = Sync /\ syncing'[y].at = "done"
         /\ \A z \in Sync : z # y => syncing'[z] = syncing[z]
         /\ profile[a] = Null => new = Null \/ new = y.values
         /\ profile[a] # Null => new \in Profile /\ new # Null
         /\ new \in Profile \cup {Null}
  <1>1. a \in Analyst /\ y.values \in Profile
    BY IntakeConstants DEF SyncRequest
  <1>2. rowlock[a] = Null /\ syncing[y].at = "writing"
    BY DEF SyncWrite
  <1>3. profile[a] = Null \/ profile[a] \in Profile
    BY <1>1 DEF Inv, ProfilesOK
  <1>4. read = Null \/ (read \in Profile /\ profile[a] \in Profile)
    BY <1>2, <1>3 DEF Inv, ProfilesOK
  <1>5. profile' = [profile EXCEPT ![a] = new]
    BY DEF SyncWrite, Merged
  <1>6. /\ DOMAIN profile' = Analyst /\ profile'[a] = new
        /\ \A b \in Analyst : b # a => profile'[b] = profile[b]
    BY <1>1, <1>5 DEF Inv, Shapes
  <1>7. /\ DOMAIN syncing' = Sync /\ syncing'[y].at = "done"
        /\ \A z \in Sync : z # y => syncing'[z] = syncing[z]
    BY DEF SyncWrite, Inv, Shapes
  <1>8. CASE read = Null
    BY <1>1, <1>2, <1>3, <1>4, <1>6, <1>7, <1>8, IntakeConstants DEF Merged
  <1>9. CASE read # Null
    <2>1. new \in Profile /\ new # Null /\ profile[a] # Null
      BY <1>4, <1>9, MergedFields, IntakeConstants
    <2> QED
      BY <1>1, <1>2, <1>4, <1>6, <1>7, <2>1
  <1> QED
    BY <1>8, <1>9

LEMMA InvSyncWrite ==
  ASSUME Inv, NEW y \in Sync, SyncWrite(y)
  PROVE  Inv'
  <1>1. UNCHANGED <<rowlock, ai, wants, eligible, answer, txvars, year>>
    BY DEF SyncWrite
  <1>2. PICK a : a = y.analyst_id
    OBVIOUS
  <1>3. PICK read : read = syncing[y].read
    OBVIOUS
  <1>4. PICK new : new = Merged(profile[a], y, read)
    OBVIOUS
  <1>5. /\ a \in Analyst /\ rowlock[a] = Null
        /\ DOMAIN profile' = Analyst /\ profile'[a] = new
        /\ \A b \in Analyst : b # a => profile'[b] = profile[b]
        /\ DOMAIN syncing' = Sync /\ syncing'[y].at = "done"
        /\ \A z \in Sync : z # y => syncing'[z] = syncing[z]
        /\ profile[a] # Null => new # Null
        /\ new \in Profile \cup {Null}
    BY <1>2, <1>3, <1>4, SyncWriteFields
  <1>6. Shapes'
    BY <1>1, <1>5, ShapesOfScoring DEF Inv, Shapes
  <1>7. AnswersOK' /\ VerdictsOK'
    BY <1>1, VerdictsStand DEF Inv, AnswersOK
  <1>8. LocksOK'
    BY <1>1, <1>5 DEF Inv, LocksOK, HasCapacity
  <1>9. ProfilesOK'
    <2>1. \A b \in Analyst : profile'[b] = Null \/ profile'[b] \in Profile
      BY <1>5 DEF Inv, ProfilesOK
    <2>2. \A z \in Sync : syncing'[z].at = "writing" =>
            syncing'[z].read = Null \/ (syncing'[z].read \in Profile /\ profile'[z.analyst_id] # Null)
      <3> SUFFICES ASSUME NEW z \in Sync, syncing'[z].at = "writing"
                   PROVE  syncing'[z].read = Null
                          \/ (syncing'[z].read \in Profile /\ profile'[z.analyst_id] # Null)
        OBVIOUS
      <3>1. syncing'[z] = syncing[z]
        BY <1>5
      <3>2. z.analyst_id \in Analyst
        BY IntakeConstants DEF SyncRequest
      <3> QED
        BY <1>5, <3>1, <3>2 DEF Inv, ProfilesOK
    <2> QED
      BY <2>1, <2>2 DEF ProfilesOK
  <1> QED
    BY <1>1, <1>6, <1>7, <1>8, <1>9, TransactionsUntouched DEF Inv
------------------------------------------------------------------------------
(* The creation of a transaction                                           *)

(* A step that stores nothing and counts nothing.                          *)
LEMMA CountersUntouched ==
  ASSUME Inv, UNCHANGED <<sequence, stored>>
  PROVE  NumbersOK'
  BY DEF Inv, NumbersOK, Numbered

LEMMA ShapesOfCreation ==
  ASSUME Inv, UNCHANGED <<aivars, syncing, year>>, DOMAIN pc' = Transaction,
         DOMAIN verdict' = Transaction, DOMAIN stamp' = Transaction, DOMAIN number' = Transaction,
         DOMAIN stored' = Transaction, DOMAIN sequence' = Year, DOMAIN seqlock' = Year
  PROVE  Shapes'
  BY DEF Inv, Shapes, aivars

LEMMA InvCreate ==
  ASSUME Inv, NEW i \in Transaction, Create(i)
  PROVE  Inv'
  <1>1. /\ UNCHANGED <<aivars, verdict, stamp, year, sequence, seqlock, number, stored, syncing>>
        /\ DOMAIN pc' = Transaction /\ pc[i] = "idle" /\ pc'[i] = "calling"
        /\ \A j \in Transaction : j # i => pc'[j] = pc[j]
    BY DEF Create, Inv, Shapes
  <1>2. Shapes'
    BY <1>1, ShapesOfCreation DEF Inv, Shapes
  <1>3. VerdictsOK'
    BY <1>1 DEF Inv, VerdictsOK, Numbering, aivars
  <1>4. RowsOK'
    BY <1>1 DEF Inv, RowsOK
  <1>5. CountersOK'
    BY <1>1 DEF Inv, CountersOK
  <1> QED
    BY <1>1, <1>2, <1>3, <1>4, <1>5, ScoringUntouched, CountersUntouched DEF Inv

(* create goes on with an answer, or without one.                          *)
LEMMA InvGoOnWith ==
  ASSUME Inv, NEW i \in Transaction, NEW v, GoOnWith(i, v),
         v = Fallback \/ (ai[i] = "answered" /\ v = answer[i])
  PROVE  Inv'
  <1>1. /\ UNCHANGED <<aivars, year, sequence, seqlock, number, stored, syncing>>
        /\ DOMAIN pc' = Transaction /\ DOMAIN verdict' = Transaction /\ DOMAIN stamp' = Transaction
        /\ pc[i] = "calling" /\ pc'[i] = "numbering" /\ verdict'[i] = v /\ stamp'[i] = year
        /\ \A j \in Transaction : j # i =>
             pc'[j] = pc[j] /\ verdict'[j] = verdict[j] /\ stamp'[j] = stamp[j]
    BY DEF GoOnWith, Inv, Shapes
  <1>2. Shapes'
    BY <1>1, ShapesOfCreation DEF Inv, Shapes
  <1>3. VerdictsOK'
    BY <1>1 DEF Inv, Shapes, VerdictsOK, aivars
  <1>4. RowsOK'
    BY <1>1 DEF Inv, RowsOK
  <1>5. CountersOK'
    BY <1>1 DEF Inv, CountersOK
  <1> QED
    BY <1>1, <1>2, <1>3, <1>4, <1>5, ScoringUntouched, CountersUntouched DEF Inv

LEMMA InvTakeNumber ==
  ASSUME Inv, NEW i \in Transaction, TakeNumber(i)
  PROVE  Inv'
  <1>1. /\ UNCHANGED <<aivars, verdict, stamp, year, sequence, stored, syncing>>
        /\ pc[i] = "numbering" /\ seqlock[stamp[i]] = Null
    BY DEF TakeNumber, SequenceFree
  <1>2. PICK y : y = stamp[i]
    OBVIOUS
  <1>3. y \in Year /\ sequence[y] \in Nat
    BY <1>1, <1>2 DEF Inv, VerdictsOK, Numbering, CountersOK
  <1>4. CASE sequence[y] + 1 > MaxNumber
    <2>1. /\ DOMAIN pc' = Transaction /\ pc'[i] = "exhausted" /\ UNCHANGED <<seqlock, number>>
          /\ \A j \in Transaction : j # i => pc'[j] = pc[j]
      BY <1>2, <1>4 DEF TakeNumber, Inv, Shapes
    <2>2. Shapes'
      BY <1>1, <2>1, ShapesOfCreation DEF Inv, Shapes
    <2>3. VerdictsOK'
      BY <1>1, <2>1 DEF Inv, VerdictsOK, Numbering, aivars
    <2>4. RowsOK'
      BY <1>1, <2>1 DEF Inv, RowsOK
    <2>5. CountersOK'
      BY <1>1, <2>1 DEF Inv, CountersOK
    <2> QED
      BY <1>1, <2>2, <2>3, <2>4, <2>5, ScoringUntouched, CountersUntouched DEF Inv
  <1>5. CASE ~(sequence[y] + 1 > MaxNumber)
    <2>1. /\ DOMAIN pc' = Transaction /\ pc'[i] = "inserting"
          /\ \A j \in Transaction : j # i => pc'[j] = pc[j]
          /\ DOMAIN seqlock' = Year /\ seqlock'[y] = i
          /\ \A z \in Year : z # y => seqlock'[z] = seqlock[z]
          /\ DOMAIN number' = Transaction /\ number'[i] = sequence[y] + 1
          /\ \A j \in Transaction : j # i => number'[j] = number[j]
      BY <1>2, <1>3, <1>5 DEF TakeNumber, Inv, Shapes
    <2>2. Shapes'
      BY <1>1, <2>1, ShapesOfCreation DEF Inv, Shapes
    <2>3. VerdictsOK'
      BY <1>1, <2>1 DEF Inv, VerdictsOK, Numbering, aivars
    <2>4. RowsOK'
      BY <1>1, <2>1 DEF Inv, RowsOK
    <2>5. CountersOK'
      <3>1. \A j \in Transaction : pc'[j] = "inserting" =>
              seqlock'[stamp'[j]] = j /\ number'[j] = sequence'[stamp'[j]] + 1
        <4> SUFFICES ASSUME NEW j \in Transaction, pc'[j] = "inserting"
                     PROVE  seqlock'[stamp'[j]] = j /\ number'[j] = sequence'[stamp'[j]] + 1
          OBVIOUS
        <4>1. CASE j = i
          BY <1>1, <1>2, <2>1, <4>1
        <4>2. CASE j # i
          <5>1. /\ seqlock[stamp[j]] = j /\ number[j] = sequence[stamp[j]] + 1
                /\ stamp[j] \in Year /\ j # Null
            BY <2>1, <4>2, IntakeConstants DEF Inv, CountersOK, VerdictsOK, Numbering
          <5> QED
            BY <1>1, <1>2, <2>1, <4>2, <5>1
        <4> QED
          BY <4>1, <4>2
      <3>2. \A z \in Year :
              /\ sequence'[z] \in Nat
              /\ seqlock'[z] # Null => /\ seqlock'[z] \in Transaction
                                       /\ pc'[seqlock'[z]] = "inserting" /\ stamp'[seqlock'[z]] = z
        BY <1>1, <1>2, <1>3, <2>1 DEF Inv, CountersOK
      <3> QED
        BY <3>1, <3>2 DEF CountersOK
    <2> QED
      BY <1>1, <2>2, <2>3, <2>4, <2>5, ScoringUntouched, CountersUntouched DEF Inv
  <1> QED
    BY <1>4, <1>5

(* Whoever holds the counter holds no other.                               *)
LEMMA Released ==
  ASSUME Inv, NEW i \in Transaction, pc[i] = "inserting", ReleaseSequence(i), NEW y, y = stamp[i]
  PROVE  /\ y \in Year /\ DOMAIN seqlock' = Year /\ seqlock'[y] = Null
         /\ \A z \in Year : z # y => seqlock'[z] = seqlock[z]
         /\ \A j \in Transaction : pc[j] = "inserting" /\ stamp[j] = y => j = i
  <1>1. y \in Year /\ seqlock[y] = i
    BY DEF Inv, VerdictsOK, Numbering, CountersOK
  <1>2. \A z \in Year : seqlock[z] = i => z = y
    BY IntakeConstants DEF Inv, CountersOK
  <1>3. \A j \in Transaction : pc[j] = "inserting" /\ stamp[j] = y => j = i
    BY <1>1 DEF Inv, CountersOK
  <1> QED
    BY <1>1, <1>2, <1>3 DEF ReleaseSequence

LEMMA InvAbort ==
  ASSUME Inv, NEW i \in Transaction, Abort(i)
  PROVE  Inv'
  <1>1. /\ UNCHANGED <<aivars, verdict, stamp, number, year, sequence, stored, syncing>>
        /\ pc[i] = "inserting" /\ ReleaseSequence(i)
        /\ DOMAIN pc' = Transaction /\ pc'[i] = "aborted"
        /\ \A j \in Transaction : j # i => pc'[j] = pc[j]
    BY DEF Abort, Inv, Shapes
  <1>2. PICK y : y = stamp[i]
    OBVIOUS
  <1>3. /\ y \in Year /\ DOMAIN seqlock' = Year /\ seqlock'[y] = Null
        /\ \A z \in Year : z # y => seqlock'[z] = seqlock[z]
        /\ \A j \in Transaction : pc[j] = "inserting" /\ stamp[j] = y => j = i
    BY <1>1, <1>2, Released
  <1>4. Shapes'
    BY <1>1, <1>3, ShapesOfCreation DEF Inv, Shapes
  <1>5. VerdictsOK'
    BY <1>1 DEF Inv, VerdictsOK, Numbering, aivars
  <1>6. RowsOK'
    BY <1>1 DEF Inv, RowsOK
  <1>7. CountersOK'
    <2>1. \A j \in Transaction : pc'[j] = "inserting" =>
            /\ j # i /\ pc[j] = "inserting" /\ stamp[j] \in Year /\ stamp[j] # y
      BY <1>1, <1>3 DEF Inv, VerdictsOK, Numbering
    <2>2. \A z \in Year : seqlock'[z] # Null => z # y /\ seqlock'[z] # i
      BY <1>1, <1>2, <1>3 DEF Inv, CountersOK
    <2> QED
      BY <1>1, <1>3, <2>1, <2>2 DEF Inv, CountersOK
  <1> QED
    BY <1>1, <1>4, <1>5, <1>6, <1>7, ScoringUntouched, CountersUntouched DEF Inv

LEMMA VerdictIsGiven ==
  ASSUME Inv, NEW i \in Transaction, pc[i] \in Numbering
  PROVE  stamp[i] \in Year /\ (verdict[i] = Fallback \/ Given(verdict[i]))
  BY DEF Inv, VerdictsOK, AnswersOK

LEMMA InvCommitRow ==
  ASSUME Inv, NEW i \in Transaction, CommitRow(i)
  PROVE  Inv'
  <1>1. /\ UNCHANGED <<aivars, verdict, stamp, number, year, syncing>>
        /\ pc[i] = "inserting" /\ ReleaseSequence(i)
        /\ DOMAIN pc' = Transaction /\ pc'[i] = "created"
        /\ \A j \in Transaction : j # i => pc'[j] = pc[j]
    BY DEF CommitRow, Inv, Shapes
  <1>2. PICK y : y = stamp[i]
    OBVIOUS
  <1>3. PICK n : n = number[i]
    OBVIOUS
  <1>4. /\ y \in Year /\ DOMAIN seqlock' = Year /\ seqlock'[y] = Null
        /\ \A z \in Year : z # y => seqlock'[z] = seqlock[z]
        /\ \A j \in Transaction : pc[j] = "inserting" /\ stamp[j] = y => j = i
    BY <1>1, <1>2, Released
  <1>5. n = sequence[y] + 1 /\ sequence[y] \in Nat /\ n \in Nat
    BY <1>1, <1>2, <1>3, <1>4 DEF Inv, CountersOK
  <1>6. PICK row : row = NewRow(verdict[i], y, n)
    OBVIOUS
  <1>7. row # Null /\ row.year = y /\ row.number = n
    <2>1. verdict[i] = Fallback \/ Given(verdict[i])
      BY <1>1, VerdictIsGiven DEF Numbering
    <2> QED
      BY <1>4, <1>5, <1>6, <2>1, NewRowFields
  <1>8. /\ DOMAIN sequence' = Year /\ sequence'[y] = n
        /\ \A z \in Year : z # y => sequence'[z] = sequence[z]
    BY <1>2, <1>3, <1>4 DEF CommitRow, Inv, Shapes
  <1>9. /\ DOMAIN stored' = Transaction /\ stored'[i] = row
        /\ \A j \in Transaction : j # i => stored'[j] = stored[j]
    BY <1>2, <1>3, <1>6 DEF CommitRow, Inv, Shapes
  <1>10. Shapes'
    BY <1>1, <1>4, <1>8, <1>9, ShapesOfCreation DEF Inv, Shapes
  <1>11. VerdictsOK'
    BY <1>1 DEF Inv, VerdictsOK, Numbering, aivars
  <1>12. RowsOK'
    BY <1>1, <1>2, <1>3, <1>5, <1>6, <1>9 DEF Inv, RowsOK
  <1>13. CountersOK'
    <2>1. \A j \in Transaction : pc'[j] = "inserting" =>
            /\ j # i /\ pc[j] = "inserting" /\ stamp[j] \in Year /\ stamp[j] # y
      BY <1>1, <1>4 DEF Inv, VerdictsOK, Numbering
    <2>2. \A z \in Year : seqlock'[z] # Null => z # y /\ seqlock'[z] # i
      BY <1>1, <1>2, <1>4 DEF Inv, CountersOK
    <2> QED
      BY <1>1, <1>4, <1>5, <1>8, <2>1, <2>2 DEF Inv, CountersOK
  <1>14. NumbersOK'
    <2> SUFFICES ASSUME NEW z \in Year
                 PROVE  /\ {stored'[j].number : j \in Numbered(z)'} = 1..sequence'[z]
                        /\ IsFiniteSet(Numbered(z)') /\ Cardinality(Numbered(z)') = sequence'[z]
      BY DEF NumbersOK, Numbered
    <2>1. stored[i] = Null
      BY <1>1 DEF Inv, RowsOK
    <2>2. /\ {stored[j].number : j \in Numbered(z)} = 1..sequence[z]
          /\ IsFiniteSet(Numbered(z)) /\ Cardinality(Numbered(z)) = sequence[z]
      BY DEF Inv, NumbersOK
    <2>3. CASE z = y
      <3>1. Numbered(z)' = Numbered(z) \cup {i} /\ i \notin Numbered(z)
        BY <1>7, <1>9, <2>1, <2>3 DEF Numbered
      <3>2. IsFiniteSet(Numbered(z)') /\ Cardinality(Numbered(z)') = n
        BY <1>5, <2>2, <2>3, <3>1, FS_AddElement
      <3>3. \A j \in Numbered(z) : stored'[j] = stored[j]
        BY <1>9, <3>1 DEF Numbered
      <3>4. {stored'[j].number : j \in Numbered(z)'} = {stored[j].number : j \in Numbered(z)} \cup {n}
        BY <1>7, <1>9, <3>1, <3>3
      <3>5. (1..sequence[y]) \cup {n} = 1..n
        BY <1>5
      <3> QED
        BY <1>8, <2>2, <2>3, <3>2, <3>4, <3>5
    <2>4. CASE z # y
      <3>1. Numbered(z)' = Numbered(z) /\ \A j \in Numbered(z) : stored'[j] = stored[j]
        BY <1>7, <1>9, <2>1, <2>4 DEF Numbered
      <3>2. {stored'[j].number : j \in Numbered(z)'} = {stored[j].number : j \in Numbered(z)}
        BY <3>1
      <3> QED
        BY <1>8, <2>2, <2>4, <3>1, <3>2
    <2> QED
      BY <2>3, <2>4
  <1> QED
    BY <1>1, <1>10, <1>11, <1>12, <1>13, <1>14, ScoringUntouched DEF Inv
------------------------------------------------------------------------------
(* Every step                                                              *)

LEMMA InvStutter ==
  ASSUME Inv, UNCHANGED vars
  PROVE  Inv'
  <1>1. year' \in Year
    BY DEF Inv, Shapes, vars
  <1> QED
    BY <1>1, YearUntouched DEF vars

LEMMA InvStep ==
  ASSUME Inv, [Next]_vars
  PROVE  Inv'
  <1>1. CASE \E i \in Transaction :
               Create(i) \/ Assignment(i) \/ Serve(i) \/ TakeNumber(i) \/ Abort(i)
    <2> SUFFICES ASSUME NEW i \in Transaction,
                        Create(i) \/ Assignment(i) \/ Serve(i) \/ TakeNumber(i) \/ Abort(i)
                 PROVE  Inv'
      BY <1>1
    <2>1. CASE Serve(i)
      <3>1. CASE Receive(i) \/ Unavailable(i)
        BY <3>1, InvGoOnWith DEF Receive, Unavailable
      <3>2. CASE CommitRow(i)
        BY <3>2, InvCommitRow
      <3> QED
        BY <2>1, <3>1, <3>2 DEF Serve
    <2> QED
      BY <2>1, InvCreate, InvAssignment, InvTakeNumber, InvAbort
  <1>2. CASE \E y \in Sync : SyncRead(y) \/ SyncWrite(y)
    BY <1>2, InvSyncRead, InvSyncWrite
  <1>3. CASE NewYear
    BY <1>3, InvNewYear
  <1>4. CASE UNCHANGED vars
    BY <1>4, InvStutter
  <1> QED
    BY <1>1, <1>2, <1>3, <1>4 DEF Next

(* The inductive invariant holds of every state: whoever counts has locked *)
(* the counter, and what was found free under a lock is free.              *)
THEOREM Invariance == Spec => []Inv
  <1>1. Init => Inv
    BY InitInv
  <1>2. Inv /\ [Next]_vars => Inv'
    BY InvStep
  <1> QED
    BY <1>1, <1>2, PTL DEF Spec

(* The transaction numbers of a year are 1, 2, 3, ... without a gap and    *)
(* none is given twice, whatever is rolled back or races for the next one  *)
(* (TransactionRepository.next_transaction_number).                        *)
THEOREM NumbersAreConsecutive == Spec => []NumbersHaveNoGap
  <1>1. Inv => NumbersHaveNoGap
    BY DEF Inv, NumbersOK, NumbersHaveNoGap
  <1> QED
    BY <1>1, Invariance, PTL

(* Whatever the AI Service answers, when it answers, and whether it does,  *)
(* what is stored is blocked exactly when it was to be blocked, and waits  *)
(* for somebody exactly when it was not approved (TransactionService).     *)
THEOREM NobodySlips == Spec => []NobodySlipsThrough
  <1>1. Inv => NobodySlipsThrough
    <2> SUFFICES ASSUME Inv, NEW i \in Transaction, stored[i] # Null, NEW r, r = stored[i]
                 PROVE  /\ r.temporary_blocked <=> r.decision = "BLOK"
                        /\ r.case = Null <=> r.decision = "ONAY" /\ r.ai_status = "SCORED"
                        /\ r.decision = "BLOK" => r.risk_level = "KRITIK"
                        /\ r.ai_status = "UNAVAILABLE" =>
                             r.decision = "INCELEME" /\ r.case # Null /\ r.case.status = "YENI"
      BY DEF NobodySlipsThrough
    <2>1. /\ pc[i] = "created" /\ r = NewRow(verdict[i], stamp[i], number[i]) /\ number[i] \in Nat
      BY DEF Inv, RowsOK
    <2>2. stamp[i] \in Year /\ (verdict[i] = Fallback \/ Given(verdict[i]))
      BY <2>1, VerdictIsGiven DEF Numbering
    <2> QED
      BY <2>1, <2>2, VerdictsAgree
  <1> QED
    BY <1>1, Invariance, PTL
------------------------------------------------------------------------------
(* The capacity of the analysts                                            *)

LEMMA ReserveFields ==
  ASSUME Inv, NEW i \in Transaction, Reserve(i)
  PROVE  \E a \in Analyst :
           /\ a \in eligible[i] /\ ai[i] = "locking"
           /\ \A b \in eligible[i] \ {a} : Before(i, a, b)
           /\ profile[a] \in Profile /\ profile[a] # Null /\ HasCapacity(profile[a])
           /\ profile'[a].active_cases = profile[a].active_cases + 1
           /\ profile'[a].max_active_cases = profile[a].max_active_cases
           /\ profile'[a].is_active = profile[a].is_active
           /\ profile'[a] \in Profile /\ profile'[a] # Null
           /\ \A b \in Analyst : b # a => profile'[b] = profile[b]
           /\ ai'[i] = "answered" /\ answer'[i].assigned_analyst_id = a
           /\ \A j \in Transaction : j # i =>
                ai'[j] = ai[j] /\ answer'[j] = answer[j] /\ eligible'[j] = eligible[j]
           /\ syncing' = syncing
  <1>1. PICK a \in eligible[i] :
          /\ \A b \in eligible[i] \ {a} : Before(i, a, b)
          /\ profile' = [profile EXCEPT ![a].active_cases = @ + 1]
          /\ answer' = [answer EXCEPT ![i].assigned_analyst_id = a]
    BY DEF Reserve
  <1>2. ai[i] = "locking" /\ a \in Analyst /\ rowlock[a] = i /\ i # Null /\ syncing' = syncing
    BY IntakeConstants DEF Reserve, Held
  <1>3. profile[a] # Null /\ HasCapacity(profile[a]) /\ profile[a] \in Profile
    BY <1>2 DEF Inv, LocksOK, ProfilesOK
  <1>4. PICK p : p = [profile[a] EXCEPT !.active_cases = @ + 1]
    OBVIOUS
  <1>5. /\ p \in Profile /\ p # Null /\ p.active_cases = profile[a].active_cases + 1
        /\ p.max_active_cases = profile[a].max_active_cases /\ p.is_active = profile[a].is_active
    BY <1>3, <1>4, IntakeConstants DEF Profile
  <1>6. profile'[a] = p /\ \A b \in Analyst : b # a => profile'[b] = profile[b]
    BY <1>1, <1>2, <1>4 DEF Inv, Shapes
  <1>7. /\ ai'[i] = "answered"
        /\ \A j \in Transaction : j # i => ai'[j] = ai[j] /\ eligible'[j] = eligible[j]
    BY DEF Reserve, EndScoring, Inv, Shapes
  <1>8. PICK new : new = [answer[i] EXCEPT !.assigned_analyst_id = a]
    OBVIOUS
  <1>9. new.assigned_analyst_id = a
    <2>1. PICK score \in Score, b \in Analyst \cup {Null} : answer[i] = Answered(score, b)
      BY <1>2 DEF Inv, AnswersOK, Given, GivenBy
    <2> QED
      BY <1>8, <2>1 DEF Answered
  <1>10. answer'[i] = new /\ \A j \in Transaction : j # i => answer'[j] = answer[j]
    BY <1>1, <1>8 DEF Inv, Shapes
  <1> QED
    BY <1>1, <1>2, <1>3, <1>5, <1>6, <1>7, <1>9, <1>10

(* Only a reservation and a synchronisation change a profile.              *)
LEMMA ProfileSteps ==
  ASSUME [Next]_vars
  PROVE  \/ UNCHANGED <<profile, syncing>>
         \/ \E i \in Transaction : Reserve(i)
         \/ \E y \in Sync : SyncRead(y) \/ SyncWrite(y)
  <1>1. CASE \E i \in Transaction :
               Create(i) \/ Assignment(i) \/ Serve(i) \/ TakeNumber(i) \/ Abort(i)
    BY <1>1 DEF Create, Assignment, Predict, NextRow, LockRow, Queue, ScoringError, DeadlockVictim,
                AiFails, Serve, Receive, Unavailable, GoOnWith, CommitRow, TakeNumber, Abort, aivars
  <1>2. CASE NewYear \/ UNCHANGED vars
    BY <1>2 DEF NewYear, vars, aivars
  <1> QED
    BY <1>1, <1>2 DEF Next

LEMMA RoomStep ==
  ASSUME RoomIsKept, Inv, RoomInv, [Next]_vars
  PROVE  RoomInv'
  <1>1. CASE UNCHANGED <<profile, syncing>>
    BY <1>1 DEF RoomInv, NoOverbooking, Capacity
  <1>2. CASE \E i \in Transaction : Reserve(i)
    <2>1. PICK i \in Transaction : Reserve(i)
      BY <1>2
    <2>2. PICK a \in Analyst :
            /\ profile[a] \in Profile /\ profile[a] # Null /\ HasCapacity(profile[a])
            /\ profile'[a].active_cases = profile[a].active_cases + 1
            /\ profile'[a].max_active_cases = profile[a].max_active_cases
            /\ profile'[a] \in Profile /\ profile'[a] # Null
            /\ \A b \in Analyst : b # a => profile'[b] = profile[b]
            /\ syncing' = syncing
      BY <2>1, ReserveFields
    <2>3. profile'[a].active_cases <= profile'[a].max_active_cases
      BY <2>2 DEF HasCapacity, Profile
    <2>4. NoOverbooking'
      BY <2>2, <2>3 DEF RoomInv, NoOverbooking
    <2>5. \A y \in Sync : Capacity(profile'[y.analyst_id]) = Capacity(profile[y.analyst_id])
      BY <2>2, IntakeConstants DEF Capacity, SyncRequest
    <2> QED
      BY <2>2, <2>4, <2>5 DEF RoomInv, Capacity
  <1>3. ASSUME NEW y \in Sync, SyncRead(y) PROVE RoomInv'
    <2>1. profile' = profile
      BY <1>3 DEF SyncRead, aivars
    <2>2. PICK read : read = profile[y.analyst_id]
      OBVIOUS
    <2>3. /\ syncing'[y].at = "writing" /\ syncing'[y].read = read /\ syncing[y].at = "idle"
          /\ \A z \in Sync : z # y => syncing'[z] = syncing[z]
      BY <1>3, <2>2 DEF SyncRead, Inv, Shapes
    <2>4. NoOverbooking'
      BY <2>1 DEF RoomInv, NoOverbooking
    <2> QED
      BY <2>1, <2>2, <2>3, <2>4 DEF RoomInv, Capacity
  <1>4. ASSUME NEW y \in Sync, SyncWrite(y) PROVE RoomInv'
    <2>1. PICK a : a = y.analyst_id
      OBVIOUS
    <2>2. PICK read : read = syncing[y].read
      OBVIOUS
    <2>3. PICK new : new = Merged(profile[a], y, read)
      OBVIOUS
    <2>4. /\ a \in Analyst /\ syncing[y].at = "writing"
          /\ read = Null \/ (read \in Profile /\ profile[a] \in Profile)
          /\ profile'[a] = new
          /\ \A b \in Analyst : b # a => profile'[b] = profile[b]
          /\ syncing'[y].at = "done"
          /\ \A z \in Sync : z # y => syncing'[z] = syncing[z]
      BY <1>4, <2>1, <2>2, <2>3, SyncWriteFields
    <2>5. y.values \in Profile /\ y.values.active_cases <= y.values.max_active_cases
      BY IntakeConstants DEF SyncRequest
    <2>6. new # Null => new.active_cases <= new.max_active_cases
      <3>1. CASE read = Null
        BY <2>3, <2>4, <2>5, <3>1 DEF Merged, RoomInv, NoOverbooking
      <3>2. CASE read # Null
        <4>1. read \in Profile /\ profile[a] \in Profile /\ profile[a] # Null
          BY <2>4, <3>2, IntakeConstants
        <4>2. /\ profile[a].active_cases <= profile[a].max_active_cases
              /\ Capacity(profile[a]) = Capacity(Profiles[a])
              /\ Capacity(read) = Capacity(Profiles[a])
          BY <2>1, <2>2, <2>4, <4>1 DEF RoomInv, NoOverbooking
        <4>3. read.max_active_cases \in Nat /\ read.max_active_cases # Null
          BY <4>1, IntakeConstants DEF Profile
        <4>4. /\ Profiles[a] # Null /\ profile[a].max_active_cases = read.max_active_cases
              /\ Profiles[a].max_active_cases = read.max_active_cases
          BY <3>2, <4>1, <4>2, <4>3 DEF Capacity
        <4>5. read.max_active_cases <= y.values.max_active_cases
          BY <2>1, <4>4 DEF RoomIsKept
        <4>6. /\ new \in Profile
              /\ new.active_cases \in {profile[a].active_cases, y.values.active_cases}
              /\ new.max_active_cases = y.values.max_active_cases
          BY <2>3, <2>5, <4>1, <4>4, MergedFields DEF Profile
        <4> QED
          BY <2>5, <4>1, <4>2, <4>4, <4>5, <4>6 DEF Profile
      <3> QED
        BY <3>1, <3>2
    <2>7. NoOverbooking'
      BY <2>4, <2>6 DEF RoomInv, NoOverbooking
    <2>8. \A z \in Sync : z # y => /\ profile'[z.analyst_id] = profile[z.analyst_id]
                                   /\ syncing'[z] = syncing[z]
      BY <2>1, <2>4, IntakeConstants DEF RoomIsKept, SyncRequest
    <2> QED
      BY <2>4, <2>7, <2>8 DEF RoomInv, Capacity
  <1> QED
    BY <1>1, <1>2, <1>3, <1>4, ProfileSteps

(* Reservations that race for an analyst's last place never exceed his     *)
(* capacity (AssignmentService), as long as the synchronisations keep to   *)
(* RoomIsKept; the run intake_lowered_capacity shows what one that lowers  *)
(* a capacity does.                                                        *)
THEOREM NobodyIsOverbooked == RoomIsKept => (Spec => []NoOverbooking)
  <1> SUFFICES ASSUME RoomIsKept PROVE Spec => []NoOverbooking
    OBVIOUS
  <1>1. Init => RoomInv
    BY IntakeConstants DEF Init, RoomInv, NoOverbooking, RoomIsKept
  <1>2. Inv /\ RoomInv /\ [Next]_vars => RoomInv'
    BY RoomStep
  <1>3. RoomInv => NoOverbooking
    BY DEF RoomInv
  <1> QED
    BY <1>1, <1>2, <1>3, Invariance, PTL DEF Spec
------------------------------------------------------------------------------
(* Loads and cases                                                         *)

(* Apart from a reservation no step changes whom the answers name.         *)
LEMMA AnswersStay ==
  ASSUME Inv, [Next]_vars, ~ \E i \in Transaction : Reserve(i), NEW a \in Analyst
  PROVE  ReservedFor(a)' = ReservedFor(a)
  <1>1. a # Null
    BY IntakeConstants
  <1>2. ASSUME NEW i \in Transaction, Predict(i) PROVE ReservedFor(a)' = ReservedFor(a)
    <2>1. PICK score \in Score :
            /\ answer' = [answer EXCEPT ![i] = Answered(score, Null)]
            /\ ai[i] = "idle"
            /\ ai' = [ai EXCEPT ![i] = "answered"] \/ ai' = [ai EXCEPT ![i] = "locking"]
      BY <1>2 DEF Predict
    <2>2. PICK new : new = Answered(score, Null)
      OBVIOUS
    <2>3. new.assigned_analyst_id = Null
      BY <2>2 DEF Answered
    <2>4. /\ answer'[i] = new /\ \A j \in Transaction : j # i => ai'[j] = ai[j] /\ answer'[j] = answer[j]
      BY <2>1, <2>2 DEF Inv, Shapes
    <2> QED
      BY <1>1, <2>1, <2>3, <2>4 DEF ReservedFor
  <1>3. ASSUME NEW i \in Transaction, NEW result \in {"answered", "failed"}, ai[i] = "locking",
               EndScoring(i, result), UNCHANGED answer
        PROVE  ReservedFor(a)' = ReservedFor(a)
    <2>1. answer[i].assigned_analyst_id = Null
      BY <1>3 DEF Inv, AnswersOK
    <2>2. \A j \in Transaction : j # i => ai'[j] = ai[j]
      BY <1>3 DEF EndScoring, Inv, Shapes
    <2> QED
      BY <1>1, <1>3, <2>1, <2>2 DEF ReservedFor
  <1>4. ASSUME UNCHANGED <<ai, answer>> PROVE ReservedFor(a)' = ReservedFor(a)
    BY <1>4 DEF ReservedFor
  <1>5. CASE \E i \in Transaction : Assignment(i)
    <2>1. PICK i \in Transaction : Assignment(i)
      BY <1>5
    <2>2. CASE Queue(i)
      BY <1>3, <2>2 DEF Queue
    <2>3. CASE ScoringError(i) \/ DeadlockVictim(i)
      BY <1>3, <2>3 DEF ScoringError, DeadlockVictim, Deadlocked, Waiting, AiFails
    <2>4. CASE NextRow(i) \/ LockRow(i)
      BY <1>4, <2>4 DEF NextRow, LockRow
    <2> QED
      BY <1>2, <2>1, <2>2, <2>3, <2>4 DEF Assignment
  <1>6. CASE \E i \in Transaction : Create(i) \/ Serve(i) \/ TakeNumber(i) \/ Abort(i)
    BY <1>4, <1>6 DEF Create, Serve, Receive, Unavailable, GoOnWith, CommitRow, TakeNumber, Abort, aivars
  <1>7. CASE \E y \in Sync : SyncRead(y) \/ SyncWrite(y)
    BY <1>4, <1>7 DEF SyncRead, SyncWrite, aivars
  <1>8. CASE NewYear \/ UNCHANGED vars
    BY <1>4, <1>8 DEF NewYear, vars, aivars
  <1> QED
    BY <1>5, <1>6, <1>7, <1>8 DEF Next

(* The profiles that were there at the start.                              *)
LEMMA OldProfilesStay ==
  ASSUME OnlyNewcomers, Inv, [Next]_vars, ~ \E i \in Transaction : Reserve(i),
         NEW a \in Analyst, Profiles[a] # Null
  PROVE  profile'[a] = profile[a]
  <1>1. ASSUME NEW y \in Sync, SyncRead(y) PROVE profile'[a] = profile[a]
    BY <1>1 DEF SyncRead, aivars
  <1>2. ASSUME NEW y \in Sync, SyncWrite(y) PROVE profile'[a] = profile[a]
    <2>1. a # y.analyst_id
      BY DEF OnlyNewcomers
    <2> QED
      BY <1>2, <2>1, SyncWriteFields
  <1> QED
    BY <1>1, <1>2, ProfileSteps

LEMMA CountStep ==
  ASSUME OnlyNewcomers, Inv, CountInv, [Next]_vars
  PROVE  CountInv'
  <1> SUFFICES ASSUME NEW a \in Analyst, Profiles[a] # Null
               PROVE  /\ profile'[a] # Null
                      /\ profile'[a].max_active_cases = Profiles[a].max_active_cases
                      /\ profile'[a].is_active = Profiles[a].is_active
                      /\ IsFiniteSet(ReservedFor(a)')
                      /\ profile'[a].active_cases =
                           Profiles[a].active_cases + Cardinality(ReservedFor(a)')
    BY DEF CountInv
  <1>1. /\ profile[a] # Null
        /\ profile[a].max_active_cases = Profiles[a].max_active_cases
        /\ profile[a].is_active = Profiles[a].is_active
        /\ IsFiniteSet(ReservedFor(a))
        /\ profile[a].active_cases = Profiles[a].active_cases + Cardinality(ReservedFor(a))
    BY DEF CountInv
  <1>2. CASE \E i \in Transaction : Reserve(i)
    <2>1. PICK i \in Transaction : Reserve(i)
      BY <1>2
    <2>2. PICK b \in Analyst :
            /\ ai[i] = "locking"
            /\ profile'[b].active_cases = profile[b].active_cases + 1
            /\ profile'[b].max_active_cases = profile[b].max_active_cases
            /\ profile'[b].is_active = profile[b].is_active
            /\ profile'[b] # Null
            /\ \A c \in Analyst : c # b => profile'[c] = profile[c]
            /\ ai'[i] = "answered" /\ answer'[i].assigned_analyst_id = b
            /\ \A j \in Transaction : j # i => ai'[j] = ai[j] /\ answer'[j] = answer[j]
      BY <2>1, ReserveFields
    <2>3. i \notin ReservedFor(a)
      BY <2>2 DEF ReservedFor
    <2>4. CASE a = b
      <3>1. ReservedFor(a)' = ReservedFor(a) \cup {i}
        BY <2>2, <2>4 DEF ReservedFor
      <3>2. /\ IsFiniteSet(ReservedFor(a)')
            /\ Cardinality(ReservedFor(a)') = Cardinality(ReservedFor(a)) + 1
        BY <1>1, <2>3, <3>1, FS_AddElement
      <3>3. Profiles[a].active_cases \in Nat /\ Cardinality(ReservedFor(a)) \in Nat
        BY <1>1, IntakeConstants, FS_CardinalityType DEF Profile
      <3> QED
        BY <1>1, <2>2, <2>4, <3>2, <3>3
    <2>5. CASE a # b
      <3>1. ReservedFor(a)' = ReservedFor(a)
        BY <2>2, <2>5 DEF ReservedFor
      <3> QED
        BY <1>1, <2>2, <2>5, <3>1
    <2> QED
      BY <2>4, <2>5
  <1>3. CASE ~ \E i \in Transaction : Reserve(i)
    BY <1>1, <1>3, AnswersStay, OldProfilesStay
  <1> QED
    BY <1>2, <1>3

(* Every case that was assigned stands for a reservation.                  *)
LEMMA CasesAreReserved ==
  ASSUME Inv, NEW a \in Analyst
  PROVE  CasesOf(a) \subseteq ReservedFor(a)
  <1> SUFFICES ASSUME NEW i \in CasesOf(a) PROVE i \in ReservedFor(a)
    OBVIOUS
  <1>1. /\ i \in Transaction /\ stored[i] # Null
        /\ stored[i].case # Null /\ stored[i].case.assigned_analyst_id = a /\ a # Null
    BY IntakeConstants DEF CasesOf
  <1>2. PICK v : v = verdict[i]
    OBVIOUS
  <1>3. /\ pc[i] = "created" /\ stored[i] = NewRow(v, stamp[i], number[i]) /\ number[i] \in Nat
    BY <1>1, <1>2 DEF Inv, RowsOK
  <1>4. stamp[i] \in Year /\ (v = Fallback \/ Given(v))
    BY <1>1, <1>2, <1>3, VerdictIsGiven DEF Numbering
  <1>5. stored[i].case = NewCase(v)
    BY <1>1, <1>3, <1>4, NewRowFields
  <1>6. v.assigned_analyst_id = a
    BY <1>1, <1>4, <1>5, VerdictFields, NewCaseType
  <1>7. ai[i] = "answered" /\ v = answer[i]
    BY <1>1, <1>2, <1>3, <1>6, FallbackFields DEF Inv, VerdictsOK, Numbering
  <1> QED
    BY <1>1, <1>6, <1>7 DEF ReservedFor

LEMMA CountInvariance == OnlyNewcomers => (Spec => []CountInv)
  <1> SUFFICES ASSUME OnlyNewcomers PROVE Spec => []CountInv
    OBVIOUS
  <1>1. Init => CountInv
    <2> SUFFICES ASSUME Init, NEW a \in Analyst, Profiles[a] # Null
                 PROVE  /\ IsFiniteSet(ReservedFor(a))
                        /\ Profiles[a].active_cases =
                             Profiles[a].active_cases + Cardinality(ReservedFor(a))
      BY DEF CountInv, Init
    <2>1. ReservedFor(a) = {}
      BY DEF Init, ReservedFor
    <2>2. Profiles[a].active_cases \in Nat
      BY IntakeConstants DEF Profile
    <2> QED
      BY <2>1, <2>2, FS_EmptySet
  <1>2. Inv /\ CountInv /\ [Next]_vars => CountInv'
    BY CountStep
  <1> QED
    BY <1>1, <1>2, Invariance, PTL DEF Spec

(* Every case that has been assigned is counted in its analyst's load,     *)
(* whatever fails between the AI Service's commit and the transaction's    *)
(* (TransactionService.create), where only newcomers are synchronised: an  *)
(* upsert of the others sets their load to what its caller believes.       *)
THEOREM CasesCount == OnlyNewcomers => (Spec => []CasesAreCounted)
  <1> SUFFICES ASSUME OnlyNewcomers PROVE Spec => []CasesAreCounted
    OBVIOUS
  <1>1. Inv /\ CountInv => CasesAreCounted
    <2> SUFFICES ASSUME Inv, CountInv, NEW a \in Analyst, Profiles[a] # Null
                 PROVE  Profiles[a].active_cases + Cardinality(CasesOf(a)) <= profile[a].active_cases
      BY DEF CasesAreCounted
    <2>1. /\ IsFiniteSet(ReservedFor(a))
          /\ profile[a].active_cases = Profiles[a].active_cases + Cardinality(ReservedFor(a))
      BY DEF CountInv
    <2>2. /\ IsFiniteSet(CasesOf(a)) /\ Cardinality(CasesOf(a)) <= Cardinality(ReservedFor(a))
      BY <2>1, CasesAreReserved, FS_Subset
    <2>3. /\ Profiles[a].active_cases \in Nat
          /\ Cardinality(CasesOf(a)) \in Nat /\ Cardinality(ReservedFor(a)) \in Nat
      BY <2>1, <2>2, IntakeConstants, FS_CardinalityType DEF Profile
    <2> QED
      BY <2>1, <2>2, <2>3
  <1> QED
    BY <1>1, CountInvariance, Invariance, PTL
------------------------------------------------------------------------------
(* The balance of the loads                                                *)

LEMMA Cancel ==
  ASSUME NEW m \in Nat \ {0}, NEW x \in Int, NEW y \in Int, x * m >= y * m
  PROVE  x >= y
  <1>1. CASE x < y
    <2>1. y - x >= 1
      BY <1>1
    <2>2. (y - x) * m >= 1 * m
      BY <2>1, SMT
    <2>3. (y - x) * m = y * m - x * m
      BY SMT
    <2> QED
      BY <2>2, <2>3
  <1> QED
    BY <1>1

(* Of two who are alike the one with fewer cases comes first.              *)
LEMMA FewerCasesFirst ==
  ASSUME NEW i \in Transaction, NEW a \in Analyst, NEW b \in Analyst, Before(i, a, b),
         profile[a] \in Profile, profile[b] \in Profile, Alike(a, b),
         profile[a].max_active_cases = profile[b].max_active_cases
  PROVE  profile[a].active_cases <= profile[b].active_cases
  <1>1. PICK m \in Nat \ {0} : m = profile[a].max_active_cases /\ m = profile[b].max_active_cases
    BY DEF Profile
  <1>2. PICK p \in Nat, q \in Nat : p = profile[a].active_cases /\ q = profile[b].active_cases
    BY DEF Profile
  <1>3. PICK c \in Nat : c = Accuracy[a] /\ c = Accuracy[b]
    BY IntakeConstants DEF Alike
  <1>4. PICK s \in Nat :
          /\ s = (IF <<i, a>> \in Specialist THEN 250 ELSE 0)
          /\ s = (IF <<i, b>> \in Specialist THEN 250 ELSE 0)
    BY DEF Alike
  <1>5. PICK k : k = s * m + c * m
    OBVIOUS
  <1>6. k \in Int
    BY <1>5, SMT
  <1>7. /\ Weight(i, a) = s * m + 150 * (m - p) + c * m
        /\ Weight(i, b) = s * m + 150 * (m - q) + c * m
    BY <1>1, <1>2, <1>3, <1>4 DEF Weight
  <1>8. PICK x \in Int, y \in Int :
          /\ x = Weight(i, a) /\ x = k + 150 * (m - p)
          /\ y = Weight(i, b) /\ y = k + 150 * (m - q)
    <2>1. s * m \in Int /\ c * m \in Int
      BY SMT
    <2> QED
      BY <1>5, <1>6, <1>7, <2>1
  <1>9. x * m > y * m \/ p <= q
    BY <1>1, <1>2, <1>8 DEF Before
  <1>10. CASE x * m > y * m
    <2>1. x * m \in Int /\ y * m \in Int
      BY SMT
    <2>2. x * m >= y * m
      BY <1>10, <2>1
    <2>3. x >= y
      BY <2>2, Cancel
    <2> QED
      BY <1>2, <1>6, <1>8, <2>3
  <1> QED
    BY <1>2, <1>9, <1>10

(* Whom a session does not find eligible has no room.                      *)
FullOnes ==
  \A i \in Transaction, a \in Analyst :
    Profiles[a] # Null /\ ai[i] = "locking" /\ a \notin eligible[i] => ~HasCapacity(profile[a])

LEMMA FullStep ==
  ASSUME OnlyNewcomers, Inv, CountInv, FullOnes, [Next]_vars
  PROVE  FullOnes'
  <1> SUFFICES ASSUME NEW j \in Transaction, NEW a \in Analyst, Profiles[a] # Null,
                      ai'[j] = "locking", a \notin eligible'[j]
               PROVE  ~HasCapacity(profile'[a])
    BY DEF FullOnes, HasCapacity
  <1>1. CASE \E i \in Transaction : Reserve(i)
    <2>1. PICK i \in Transaction : Reserve(i)
      BY <1>1
    <2>2. PICK b \in Analyst :
            /\ HasCapacity(profile[b])
            /\ \A c \in Analyst : c # b => profile'[c] = profile[c]
            /\ ai'[i] = "answered"
            /\ \A k \in Transaction : k # i => ai'[k] = ai[k] /\ eligible'[k] = eligible[k]
      BY <2>1, ReserveFields
    <2>3. ~HasCapacity(profile[a])
      BY <2>2 DEF FullOnes
    <2> QED
      BY <2>2, <2>3
  <1>2. CASE ~ \E i \in Transaction : Reserve(i)
    <2>1. profile'[a] = profile[a]
      BY <1>2, OldProfilesStay
    <2>2. profile[a] # Null
      BY DEF CountInv
    <2>3. (ai[j] = "locking" /\ a \notin eligible[j]) \/ a \notin Eligible
      <3>1. ASSUME NEW i \in Transaction, Predict(i)
            PROVE  (ai[j] = "locking" /\ a \notin eligible[j]) \/ a \notin Eligible
        BY <3>1 DEF Predict, Inv, Shapes
      <3>2. ASSUME NEW i \in Transaction, LockRow(i)
            PROVE  (ai[j] = "locking" /\ a \notin eligible[j]) \/ a \notin Eligible
        <4>1. /\ ai' = ai
              /\ eligible'[i] = IF wants[i] \in Eligible THEN eligible[i] ELSE eligible[i] \ {wants[i]}
              /\ \A k \in Transaction : k # i => eligible'[k] = eligible[k]
          BY <3>2 DEF LockRow, Inv, Shapes
        <4> QED
          BY <4>1
      <3>3. ASSUME NEW i \in Transaction, NEW result \in {"answered", "failed"}, EndScoring(i, result)
            PROVE  ai[j] = "locking" /\ a \notin eligible[j]
        BY <3>3 DEF EndScoring, Inv, Shapes
      <3>4. ASSUME UNCHANGED <<ai, eligible>>
            PROVE  ai[j] = "locking" /\ a \notin eligible[j]
        BY <3>4
      <3>5. CASE \E i \in Transaction : Assignment(i)
        BY <1>2, <3>1, <3>2, <3>3, <3>4, <3>5
           DEF Assignment, NextRow, Queue, ScoringError, DeadlockVictim, AiFails
      <3>6. CASE \E i \in Transaction : Create(i) \/ Serve(i) \/ TakeNumber(i) \/ Abort(i)
        BY <3>4, <3>6
           DEF Create, Serve, Receive, Unavailable, GoOnWith, CommitRow, TakeNumber, Abort, aivars
      <3>7. CASE \E y \in Sync : SyncRead(y) \/ SyncWrite(y)
        BY <3>4, <3>7 DEF SyncRead, SyncWrite, aivars
      <3>8. CASE NewYear \/ UNCHANGED vars
        BY <3>4, <3>8 DEF NewYear, vars, aivars
      <3> QED
        BY <3>5, <3>6, <3>7, <3>8 DEF Next
    <2>4. ~HasCapacity(profile[a])
      BY <2>2, <2>3 DEF FullOnes, Eligible
    <2> QED
      BY <2>1, <2>4
  <1> QED
    BY <1>1, <1>2

LEMMA BalanceStep ==
  ASSUME OnlyNewcomers, Inv, CountInv, FullOnes, LoadIsBalanced, [Next]_vars
  PROVE  LoadIsBalanced'
  <1> SUFFICES ASSUME NEW x \in Analyst, NEW y \in Analyst,
                      Profiles[x] # Null, Profiles[x].is_active, Alike(x, y)
               PROVE  profile'[x].active_cases - profile'[y].active_cases \in -1..1
    BY DEF LoadIsBalanced, Alike
  <1>1. \A z \in {x, y} :
          /\ Profiles[z] # Null /\ profile[z] # Null /\ profile[z] \in Profile /\ profile[z].is_active
          /\ profile[z].max_active_cases = Profiles[x].max_active_cases
    BY DEF Alike, CountInv, Inv, ProfilesOK
  <1>2. profile[x].active_cases - profile[y].active_cases \in -1..1
    BY DEF LoadIsBalanced
  <1>3. CASE \E i \in Transaction : Reserve(i)
    <2>1. PICK i \in Transaction : Reserve(i)
      BY <1>3
    <2>2. PICK a \in Analyst :
            /\ a \in eligible[i] /\ ai[i] = "locking"
            /\ \A b \in eligible[i] \ {a} : Before(i, a, b)
            /\ profile[a] \in Profile /\ HasCapacity(profile[a])
            /\ profile'[a].active_cases = profile[a].active_cases + 1
            /\ \A b \in Analyst : b # a => profile'[b] = profile[b]
      BY <2>1, ReserveFields
    <2>3. \A z \in {x, y} : profile[z].active_cases \in Nat /\ profile[z].max_active_cases \in Nat
      BY <1>1 DEF Profile
    <2>4. ASSUME NEW b \in {x, y}, a \in {x, y}, b # a
          PROVE  profile[a].active_cases <= profile[b].active_cases
      <3>1. Alike(a, b)
        BY <2>4 DEF Alike
      <3>2. CASE b \in eligible[i]
        BY <1>1, <2>2, <2>4, <3>1, <3>2, FewerCasesFirst
      <3>3. CASE b \notin eligible[i]
        <4>1. ~HasCapacity(profile[b])
          BY <1>1, <2>2, <3>3 DEF FullOnes
        <4> QED
          BY <1>1, <2>2, <2>3, <2>4, <4>1 DEF HasCapacity
      <3> QED
        BY <3>2, <3>3
    <2>5. CASE x = y
      <3>1. profile'[x].active_cases \in Nat
        BY <2>2, <2>3
      <3> QED
        BY <2>5, <3>1
    <2>6. CASE x # y /\ a = x
      BY <1>2, <2>2, <2>3, <2>4, <2>6
    <2>7. CASE x # y /\ a = y
      BY <1>2, <2>2, <2>3, <2>4, <2>7
    <2>8. CASE x # a /\ y # a
      BY <1>2, <2>2, <2>8
    <2> QED
      BY <2>5, <2>6, <2>7, <2>8
  <1>4. CASE ~ \E i \in Transaction : Reserve(i)
    BY <1>1, <1>2, <1>4, OldProfilesStay
  <1> QED
    BY <1>3, <1>4

(* Two analysts who are alike never differ by more than one case, however  *)
(* the reservations interleave (AssignmentService.select).                 *)
THEOREM TheLoadIsBalanced == OnlyNewcomers => (Spec => []LoadIsBalanced)
  <1> SUFFICES ASSUME OnlyNewcomers PROVE Spec => []LoadIsBalanced
    OBVIOUS
  <1>1. Init => FullOnes /\ LoadIsBalanced
    <2> SUFFICES ASSUME Init PROVE FullOnes /\ LoadIsBalanced
      OBVIOUS
    <2>1. FullOnes
      BY DEF Init, FullOnes
    <2>2. LoadIsBalanced
      <3> SUFFICES ASSUME NEW x \in Analyst, NEW y \in Analyst, Profiles[x] # Null, Alike(x, y)
                   PROVE  profile[x].active_cases - profile[y].active_cases \in -1..1
        BY DEF LoadIsBalanced
      <3>1. profile[x].active_cases = profile[y].active_cases /\ profile[x].active_cases \in Nat
        BY IntakeConstants DEF Init, Alike, Profile
      <3> QED
        BY <3>1
    <2> QED
      BY <2>1, <2>2
  <1>2. Inv /\ CountInv /\ FullOnes /\ LoadIsBalanced /\ [Next]_vars => (FullOnes /\ LoadIsBalanced)'
    BY FullStep, BalanceStep
  <1> QED
    BY <1>1, <1>2, CountInvariance, Invariance, PTL DEF Spec
==============================================================================
