--------------------------- MODULE ProfileQueries ---------------------------
(***************************************************************************)
(* ProfileService of the Gamification Service: the leaderboard of a period *)
(* and the profile of an analyst, who must have one.  profile() runs       *)
(* several statements, each of which sees the tables of its own moment     *)
(* (READ COMMITTED), so Read is one statement; the row of the analyst that *)
(* the first one loaded is not loaded again by the later ones.             *)
(***************************************************************************)
EXTENDS Integers, FiniteSets, FiniteSetsExt

CONSTANTS
  Analyst,         \* the analysts, all with a profile
  IdOrder,         \* IdOrder[a]: the place of analyst_id in text order
  Null

LedgerOf(a, ledger) == {row \in ledger : row.analyst_id = a}
SumOf(rows) == MapThenSumSet(LAMBDA row : row.points, rows)
(* period_points, since the first day of the period.                       *)
PeriodPoints(a, ledger, since) == SumOf({row \in LedgerOf(a, ledger) : row.day >= since})

(* The key (-period points, -total points, id) of b is less than that of a.*)
Ahead(b, a, points, total) ==
  \/ points[b] > points[a]
  \/ points[b] = points[a] /\ total[b] > total[a]
  \/ points[b] = points[a] /\ total[b] = total[a] /\ IdOrder[b] < IdOrder[a]

RankOf(a, points, total) == 1 + Cardinality({b \in Analyst : Ahead(b, a, points, total)})

(* a's rank; own is its total as the query has it.                         *)
Rank(a, own, ledger, since) ==
  RankOf(a, [b \in Analyst |-> PeriodPoints(b, ledger, since)],
         [b \in Analyst |-> IF b = a THEN own ELSE SumOf(LedgerOf(b, ledger))])
-----------------------------------------------------------------------------
Unread == [total_points |-> Null, resolved_cases |-> Null, badge |-> Null, daily_rank |-> Null]

ReadRow(view, a, ledger, resolved) ==
  [view EXCEPT !.total_points = SumOf(LedgerOf(a, ledger)), !.resolved_cases = resolved]
ReadBadge(view, badge) == [view EXCEPT !.badge = badge]
ReadRank(view, a, ledger, day) ==
  [view EXCEPT !.daily_rank = Rank(a, view.total_points, ledger, day)]

(* Mutant: the badges are loaded before the row is.                        *)
ReadBadgeFirst(view, a, ledger, resolved, badge, day) ==
  IF view.badge = Null THEN ReadBadge(view, badge)
  ELSE IF view.total_points = Null THEN ReadRow(view, a, ledger, resolved)
  ELSE ReadRank(view, a, ledger, day)

(* The next statement of profile(a): the row, then the badges, with all    *)
(* profiles, and the points of the daily leaderboard.  The weekly one and  *)
(* the recent scores come after these and are left out.                    *)
Read(view, a, ledger, resolved, badge, day) ==
  IF view.total_points = Null THEN ReadRow(view, a, ledger, resolved)
  ELSE IF view.badge = Null THEN ReadBadge(view, badge)
  ELSE ReadRank(view, a, ledger, day)

IsRead(view) == view.daily_rank # Null

(* The profile, if nothing changes between the statements.                 *)
Current(a, ledger, resolved, badge, day) ==
  ReadRank(ReadBadge(ReadRow(Unread, a, ledger, resolved), badge), a, ledger, day)
=============================================================================
