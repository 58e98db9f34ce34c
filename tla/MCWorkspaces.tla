---------------------------- MODULE MCWorkspaces ----------------------------
(***************************************************************************)
(* One case, and a rival who earned 12 points on Saturday; Sunday (day 6)  *)
(* turns into Monday.                                                      *)
(***************************************************************************)
EXTENDS Workspaces

CONSTANTS ana, rival, c1

MCIdOrder == [a \in {ana, rival} |-> IF a = ana THEN 1 ELSE 2]
MCEarlier == {[event |-> "e0", analyst_id |-> rival, points |-> 12, day |-> 5]}

Scene(at, by, said, events, lists, overlapping, failing) ==
  [status |-> [c \in Case |-> at], analyst |-> [c \in Case |-> by],
   answer |-> [c \in Case |-> said], log |-> events,
   open |-> lists, overlaps |-> overlapping, faults |-> failing]

Blocked == [type |-> "case.decision_made", case |-> c1, verdict |-> "BLOKLANDI",
            analyst |-> ana, answer |-> "BEN_YAPMADIM"]

MCScenes ==
  { Scene("ATANDI", ana, Null, <<>>, {"customer", "analyst"}, 1, 0),
    Scene("INCELENIYOR", ana, Null, <<>>, {"customer", "analyst"}, 0, 1),
    Scene("YENI", Null, Null, <<>>, {"supervisor", "analyst"}, 0, 0),
    Scene("BLOKLANDI", ana, "BEN_YAPMADIM", <<Blocked>>, {"customer", "supervisor"}, 1, 1),
    Scene("INCELENIYOR", ana, "BEN_YAPMADIM", <<>>, {"analyst", "profile"}, 0, 0),
    Scene("BLOKLANDI", ana, "BEN_YAPMADIM", <<Blocked>>, {"profile"}, 1, 1) }
=============================================================================
