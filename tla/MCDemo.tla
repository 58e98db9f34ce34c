------------------------------- MODULE MCDemo -------------------------------
EXTENDS FinalAcceptance, TLC

CONSTANTS sup, card, acc, cust, other, t1, t2, t3, t4

MCOwner == (t1 :> cust @@ t2 :> cust @@ t3 :> cust @@ t4 :> other)
MCSymmetry == Permutations({t1, t2, t3})
MCAccounts == <<sup, card, acc, cust>>
MCAnalysts == <<card, acc>>

Deployed(states, misfits, users, scripts) ==
  [account |-> [a \in {sup, card, acc, cust} |-> IF a \in DOMAIN states THEN states[a] ELSE "ready"],
   misfits |-> misfits, users |-> users, scripts |-> scripts]

MCDeployments ==
  { Deployed([a \in {sup, card, acc, cust} |-> "absent"], {}, 0, 4),
    Deployed(cust :> "absent", {}, 1, 3),
    Deployed(card :> "oldPassword", {}, 1, 4),
    Deployed(sup :> "conflict", {}, 1, 2),
    Deployed(sup :> "ready", {acc}, 1, 2),
    Deployed(sup :> "ready", {}, 2, 2) }
=============================================================================
