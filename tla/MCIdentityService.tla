-------------------------- MODULE MCIdentityService -------------------------
EXTENDS IdentityService, TLC

CONSTANTS ana, nia, adm, kim, lee, g1, g2, e1, e2, e3, e4

MCRole == (ana :> "ANALYST" @@ nia :> "ANALYST" @@ adm :> "ADMIN"
           @@ kim :> "CUSTOMER" @@ lee :> "CUSTOMER")
MCGsm == (ana :> Null @@ nia :> Null @@ adm :> Null @@ kim :> g1 @@ lee :> g2)
\* Two customers claim one e-mail address.
MCEmail == (ana :> e1 @@ nia :> e2 @@ adm :> e3 @@ kim :> e4 @@ lee :> e4)

MixOf(maxTokens, maxCodes, ops, purposes, accounts, registered, loggedIn, rights, time) ==
  [ops |-> ops, purposes |-> purposes, users |-> accounts,
   registered |-> registered, loggedIn |-> loggedIn, rights |-> rights, time |-> time,
   maxTokens |-> maxTokens, maxCodes |-> maxCodes]
Mix(ops, purposes, accounts, registered, loggedIn, rights, time) ==
  MixOf(3, 2, ops, purposes, accounts, registered, loggedIn, rights, time)

\* In the first two, requests wait for each other's rows in a circle: two
\* that present reused tokens of one user, after two logins and two rotations,
\* and two that withdraw the two codes a number was given at the same time.
MCMixes ==
  { MixOf(4, 0, {"rotate"}, {}, {ana}, {ana}, <<ana, ana>>, {TRUE}, 0),
    MixOf(0, 4, {"askCode"}, {"REGISTER"}, {kim}, {}, <<>>, {TRUE}, 0),
    Mix({"rotate", "logout"}, {}, {ana}, {ana}, <<ana, ana>>, {TRUE}, 0),
    Mix({"staffLogin", "rotate"}, {}, {ana}, {ana}, <<ana>>, {TRUE}, 0),
    Mix({"rotate"}, {}, {ana}, {ana}, <<ana>>, {TRUE}, 1),
    Mix({"staffLogin"}, {}, {ana}, {ana}, <<>>, BOOLEAN, 2),
    Mix({"staffLogin"}, {}, {kim, nia}, {kim}, <<>>, {FALSE}, 0),
    Mix({"createStaff", "bootstrap"}, {}, {adm, nia}, {adm}, <<adm>>, {TRUE}, 0),
    Mix({"staffLogin", "bootstrap"}, {}, {adm}, {}, <<>>, {TRUE}, 0),
    Mix({"createStaff"}, {}, {ana, adm, nia}, {ana, adm}, <<ana, adm>>, {TRUE}, 1),
    Mix({"askCode", "register"}, {"REGISTER"}, {kim, lee}, {}, <<>>, {TRUE}, 0),
    Mix({"askCode", "register"}, {"REGISTER"}, {kim}, {}, <<>>, {TRUE}, 1),
    Mix({"askCode", "register"}, {"REGISTER"}, {kim}, {}, <<>>, BOOLEAN, 0),
    Mix({"askCode", "customerLogin"}, {"LOGIN"}, {kim}, {kim}, <<>>, BOOLEAN, 0) }
=============================================================================
