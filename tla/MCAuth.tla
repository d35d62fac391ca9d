------------------------------- MODULE MCAuth -------------------------------
(* Two accounts, one of them an administrator, and three requests. *)
EXTENDS Sessions, TLC

CONSTANTS e1, e2, i1, p1, p2, g1, o1, o2, r1, r2, r3

Member == NewAccount(p1, "PLAYER")
Admin  == NewAccount(p2, "ADMIN")

\* The first account exists or does not.
SmallTables == {e1 :> row @@ e2 :> Admin : row \in {Member, NoAccount}}
SmallOwners == o1 :> e1 @@ o2 :> e2
SmallMax    == e1 :> 2 @@ e2 :> 2 @@ i1 :> 3
SmallMenus  == {{"login", "counterExpires"}, {"login", "restart"},
                {"refresh", "logout", "tokenExpires"}, {"refresh", "logout", "restart"},
                {"refresh", "status"}, {"login", "change"},
                {"forgot", "reset", "change", "resetExpires"}, {"register", "google"},
                {"generate", "turnOn", "login"}}
Both        == BOOLEAN
Renamed     == Permutations(Requests)
=============================================================================
