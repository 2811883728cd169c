---------------------------- MODULE SessionStore ----------------------------
(***************************************************************************)
(* What the refresh sessions of AuthService amount to: tokens that are     *)
(* issued once, replaced in one step, and withdrawn for good.              *)
(***************************************************************************)
CONSTANTS User, Token

VARIABLES
    good,    \* the tokens that are accepted, each with its login and owner
    issued   \* all tokens ever given out

store == <<good, issued>>

Grant(login, owner, token) ==
    [login |-> login, owner |-> owner, token |-> token]

\* A login is named by its first token.
LogIn ==
    \E u \in User, t \in Token \ issued :
        /\ good' = good \cup {Grant(t, u, t)}
        /\ issued' = issued \cup {t}

\* A token is exchanged for a new one of the same login.
Refresh ==
    \E g \in good, t \in Token \ issued :
        /\ good' = (good \ {g}) \cup {Grant(g.login, g.owner, t)}
        /\ issued' = issued \cup {t}

\* Some or all of the logins of a user end.
SignOut ==
    /\ \E u \in User, withdrawn \in SUBSET good :
        /\ \A g \in withdrawn : g.owner = u
        /\ good' = good \ withdrawn
    /\ UNCHANGED issued

Init == good = {} /\ issued = {}

Next == LogIn \/ Refresh \/ SignOut

Spec == Init /\ [][Next]_store
=============================================================================
