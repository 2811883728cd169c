-------------------------- MODULE MCBrowserSessions --------------------------
(* An instance of BrowserSessions for TLC: a busy tab and another one. *)
EXTENDS BrowserSessions, TLC

CONSTANTS left, right, me1, list1, me2

MCTabOf == me1 :> left @@ list1 :> left @@ me2 :> right
SessionSymmetry == Permutations(Session)
=============================================================================
