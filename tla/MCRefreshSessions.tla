------------------------- MODULE MCRefreshSessions -------------------------
(* Instances of RefreshSessions for TLC. *)
EXTENDS RefreshSessions, TLC

\* Sessions and requests are interchangeable.
Symmetry == Permutations(Session) \cup Permutations(Request)
=============================================================================
