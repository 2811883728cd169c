--------------------------- MODULE MCRateLimiter ---------------------------
(* An instance of RateLimiter for TLC: a strict scope and a lenient one. *)
EXTENDS RateLimiter, TLC

CONSTANTS auth, general, c1, c2

MCKey == {<<auth, c1>>, <<auth, c2>>, <<general, c1>>}

MCLimit  == (auth :> 1) @@ (general :> 2)
MCWindow == (auth :> 2) @@ (general :> 2)
=============================================================================
