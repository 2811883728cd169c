---------------------------- MODULE FixedWindows ----------------------------
(***************************************************************************)
(* What the rate limiter promises its clients.  Each has a window of its   *)
(* own, which opens with a request and ends a span later; every request is *)
(* counted in it, and passes while the allowance lasts.  Nothing else      *)
(* touches the window: there is no map, and nothing to clean.              *)
(***************************************************************************)
EXTENDS Integers, Sequences

CONSTANTS Client, Allowance, Span   \* Allowance, Span \in [Client -> Nat \ {0}]

VARIABLES
    now,
    used,    \* requests counted in the window of each client, 0 without one
    until,   \* the end of the window, 0 without one
    log      \* the requests that passed

windows == <<now, used, until, log>>

Ask(c) ==
    LET end == IF used[c] = 0 THEN now + Span[c] ELSE until[c] IN
    /\ used' = [used EXCEPT ![c] = used[c] + 1]
    /\ until' = [until EXCEPT ![c] = end]
    /\ \/ /\ used[c] < Allowance[c]
          /\ log' = [log EXCEPT ![c] =
                        Append(log[c], [at |-> now, opened |-> end - Span[c]])]
       \/ used[c] >= Allowance[c] /\ UNCHANGED log
    /\ UNCHANGED now

\* Time passes, and windows end.
Pass ==
    LET open == {c \in Client : until[c] > now + 1} IN
    /\ now' = now + 1
    /\ used' = [c \in Client |-> IF c \in open THEN used[c] ELSE 0]
    /\ until' = [c \in Client |-> IF c \in open THEN until[c] ELSE 0]
    /\ UNCHANGED log

----------------------------------------------------------------------------
Init ==
    /\ now = 0
    /\ used = [c \in Client |-> 0]
    /\ until = [c \in Client |-> 0]
    /\ log = [c \in Client |-> <<>>]

Next == Pass \/ \E c \in Client : Ask(c)

Spec == Init /\ [][Next]_windows
=============================================================================
