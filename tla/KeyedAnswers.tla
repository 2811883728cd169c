----------------------------- MODULE KeyedAnswers -----------------------------
(***************************************************************************)
(* What an idempotency key amounts to for the clients of the API.  Of the  *)
(* requests that carry a key one at a time is let through to its handler;  *)
(* the answer of one that succeeds is repeated to those that ask the same, *)
(* until the key is forgotten.  A request that fails gives the key up, or  *)
(* keeps it until then, and may have taken effect.                         *)
(***************************************************************************)
CONSTANTS Request, Key, Fingerprint, None

VARIABLES
    ask,      \* what each request asks: its key and its fingerprint
    holder,   \* the request that each key belongs to, and whether it succeeded
    effect,   \* the requests that have taken effect
    answer,   \* what each client has got
    source    \* the request whose answer was repeated to it

visible == <<ask, holder, effect, answer, source>>

Claim(r, status) == [by |-> r, status |-> status]

Waits(r) == answer[r] = None
Holds(r) == holder[ask[r].key] = Claim(r, "PENDING")

Told(r, a) == answer' = [answer EXCEPT ![r] = a]

----------------------------------------------------------------------------
\* The key is nobody's: the request goes through.
LetThrough(r) ==
    LET k == ask[r].key IN
    /\ Waits(r) /\ holder[k] = None
    /\ holder' = [holder EXCEPT ![k] = Claim(r, "PENDING")]
    /\ UNCHANGED <<ask, effect, answer, source>>

TakeEffect(r) ==
    /\ Waits(r) /\ Holds(r) /\ r \notin effect
    /\ effect' = effect \cup {r}
    /\ UNCHANGED <<ask, holder, answer, source>>

Succeed(r) ==
    /\ Waits(r) /\ Holds(r) /\ r \in effect
    /\ holder' = [holder EXCEPT ![ask[r].key] = Claim(r, "COMPLETED")]
    /\ Told(r, "ok")
    /\ UNCHANGED <<ask, effect, source>>

\* Another request succeeded with the same question.
Repeat(r) == \E x \in effect :
    /\ Waits(r)
    /\ holder[ask[r].key] = Claim(x, "COMPLETED")
    /\ ask[x] = ask[r]
    /\ Told(r, "replay")
    /\ source' = [source EXCEPT ![r] = x]
    /\ UNCHANGED <<ask, holder, effect>>

\* The key is another request's, which asks something else or still runs.
Decline(r) == \E x \in Request, status \in {"PENDING", "COMPLETED"} :
    /\ Waits(r) /\ x # r
    /\ holder[ask[r].key] = Claim(x, status)
    /\ IF ask[x] # ask[r] THEN Told(r, "mismatch")
                          ELSE status = "PENDING" /\ Told(r, "inProgress")
    /\ UNCHANGED <<ask, holder, effect, source>>

\* It fails, before its turn, in its turn or after it has taken effect.
GiveUp(r) ==
    /\ Waits(r)
    /\ \E a \in {"error", "lost"} : Told(r, a)
    /\ \/ UNCHANGED holder
       \/ Holds(r) /\ holder' = [holder EXCEPT ![ask[r].key] = None]
    /\ UNCHANGED <<ask, effect, source>>

\* Only an answered request loses its key.
Forget(k) ==
    /\ \E x \in Request, status \in {"PENDING", "COMPLETED"} :
          holder[k] = Claim(x, status) /\ ~Waits(x)
    /\ holder' = [holder EXCEPT ![k] = None]
    /\ UNCHANGED <<ask, effect, answer, source>>

----------------------------------------------------------------------------
Init ==
    /\ ask \in [Request -> [key : Key, fingerprint : Fingerprint]]
    /\ holder = [k \in Key |-> None]
    /\ effect = {}
    /\ answer = [r \in Request |-> None]
    /\ source = [r \in Request |-> None]

Next ==
    \/ \E r \in Request :
        \/ LetThrough(r) \/ TakeEffect(r) \/ Succeed(r)
        \/ Repeat(r) \/ Decline(r) \/ GiveUp(r)
    \/ \E k \in Key : Forget(k)

Spec == Init /\ [][Next]_visible
=============================================================================
