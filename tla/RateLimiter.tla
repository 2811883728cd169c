----------------------------- MODULE RateLimiter -----------------------------
(***************************************************************************)
(* The rate limiter of one API process: RateLimitMiddleware in front of    *)
(* every route but the health probes, and the buckets of RateLimitService. *)
(*                                                                         *)
(* A bucket counts the requests of a client in a window that opens with    *)
(* the first of them.  Expired buckets stay in the map until their client  *)
(* returns or the map has grown beyond its threshold.  One call of consume *)
(* runs without interruption.                                              *)
(***************************************************************************)
EXTENDS Integers, FiniteSets, Sequences, Functions

CONSTANTS
    Scope,       \* "auth" and "general", counted apart
    BucketKey,   \* pairs of a scope and a client, which is its request.ip
    Limit,       \* [Scope -> Nat \ {0}]: requests allowed in a window
    Window,      \* [Scope -> Nat \ {0}]: milliseconds
    Threshold,   \* buckets.size beyond which the map is cleaned: 5000
    MaxTime,     \* bound on the clock
    MaxExcess    \* bound: requests counted beyond the limit

ASSUME RateLimitAssumption ==
    /\ \A key \in BucketKey : key[1] \in Scope
    /\ Limit \in [Scope -> Nat \ {0}]
    /\ Window \in [Scope -> Nat \ {0}]
    /\ Threshold \in Nat /\ MaxTime \in Nat /\ MaxExcess \in Nat \ {0}

VARIABLES
    now,       \* Date.now()
    buckets,   \* the Map, from a scope and a client to their bucket
    log        \* history: when each admitted request of a key came, and when
               \* the window it was counted in had opened

vars == <<now, buckets, log>>

LimitOf(key)  == Limit[key[1]]
WindowOf(key) == Window[key[1]]

----------------------------------------------------------------------------
\* A bucket that consume would go on counting in.
Live(key) == key \in DOMAIN buckets /\ buckets[key].resetAt > now

\* Mutant: every request moves the end of its window.
Current_Sliding(key) ==
    [count   |-> IF Live(key) THEN buckets[key].count ELSE 0,
     resetAt |-> now + WindowOf(key)]

\* The bucket that counts a request of this key.
Current(key) ==
    IF Live(key) THEN buckets[key]
                 ELSE [count |-> 0, resetAt |-> now + WindowOf(key)]

\* Mutant: the map is cleared, expired or not.
RemoveExpired_All(map) == Restrict(map, {})

\* removeExpired.
RemoveExpired(map) ==
    Restrict(map, {key \in DOMAIN map : map[key].resetAt > now})

\* Opportunistic cleanup, after the bucket has been stored.
Cleaned(map) ==
    IF Cardinality(DOMAIN map) > Threshold THEN RemoveExpired(map) ELSE map

\* consume, and the middleware that lets the request pass or answers 429.
Consume(key) ==
    LET bucket == [count   |-> Current(key).count + 1,
                   resetAt |-> Current(key).resetAt]
    IN
    /\ bucket.count <= LimitOf(key) + MaxExcess
    /\ buckets' = Cleaned([k \in DOMAIN buckets \cup {key} |->
                              IF k = key THEN bucket ELSE buckets[k]])
    /\ log' = IF bucket.count <= LimitOf(key)
              THEN [log EXCEPT ![key] = Append(log[key],
                      [at |-> now, opened |-> bucket.resetAt - WindowOf(key)])]
              ELSE log
    /\ UNCHANGED now

\* The clock moves on.
Tick ==
    /\ now < MaxTime
    /\ now' = now + 1
    /\ UNCHANGED <<buckets, log>>

----------------------------------------------------------------------------
Init ==
    /\ now = 0
    /\ buckets = [key \in {} |-> key]
    /\ log = [key \in BucketKey |-> <<>>]

Next == Tick \/ \E key \in BucketKey : Consume(key)

Spec == Init /\ [][Next]_vars

----------------------------------------------------------------------------
Bucket == [count : Nat \ {0}, resetAt : Nat]
Admission == [at : Nat, opened : Nat]

\* Every variable has its type.
TypeOK ==
    /\ now \in Nat
    /\ DOMAIN buckets \subseteq BucketKey
    /\ \A key \in DOMAIN buckets : buckets[key] \in Bucket
    /\ log \in [BucketKey -> Seq(Admission)]

\* A client that bunches its requests around the end of a window gets at most
\* two limits of them through in any span of a window's length, whatever
\* cleanups forget in between.
BurstsBounded ==
    \A key \in BucketKey : \A i, j \in DOMAIN log[key] :
        j >= i + 2 * LimitOf(key)
            => log[key][j].at - log[key][i].at > WindowOf(key)

\* The next request of a client is refused only if as many requests of it as
\* the limit allows were admitted less than a window ago: refused requests
\* do not prolong the wait, and nobody is refused for somebody else.
RefusedOnlyAtLimit ==
    \A key \in BucketKey :
        Live(key) /\ buckets[key].count >= LimitOf(key) =>
            LET first == Len(log[key]) - LimitOf(key) + 1 IN
            first > 0 /\ log[key][first].at > now - WindowOf(key)

\* Every client has its own fixed windows: what the map forgets, and whose
\* request makes it forget, is never noticed.
Windows == INSTANCE FixedWindows WITH
    Client    <- BucketKey,
    Allowance <- [key \in BucketKey |-> LimitOf(key)],
    Span      <- [key \in BucketKey |-> WindowOf(key)],
    used  <- [key \in BucketKey |-> IF Live(key) THEN buckets[key].count ELSE 0],
    until <- [key \in BucketKey |-> IF Live(key) THEN buckets[key].resetAt ELSE 0]

ImplementsWindows == Windows!Spec
=============================================================================
