-------------------------- MODULE RateLimiterProofs --------------------------
(***************************************************************************)
(* Proofs about RateLimiter, for any number of clients and any limits.     *)
(***************************************************************************)
EXTENDS RateLimiter, TLAPS

\* When the window of a bucket opened.
Opened(key) == buckets[key].resetAt - WindowOf(key)

\* Every admission fell into its window.
InWindow ==
    \A key \in BucketKey : \A i \in DOMAIN log[key] :
        LET entry == log[key][i] IN
        entry.opened <= entry.at /\ entry.at < entry.opened + WindowOf(key)

\* The windows of a key do not overlap, and none holds more than its limit.
WindowsApart ==
    \A key \in BucketKey : \A i, j \in DOMAIN log[key] :
        LET earlier == log[key][i].opened
            later   == log[key][j].opened
        IN
        /\ i < j => earlier = later \/ earlier + WindowOf(key) <= later
        /\ j >= i + LimitOf(key) => earlier # later

\* A bucket that is live counts the latest admissions, and those before them
\* belong to windows that had ended when its own opened.
Counted(key) ==
    LET entries == log[key]
        count   == buckets[key].count
    IN
    /\ 0 <= Opened(key) /\ Opened(key) <= now
    /\ count <= Len(entries) \/ LimitOf(key) <= Len(entries)
    /\ \A i \in DOMAIN entries :
          /\ \/ entries[i].opened + WindowOf(key) <= Opened(key)
             \/ entries[i].opened = Opened(key) /\ Len(entries) - i < count
          /\ Len(entries) - i < count /\ Len(entries) - i < LimitOf(key)
                => entries[i].opened = Opened(key)

BucketCounts == \A key \in BucketKey : Live(key) => Counted(key)

\* Without a live bucket every window has ended.
WindowsEnded ==
    \A key \in BucketKey :
        ~Live(key) =>
            \A i \in DOMAIN log[key] : log[key][i].opened + WindowOf(key) <= now

LimiterInv ==
    TypeOK /\ InWindow /\ WindowsApart /\ BucketCounts /\ WindowsEnded

----------------------------------------------------------------------------
LEMMA PolicyTypes ==
  ASSUME NEW key \in BucketKey
  PROVE  LimitOf(key) \in Nat \ {0} /\ WindowOf(key) \in Nat \ {0}
BY RateLimitAssumption DEF LimitOf, WindowOf

LEMMA EntryTypes ==
  ASSUME TypeOK, NEW key \in BucketKey, NEW i \in DOMAIN log[key]
  PROVE  i \in Nat /\ log[key][i].at \in Nat /\ log[key][i].opened \in Nat
<1>1. log[key] \in Seq(Admission)
  BY DEF TypeOK
<1>2. i \in 1..Len(log[key]) /\ Len(log[key]) \in Nat
  BY <1>1
<1>3. log[key][i] \in Admission
  BY <1>1, <1>2
<1> QED
  BY <1>2, <1>3 DEF Admission

\* The cleanup keeps every live bucket as it is.
LEMMA CleanedFacts ==
  ASSUME NEW map
  PROVE  /\ DOMAIN Cleaned(map) \subseteq DOMAIN map
         /\ \A k \in DOMAIN Cleaned(map) : Cleaned(map)[k] = map[k]
         /\ \A k \in DOMAIN map : map[k].resetAt > now => k \in DOMAIN Cleaned(map)
<1>1. CASE Cleaned(map) = map
  BY <1>1
<1>2. CASE Cleaned(map) = [k \in {x \in DOMAIN map : map[x].resetAt > now} |-> map[k]]
  BY <1>2
<1> QED
  BY <1>1, <1>2 DEF Cleaned, RemoveExpired, Restrict

\* The bucket that counts a request is live and has a type.
LEMMA CurrentFacts ==
  ASSUME TypeOK, NEW key \in BucketKey
  PROVE  /\ Current(key).count \in Nat /\ Current(key).resetAt \in Nat
         /\ Current(key).resetAt > now
         /\ Live(key) => Current(key) = buckets[key]
         /\ ~Live(key) => /\ Current(key).count = 0
                          /\ Current(key).resetAt = now + WindowOf(key)
<1>1. CASE Live(key)
  BY <1>1 DEF Current, Live, TypeOK, Bucket
<1>2. CASE ~Live(key)
  BY <1>2, PolicyTypes DEF Current, TypeOK
<1> QED
  BY <1>1, <1>2

\* What a request does to the map.
LEMMA ConsumeFacts ==
  ASSUME TypeOK, NEW key \in BucketKey, Consume(key)
  PROVE  /\ DOMAIN buckets' \subseteq BucketKey
         /\ \A k \in DOMAIN buckets' : buckets'[k] \in Bucket
         /\ \A k \in BucketKey \ {key} :
               /\ Live(k)' <=> Live(k)
               /\ Live(k) => buckets'[k] = buckets[k]
         /\ Live(key)'
         /\ buckets'[key].count = Current(key).count + 1
         /\ buckets'[key].resetAt = Current(key).resetAt
<1> DEFINE bucket == [count |-> Current(key).count + 1,
                      resetAt |-> Current(key).resetAt]
           map == [k \in DOMAIN buckets \cup {key} |->
                     IF k = key THEN bucket ELSE buckets[k]]
<1>1. buckets' = Cleaned(map) /\ now' = now
  BY DEF Consume
<1>2. /\ bucket \in Bucket /\ bucket.resetAt > now
      /\ bucket.count = Current(key).count + 1
      /\ bucket.resetAt = Current(key).resetAt
  BY CurrentFacts DEF Bucket
<1>3. /\ DOMAIN map = DOMAIN buckets \cup {key}
      /\ map[key] = bucket
      /\ \A k \in DOMAIN buckets \ {key} : map[k] = buckets[k]
  OBVIOUS
<1> HIDE DEF bucket, map
<1>4. /\ DOMAIN buckets' \subseteq DOMAIN map
      /\ \A k \in DOMAIN buckets' : buckets'[k] = map[k]
      /\ \A k \in DOMAIN map : map[k].resetAt > now => k \in DOMAIN buckets'
  BY <1>1, CleanedFacts
<1>5. /\ DOMAIN buckets' \subseteq BucketKey
      /\ \A k \in DOMAIN buckets' : buckets'[k] \in Bucket
  BY <1>2, <1>3, <1>4 DEF TypeOK
<1>6. Live(key)' /\ buckets'[key] = bucket
  BY <1>1, <1>2, <1>3, <1>4 DEF Live
<1>7. ASSUME NEW k \in BucketKey \ {key}
      PROVE  /\ Live(k)' <=> Live(k)
             /\ Live(k) => buckets'[k] = buckets[k]
  BY <1>1, <1>3, <1>4 DEF Live
<1> QED
  BY <1>2, <1>5, <1>6, <1>7

LEMMA LimiterInit == Init => LimiterInv
BY DEF Init, LimiterInv, TypeOK, InWindow, WindowsApart, BucketCounts,
       WindowsEnded, Live

LEMMA TickStep == LimiterInv /\ Tick => LimiterInv'
<1> SUFFICES ASSUME LimiterInv, Tick PROVE LimiterInv'
  OBVIOUS
<1> USE DEF LimiterInv
<1>1. now' = now + 1 /\ UNCHANGED <<buckets, log>> /\ now \in Nat
  BY DEF Tick, TypeOK
<1>2. TypeOK' /\ InWindow' /\ WindowsApart'
  BY <1>1 DEF TypeOK, InWindow, WindowsApart
<1>3. ASSUME NEW key \in BucketKey, Live(key)'
      PROVE  Live(key)
  BY <1>1, <1>3 DEF Live, TypeOK, Bucket
<1>4. BucketCounts'
  <2> SUFFICES ASSUME NEW key \in BucketKey, Live(key)' PROVE Counted(key)'
    BY DEF BucketCounts
  <2>1. Live(key) /\ key \in DOMAIN buckets
    BY <1>1, <1>3 DEF Live
  <2>2. Counted(key) /\ WindowOf(key) \in Nat /\ buckets[key].resetAt \in Nat
    BY <2>1, PolicyTypes DEF BucketCounts, TypeOK, Bucket
  <2>3. Opened(key) <= now + 1 /\ Opened(key)' = Opened(key)
    BY <1>1, <2>2 DEF Counted, Opened, WindowOf
  <2> QED
    BY <1>1, <2>2, <2>3 DEF Counted, WindowOf, LimitOf
<1>5. WindowsEnded'
  <2> SUFFICES ASSUME NEW key \in BucketKey, ~Live(key)', NEW i \in DOMAIN log[key]
               PROVE  log[key][i].opened + WindowOf(key) <= now + 1
    BY <1>1 DEF WindowsEnded
  <2>1. log[key][i].opened \in Nat /\ WindowOf(key) \in Nat
    BY PolicyTypes, EntryTypes
  <2>2. CASE ~Live(key)
    BY <1>1, <2>1, <2>2 DEF WindowsEnded
  <2>3. CASE Live(key)
    <3>1. /\ buckets[key].resetAt \in Nat /\ buckets[key].resetAt <= now + 1
      BY <1>1, <2>3 DEF Live, TypeOK, Bucket
    <3>2. log[key][i].opened <= Opened(key)
      BY <2>1, <2>3, <3>1, PolicyTypes DEF BucketCounts, Counted, Opened
    <3> QED
      BY <1>1, <2>1, <3>1, <3>2 DEF Opened
  <2> QED
    BY <2>2, <2>3
<1> QED
  BY <1>2, <1>4, <1>5

LEMMA ConsumeStep ==
  ASSUME LimiterInv, NEW key \in BucketKey, Consume(key)
  PROVE  LimiterInv'
<1> USE DEF LimiterInv
<1> DEFINE l == log[key]
           n == Len(log[key])
           c == Current(key).count
           o == Current(key).resetAt - WindowOf(key)
           L == LimitOf(key)
           W == WindowOf(key)
<1>1. /\ L \in Nat \ {0} /\ W \in Nat \ {0} /\ now \in Nat
      /\ l \in Seq(Admission) /\ n \in Nat /\ DOMAIN l = 1..n
      /\ c \in Nat /\ Current(key).resetAt \in Nat
  BY PolicyTypes, CurrentFacts DEF TypeOK
<1>2. \A i \in 1..n : l[i].at \in Nat /\ l[i].opened \in Nat
  BY <1>1, EntryTypes
\* Before the request, whether its bucket is live or new.
<1>3. /\ o \in Nat /\ o <= now /\ now < o + W
      /\ c <= n \/ L <= n
      /\ \A i \in 1..n :
            /\ \/ l[i].opened + W <= o
               \/ l[i].opened = o /\ n - i < c
            /\ n - i < c /\ n - i < L => l[i].opened = o
  <2>1. CASE Live(key)
    <3>1. /\ c = buckets[key].count /\ o = Opened(key)
          /\ Current(key).resetAt > now
      BY <2>1, CurrentFacts DEF Opened
    <3>2. Counted(key)
      BY <2>1 DEF BucketCounts
    <3>3. o \in Nat /\ now < o + W
      BY <1>1, <3>1, <3>2 DEF Counted
    <3> QED
      BY <1>1, <3>1, <3>2, <3>3 DEF Counted
  <2>2. CASE ~Live(key)
    <3>1. c = 0 /\ o = now
      BY <1>1, <2>2, CurrentFacts
    <3>2. \A i \in 1..n : l[i].opened + W <= now
      BY <1>1, <2>2 DEF WindowsEnded
    <3> QED
      BY <1>1, <3>1, <3>2
  <2> QED
    BY <2>1, <2>2
<1>4. /\ now' = now /\ Live(key)'
      /\ buckets'[key].count = c + 1 /\ Opened(key)' = o
      /\ \A k \in BucketKey \ {key} :
            /\ Live(k)' <=> Live(k)
            /\ Live(k) => buckets'[k] = buckets[k]
  BY ConsumeFacts DEF Consume, Opened, WindowOf
<1>5. \/ c + 1 <= L /\ log' = [log EXCEPT ![key] = Append(l, [at |-> now, opened |-> o])]
      \/ c + 1 > L /\ log' = log
  BY <1>1 DEF Consume
<1>6. TypeOK'
  <2>1. [at |-> now, opened |-> o] \in Admission
    BY <1>1, <1>3 DEF Admission
  <2> DEFINE longer == Append(l, [at |-> now, opened |-> o])
  <2>a. longer \in Seq(Admission)
    BY <1>1, <2>1
  <2>b. log' = [log EXCEPT ![key] = longer] \/ log' = log
    BY <1>5
  <2> HIDE DEF longer
  <2>2. log' \in [BucketKey -> Seq(Admission)]
    BY <2>a, <2>b DEF TypeOK
  <2> QED
    BY <1>1, <1>4, <2>2, ConsumeFacts DEF TypeOK
<1>7. \A k \in BucketKey \ {key} : log'[k] = log[k]
  BY <1>5 DEF TypeOK
<1> HIDE DEF l, n, c, o, L, W
\* The log of the client after the request.
<1>8. CASE c + 1 <= L
  <2>1. log'[key] = Append(l, [at |-> now, opened |-> o])
    BY <1>5, <1>8, <1>1 DEF TypeOK, l
  <2>2. /\ Len(log'[key]) = n + 1 /\ DOMAIN log'[key] = 1..(n + 1)
        /\ \A i \in 1..n : log'[key][i] = l[i]
        /\ log'[key][n + 1].at = now /\ log'[key][n + 1].opened = o
    BY <1>1, <2>1 DEF n, l
  <2>3. InWindow'
    <3>1. \A i \in 1..n : l[i].opened <= l[i].at /\ l[i].at < l[i].opened + W
      BY <1>1 DEF InWindow, l, W
    <3>2. \A i \in 1..(n + 1) :
             /\ log'[key][i].opened <= log'[key][i].at
             /\ log'[key][i].at < log'[key][i].opened + W
      BY <1>1, <1>3, <2>2, <3>1
    <3> QED
      BY <1>7, <2>2, <3>2 DEF InWindow, W, WindowOf
  <2>4. WindowsApart'
    <3>1. \A i, j \in 1..n :
             /\ i < j => \/ l[i].opened = l[j].opened
                         \/ l[i].opened + W <= l[j].opened
             /\ j >= i + L => l[i].opened # l[j].opened
      BY <1>1 DEF WindowsApart, l, W, L
    <3>2. \A i \in 1..n :
             /\ l[i].opened = o \/ l[i].opened + W <= o
             /\ n + 1 >= i + L => l[i].opened # o
      BY <1>1, <1>2, <1>3, <1>8
    <3>3. \A i, j \in 1..(n + 1) :
             /\ i < j => \/ log'[key][i].opened = log'[key][j].opened
                         \/ log'[key][i].opened + W <= log'[key][j].opened
             /\ j >= i + L => log'[key][i].opened # log'[key][j].opened
      <4> SUFFICES ASSUME NEW i \in 1..(n + 1), NEW j \in 1..(n + 1), i < j
                   PROVE  /\ \/ log'[key][i].opened = log'[key][j].opened
                             \/ log'[key][i].opened + W <= log'[key][j].opened
                          /\ j >= i + L => log'[key][i].opened # log'[key][j].opened
        BY <1>1
      <4>1. i \in 1..n /\ log'[key][i] = l[i]
        BY <1>1, <2>2
      <4>2. CASE j = n + 1
        BY <2>2, <3>2, <4>1, <4>2
      <4>3. CASE j # n + 1
        <5>1. j \in 1..n /\ log'[key][j] = l[j]
          BY <1>1, <2>2, <4>3
        <5> QED
          BY <3>1, <4>1, <5>1
      <4> QED
        BY <4>2, <4>3
    <3> QED
      BY <1>7, <2>2, <3>3 DEF WindowsApart, W, L, WindowOf, LimitOf
  <2>5. BucketCounts'
    <3>1. /\ 0 <= Opened(key)' /\ Opened(key)' <= now'
          /\ buckets'[key].count <= Len(log'[key]) \/ L <= Len(log'[key])
      BY <1>1, <1>3, <1>4, <2>2
    <3>2. ASSUME NEW i \in 1..(n + 1)
          PROVE  /\ \/ log'[key][i].opened + W <= o
                    \/ log'[key][i].opened = o /\ (n + 1) - i < c + 1
                 /\ (n + 1) - i < c + 1 /\ (n + 1) - i < L
                       => log'[key][i].opened = o
      <4>1. CASE i = n + 1
        BY <1>1, <1>3, <2>2, <4>1
      <4>2. CASE i # n + 1
        <5>1. i \in 1..n /\ log'[key][i] = l[i]
          BY <1>1, <2>2, <4>2
        <5> QED
          BY <1>1, <1>2, <1>3, <5>1
      <4> QED
        BY <4>1, <4>2
    <3>3. \A k \in BucketKey \ {key} :
             Live(k) => Opened(k)' = Opened(k)
      BY <1>4 DEF Opened, WindowOf
    <3>4. Counted(key)'
      BY <1>4, <2>2, <3>1, <3>2 DEF Counted, W, L, WindowOf, LimitOf
    <3>5. \A k \in BucketKey \ {key} : Live(k)' => Counted(k)'
      BY <1>4, <1>7, <3>3 DEF BucketCounts, Counted, WindowOf, LimitOf
    <3> QED
      BY <3>4, <3>5 DEF BucketCounts
  <2>6. WindowsEnded'
    BY <1>4, <1>7 DEF WindowsEnded, WindowOf
  <2> QED
    BY <1>6, <2>3, <2>4, <2>5, <2>6
\* A refused request only raises the count.
<1>9. CASE c + 1 > L
  <2>1. log' = log
    BY <1>1, <1>5, <1>9
  <2>2. InWindow' /\ WindowsApart'
    BY <2>1 DEF InWindow, WindowsApart, WindowOf, LimitOf
  <2>3. BucketCounts'
    <3>1. L <= n
      BY <1>1, <1>3, <1>9
    <3>2. /\ 0 <= Opened(key)' /\ Opened(key)' <= now'
      BY <1>1, <1>3, <1>4
    <3>3. \A i \in 1..n :
             /\ \/ l[i].opened + W <= o
                \/ l[i].opened = o /\ n - i < c + 1
             /\ n - i < c + 1 /\ n - i < L => l[i].opened = o
      BY <1>1, <1>2, <1>3, <1>9
    <3>4. \A k \in BucketKey \ {key} :
             Live(k) => Opened(k)' = Opened(k)
      BY <1>4 DEF Opened, WindowOf
    <3>5. Counted(key)'
      BY <1>1, <1>4, <2>1, <3>1, <3>2, <3>3
      DEF Counted, W, L, WindowOf, LimitOf, l, n
    <3>6. \A k \in BucketKey \ {key} : Live(k)' => Counted(k)'
      BY <1>4, <2>1, <3>4 DEF BucketCounts, Counted, WindowOf, LimitOf
    <3> QED
      BY <3>5, <3>6 DEF BucketCounts
  <2>4. WindowsEnded'
    BY <1>4, <2>1 DEF WindowsEnded, WindowOf
  <2> QED
    BY <1>6, <2>2, <2>3, <2>4
<1> QED
  BY <1>1, <1>8, <1>9

LEMMA LimiterInvariant == Spec => []LimiterInv
<1>1. LimiterInv /\ UNCHANGED vars => LimiterInv'
  <2> SUFFICES ASSUME LimiterInv, UNCHANGED vars PROVE LimiterInv'
    OBVIOUS
  <2>1. UNCHANGED <<now, buckets, log>>
    BY DEF vars
  <2>2. ASSUME NEW key \in BucketKey
        PROVE  /\ Live(key)' <=> Live(key)
               /\ Counted(key)' <=> Counted(key)
    BY <2>1 DEF Live, Counted, Opened, WindowOf, LimitOf
  <2>3. TypeOK' /\ InWindow' /\ WindowsApart'
    BY <2>1 DEF LimiterInv, TypeOK, InWindow, WindowsApart, WindowOf, LimitOf
  <2>4. BucketCounts' /\ WindowsEnded'
    BY <2>1, <2>2 DEF LimiterInv, BucketCounts, WindowsEnded, WindowOf
  <2> QED
    BY <2>3, <2>4 DEF LimiterInv
<1>2. LimiterInv /\ [Next]_vars => LimiterInv'
  BY <1>1, TickStep, ConsumeStep DEF Next
<1> QED
  BY <1>2, LimiterInit, PTL DEF Spec

\* The clock, the buckets and the history of admissions are well typed.
THEOREM TypeCorrect == Spec => []TypeOK
<1>1. LimiterInv => TypeOK
  BY DEF LimiterInv
<1> QED
  BY <1>1, LimiterInvariant, PTL

LEMMA ThreeWindows ==
  ASSUME NEW W \in Nat, NEW first \in Nat, NEW open1 \in Nat, NEW open2 \in Nat,
         NEW open3 \in Nat, NEW last \in Nat,
         first < open1 + W, open1 + W <= open2, open2 + W <= open3, open3 <= last
  PROVE  last - first > W
OBVIOUS

\* The guarantee of fixed windows: two limits in a window's length, at most.
THEOREM FixedWindowsBoundBursts == Spec => []BurstsBounded
<1>1. LimiterInv => BurstsBounded
  <2> SUFFICES ASSUME LimiterInv, NEW key \in BucketKey,
                      NEW i \in DOMAIN log[key], NEW j \in DOMAIN log[key],
                      j >= i + 2 * LimitOf(key)
               PROVE  log[key][j].at - log[key][i].at > WindowOf(key)
    BY DEF BurstsBounded
  <2> USE DEF LimiterInv
  <2> DEFINE L == LimitOf(key)
             W == WindowOf(key)
             m == i + L
             x == log[key][i]
             y == log[key][m]
             z == log[key][j]
  <2>1. /\ L \in Nat \ {0} /\ W \in Nat \ {0}
        /\ log[key] \in Seq(Admission) /\ DOMAIN log[key] = 1..Len(log[key])
        /\ i \in Nat /\ j \in Nat
    BY PolicyTypes DEF TypeOK
  <2>2. m \in DOMAIN log[key] /\ i < m /\ m < j
        /\ m >= i + L /\ j >= m + L
    BY <2>1
  <2>3. \A n \in DOMAIN log[key] : log[key][n].at \in Nat /\ log[key][n].opened \in Nat
    BY EntryTypes
  <2>4. /\ log[key][i].opened + W <= log[key][m].opened
        /\ log[key][m].opened + W <= log[key][j].opened
    <3>1. /\ log[key][i].opened = log[key][m].opened \/
             log[key][i].opened + W <= log[key][m].opened
          /\ log[key][m].opened = log[key][j].opened \/
             log[key][m].opened + W <= log[key][j].opened
      BY <2>1, <2>2 DEF WindowsApart
    <3>2. \A p, q \in DOMAIN log[key] :
             q >= p + L => log[key][p].opened # log[key][q].opened
      BY DEF WindowsApart
    <3>3. /\ log[key][i].opened # log[key][m].opened
          /\ log[key][m].opened # log[key][j].opened
      BY <2>2, <3>2
    <3> QED
      BY <3>1, <3>3
  <2>5. /\ log[key][i].at < log[key][i].opened + W
        /\ log[key][j].opened <= log[key][j].at
    BY DEF InWindow
  <2>6. x.at \in Nat /\ x.opened \in Nat /\ y.opened \in Nat /\ z.at \in Nat /\ z.opened \in Nat
    BY <2>2, <2>3
  <2>7. /\ x.opened + W <= y.opened /\ y.opened + W <= z.opened
        /\ x.at < x.opened + W /\ z.opened <= z.at
    BY <2>4, <2>5
  <2> HIDE DEF m, x, y, z
  <2>8. z.at - x.at > W
    BY <2>1, <2>6, <2>7, ThreeWindows
  <2> QED
    BY <2>8 DEF x, z
<1> QED
  BY <1>1, LimiterInvariant, PTL

\* A refusal is always deserved by admissions in the same window.
THEOREM RefusalsAreDeserved == Spec => []RefusedOnlyAtLimit
<1>1. LimiterInv => RefusedOnlyAtLimit
  <2> SUFFICES ASSUME LimiterInv, NEW key \in BucketKey, Live(key),
                      buckets[key].count >= LimitOf(key)
               PROVE  LET first == Len(log[key]) - LimitOf(key) + 1 IN
                      first > 0 /\ log[key][first].at > now - WindowOf(key)
    BY DEF RefusedOnlyAtLimit
  <2> USE DEF LimiterInv
  <2> DEFINE L == LimitOf(key)
             n == Len(log[key])
             first == n - L + 1
  <2>1. /\ L \in Nat \ {0} /\ WindowOf(key) \in Nat /\ now \in Nat
        /\ log[key] \in Seq(Admission) /\ n \in Nat /\ DOMAIN log[key] = 1..n
        /\ buckets[key].count \in Nat /\ buckets[key].resetAt \in Nat
        /\ buckets[key].resetAt > now
    BY PolicyTypes DEF TypeOK, Live, Bucket
  <2>2. L <= n
    BY <2>1 DEF BucketCounts, Counted
  <2>3. /\ first \in DOMAIN log[key] /\ first > 0
        /\ n - first < L /\ n - first < buckets[key].count
    BY <2>1, <2>2
  <2>4. log[key][first].opened = Opened(key)
    BY <2>3 DEF BucketCounts, Counted
  <2>5. log[key][first].opened <= log[key][first].at
    BY <2>3 DEF InWindow
  <2>6. log[key][first].at \in Nat
    BY <2>3, EntryTypes
  <2>7. Opened(key) > now - WindowOf(key) /\ Opened(key) \in Int
    BY <2>1 DEF Opened
  <2> DEFINE at == log[key][first].at
  <2>8. at \in Nat /\ Opened(key) <= at
    BY <2>4, <2>5, <2>6
  <2> HIDE DEF at
  <2>9. at > now - WindowOf(key)
    BY <2>1, <2>7, <2>8
  <2> QED
    BY <2>3, <2>9 DEF at
<1> QED
  BY <1>1, LimiterInvariant, PTL

----------------------------------------------------------------------------
(* The map implements windows of their own. *)

UsedOf(key)  == IF Live(key) THEN buckets[key].count ELSE 0
UntilOf(key) == IF Live(key) THEN buckets[key].resetAt ELSE 0

Used  == [key \in BucketKey |-> UsedOf(key)]
Until == [key \in BucketKey |-> UntilOf(key)]

\* A live bucket has counted a request, so it is never taken for no window.
LEMMA UsedTells ==
  ASSUME TypeOK, NEW key \in BucketKey
  PROVE  /\ Live(key) <=> UsedOf(key) # 0
         /\ UsedOf(key) = Current(key).count
         /\ Live(key) => UntilOf(key) = Current(key).resetAt
         /\ UntilOf(key) > now <=> Live(key)
<1>1. CASE Live(key)
  <2>1. buckets[key] \in Bucket /\ buckets[key].resetAt > now
    BY <1>1 DEF TypeOK, Live
  <2> QED
    BY <1>1, <2>1 DEF UsedOf, UntilOf, Current, Bucket
<1>2. CASE ~Live(key)
  BY <1>2 DEF UsedOf, UntilOf, Current, TypeOK
<1> QED
  BY <1>1, <1>2

LEMMA TickPasses == TypeOK /\ Tick => Windows!Pass
<1> SUFFICES ASSUME TypeOK, Tick PROVE Windows!Pass
  OBVIOUS
<1> DEFINE open == {c \in BucketKey : Until[c] > now + 1}
<1>1. now \in Nat /\ now' = now + 1 /\ UNCHANGED <<buckets, log>>
  BY DEF Tick, TypeOK
<1>2. ASSUME NEW key \in BucketKey
      PROVE  /\ UsedOf(key)' = IF key \in open THEN Used[key] ELSE 0
             /\ UntilOf(key)' = IF key \in open THEN Until[key] ELSE 0
  <2>1. Live(key)' <=> key \in open
    <3>1. CASE Live(key)
      <4>1. buckets[key].resetAt \in Nat
        BY <3>1 DEF TypeOK, Live, Bucket
      <4> QED
        BY <1>1, <3>1, <4>1 DEF Live, Until, UntilOf
    <3>2. CASE ~Live(key)
      <4>1. key \notin open
        BY <1>1, <3>2 DEF Until, UntilOf
      <4>2. key \in DOMAIN buckets => buckets[key].resetAt \in Nat
        BY DEF TypeOK, Bucket
      <4> QED
        BY <1>1, <3>2, <4>1, <4>2 DEF Live
    <3> QED
      BY <3>1, <3>2
  <2>2. key \in open => Live(key)
    BY <1>1 DEF Until, UntilOf
  <2> QED
    BY <1>1, <2>1, <2>2 DEF Used, Until, UsedOf, UntilOf
<1>3. /\ Used' = [c \in BucketKey |-> IF c \in open THEN Used[c] ELSE 0]
      /\ Until' = [c \in BucketKey |-> IF c \in open THEN Until[c] ELSE 0]
  BY <1>2 DEF Used, Until
<1> QED
  BY <1>1, <1>3 DEF Windows!Pass, Used, Until, UsedOf, UntilOf

\* A request is counted in its own window, and leaves all others alone.
LEMMA ConsumeAsks ==
  ASSUME TypeOK, NEW key \in BucketKey, Consume(key)
  PROVE  Windows!Ask(key)
<1> DEFINE count == Current(key).count
           end == IF Used[key] = 0 THEN now + WindowOf(key) ELSE Until[key]
<1>1. /\ count \in Nat /\ Used[key] = count
      /\ LimitOf(key) \in Nat /\ end = Current(key).resetAt
  BY CurrentFacts, UsedTells, PolicyTypes DEF Used, Until
<1>2. /\ Live(key)' /\ now' = now
      /\ UsedOf(key)' = count + 1 /\ UntilOf(key)' = end
  BY <1>1, ConsumeFacts DEF UsedOf, UntilOf, Consume
<1>3. ASSUME NEW k \in BucketKey \ {key}
      PROVE  UsedOf(k)' = Used[k] /\ UntilOf(k)' = Until[k]
  <2>1. /\ Live(k)' <=> Live(k)
        /\ Live(k) => buckets'[k] = buckets[k]
    BY ConsumeFacts
  <2> QED
    BY <2>1 DEF Used, Until, UsedOf, UntilOf
<1>4. log' = IF count + 1 <= LimitOf(key)
             THEN [log EXCEPT ![key] = Append(log[key],
                     [at |-> now, opened |-> end - WindowOf(key)])]
             ELSE log
  BY <1>1 DEF Consume
<1> HIDE DEF end
<1>5. /\ Used' = [Used EXCEPT ![key] = Used[key] + 1]
      /\ Until' = [Until EXCEPT ![key] = end]
  BY <1>1, <1>2, <1>3 DEF Used, Until
<1>6. \/ /\ Used[key] < LimitOf(key)
         /\ log' = [log EXCEPT ![key] = Append(log[key],
                      [at |-> now, opened |-> end - WindowOf(key)])]
      \/ Used[key] >= LimitOf(key) /\ log' = log
  BY <1>1, <1>4
<1> QED
  BY <1>2, <1>5, <1>6 DEF Windows!Ask, end, Used, Until, UsedOf, UntilOf

\* No client can tell the shared map and its cleanup from windows of its own.
THEOREM MapImplementsWindows == Spec => ImplementsWindows
<1>1. Init => Windows!Init
  BY DEF Init, Windows!Init, Live
<1>2. LimiterInv /\ [Next]_vars => [Windows!Next]_(Windows!windows)
  <2>1. ASSUME LimiterInv, Tick PROVE Windows!Next
    BY <2>1, TickPasses DEF LimiterInv, Windows!Next
  <2>2. ASSUME LimiterInv, NEW key \in BucketKey, Consume(key)
        PROVE  Windows!Next
    BY <2>2, ConsumeAsks DEF LimiterInv, Windows!Next
  <2>3. UNCHANGED vars => UNCHANGED Windows!windows
    BY DEF vars, Windows!windows, Live
  <2> QED
    BY <2>1, <2>2, <2>3 DEF Next
<1> QED
  BY <1>1, <1>2, LimiterInvariant, PTL DEF Spec, Windows!Spec, ImplementsWindows
=============================================================================
