------------------------ MODULE IdempotencyKeysProofs ------------------------
(***************************************************************************)
(* Proofs about IdempotencyKeys, for any number of requests and keys.      *)
(***************************************************************************)
EXTENDS IdempotencyKeys, TLAPS

\* The row of a running request is its own, pending and not expired.
Owns(r) ==
    LET rec == record[ask[r].key] IN
    rec # None /\ rec.id = r /\ rec.status = "PENDING" /\ ~rec.expired

RequestInv ==
    \A r \in Request :
        /\ pc[r] \in Running => Owns(r)
        /\ pc[r] \in {"afterCommit", "complete"} => r \in effect
        /\ answer[r] = "replay" => pc[r] = "done" /\ seen[r] \in Request

\* What a row says of the request that inserted it.
RecordInv ==
    \A k \in Key :
        record[k] # None =>
            LET x == record[k].id IN
            /\ ask[x].key = k
            /\ ask[x].fingerprint = record[k].fingerprint
            /\ record[k].status = "COMPLETED" => x \in effect

KeysInv == TypeOK /\ RequestInv /\ RecordInv /\ ReplayFaithful

LEMMA KeysInit == Init => KeysInv
BY NoneAssumption DEF Init, KeysInv, TypeOK, RequestInv, RecordInv, ReplayFaithful,
       Running, Claiming, Answer

\* What the two updates of a row leave alone.
LEMMA RowUpdates ==
  ASSUME NEW rec \in Record, NEW done \in {"PENDING", "COMPLETED"}
  PROVE  LET completed == [rec EXCEPT !.status = done]
             expired   == [rec EXCEPT !.expired = TRUE]
         IN /\ completed \in Record /\ completed.id = rec.id
            /\ completed.fingerprint = rec.fingerprint
            /\ completed.status = done
            /\ expired \in Record /\ expired.id = rec.id
            /\ expired.fingerprint = rec.fingerprint
            /\ expired.status = rec.status
BY DEF Record

LEMMA TypeStep == TypeOK /\ [Next]_vars => TypeOK'
<1> SUFFICES ASSUME TypeOK, [Next]_vars PROVE TypeOK'
  OBVIOUS
<1> USE DEF TypeOK, Claiming, Running, Answer, GoTo, Reply, ReplyFrom
<1>1. ASSUME NEW r \in Request, Arrive(r) PROVE TypeOK'
  BY <1>1 DEF Arrive
<1>2. ASSUME NEW r \in Request, Create(r) PROVE TypeOK'
  <2> DEFINE new == [id |-> r, fingerprint |-> ask[r].fingerprint,
                     status |-> "PENDING", expired |-> FALSE]
  <2>1. new \in Record
    BY DEF Record
  <2>2. \/ record' = [record EXCEPT ![ask[r].key] = new]
        \/ record' = record
    BY <1>2 DEF Create
  <2> HIDE DEF new
  <2>3. record' \in [Key -> Record \cup {None}]
    BY <2>1, <2>2
  <2> QED
    BY <1>2, <2>3 DEF Create
<1>3. ASSUME NEW r \in Request, Find(r) PROVE TypeOK'
  <2>1. record[ask[r].key] # None => record[ask[r].key].id \in Request
    BY DEF Record
  <2> QED
    BY <1>3, <2>1 DEF Find
<1>4. ASSUME NEW r \in Request, DeleteExpired(r) PROVE TypeOK'
  BY <1>4 DEF DeleteExpired
<1>5. ASSUME NEW r \in Request, Commit(r) \/ Return(r) \/ Throw(r) PROVE TypeOK'
  BY <1>5 DEF Commit, Return, Throw
<1>6. ASSUME NEW r \in Request, Complete(r) PROVE TypeOK'
  <2> DEFINE k == ask[r].key
             new == [record[k] EXCEPT !.status = "COMPLETED"]
  <2>1. CASE record[k] # None
    <3>1. record[k] \in Record
      BY <2>1
    <3>2. new \in Record
      BY <3>1, RowUpdates
    <3>3. \/ record' = [record EXCEPT ![k] = new]
          \/ record' = record
      BY <1>6 DEF Complete
    <3> HIDE DEF new
    <3>4. record' \in [Key -> Record \cup {None}]
      BY <3>2, <3>3
    <3> QED
      BY <1>6, <3>4 DEF Complete
  <2>2. CASE record[k] = None
    BY <1>6, <2>2 DEF Complete
  <2> QED
    BY <2>1, <2>2
<1>7. ASSUME NEW r \in Request, Release(r) PROVE TypeOK'
  BY <1>7 DEF Release
<1>8. ASSUME NEW r \in Request, DatabaseError(r) \/ Crash(r) PROVE TypeOK'
  BY <1>8 DEF DatabaseError, Crash
<1>9. ASSUME NEW k \in Key, Expire(k) PROVE TypeOK'
  <2> DEFINE new == [record[k] EXCEPT !.expired = TRUE]
  <2>1. record[k] \in Record
    BY <1>9 DEF Expire
  <2>2. new \in Record
    BY <2>1, RowUpdates
  <2>3. record' = [record EXCEPT ![k] = new]
    BY <1>9 DEF Expire
  <2> HIDE DEF new
  <2>4. record' \in [Key -> Record \cup {None}]
    BY <2>2, <2>3
  <2> QED
    BY <1>9, <2>4 DEF Expire
<1>10. CASE UNCHANGED vars
  BY <1>10 DEF vars
<1> QED
  BY <1>1, <1>2, <1>3, <1>4, <1>5, <1>6, <1>7, <1>8, <1>9, <1>10
  DEF Next, Continue

\* Whatever step is taken, only the request itself touches the row it owns.
LEMMA KeysStep == KeysInv /\ [Next]_vars => KeysInv'
<1> SUFFICES ASSUME KeysInv, [Next]_vars PROVE KeysInv'
  OBVIOUS
<1> TypeOK /\ TypeOK'
  BY TypeStep DEF KeysInv
<1> USE DEF KeysInv, RequestInv, RecordInv, ReplayFaithful, Owns
<1>1. ASSUME NEW r \in Request, Arrive(r) PROVE KeysInv'
  BY <1>1 DEF Arrive, GoTo, TypeOK, Running
<1>2. ASSUME NEW r \in Request, Create(r) PROVE KeysInv'
  <2> DEFINE k == ask[r].key
  <2>1. CASE record[k] = None
    <3> DEFINE new == [id |-> r, fingerprint |-> ask[r].fingerprint,
                       status |-> "PENDING", expired |-> FALSE]
    <3>a. /\ new \in Record /\ new.id = r /\ new.status = "PENDING"
          /\ new.fingerprint = ask[r].fingerprint /\ ~new.expired
      BY DEF TypeOK, Record
    <3>b. record' = [record EXCEPT ![k] = new] /\ k \in Key
      BY <1>2, <2>1 DEF Create, TypeOK
    <3> HIDE DEF new
    <3>1. /\ record'[k] = new /\ new # None
          /\ \A j \in Key \ {k} : record'[j] = record[j]
      BY <3>a, <3>b, NoneAssumption DEF TypeOK
    <3>2. /\ pc' = [pc EXCEPT ![r] = "handle"]
          /\ UNCHANGED <<ask, seen, answer, effect>>
      BY <1>2, <2>1 DEF Create, GoTo
    <3>3. \A s \in Request \ {r} : pc[s] \in Running => ask[s].key # k
      BY <2>1
    <3>4. pc'[r] = "handle" /\ \A s \in Request \ {r} : pc'[s] = pc[s]
      BY <3>2 DEF TypeOK
    <3>5. RequestInv'
      <4> SUFFICES ASSUME NEW s \in Request
                   PROVE  /\ pc'[s] \in Running => Owns(s)'
                          /\ pc'[s] \in {"afterCommit", "complete"} => s \in effect'
                          /\ answer'[s] = "replay" =>
                               pc'[s] = "done" /\ seen'[s] \in Request
        OBVIOUS
      <4>1. CASE s = r
        BY <1>2, <3>a, <3>1, <3>2, <3>4, <4>1 DEF Create
      <4>2. CASE s # r
        BY <3>1, <3>2, <3>3, <3>4, <4>2 DEF TypeOK
      <4> QED
        BY <4>1, <4>2
    <3>6. RecordInv'
      <4> SUFFICES ASSUME NEW j \in Key, record'[j] # None
                   PROVE  LET x == record'[j].id IN
                          /\ ask'[x].key = j
                          /\ ask'[x].fingerprint = record'[j].fingerprint
                          /\ record'[j].status = "COMPLETED" => x \in effect'
        OBVIOUS
      <4>1. CASE j = k
        BY <3>a, <3>1, <3>2, <4>1
      <4>2. CASE j # k
        BY <3>1, <3>2, <4>2
      <4> QED
        BY <4>1, <4>2
    <3>7. ReplayFaithful'
      BY <3>2
    <3> QED
      BY <3>5, <3>6, <3>7
  <2>2. CASE record[k] # None
    BY <1>2, <2>2 DEF Create, GoTo, TypeOK, Running
  <2> QED
    BY <2>1, <2>2
<1>3. ASSUME NEW r \in Request, Find(r) PROVE KeysInv'
  <2> DEFINE rec == record[ask[r].key]
  <2>1. UNCHANGED <<ask, record, effect>>
    BY <1>3 DEF Find
  <2>2. rec # None => rec.id \in Request
    BY DEF TypeOK, Record
  <2>3. pc'[r] \notin Running /\ pc[r] = "find"
    BY <1>3 DEF Find, GoTo, Reply, ReplyFrom, TypeOK, Running
  <2>4. \A s \in Request \ {r} :
           pc'[s] = pc[s] /\ seen'[s] = seen[s] /\ answer'[s] = answer[s]
    BY <1>3 DEF Find, GoTo, Reply, ReplyFrom, TypeOK
  <2>5. answer'[r] = "replay" =>
           /\ pc'[r] = "done" /\ seen'[r] = rec.id
           /\ rec # None /\ rec.status = "COMPLETED"
           /\ rec.fingerprint = ask[r].fingerprint
    BY <1>3 DEF Find, GoTo, Reply, ReplyFrom, TypeOK
  <2> QED
    BY <2>1, <2>2, <2>3, <2>4, <2>5 DEF TypeOK, Running
<1>4. ASSUME NEW r \in Request, DeleteExpired(r) PROVE KeysInv'
  BY <1>4 DEF DeleteExpired, GoTo, TypeOK, Running
<1>5. ASSUME NEW r \in Request, Commit(r) \/ Return(r) \/ Throw(r) PROVE KeysInv'
  BY <1>5 DEF Commit, Return, Throw, GoTo, TypeOK, Running
<1>6. ASSUME NEW r \in Request, Complete(r) PROVE KeysInv'
  <2> DEFINE k == ask[r].key
  <2>1. /\ record[k] # None /\ record[k].id = r /\ r \in effect
        /\ record[k] \in Record /\ k \in Key
    BY <1>6 DEF Complete, Running, TypeOK
  <2>2. /\ record' = [record EXCEPT ![k].status = "COMPLETED"]
        /\ pc' = [pc EXCEPT ![r] = "done"]
        /\ answer' = [answer EXCEPT ![r] = "ok"]
        /\ UNCHANGED <<ask, seen, effect>>
    BY <1>6, <2>1 DEF Complete, Reply
  <2> DEFINE new == [record[k] EXCEPT !.status = "COMPLETED"]
  <2>a. new \in Record /\ new.id = r /\ new.fingerprint = record[k].fingerprint
    BY <2>1, RowUpdates
  <2>b. record' = [record EXCEPT ![k] = new]
    BY <2>2
  <2> HIDE DEF new
  <2>3. /\ record'[k] # None
        /\ record'[k].id = r /\ record'[k].fingerprint = record[k].fingerprint
        /\ \A j \in Key \ {k} : record'[j] = record[j]
    BY <2>1, <2>a, <2>b, NoneAssumption DEF TypeOK
  <2>4. \A s \in Request \ {r} : pc[s] \in Running => ask[s].key # k
    BY <2>1
  <2> QED
    BY <2>1, <2>2, <2>3, <2>4 DEF TypeOK, Running
<1>7. ASSUME NEW r \in Request, Release(r) PROVE KeysInv'
  BY <1>7 DEF Release, Reply, TypeOK, Running
<1>8. ASSUME NEW r \in Request, DatabaseError(r) \/ Crash(r) PROVE KeysInv'
  BY <1>8 DEF DatabaseError, Crash, GoTo, Reply, TypeOK, Running, Claiming
<1>9. ASSUME NEW k \in Key, Expire(k) PROVE KeysInv'
  <2>1. /\ record[k] # None /\ record[k] \in Record
        /\ record' = [record EXCEPT ![k].expired = TRUE]
        /\ pc[record[k].id] = "done"
        /\ UNCHANGED <<ask, pc, seen, answer, effect>>
    BY <1>9 DEF Expire, TypeOK
  <2> DEFINE new == [record[k] EXCEPT !.expired = TRUE]
  <2>a. /\ new \in Record /\ new.id = record[k].id
        /\ new.fingerprint = record[k].fingerprint
        /\ new.status = record[k].status
    BY <2>1, RowUpdates
  <2>b. record' = [record EXCEPT ![k] = new]
    BY <2>1
  <2> HIDE DEF new
  <2>c. record'[k] = new /\ new # None
    BY <2>a, <2>b, NoneAssumption DEF TypeOK
  <2>2. /\ record'[k] # None
        /\ record'[k].id = record[k].id
        /\ record'[k].fingerprint = record[k].fingerprint
        /\ record'[k].status = record[k].status
        /\ \A j \in Key \ {k} : record'[j] = record[j]
    BY <2>a, <2>b, <2>c DEF TypeOK
  <2>3. \A s \in Request : pc[s] \in Running => ask[s].key # k
    BY <2>1 DEF Running
  <2> QED
    BY <2>1, <2>2, <2>3 DEF TypeOK
<1>10. CASE UNCHANGED vars
  BY <1>10 DEF vars
<1> QED
  BY <1>1, <1>2, <1>3, <1>4, <1>5, <1>6, <1>7, <1>8, <1>9, <1>10
  DEF Next, Continue

LEMMA KeysInvariant == Spec => []KeysInv
  BY KeysInit, KeysStep, PTL DEF Spec

\* The requests, their keys and the records of the table are well typed.
THEOREM TypeCorrect == Spec => []TypeOK
<1>1. KeysInv => TypeOK
  BY DEF KeysInv
<1> QED
  BY <1>1, KeysInvariant, PTL

\* Reserving the key before the handler runs keeps every other request with
\* that key out of the handler, however claims are retried and records expire.
THEOREM HandlersAreExclusive == Spec => []HandlersExclusive
<1>1. KeysInv => HandlersExclusive
  BY DEF KeysInv, RequestInv, Owns, HandlersExclusive
<1> QED
  BY <1>1, KeysInvariant, PTL

\* A response is replayed only to the same request, and only if its handler
\* has committed.
THEOREM ReplaysAreFaithful == Spec => []ReplayFaithful
<1>1. KeysInv => ReplayFaithful
  BY DEF KeysInv
<1> QED
  BY <1>1, KeysInvariant, PTL

----------------------------------------------------------------------------
\* The completed record of an answered request stays until it expires.
Kept(r) ==
    LET rec == record[ask[r].key] IN
    rec # None /\ rec.id = r /\ rec.status = "COMPLETED" /\ ~rec.expired

OnceInv ==
    /\ \A r \in Request : answer[r] = "ok" /\ ask[r].key \notin lapsed => Kept(r)
    /\ \A k \in Key : record[k] # None /\ record[k].expired => k \in lapsed

LEMMA OnceStep == KeysInv /\ OnceInv /\ [Next]_vars => OnceInv'
<1> SUFFICES ASSUME KeysInv, OnceInv, [Next]_vars PROVE OnceInv'
  OBVIOUS
<1> TypeOK
  BY DEF KeysInv
\* A step after which nobody new is answered "ok", and that leaves what is kept.
<1>1. ASSUME \A r \in Request : answer'[r] = "ok" => answer[r] = "ok",
             UNCHANGED <<ask, lapsed>>,
             \A k \in Key : \/ record'[k] = record[k]
                            \/ record'[k] = None /\ \A r \in Request : ask[r].key = k => ~Kept(r)
                            \/ record[k] = None /\ ~record'[k].expired
      PROVE  OnceInv'
  BY <1>1 DEF OnceInv, Kept, TypeOK
<1>2. ASSUME NEW r \in Request,
             Arrive(r) \/ Find(r) \/ Commit(r) \/ Return(r) \/ Throw(r)
               \/ DatabaseError(r) \/ Crash(r)
      PROVE  OnceInv'
  <2>1. UNCHANGED <<ask, lapsed, record>>
    BY <1>2 DEF Arrive, Find, Commit, Return, Throw, DatabaseError, Crash
  <2>2. \A s \in Request : answer'[s] = "ok" => answer[s] = "ok"
    BY <1>2 DEF Arrive, Find, Commit, Return, Throw, DatabaseError, Crash, GoTo, Reply,
                ReplyFrom, TypeOK
  <2> QED
    BY <2>1, <2>2, <1>1
<1>3. ASSUME NEW r \in Request, Create(r) PROVE OnceInv'
  <2> DEFINE new == [id |-> r, fingerprint |-> ask[r].fingerprint,
                     status |-> "PENDING", expired |-> FALSE]
  <2>1. ~new.expired
    OBVIOUS
  <2>2. \/ record[ask[r].key] = None /\ record' = [record EXCEPT ![ask[r].key] = new]
        \/ record' = record
    BY <1>3 DEF Create
  <2>3. UNCHANGED <<ask, lapsed, answer>>
    BY <1>3 DEF Create, GoTo
  <2> HIDE DEF new
  <2> QED
    BY <2>1, <2>2, <2>3, <1>1 DEF TypeOK
<1>4. ASSUME NEW r \in Request, DeleteExpired(r) PROVE OnceInv'
  <2>1. \/ record[ask[r].key].expired /\ record' = [record EXCEPT ![ask[r].key] = None]
        \/ record' = record
    BY <1>4 DEF DeleteExpired
  <2>2. UNCHANGED <<ask, lapsed, answer>>
    BY <1>4 DEF DeleteExpired, GoTo
  <2> QED
    BY <2>1, <2>2, <1>1 DEF TypeOK, Kept
<1>5. ASSUME NEW r \in Request, Release(r) PROVE OnceInv'
  <2>1. \/ /\ record[ask[r].key].status = "PENDING"
           /\ record' = [record EXCEPT ![ask[r].key] = None]
        \/ record' = record
    BY <1>5 DEF Release
  <2>2. UNCHANGED <<ask, lapsed>> /\ answer' = [answer EXCEPT ![r] = "error"]
    BY <1>5 DEF Release, Reply
  <2> QED
    BY <2>1, <2>2, <1>1 DEF TypeOK, Kept
<1>6. ASSUME NEW r \in Request, Complete(r) PROVE OnceInv'
  <2> DEFINE k == ask[r].key
             new == [record[k] EXCEPT !.status = "COMPLETED"]
  <2>1. /\ record[k] # None /\ record[k].id = r /\ record[k] \in Record
        /\ ~record[k].expired /\ k \in Key
    BY <1>6 DEF Complete, KeysInv, RequestInv, Owns, Running, TypeOK
  <2>2. /\ record' = [record EXCEPT ![k] = new]
        /\ answer' = [answer EXCEPT ![r] = "ok"] /\ UNCHANGED <<ask, lapsed>>
    BY <1>6, <2>1 DEF Complete, Reply
  <2>3. /\ new \in Record /\ new.id = r /\ new.status = "COMPLETED" /\ ~new.expired
        /\ new # None
    BY <2>1, NoneAssumption DEF Record
  <2> HIDE DEF new, k
  <2>4. record'[k] = new /\ \A j \in Key \ {k} : record'[j] = record[j]
    BY <2>1, <2>2 DEF TypeOK
  <2>5. \A s \in Request : answer'[s] = "ok" /\ ask[s].key \notin lapsed => Kept(s)'
    <3> SUFFICES ASSUME NEW s \in Request, answer'[s] = "ok", ask[s].key \notin lapsed
                 PROVE  Kept(s)'
      OBVIOUS
    <3>1. CASE s = r
      BY <2>2, <2>3, <2>4, <3>1 DEF Kept, k
    <3>2. CASE s # r
      <4>1. Kept(s) /\ ask[s].key # k
        BY <2>1, <2>2, <3>2 DEF OnceInv, Kept, TypeOK
      <4> QED
        BY <2>2, <2>4, <4>1 DEF Kept, TypeOK
    <3> QED
      BY <3>1, <3>2
  <2> QED
    BY <2>2, <2>3, <2>4, <2>5 DEF OnceInv
<1>7. ASSUME NEW k \in Key, Expire(k) PROVE OnceInv'
  <2>1. /\ lapsed' = lapsed \cup {k} /\ UNCHANGED <<ask, answer>>
        /\ \A j \in Key \ {k} : record'[j] = record[j]
    BY <1>7 DEF Expire, TypeOK
  <2> QED
    BY <2>1 DEF OnceInv, Kept, TypeOK
<1>8. CASE UNCHANGED vars
  BY <1>8 DEF vars, OnceInv, Kept
<1> QED
  BY <1>2, <1>3, <1>4, <1>5, <1>6, <1>7, <1>8 DEF Next, Continue

\* Until its record expires, a key answers with one execution, however many
\* retries, releases and crashes there are.
THEOREM KeysAnswerOnce == Spec => []AnsweredOnce
<1>1. Init => OnceInv
  BY NoneAssumption DEF Init, OnceInv, Answer
<1>2. OnceInv => AnsweredOnce
  BY DEF OnceInv, Kept, AnsweredOnce
<1> QED
  BY <1>1, <1>2, KeysInit, KeysStep, OnceStep, PTL DEF Spec

----------------------------------------------------------------------------
(* The abstract keys *)

\* Who a key belongs to, and whose answer was repeated, as Answers has it.
HolderOf(k) ==
    IF record[k] = None THEN None
    ELSE IF record[k].expired THEN None
    ELSE [by |-> record[k].id, status |-> record[k].status]

Holder == [k \in Key |-> HolderOf(k)]

Source == [r \in Request |-> IF answer[r] = "replay" THEN seen[r] ELSE None]

Unclaimed == {"new"} \cup Claiming

\* A request ends with its answer, takes effect once, and has no record before
\* its claim has succeeded.
AnswerInv ==
    /\ \A r \in Request :
          /\ pc[r] = "done" <=> answer[r] # None
          /\ pc[r] \in Unclaimed \cup {"handle"} => r \notin effect
    /\ \A k \in Key : record[k] # None => pc[record[k].id] \notin Unclaimed

\* A step that leaves the records alone, or removes some.
LEMMA AnswerKept ==
  ASSUME TypeOK, AnswerInv, NEW r \in Request, pc[r] # "done",
         \A s \in Request \ {r} : pc'[s] = pc[s] /\ answer'[s] = answer[s],
         pc'[r] = "done" <=> answer'[r] # None,
         pc'[r] \in Unclaimed => pc[r] \in Unclaimed,
         pc'[r] # "handle", UNCHANGED effect,
         \A k \in Key : record'[k] \in {record[k], None}
  PROVE  AnswerInv'
<1>1. \A k \in Key : record[k] # None => record[k].id \in Request
  BY DEF TypeOK, Record
<1> QED
  BY <1>1 DEF AnswerInv

LEMMA AnswerStep == KeysInv /\ AnswerInv /\ [Next]_vars => AnswerInv'
<1> SUFFICES ASSUME KeysInv, AnswerInv, [Next]_vars PROVE AnswerInv'
  OBVIOUS
<1> TypeOK
  BY DEF KeysInv
<1> None \notin Answer
  BY NoneAssumption
<1> USE DEF Unclaimed, Claiming, Answer
<1>1. ASSUME NEW r \in Request,
             \/ Arrive(r) \/ Find(r) \/ DeleteExpired(r) \/ Return(r)
             \/ Throw(r) \/ Release(r) \/ DatabaseError(r) \/ Crash(r)
      PROVE  AnswerInv'
  <2>1. /\ pc[r] # "done" /\ pc'[r] # "handle" /\ UNCHANGED effect
        /\ pc'[r] \in Unclaimed => pc[r] \in Unclaimed
    BY <1>1 DEF Arrive, Find, DeleteExpired, Return, Throw, Release, DatabaseError, Crash,
                GoTo, Reply, ReplyFrom, TypeOK, Running
  <2>2. /\ \A s \in Request \ {r} : pc'[s] = pc[s] /\ answer'[s] = answer[s]
        /\ \/ pc'[r] # "done" /\ answer'[r] = answer[r]
           \/ pc'[r] = "done" /\ answer'[r] # None
    BY <1>1 DEF Arrive, Find, DeleteExpired, Return, Throw, Release, DatabaseError, Crash,
                GoTo, Reply, ReplyFrom, TypeOK
  <2>3. \A k \in Key : record'[k] \in {record[k], None}
    BY <1>1 DEF Arrive, Find, DeleteExpired, Return, Throw, Release, DatabaseError, Crash, TypeOK
  <2>4. answer[r] = None
    BY <2>1 DEF AnswerInv
  <2> QED
    BY <2>1, <2>2, <2>3, <2>4, AnswerKept
<1>2. ASSUME NEW r \in Request, Create(r) PROVE AnswerInv'
  <2> DEFINE k == ask[r].key
             new == [id |-> r, fingerprint |-> ask[r].fingerprint,
                     status |-> "PENDING", expired |-> FALSE]
  <2>1. CASE record[k] = None
    <3>1. /\ record' = [record EXCEPT ![k] = new] /\ k \in Key
          /\ pc' = [pc EXCEPT ![r] = "handle"] /\ UNCHANGED <<answer, effect>>
          /\ pc[r] = "create"
      BY <1>2, <2>1 DEF Create, GoTo, TypeOK
    <3>2. new.id = r
      OBVIOUS
    <3> HIDE DEF new, k
    <3>3. /\ record'[k].id = r /\ \A j \in Key \ {k} : record'[j] = record[j]
          /\ pc'[r] = "handle" /\ \A s \in Request \ {r} : pc'[s] = pc[s]
      BY <3>1, <3>2 DEF TypeOK
    <3>4. \A j \in Key : record[j] # None => record[j].id \in Request
      BY DEF TypeOK, Record
    <3> QED
      BY <3>1, <3>3, <3>4 DEF AnswerInv
  <2>2. CASE record[k] # None
    <3>1. /\ UNCHANGED <<record, answer, effect>> /\ pc[r] = "create"
          /\ pc'[r] = "find" /\ \A s \in Request \ {r} : pc'[s] = pc[s]
      BY <1>2, <2>2 DEF Create, GoTo, TypeOK
    <3>2. answer[r] = None
      BY <3>1 DEF AnswerInv
    <3> QED
      BY <3>1, <3>2, AnswerKept
  <2> QED
    BY <2>1, <2>2
<1>3. ASSUME NEW r \in Request, Commit(r) PROVE AnswerInv'
  BY <1>3 DEF Commit, GoTo, AnswerInv, TypeOK
<1>4. ASSUME NEW r \in Request, Complete(r) PROVE AnswerInv'
  <2>1. /\ pc[r] = "complete" /\ pc'[r] \in {"done", "release"} /\ UNCHANGED effect
        /\ \A s \in Request \ {r} : pc'[s] = pc[s] /\ answer'[s] = answer[s]
        /\ pc'[r] = "done" => answer'[r] = "ok"
        /\ pc'[r] = "release" => answer'[r] = answer[r]
    BY <1>4 DEF Complete, GoTo, Reply, TypeOK
  <2>2. \A k \in Key : record'[k] # None => record[k] # None /\ record'[k].id = record[k].id
    <3>1. CASE record' = record
      BY <3>1
    <3>2. CASE record' # record
      <4> DEFINE k == ask[r].key
                 new == [record[k] EXCEPT !.status = "COMPLETED"]
      <4>1. record[k] # None /\ record' = [record EXCEPT ![k] = new] /\ k \in Key
        BY <1>4, <3>2 DEF Complete, TypeOK
      <4>2. new.id = record[k].id
        BY <4>1, RowUpdates DEF TypeOK
      <4> HIDE DEF new
      <4> QED
        BY <4>1, <4>2 DEF TypeOK
    <3> QED
      BY <3>1, <3>2
  <2>3. \A k \in Key : record[k] # None => record[k].id \in Request
    BY DEF TypeOK, Record
  <2> QED
    BY <2>1, <2>2, <2>3 DEF AnswerInv
<1>5. ASSUME NEW k \in Key, Expire(k) PROVE AnswerInv'
  <2> DEFINE new == [record[k] EXCEPT !.expired = TRUE]
  <2>1. /\ record[k] # None /\ record' = [record EXCEPT ![k] = new]
        /\ UNCHANGED <<pc, answer, effect>>
    BY <1>5 DEF Expire
  <2>2. new.id = record[k].id
    BY <2>1, RowUpdates DEF TypeOK
  <2> HIDE DEF new
  <2> QED
    BY <2>1, <2>2 DEF AnswerInv, TypeOK
<1>6. CASE UNCHANGED vars
  BY <1>6 DEF vars, AnswerInv
<1> QED
  BY <1>1, <1>2, <1>3, <1>4, <1>5, <1>6 DEF Next, Continue

----------------------------------------------------------------------------
(* The steps of Answers *)

AnswersStep ==
    Answers!Next \/ UNCHANGED <<ask, Holder, effect, answer, Source>>

\* A key changes hands only in a step that changes its own record.
LEMMA HolderChanges ==
  ASSUME NEW k \in Key, \A j \in Key \ {k} : record'[j] = record[j]
  PROVE  Holder' = [Holder EXCEPT ![k] = HolderOf(k)']
BY DEF Holder, HolderOf

LEMMA HolderStays ==
  ASSUME \A k \in Key : HolderOf(k)' = HolderOf(k)
  PROVE  Holder' = Holder
BY DEF Holder

\* What one request asks or deletes does not change what others were told.
LEMMA SourceStays ==
  ASSUME TypeOK, AnswerInv, NEW r \in Request, pc[r] # "done",
         \A s \in Request \ {r} : answer'[s] = answer[s] /\ seen'[s] = seen[s],
         answer'[r] # "replay"
  PROVE  Source' = Source
<1>1. answer[r] # "replay"
  BY NoneAssumption DEF AnswerInv, Answer
<1> QED
  BY <1>1 DEF Source

LEMMA QuestionsEqual ==
  ASSUME TypeOK, NEW r \in Request, NEW s \in Request
  PROVE  ask[r] = ask[s] <=> /\ ask[r].key = ask[s].key
                             /\ ask[r].fingerprint = ask[s].fingerprint
BY DEF TypeOK

\* Steps that clients do not notice.
LEMMA QuietStep ==
  ASSUME TypeOK, AnswerInv, NEW r \in Request, pc[r] # "done",
         \A s \in Request \ {r} : seen'[s] = seen[s],
         UNCHANGED <<ask, effect, answer>>, Holder' = Holder
  PROVE  AnswersStep
<1>1. answer'[r] # "replay"
  BY NoneAssumption DEF AnswerInv, Answer
<1>2. Source' = Source
  BY <1>1, SourceStays
<1> QED
  BY <1>2 DEF AnswersStep

LEMMA CreateAnswers ==
  ASSUME KeysInv, AnswerInv, NEW r \in Request, Create(r)
  PROVE  AnswersStep
<1> DEFINE k == ask[r].key
<1> TypeOK
  BY DEF KeysInv
<1>0. k \in Key /\ pc[r] = "create" /\ UNCHANGED <<ask, effect, seen, answer>>
  BY DEF Create, GoTo, TypeOK
<1>1. CASE record[k] = None
  <2> DEFINE new == [id |-> r, fingerprint |-> ask[r].fingerprint,
                     status |-> "PENDING", expired |-> FALSE]
  <2>1. record' = [record EXCEPT ![k] = new]
    BY <1>1 DEF Create
  <2>2. new \in Record /\ new.id = r /\ new.status = "PENDING" /\ ~new.expired
    BY DEF TypeOK, Record
  <2> HIDE DEF new
  <2>3. /\ record'[k] = new /\ new # None
        /\ \A j \in Key \ {k} : record'[j] = record[j]
    BY <1>0, <2>1, <2>2, NoneAssumption DEF TypeOK
  <2>4. HolderOf(k)' = Answers!Claim(r, "PENDING")
    BY <1>0, <2>2, <2>3 DEF HolderOf, Answers!Claim
  <2>5. Holder' = [Holder EXCEPT ![k] = Answers!Claim(r, "PENDING")]
    BY <1>0, <2>3, <2>4, HolderChanges
  <2>6. Holder[k] = None /\ answer[r] = None /\ Source' = Source
    BY <1>0, <1>1 DEF Holder, HolderOf, AnswerInv, Source
  <2>7. Answers!LetThrough(r)
    BY <1>0, <2>5, <2>6 DEF Answers!LetThrough, Answers!Waits, Holder, HolderOf, Source
  <2> QED
    BY <2>7 DEF AnswersStep, Answers!Next
<1>2. CASE record[k] # None
  <2>1. UNCHANGED record
    BY <1>2 DEF Create
  <2>2. Holder' = Holder
    BY <2>1 DEF Holder, HolderOf
  <2> QED
    BY <1>0, <2>2, QuietStep
<1> QED
  BY <1>1, <1>2

LEMMA FindAnswers ==
  ASSUME KeysInv, AnswerInv, NEW r \in Request, Find(r)
  PROVE  AnswersStep
<1> DEFINE k   == ask[r].key
           rec == record[k]
<1> TypeOK
  BY DEF KeysInv
<1>0. /\ k \in Key /\ pc[r] = "find" /\ answer[r] = None
      /\ UNCHANGED <<ask, effect, record>>
  BY DEF Find, TypeOK, AnswerInv
<1>1. Holder' = Holder
  BY <1>0 DEF Holder, HolderOf
<1>2. CASE UNCHANGED answer
  <2>1. \A s \in Request \ {r} : seen'[s] = seen[s]
    BY DEF Find, GoTo, Reply, ReplyFrom, TypeOK
  <2> QED
    BY <1>0, <1>1, <1>2, <2>1, QuietStep
<1>3. ASSUME rec # None, ~rec.expired, answer' # answer
      PROVE  AnswersStep
  <2> DEFINE x == rec.id
  <2>1. /\ x \in Request /\ x # r /\ ask[x].key = k
        /\ ask[x].fingerprint = rec.fingerprint
        /\ rec.status \in {"PENDING", "COMPLETED"}
        /\ rec.status = "COMPLETED" => x \in effect
    BY <1>0, <1>3 DEF KeysInv, RecordInv, AnswerInv, TypeOK, Record, Unclaimed, Claiming
  <2>2. Holder[k] = Answers!Claim(x, rec.status)
    BY <1>0, <1>3 DEF Holder, HolderOf, Answers!Claim
  <2>3. CASE rec.fingerprint # ask[r].fingerprint
    <3>1. answer' = [answer EXCEPT ![r] = "mismatch"] /\ UNCHANGED seen
      BY <1>3, <2>3 DEF Find, Reply, GoTo
    <3>2. Source' = Source
      BY <1>0, <3>1, SourceStays DEF TypeOK
    <3>3. ask[x] # ask[r]
      BY <2>1, <2>3
    <3>4. Answers!Decline(r)
      BY <1>0, <1>1, <2>1, <2>2, <3>1, <3>2, <3>3
      DEF Answers!Decline, Answers!Waits, Answers!Told, Holder, HolderOf, Source
    <3> QED
      BY <3>4 DEF AnswersStep, Answers!Next
  <2>4. CASE rec.fingerprint = ask[r].fingerprint /\ rec.status = "PENDING"
    <3>1. answer' = [answer EXCEPT ![r] = "inProgress"] /\ UNCHANGED seen
      BY <1>3, <2>4 DEF Find, Reply, GoTo
    <3>2. Source' = Source
      BY <1>0, <3>1, SourceStays DEF TypeOK
    <3>3. ask[x] = ask[r]
      BY <2>1, <2>4, QuestionsEqual
    <3>4. Answers!Decline(r)
      BY <1>0, <1>1, <2>1, <2>2, <2>4, <3>1, <3>2, <3>3
      DEF Answers!Decline, Answers!Waits, Answers!Told, Holder, HolderOf, Source
    <3> QED
      BY <3>4 DEF AnswersStep, Answers!Next
  <2>5. CASE rec.fingerprint = ask[r].fingerprint /\ rec.status = "COMPLETED"
    <3>1. /\ answer' = [answer EXCEPT ![r] = "replay"]
          /\ seen' = [seen EXCEPT ![r] = x]
      BY <1>3, <2>5 DEF Find, ReplyFrom, GoTo
    <3>2. Source' = [Source EXCEPT ![r] = x]
      BY <3>1 DEF Source, TypeOK
    <3>3. ask[x] = ask[r]
      BY <2>1, <2>5, QuestionsEqual
    <3>4. Answers!Repeat(r)
      BY <1>0, <1>1, <2>1, <2>2, <2>5, <3>1, <3>2, <3>3
      DEF Answers!Repeat, Answers!Waits, Answers!Told, Holder, HolderOf, Source
    <3> QED
      BY <3>4 DEF AnswersStep, Answers!Next
  <2> QED
    BY <2>1, <2>3, <2>4, <2>5
<1> QED
  BY <1>2, <1>3 DEF Find, GoTo

LEMMA DeleteAnswers ==
  ASSUME KeysInv, AnswerInv, NEW r \in Request, DeleteExpired(r)
  PROVE  AnswersStep
<1> TypeOK
  BY DEF KeysInv
<1>1. /\ pc[r] # "done" /\ UNCHANGED <<ask, effect, answer, seen>>
      /\ \A k \in Key : \/ record'[k] = record[k]
                        \/ record[k].expired /\ record'[k] = None
  BY DEF DeleteExpired, GoTo, TypeOK
<1>2. Holder' = Holder
  BY <1>1 DEF Holder, HolderOf
<1> QED
  BY <1>1, <1>2, QuietStep

LEMMA CommitAnswers ==
  ASSUME KeysInv, AnswerInv, NEW r \in Request, Commit(r)
  PROVE  AnswersStep
<1> TypeOK
  BY DEF KeysInv
<1>1. /\ pc[r] = "handle" /\ effect' = effect \cup {r}
      /\ UNCHANGED <<ask, answer, seen, record>>
  BY DEF Commit, GoTo
<1>2. Holder' = Holder /\ Source' = Source
  BY <1>1 DEF Holder, HolderOf, Source
<1>3. answer[r] = None /\ r \notin effect
  BY <1>1 DEF AnswerInv
<1>4. Holder[ask[r].key] = Answers!Claim(r, "PENDING")
  BY <1>1 DEF KeysInv, RequestInv, Owns, Running, Holder, HolderOf, Answers!Claim, TypeOK
<1>5. Answers!TakeEffect(r)
  BY <1>1, <1>2, <1>3, <1>4
  DEF Answers!TakeEffect, Answers!Waits, Answers!Holds, Holder, HolderOf, Source
<1> QED
  BY <1>5 DEF AnswersStep, Answers!Next

LEMMA CompleteAnswers ==
  ASSUME KeysInv, AnswerInv, NEW r \in Request, Complete(r)
  PROVE  AnswersStep
<1> DEFINE k   == ask[r].key
           new == [record[k] EXCEPT !.status = "COMPLETED"]
<1> TypeOK
  BY DEF KeysInv
<1>1. pc[r] = "complete" /\ UNCHANGED <<ask, effect>> /\ k \in Key
  BY DEF Complete, TypeOK
<1>2. /\ record[k] # None /\ record[k].id = r /\ record[k].status = "PENDING"
      /\ ~record[k].expired /\ record[k] \in Record /\ r \in effect
  BY <1>1 DEF KeysInv, RequestInv, Owns, Running, TypeOK
<1>3. /\ record' = [record EXCEPT ![k] = new] /\ UNCHANGED seen
      /\ answer' = [answer EXCEPT ![r] = "ok"]
  BY <1>2 DEF Complete, Reply
<1>4. /\ new \in Record /\ new.id = r /\ new.status = "COMPLETED" /\ ~new.expired
      /\ new # None
  BY <1>2, NoneAssumption DEF Record
<1> HIDE DEF new
<1>5. record'[k] = new /\ \A j \in Key \ {k} : record'[j] = record[j]
  BY <1>1, <1>3 DEF TypeOK
<1>6. HolderOf(k)' = Answers!Claim(r, "COMPLETED")
  BY <1>1, <1>4, <1>5 DEF HolderOf, Answers!Claim
<1>7. Holder' = [Holder EXCEPT ![k] = Answers!Claim(r, "COMPLETED")]
  BY <1>1, <1>5, <1>6, HolderChanges
<1>8. Holder[k] = Answers!Claim(r, "PENDING") /\ answer[r] = None
  BY <1>1, <1>2 DEF Holder, HolderOf, Answers!Claim, AnswerInv
<1>9. Source' = Source
  BY <1>1, <1>3, SourceStays DEF TypeOK
<1>10. Answers!Succeed(r)
  BY <1>1, <1>2, <1>3, <1>7, <1>8, <1>9
  DEF Answers!Succeed, Answers!Waits, Answers!Holds, Answers!Told, Holder, HolderOf, Source
<1> QED
  BY <1>10 DEF AnswersStep, Answers!Next

\* A request that ends without an answer of its own to give.
LEMMA EndAnswers ==
  ASSUME KeysInv, AnswerInv, NEW r \in Request,
         Release(r) \/ DatabaseError(r) \/ Crash(r)
  PROVE  AnswersStep
<1> DEFINE k == ask[r].key
<1> TypeOK
  BY DEF KeysInv
<1>1. /\ pc[r] # "done" /\ UNCHANGED <<ask, effect, seen>> /\ k \in Key
      /\ answer[r] = None
  BY DEF Release, DatabaseError, Crash, GoTo, Reply, Claiming, Running, TypeOK, AnswerInv
<1>2. CASE UNCHANGED answer
  <2>1. UNCHANGED record
    BY <1>1, <1>2, NoneAssumption DEF Release, DatabaseError, Crash, Reply, Answer, TypeOK
  <2>2. Holder' = Holder
    BY <1>1, <2>1 DEF Holder, HolderOf
  <2> QED
    BY <1>1, <1>2, <2>2, QuietStep
<1>3. ASSUME NEW a \in {"error", "lost"}, answer' = [answer EXCEPT ![r] = a]
      PROVE  AnswersStep
  <2>1. Source' = Source
    BY <1>1, <1>3, SourceStays DEF TypeOK
  <2>2. \/ record' = record
        \/ /\ pc[r] = "release"
           /\ record' = [record EXCEPT ![k] = None]
    BY DEF Release, DatabaseError, Crash
  <2>3. CASE record' = record
    <3>1. Holder' = Holder
      BY <2>3 DEF Holder, HolderOf
    <3>2. Answers!GiveUp(r)
      BY <1>1, <1>3, <2>1, <3>1
      DEF Answers!GiveUp, Answers!Waits, Answers!Told, Holder, HolderOf, Source
    <3> QED
      BY <3>2 DEF AnswersStep, Answers!Next
  <2>4. CASE pc[r] = "release" /\ record' = [record EXCEPT ![k] = None]
    <3>1. Holder[k] = Answers!Claim(r, "PENDING")
      BY <1>1, <2>4
      DEF KeysInv, RequestInv, Owns, Running, Holder, HolderOf, Answers!Claim
    <3>2. /\ HolderOf(k)' = None
          /\ \A j \in Key \ {k} : record'[j] = record[j]
      BY <1>1, <2>4 DEF HolderOf, TypeOK
    <3>3. Holder' = [Holder EXCEPT ![k] = None]
      BY <1>1, <3>2, HolderChanges
    <3>4. Answers!GiveUp(r)
      BY <1>1, <1>3, <2>1, <3>1, <3>3
      DEF Answers!GiveUp, Answers!Waits, Answers!Holds, Answers!Told, Holder, HolderOf, Source
    <3> QED
      BY <3>4 DEF AnswersStep, Answers!Next
  <2> QED
    BY <2>2, <2>3, <2>4
<1> QED
  BY <1>2, <1>3 DEF Release, DatabaseError, Crash, GoTo, Reply

LEMMA ExpireAnswers ==
  ASSUME KeysInv, AnswerInv, NEW k \in Key, Expire(k)
  PROVE  AnswersStep
<1> DEFINE new == [record[k] EXCEPT !.expired = TRUE]
           x   == record[k].id
<1> TypeOK
  BY DEF KeysInv
<1>1. /\ record[k] # None /\ ~record[k].expired /\ record[k] \in Record
      /\ record' = [record EXCEPT ![k] = new] /\ pc[x] = "done"
      /\ UNCHANGED <<ask, effect, seen, answer>>
  BY DEF Expire, TypeOK
<1>2. new.expired
  BY <1>1 DEF Record
<1> HIDE DEF new
<1>3. record'[k] = new /\ \A j \in Key \ {k} : record'[j] = record[j]
  BY <1>1 DEF TypeOK
<1>4. HolderOf(k)' = None
  BY <1>2, <1>3 DEF HolderOf
<1>5. Holder' = [Holder EXCEPT ![k] = None]
  BY <1>3, <1>4, HolderChanges
<1>6. /\ x \in Request /\ answer[x] # None
      /\ record[k].status \in {"PENDING", "COMPLETED"}
      /\ Holder[k] = Answers!Claim(x, record[k].status)
  BY <1>1 DEF Record, AnswerInv, Holder, HolderOf, Answers!Claim
<1>7. Source' = Source
  BY <1>1 DEF Source
<1>8. Answers!Forget(k)
  BY <1>1, <1>5, <1>6, <1>7 DEF Answers!Forget, Answers!Waits, Holder, HolderOf, Source
<1> QED
  BY <1>8 DEF AnswersStep, Answers!Next

LEMMA AnswersStepLemma ==
  ASSUME KeysInv, AnswerInv, [Next]_vars
  PROVE  AnswersStep
<1> TypeOK
  BY DEF KeysInv
<1>1. ASSUME NEW r \in Request, Arrive(r) \/ Return(r) \/ Throw(r)
      PROVE  AnswersStep
  <2>1. pc[r] # "done" /\ UNCHANGED <<ask, effect, answer, seen, record>>
    BY <1>1 DEF Arrive, Return, Throw, GoTo
  <2>2. Holder' = Holder
    BY <2>1 DEF Holder, HolderOf
  <2> QED
    BY <2>1, <2>2, QuietStep
<1>2. CASE UNCHANGED vars
  <2>1. UNCHANGED <<ask, effect, answer, seen, record>>
    BY <1>2 DEF vars
  <2> QED
    BY <2>1 DEF AnswersStep, Holder, HolderOf, Source
<1> QED
  BY <1>1, <1>2, CreateAnswers, FindAnswers, DeleteAnswers, CommitAnswers, CompleteAnswers,
     EndAnswers, ExpireAnswers
  DEF Next, Continue

\* The interceptor and its table, with claims that are retried, releases,
\* completions, crashes and expiry, implement keys that change hands in one
\* step, for any number of requests and keys.
THEOREM HandlersImplementAnswers == Spec => ImplementsAnswers
<1>1. Init => AnswerInv /\ Answers!Init
  BY NoneAssumption DEF Init, AnswerInv, Answers!Init, Answer
<1>2. KeysInv /\ AnswerInv /\ [Next]_vars => [Answers!Next]_(Answers!visible)
  <2> SUFFICES ASSUME KeysInv, AnswerInv, [Next]_vars
               PROVE  [Answers!Next]_(Answers!visible)
    OBVIOUS
  <2>1. UNCHANGED <<ask, Holder, effect, answer, Source>> => UNCHANGED Answers!visible
    BY DEF Answers!visible, Holder, HolderOf, Source
  <2> QED
    BY <2>1, AnswersStepLemma DEF AnswersStep
<1> QED
  BY <1>1, <1>2, AnswerStep, KeysInvariant, PTL DEF Spec, ImplementsAnswers, Answers!Spec
=============================================================================
