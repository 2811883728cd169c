--------------------------- MODULE IdempotencyKeys ---------------------------
(***************************************************************************)
(* Idempotency keys: IdempotencyInterceptor around a domain handler, and   *)
(* the table of IdempotencyService behind it.                              *)
(*                                                                         *)
(* A request claims its key by inserting a row, runs its handler, and      *)
(* completes the row with the response, or releases it when the handler    *)
(* throws.  Each of these is a database call of its own; the handler's     *)
(* transaction commits before its audit entry and notifications are        *)
(* written, so a handler that throws may have taken effect.                *)
(***************************************************************************)
CONSTANTS
    Request,      \* the HTTP requests ever made, retries included
    Key,          \* (organization, actor, Idempotency-Key)
    Fingerprint,  \* method, path and request hash
    None          \* no row, no request, no answer yet

VARIABLES
    ask,      \* what each request asks: its key and its fingerprint
    record,   \* the IdempotencyRecord table, unique on the key
    pc,       \* where each request is
    seen,     \* the record it is about to delete or has replayed
    answer,   \* what its client has got
    effect,   \* history: the requests whose handler has committed
    lapsed    \* history: the keys a record of which has reached expiresAt

vars == <<ask, record, pc, seen, answer, effect, lapsed>>

----------------------------------------------------------------------------
\* A row is known by the request that inserted it.
Record ==
    [id : Request, fingerprint : Fingerprint,
     status : {"PENDING", "COMPLETED"}, expired : BOOLEAN]

Claiming == {"create", "find", "delete"}
Running  == {"handle", "afterCommit", "complete", "release"}
Answer   == {"ok", "replay", "mismatch", "inProgress", "error", "lost"}

ASSUME NoneAssumption == None \notin Request \cup Record \cup Answer

GoTo(r, state) ==
    pc' = [pc EXCEPT ![r] = state] /\ UNCHANGED <<seen, answer>>

\* The client gets its answer; a replay carries the response of a request.
Reply(r, a) ==
    /\ pc' = [pc EXCEPT ![r] = "done"]
    /\ answer' = [answer EXCEPT ![r] = a]
    /\ UNCHANGED seen
ReplyFrom(r, x) ==
    /\ pc' = [pc EXCEPT ![r] = "done"]
    /\ answer' = [answer EXCEPT ![r] = "replay"]
    /\ seen' = [seen EXCEPT ![r] = x]

----------------------------------------------------------------------------
(* claim *)

Arrive(r) ==
    /\ pc[r] = "new"
    /\ GoTo(r, "create")
    /\ UNCHANGED <<ask, record, effect, lapsed>>

\* idempotencyRecord.create, and P2002 when the key is taken.
Create(r) ==
    LET k == ask[r].key IN
    /\ pc[r] = "create"
    /\ IF record[k] = None
       THEN /\ record' = [record EXCEPT ![k] =
                  [id |-> r, fingerprint |-> ask[r].fingerprint,
                   status |-> "PENDING", expired |-> FALSE]]
            /\ GoTo(r, "handle")
       ELSE GoTo(r, "find") /\ UNCHANGED record
    /\ UNCHANGED <<ask, effect, lapsed>>

\* Mutant: the fingerprint is not compared.
Find_AnyFingerprint(r) ==
    LET rec == record[ask[r].key] IN
    /\ pc[r] = "find"
    /\ \/ rec = None /\ GoTo(r, "create")
       \/ /\ rec # None /\ rec.expired
          /\ pc' = [pc EXCEPT ![r] = "delete"]
          /\ seen' = [seen EXCEPT ![r] = rec.id]
          /\ UNCHANGED answer
       \/ /\ rec # None /\ ~rec.expired
          /\ IF rec.status = "COMPLETED" THEN ReplyFrom(r, rec.id)
                                         ELSE Reply(r, "inProgress")
    /\ UNCHANGED <<ask, record, effect, lapsed>>

\* Mutant: the claim polls until the request in progress has ended, and takes
\* a completed record for one that will never end.
Find_Polling(r) ==
    LET rec == record[ask[r].key] IN
    /\ pc[r] = "find"
    /\ GoTo(r, IF rec # None /\ rec.status = "PENDING" THEN "find" ELSE "create")
    /\ UNCHANGED <<ask, record, effect, lapsed>>

\* findUnique and what follows from it.
Find(r) ==
    LET rec == record[ask[r].key] IN
    /\ pc[r] = "find"
    /\ \/ rec = None /\ GoTo(r, "create")
       \/ /\ rec # None /\ rec.expired
          /\ pc' = [pc EXCEPT ![r] = "delete"]
          /\ seen' = [seen EXCEPT ![r] = rec.id]
          /\ UNCHANGED answer
       \/ /\ rec # None /\ ~rec.expired
          /\ rec.fingerprint # ask[r].fingerprint
          /\ Reply(r, "mismatch")
       \/ /\ rec # None /\ ~rec.expired
          /\ rec.fingerprint = ask[r].fingerprint
          /\ IF rec.status = "COMPLETED" THEN ReplyFrom(r, rec.id)
                                         ELSE Reply(r, "inProgress")
    /\ UNCHANGED <<ask, record, effect, lapsed>>

\* Mutant: the expired record is deleted by its key.
DeleteExpired_ByKey(r) ==
    /\ pc[r] = "delete"
    /\ record' = [record EXCEPT ![ask[r].key] = None]
    /\ GoTo(r, "create")
    /\ UNCHANGED <<ask, effect, lapsed>>

\* deleteMany by id and expiresAt.
DeleteExpired(r) ==
    LET k == ask[r].key IN
    /\ pc[r] = "delete"
    /\ record' = IF record[k] # None /\ record[k].id = seen[r]
                                     /\ record[k].expired
                 THEN [record EXCEPT ![k] = None] ELSE record
    /\ GoTo(r, "create")
    /\ UNCHANGED <<ask, effect, lapsed>>

----------------------------------------------------------------------------
(* The handler, and what the interceptor makes of its end *)

\* The handler's transaction commits.
Commit(r) ==
    /\ pc[r] = "handle"
    /\ effect' = effect \cup {r}
    /\ GoTo(r, "afterCommit")
    /\ UNCHANGED <<ask, record, lapsed>>

\* The audit entry and the notifications are written and the handler returns.
Return(r) ==
    /\ pc[r] = "afterCommit"
    /\ GoTo(r, "complete")
    /\ UNCHANGED <<ask, record, effect, lapsed>>

\* The handler refuses the request, or any of its calls fails.
Throw(r) ==
    /\ pc[r] \in {"handle", "afterCommit"}
    /\ GoTo(r, "release")
    /\ UNCHANGED <<ask, record, effect, lapsed>>

\* Mutant: the record is released whenever the handler has ended.
Complete_ThenReleased(r) ==
    /\ pc[r] = "complete"
    /\ record' = [record EXCEPT ![ask[r].key] = None]
    /\ Reply(r, "ok")
    /\ UNCHANGED <<ask, effect, lapsed>>

\* update by id: P2025 when the row is gone.
Complete(r) ==
    LET k == ask[r].key IN
    /\ pc[r] = "complete"
    /\ IF record[k] # None /\ record[k].id = r
       THEN /\ record' = [record EXCEPT ![k].status = "COMPLETED"]
            /\ Reply(r, "ok")
       ELSE GoTo(r, "release") /\ UNCHANGED record
    /\ UNCHANGED <<ask, effect, lapsed>>

\* catchError: deleteMany by id and PENDING, and the error is rethrown.
Release(r) ==
    LET k == ask[r].key IN
    /\ pc[r] = "release"
    /\ record' = IF record[k] # None /\ record[k].id = r
                                     /\ record[k].status = "PENDING"
                 THEN [record EXCEPT ![k] = None] ELSE record
    /\ Reply(r, "error")
    /\ UNCHANGED <<ask, effect, lapsed>>

----------------------------------------------------------------------------
(* Failures and time *)

\* A call of the database fails: complete goes to catchError, every other one
\* ends the request.
DatabaseError(r) ==
    /\ \/ pc[r] \in Claiming \cup {"release"} /\ Reply(r, "error")
       \/ pc[r] = "complete" /\ GoTo(r, "release")
    /\ UNCHANGED <<ask, record, effect, lapsed>>

\* The process dies; its client never hears.
Crash(r) ==
    /\ pc[r] \in Claiming \cup Running
    /\ Reply(r, "lost")
    /\ UNCHANGED <<ask, record, effect, lapsed>>

\* A record reaches expiresAt, 24 hours after its insertion: no handler runs
\* that long, so the request that inserted it has ended.
Expire(k) ==
    /\ record[k] # None /\ ~record[k].expired
    /\ pc[record[k].id] = "done"
    /\ record' = [record EXCEPT ![k].expired = TRUE]
    /\ lapsed' = lapsed \cup {k}
    /\ UNCHANGED <<ask, pc, seen, answer, effect>>

----------------------------------------------------------------------------
Init ==
    /\ record = [k \in Key |-> None]
    /\ ask \in [Request -> [key : Key, fingerprint : Fingerprint]]
    /\ pc = [r \in Request |-> "new"]
    /\ seen = [r \in Request |-> None]
    /\ answer = [r \in Request |-> None]
    /\ effect = {}
    /\ lapsed = {}

Continue(r) ==
    \/ Create(r)
    \/ Find(r)
    \/ DeleteExpired(r)
    \/ Commit(r)
    \/ Return(r)
    \/ Throw(r)
    \/ Complete(r)
    \/ Release(r)

Next ==
    \/ \E r \in Request : Arrive(r) \/ Continue(r) \/ DatabaseError(r) \/ Crash(r)
    \/ \E k \in Key : Expire(k)

Spec == Init /\ [][Next]_vars

\* A request that can take its next step takes it.
Fairness == \A r \in Request : WF_vars(Continue(r))

FairSpec == Spec /\ Fairness

----------------------------------------------------------------------------
TypeOK ==
    /\ record \in [Key -> Record \cup {None}]
    /\ ask \in [Request -> [key : Key, fingerprint : Fingerprint]]
    /\ pc \in [Request -> {"new", "done"} \cup Claiming \cup Running]
    /\ seen \in [Request -> Request \cup {None}]
    /\ answer \in [Request -> Answer \cup {None}]
    /\ effect \subseteq Request
    /\ lapsed \subseteq Key

\* Two requests with the same key are never in the domain handler together,
\* through retries of the claim, releases, expiry and crashes.
HandlersExclusive ==
    \A r, s \in Request :
        /\ pc[r] \in Running /\ pc[s] \in Running
        /\ ask[r].key = ask[s].key
        => r = s

\* A replayed response is that of a request with the same key, method, path
\* and body whose handler committed.
ReplayFaithful ==
    \A r \in Request :
        answer[r] = "replay" =>
            LET x == seen[r] IN
            /\ x \in effect
            /\ ask[x].key = ask[r].key
            /\ ask[x].fingerprint = ask[r].fingerprint

\* Until its record expires, a key gives at most one request a fresh result:
\* a request that was answered is never executed again.
AnsweredOnce ==
    \A r, s \in Request :
        /\ answer[r] = "ok" /\ answer[s] = "ok"
        /\ ask[r].key = ask[s].key /\ ask[r].key \notin lapsed
        => r = s

\* What clients can tell of the table: an expired record is as good as none.
Answers == INSTANCE KeyedAnswers
    WITH holder <- [k \in Key |->
             IF record[k] = None THEN None
             ELSE IF record[k].expired THEN None
             ELSE [by |-> record[k].id, status |-> record[k].status]],
         source <- [r \in Request |-> IF answer[r] = "replay" THEN seen[r] ELSE None]

\* The claims, which look twice, delete what others have left and insert again,
\* and the completions and releases by id, implement keys that are handed over
\* in one step: whatever overtakes what, no request loses a key that it holds
\* before it is answered, and no key belongs to two.
ImplementsAnswers == Answers!Spec

\* "Replaying the same request returns the original result" (README.md): the
\* same request with the same key takes effect once.
EffectOnce ==
    \A r, s \in effect :
        /\ ask[r].key = ask[s].key /\ ask[r].key \notin lapsed
        /\ ask[r].fingerprint = ask[s].fingerprint
        => r = s

\* Every request is answered or lost with its process: the claim does not
\* retry for ever.
RequestsAnswered ==
    \A r \in Request : pc[r] # "new" ~> pc[r] = "done"
=============================================================================
