--------------------------- MODULE RefreshSessions ---------------------------
(***************************************************************************)
(* Refresh sessions: AuthService on the Session table.                     *)
(*                                                                         *)
(* A login opens a session; a refresh revokes the session of the token it  *)
(* was given and creates a successor, in one transaction; signing out      *)
(* revokes one session, or all those of a user.  Any token ever issued may *)
(* be presented at any time, by several requests at once: browser tabs     *)
(* share a cookie.  A request that a handler refuses changes nothing, so   *)
(* an unknown, expired or already revoked token is a request that never    *)
(* starts.                                                                 *)
(***************************************************************************)
EXTENDS FiniteSets

CONSTANTS
    User,
    NoUser,
    Session,    \* ids of the Session table, each with a token of its own
    NoSession,
    Request

ASSUME SessionAssumption == NoSession \notin Session /\ NoUser \notin User

VARIABLES
    session,    \* the Session table
    req,        \* what each handler knows and does next
    signedOut   \* history: the sessions that a sign-out revoked

vars == <<session, req, signedOut>>

----------------------------------------------------------------------------
\* parent and root are history: the session that was rotated into this one,
\* and the login that it all began with.
Row ==
    [status : {"absent", "active", "revoked"}, owner : User \cup {NoUser},
     parent : Session \cup {NoSession}, root : Session \cup {NoSession}]

Absent ==
    [status |-> "absent", owner |-> NoUser,
     parent |-> NoSession, root |-> NoSession]

Opened(owner, parent, root) ==
    [status |-> "active", owner |-> owner, parent |-> parent, root |-> root]

Active(s) == session[s].status = "active"

ActiveOf(u) == {s \in Session : Active(s) /\ session[s].owner = u}

\* The table with some sessions revoked.
Revoking(S) ==
    [s \in Session |->
        IF s \in S /\ Active(s) THEN [session[s] EXCEPT !.status = "revoked"]
                                ELSE session[s]]

Idle == [pc |-> "idle"]

Resume(r, state) == req' = [req EXCEPT ![r] = state]

\* The row lock of a refresh that has revoked s and has not committed.
Locked(s) ==
    \E r \in Request : req[r].pc = "create" /\ req[r].session = s

----------------------------------------------------------------------------
\* login and loginWithOidcEmail, which end in issueSession.
Login ==
    /\ \E u \in User, s \in Session :
        /\ session[s].status = "absent"
        /\ session' = [session EXCEPT ![s] = Opened(u, NoSession, s)]
    /\ UNCHANGED <<req, signedOut>>

\* refresh: the session of the token is read and found valid.
StartRefresh(r) ==
    /\ req[r].pc = "idle"
    /\ \E s \in Session :
        /\ Active(s)
        /\ Resume(r, [pc |-> "revoke", session |-> s])
    /\ UNCHANGED <<session, signedOut>>

\* Mutant: the row is updated by its id alone.
RevokeRotated_ById(r) ==
    /\ req[r].pc = "revoke"
    /\ ~Locked(req[r].session)
    /\ Resume(r, [pc |-> "create", session |-> req[r].session])
    /\ UNCHANGED <<session, signedOut>>

\* Mutant: the two statements are not in one transaction.
RevokeRotated_Committed(r) ==
    /\ req[r].pc = "revoke"
    /\ IF Active(req[r].session)
       THEN /\ ~Locked(req[r].session)
            /\ session' = Revoking({req[r].session})
            /\ Resume(r, [pc |-> "create", session |-> req[r].session])
       ELSE Resume(r, Idle) /\ UNCHANGED session
    /\ UNCHANGED signedOut

\* First statement of the transaction: updateMany where revokedAt is null.
\* A row that matches but is locked makes it wait, and look again.
RevokeRotated(r) ==
    /\ req[r].pc = "revoke"
    /\ IF Active(req[r].session)
       THEN /\ ~Locked(req[r].session)
            /\ Resume(r, [pc |-> "create", session |-> req[r].session])
       ELSE Resume(r, Idle)
    /\ UNCHANGED <<session, signedOut>>

\* Second statement and commit.
CreateSuccessor(r) ==
    LET s == req[r].session IN
    /\ req[r].pc = "create"
    /\ \E t \in Session :
        /\ session[t].status = "absent"
        /\ session' = [Revoking({s}) EXCEPT
                          ![t] = Opened(session[s].owner, s, session[s].root)]
    /\ Resume(r, Idle)
    /\ UNCHANGED signedOut

\* logout: one update of one row.
Logout ==
    /\ \E s \in Session :
        /\ Active(s) /\ ~Locked(s)
        /\ session' = Revoking({s})
        /\ signedOut' = signedOut \cup {s}
    /\ UNCHANGED req

\* logoutAll: one update of many rows, those the statement's snapshot shows
\* as active; rows inserted later are not among them.
StartLogoutAll(r) ==
    /\ req[r].pc = "idle"
    /\ \E u \in User :
        Resume(r, [pc |-> "revokeAll", targets |-> ActiveOf(u)])
    /\ UNCHANGED <<session, signedOut>>

\* It waits for the locked ones, and skips those it then finds revoked.
RevokeAll(r) ==
    LET targets == req[r].targets IN
    /\ req[r].pc = "revokeAll"
    /\ \A s \in targets : ~Locked(s)
    /\ session' = Revoking(targets)
    /\ signedOut' = signedOut \cup {s \in targets : Active(s)}
    /\ Resume(r, [pc |-> "allRevoked", targets |-> targets])

AnswerLogoutAll(r) ==
    /\ req[r].pc = "allRevoked"
    /\ Resume(r, Idle)
    /\ UNCHANGED <<session, signedOut>>

\* A database error, a transaction timeout, a deadlock of two logoutAll that
\* PostgreSQL breaks, or a crash: what is not committed is lost.
Fail(r) ==
    /\ req[r].pc \notin {"idle", "allRevoked"}
    /\ Resume(r, Idle)
    /\ UNCHANGED <<session, signedOut>>

----------------------------------------------------------------------------
Init ==
    /\ session = [s \in Session |-> Absent]
    /\ req = [r \in Request |-> Idle]
    /\ signedOut = {}

Next ==
    \/ Login
    \/ Logout
    \/ \E r \in Request :
        \/ StartRefresh(r)
        \/ RevokeRotated(r)
        \/ CreateSuccessor(r)
        \/ StartLogoutAll(r)
        \/ RevokeAll(r)
        \/ AnswerLogoutAll(r)
        \/ Fail(r)

Spec == Init /\ [][Next]_vars

----------------------------------------------------------------------------
RequestState ==
    {Idle}
    \cup [pc : {"revoke", "create"}, session : Session]
    \cup [pc : {"revokeAll", "allRevoked"}, targets : SUBSET Session]

\* Every variable has its type.
TypeOK ==
    /\ session \in [Session -> Row]
    /\ req \in [Request -> RequestState]
    /\ signedOut \subseteq Session

\* However many requests present a token at once, a login keeps at most one
\* active session: a rotation replaces, it never multiplies.
OneSessionPerLogin ==
    \A s, t \in Session :
        Active(s) /\ Active(t) /\ session[s].root = session[t].root => s = t

\* A session that a sign-out revoked is never rotated, not even by a refresh
\* that found it valid before the sign-out.
SignedOutForGood ==
    \A s \in signedOut : \A t \in Session : session[t].parent # s

\* What has been committed of the table.
Store == INSTANCE SessionStore
    WITH Token <- Session,
         good <- {[login |-> session[s].root, owner |-> session[s].owner,
                   token |-> s] : s \in {t \in Session : Active(t)}},
         issued <- {s \in Session : session[s].status # "absent"}

\* The handlers, their transactions, locks and old snapshots implement a store
\* of tokens in which a refresh is one step: a token that was replaced or
\* withdrawn is never good again, and its replacement has its login and owner.
ImplementsStore == Store!Spec

\* "The API can revoke all active sessions for a user" (README.md): when
\* logoutAll answers, no login it found active has an active session left.
SignedOutEverywhere ==
    \A r \in Request :
        req[r].pc = "allRevoked" =>
            \A s \in req[r].targets, t \in Session :
                Active(t) => session[t].root # session[s].root
=============================================================================
