------------------------ MODULE RefreshSessionsProofs ------------------------
(***************************************************************************)
(* Proofs about RefreshSessions, for any number of users, sessions and     *)
(* requests.                                                               *)
(***************************************************************************)
EXTENDS RefreshSessions, TLAPS

\* A refresh that holds the lock of a row holds it alone, and its row is
\* still active: nothing but its own commit revokes it.
LockSound ==
    \A r \in Request :
        req[r].pc = "create" =>
            /\ Active(req[r].session)
            /\ \A q \in Request :
                  req[q].pc = "create" /\ req[q].session = req[r].session => q = r

\* Every session in use knows the login it began with, which is in use too.
RootsKnown ==
    \A s \in Session :
        session[s].status # "absent" =>
            /\ session[s].root \in Session
            /\ session[session[s].root].status # "absent"

\* What a sign-out revoked is neither active nor absent.
SignedOutRevoked == \A s \in signedOut : session[s].status = "revoked"

\* An absent session has no history, and the parents of others are revoked.
ParentsRevoked ==
    \A t \in Session :
        session[t].parent # NoSession => session[session[t].parent].status = "revoked"

SessionInv ==
    /\ TypeOK
    /\ LockSound
    /\ RootsKnown
    /\ SignedOutRevoked
    /\ ParentsRevoked
    /\ OneSessionPerLogin
    /\ SignedOutForGood

----------------------------------------------------------------------------
\* What revoking some sessions does to the table.
LEMMA RevokingFacts ==
  ASSUME TypeOK, NEW S \in SUBSET Session
  PROVE  /\ Revoking(S) \in [Session -> Row]
         /\ \A x \in Session :
               /\ Revoking(S)[x].owner = session[x].owner
               /\ Revoking(S)[x].parent = session[x].parent
               /\ Revoking(S)[x].root = session[x].root
               /\ Revoking(S)[x].status =
                     IF x \in S /\ Active(x) THEN "revoked" ELSE session[x].status
<1>1. ASSUME NEW x \in Session
      PROVE  /\ [session[x] EXCEPT !.status = "revoked"] \in Row
             /\ [session[x] EXCEPT !.status = "revoked"].status = "revoked"
             /\ [session[x] EXCEPT !.status = "revoked"].owner = session[x].owner
             /\ [session[x] EXCEPT !.status = "revoked"].parent = session[x].parent
             /\ [session[x] EXCEPT !.status = "revoked"].root = session[x].root
  BY DEF TypeOK, Row
<1>2. \A x \in Session : session[x] \in Row
  BY DEF TypeOK
<1> QED
  BY <1>1, <1>2 DEF Revoking

LEMMA SessionInit == Init => SessionInv
BY SessionAssumption
   DEF Init, SessionInv, TypeOK, LockSound, RootsKnown, SignedOutRevoked,
       ParentsRevoked, OneSessionPerLogin, SignedOutForGood, Active, Absent, Row,
       Idle, RequestState

\* A step that revokes sessions that nobody has locked.
LEMMA RevokingStep ==
  ASSUME SessionInv, NEW S \in SUBSET Session,
         \A s \in S : Active(s) => ~Locked(s),
         session' = Revoking(S),
         signedOut' = signedOut \cup {s \in S : Active(s)},
         req' \in [Request -> RequestState],
         \A r \in Request : req'[r].pc = "create" => req'[r] = req[r]
  PROVE  SessionInv'
<1> USE DEF SessionInv
<1>1. /\ session' \in [Session -> Row]
      /\ \A x \in Session :
            /\ session'[x].parent = session[x].parent
            /\ session'[x].root = session[x].root
            /\ session'[x].status =
                  IF x \in S /\ Active(x) THEN "revoked" ELSE session[x].status
  BY RevokingFacts
<1>2. TypeOK'
  BY <1>1 DEF TypeOK
<1>3. LockSound'
  <2>1. \A r \in Request : req[r].pc = "create" => req[r].session \in Session
    BY DEF TypeOK, RequestState, Idle
  <2>2. \A r \in Request :
           req[r].pc = "create" => ~(req[r].session \in S /\ Active(req[r].session))
    BY DEF Locked
  <2> QED
    BY <1>1, <2>1, <2>2 DEF LockSound, Active
<1>4. RootsKnown'
  BY <1>1 DEF RootsKnown, Active
<1>5. SignedOutRevoked'
  BY <1>1 DEF SignedOutRevoked, Active, TypeOK
<1>6. ParentsRevoked'
  <2>1. \A t \in Session : session[t].parent \in Session \cup {NoSession}
    BY DEF TypeOK, Row
  <2> QED
    BY <1>1, <2>1 DEF ParentsRevoked, Active
<1>7. OneSessionPerLogin'
  BY <1>1 DEF OneSessionPerLogin, Active
<1>8. SignedOutForGood'
  <2>1. \A s \in S, t \in Session : Active(s) => session[t].parent # s
    BY SessionAssumption DEF ParentsRevoked, Active
  <2> QED
    BY <1>1, <2>1 DEF SignedOutForGood
<1> QED
  BY <1>2, <1>3, <1>4, <1>5, <1>6, <1>7, <1>8

\* A step of a handler that leaves the table alone.
LEMMA HandlerStep ==
  ASSUME SessionInv, NEW r \in Request, NEW state \in RequestState,
         UNCHANGED <<session, signedOut>>, Resume(r, state),
         state.pc = "create" =>
            /\ state.session \in Session
            /\ Active(state.session) /\ ~Locked(state.session)
  PROVE  SessionInv'
<1> USE DEF SessionInv
<1>1. TypeOK'
  BY DEF TypeOK, Resume
<1>2. LockSound'
  <2>1. /\ req'[r] = state
        /\ \A q \in Request \ {r} : req'[q] = req[q]
    BY DEF TypeOK, Resume
  <2>2. \A s : Active(s)' <=> Active(s)
    BY DEF Active
  <2> QED
    BY <2>1, <2>2 DEF LockSound, Locked
<1> QED
  BY <1>1, <1>2
  DEF RootsKnown, SignedOutRevoked, ParentsRevoked, OneSessionPerLogin,
      SignedOutForGood, Active

LEMMA LoginStep == SessionInv /\ Login => SessionInv'
<1> SUFFICES ASSUME SessionInv, Login PROVE SessionInv'
  OBVIOUS
<1> USE DEF SessionInv
<1>1. PICK u \in User, s \in Session :
         /\ session[s].status = "absent"
         /\ session' = [session EXCEPT ![s] = Opened(u, NoSession, s)]
  BY DEF Login
<1> DEFINE new == Opened(u, NoSession, s)
<1>2. /\ new \in Row /\ new.status = "active"
      /\ new.root = s /\ new.parent = NoSession
  BY DEF Opened, Row
<1> HIDE DEF new
<1>3. /\ session'[s] = new
      /\ \A x \in Session \ {s} : session'[x] = session[x]
      /\ UNCHANGED <<req, signedOut>>
  BY <1>1 DEF TypeOK, new, Login
<1>4. TypeOK'
  BY <1>1, <1>2, <1>3 DEF TypeOK, new
<1>5. \A x \in Session : session[x].status # "absent" => session[x].root # s
  BY <1>1 DEF RootsKnown
<1>6. LockSound'
  <2>1. \A r \in Request : req[r].pc = "create" => req[r].session \in Session
    BY DEF TypeOK, RequestState, Idle
  <2> QED
    BY <1>1, <1>3, <2>1 DEF LockSound, Active
<1>7. RootsKnown'
  BY <1>1, <1>2, <1>3 DEF RootsKnown
<1>8. SignedOutRevoked' /\ SignedOutForGood'
  BY <1>1, <1>2, <1>3, SessionAssumption
  DEF SignedOutRevoked, SignedOutForGood, TypeOK
<1>9. ParentsRevoked'
  <2>1. \A t \in Session : session[t].parent \in Session \cup {NoSession}
    BY DEF TypeOK, Row
  <2> QED
    BY <1>1, <1>2, <1>3, <2>1 DEF ParentsRevoked
<1>10. OneSessionPerLogin'
  BY <1>2, <1>3, <1>5 DEF OneSessionPerLogin, Active
<1> QED
  BY <1>4, <1>6, <1>7, <1>8, <1>9, <1>10

LEMMA RotationStep ==
  ASSUME SessionInv, NEW r \in Request, CreateSuccessor(r) PROVE SessionInv'
<1> USE DEF SessionInv
<1> DEFINE s == req[r].session
<1>1. /\ s \in Session /\ Active(s)
      /\ req' = [req EXCEPT ![r] = Idle] /\ signedOut' = signedOut
      /\ \A q \in Request \ {r} : req[q].pc = "create" => req[q].session # s
  <2>1. req[r].pc = "create"
    BY DEF CreateSuccessor
  <2>2. s \in Session
    BY <2>1 DEF TypeOK, RequestState, Idle
  <2> QED
    BY <2>1, <2>2 DEF CreateSuccessor, Resume, LockSound
<1>2. PICK t \in Session :
         /\ session[t].status = "absent"
         /\ session' = [Revoking({s}) EXCEPT
                           ![t] = Opened(session[s].owner, s, session[s].root)]
  BY DEF CreateSuccessor
<1> DEFINE new == Opened(session[s].owner, s, session[s].root)
<1>3. /\ new \in Row /\ new.status = "active"
      /\ new.root = session[s].root /\ new.parent = s
  BY <1>1 DEF Opened, Row, TypeOK
<1> HIDE DEF new, s
<1>4. /\ Revoking({s}) \in [Session -> Row]
      /\ \A x \in Session :
            /\ Revoking({s})[x].parent = session[x].parent
            /\ Revoking({s})[x].root = session[x].root
            /\ Revoking({s})[x].status =
                  IF x \in {s} /\ Active(x) THEN "revoked" ELSE session[x].status
  BY <1>1, RevokingFacts
<1>5. /\ session' \in [Session -> Row]
      /\ session'[t] = new
      /\ \A x \in Session \ {t} : session'[x] = Revoking({s})[x]
  BY <1>2, <1>3, <1>4 DEF new, s
<1>6. s # t
  BY <1>1, <1>2 DEF Active
<1>7. /\ session'[s].status = "revoked"
      /\ \A x \in Session \ {t} :
            /\ session'[x].parent = session[x].parent
            /\ session'[x].root = session[x].root
      /\ \A x \in Session \ {s, t} : session'[x].status = session[x].status
  BY <1>1, <1>4, <1>5, <1>6
<1>8. /\ req'[r] = Idle
      /\ \A q \in Request \ {r} : req'[q] = req[q]
  BY <1>1 DEF TypeOK
<1>9. TypeOK'
  BY <1>1, <1>5 DEF TypeOK, RequestState
<1>10. LockSound'
  <2>1. \A q \in Request : req[q].pc = "create" => req[q].session \in Session
    BY DEF TypeOK, RequestState, Idle
  <2>2. \A q \in Request \ {r} :
           req[q].pc = "create" => req[q].session \notin {s, t}
    BY <1>1, <1>2 DEF LockSound, Active
  <2> QED
    BY <1>7, <1>8, <2>1, <2>2 DEF LockSound, Active, Idle
<1>a. \A x \in Session \ {t} :
         session'[x].status = "active" => x # s /\ session[x].status = "active"
  BY <1>7
<1>11. RootsKnown'
  <2>1. \A x \in Session \ {t} :
           session'[x].status # "absent" => session[x].status # "absent"
    BY <1>1, <1>7 DEF Active
  <2>2. \A x \in Session : session[x].status # "absent" => session'[x].status # "absent"
    BY <1>2, <1>7
  <2>3. \A x \in Session \ {t} :
           session'[x].status # "absent" =>
              /\ session'[x].root \in Session
              /\ session'[session'[x].root].status # "absent"
    BY <1>7, <2>1, <2>2 DEF RootsKnown
  <2>4. /\ session'[t].root \in Session
        /\ session'[session'[t].root].status # "absent"
    BY <1>1, <1>3, <1>5, <2>2 DEF RootsKnown, Active
  <2> QED
    BY <2>3, <2>4 DEF RootsKnown
<1>12. SignedOutRevoked'
  BY <1>1, <1>2, <1>7 DEF SignedOutRevoked, TypeOK
<1>13. ParentsRevoked'
  <2>1. \A x \in Session : session[x].parent \in Session \cup {NoSession}
    BY DEF TypeOK, Row
  <2>2. \A x \in Session \ {t} :
           session'[x].parent # NoSession =>
              session'[session'[x].parent].status = "revoked"
    <3> SUFFICES ASSUME NEW x \in Session \ {t}, session'[x].parent # NoSession
                 PROVE  session'[session'[x].parent].status = "revoked"
      OBVIOUS
    <3>1. /\ session'[x].parent = session[x].parent
          /\ session[x].parent \in Session
          /\ session[session[x].parent].status = "revoked"
      BY <1>7, <2>1 DEF ParentsRevoked
    <3>2. session[x].parent # t
      BY <1>2, <3>1
    <3> QED
      BY <1>7, <3>1, <3>2
  <2>3. session'[session'[t].parent].status = "revoked"
    BY <1>3, <1>5, <1>7
  <2> QED
    BY <2>2, <2>3 DEF ParentsRevoked
<1>14. OneSessionPerLogin'
  <2>1. \A x \in Session \ {t} :
           session'[x].status = "active" => session'[x].root # session[s].root
    BY <1>1, <1>7, <1>a DEF OneSessionPerLogin, Active
  <2>2. \A x, y \in Session \ {t} :
           /\ session'[x].status = "active" /\ session'[y].status = "active"
           /\ session'[x].root = session'[y].root
           => x = y
    BY <1>7, <1>a DEF OneSessionPerLogin, Active
  <2>3. session'[t].root = session[s].root
    BY <1>3, <1>5
  <2> QED
    BY <2>1, <2>2, <2>3 DEF OneSessionPerLogin, Active
<1>15. SignedOutForGood'
  <2>1. s \notin signedOut
    BY <1>1 DEF SignedOutRevoked, Active
  <2> QED
    BY <1>1, <1>3, <1>5, <1>7, <2>1 DEF SignedOutForGood
<1> QED
  BY <1>9, <1>10, <1>11, <1>12, <1>13, <1>14, <1>15

LEMMA SessionStep == SessionInv /\ [Next]_vars => SessionInv'
<1> SUFFICES ASSUME SessionInv, [Next]_vars PROVE SessionInv'
  OBVIOUS
<1>0. TypeOK
  BY DEF SessionInv
<1>1. CASE Login
  BY <1>1, LoginStep
<1>2. CASE Logout
  <2>1. PICK s \in Session :
           /\ Active(s) /\ ~Locked(s) /\ session' = Revoking({s})
           /\ signedOut' = signedOut \cup {s} /\ req' = req
    BY <1>2 DEF Logout
  <2>2. {x \in {s} : Active(x)} = {s}
    BY <2>1
  <2> QED
    BY <1>0, <2>1, <2>2, RevokingStep DEF TypeOK
<1>3. ASSUME NEW r \in Request, StartRefresh(r) PROVE SessionInv'
  <2>1. PICK s \in Session : Resume(r, [pc |-> "revoke", session |-> s])
    BY <1>3 DEF StartRefresh
  <2>2. [pc |-> "revoke", session |-> s] \in RequestState
    BY DEF RequestState
  <2> QED
    BY <1>3, <2>1, <2>2, HandlerStep DEF StartRefresh
<1>4. ASSUME NEW r \in Request, RevokeRotated(r) PROVE SessionInv'
  <2> DEFINE s == req[r].session
  <2>1. s \in Session
    BY <1>0, <1>4 DEF RevokeRotated, TypeOK, RequestState, Idle
  <2>2. CASE Active(s)
    <3>1. [pc |-> "create", session |-> s] \in RequestState
      BY <2>1 DEF RequestState
    <3> QED
      BY <1>4, <2>1, <2>2, <3>1, HandlerStep DEF RevokeRotated
  <2>3. CASE ~Active(s)
    <3>1. Idle \in RequestState /\ Idle.pc # "create"
      BY DEF RequestState, Idle
    <3> QED
      BY <1>4, <2>3, <3>1, HandlerStep DEF RevokeRotated
  <2> QED
    BY <2>2, <2>3
<1>5. ASSUME NEW r \in Request, CreateSuccessor(r) PROVE SessionInv'
  BY <1>5, RotationStep
<1>6. ASSUME NEW r \in Request, StartLogoutAll(r) PROVE SessionInv'
  <2>1. PICK u \in User : Resume(r, [pc |-> "revokeAll", targets |-> ActiveOf(u)])
    BY <1>6 DEF StartLogoutAll
  <2>2. [pc |-> "revokeAll", targets |-> ActiveOf(u)] \in RequestState
    BY DEF RequestState, ActiveOf
  <2> QED
    BY <1>6, <2>1, <2>2, HandlerStep DEF StartLogoutAll
<1>7. ASSUME NEW r \in Request, RevokeAll(r) PROVE SessionInv'
  <2> DEFINE targets == req[r].targets
             state == [pc |-> "allRevoked", targets |-> targets]
  <2>1. targets \in SUBSET Session
    BY <1>0, <1>7 DEF RevokeAll, TypeOK, RequestState, Idle
  <2>2. state \in RequestState /\ state.pc # "create"
    BY <2>1 DEF RequestState
  <2>3. /\ \A s \in targets : ~Locked(s)
        /\ session' = Revoking(targets)
        /\ signedOut' = signedOut \cup {s \in targets : Active(s)}
        /\ req' = [req EXCEPT ![r] = state]
    BY <1>7 DEF RevokeAll, Resume
  <2> HIDE DEF targets, state
  <2>4. /\ req' \in [Request -> RequestState]
        /\ \A q \in Request : req'[q].pc = "create" => req'[q] = req[q]
    BY <1>0, <2>2, <2>3 DEF TypeOK
  <2> QED
    BY <2>1, <2>3, <2>4, RevokingStep
<1>8. ASSUME NEW r \in Request, AnswerLogoutAll(r) \/ Fail(r) PROVE SessionInv'
  <2>1. Idle \in RequestState /\ Idle.pc # "create"
    BY DEF RequestState, Idle
  <2> QED
    BY <1>8, <2>1, HandlerStep DEF AnswerLogoutAll, Fail
<1>9. CASE UNCHANGED vars
  BY <1>9 DEF vars, SessionInv, TypeOK, LockSound, RootsKnown, SignedOutRevoked,
     ParentsRevoked, OneSessionPerLogin, SignedOutForGood, Active
<1> QED
  BY <1>1, <1>2, <1>3, <1>4, <1>5, <1>6, <1>7, <1>8, <1>9 DEF Next

LEMMA SessionInvariant == Spec => []SessionInv
  BY SessionInit, SessionStep, PTL DEF Spec

\* The sessions and the handlers that change them are well typed.
THEOREM TypeCorrect == Spec => []TypeOK
<1>1. SessionInv => TypeOK
  BY DEF SessionInv
<1> QED
  BY <1>1, SessionInvariant, PTL

\* However many refreshes, sign-outs and crashes interleave, a login never has
\* two active sessions: the conditional revocation lets one rotation through.
THEOREM RotationIsLinear == Spec => []OneSessionPerLogin
<1>1. SessionInv => OneSessionPerLogin
  BY DEF SessionInv
<1> QED
  BY <1>1, SessionInvariant, PTL

\* A session that was signed out never gets a successor.
THEOREM SignOutIsFinal == Spec => []SignedOutForGood
<1>1. SessionInv => SignedOutForGood
  BY DEF SessionInv
<1> QED
  BY <1>1, SessionInvariant, PTL

----------------------------------------------------------------------------
\* Sessions in use have an owner, and a logoutAll that has not updated its
\* rows holds sessions of one user.
OwnersKnown ==
    /\ \A s \in Session : session[s].status # "absent" => session[s].owner \in User
    /\ \A r \in Request :
          req[r].pc = "revokeAll" =>
             \E u \in User : \A s \in req[r].targets :
                session[s].status # "absent" /\ session[s].owner = u

\* The variables of the store, as the refinement maps them.
GrantOf(s) == Store!Grant(session[s].root, session[s].owner, s)

Grants == {GrantOf(s) : s \in {t \in Session : Active(t)}}

Issued == {s \in Session : session[s].status # "absent"}

\* What every step does to the owners of sessions in use.
OwnersStay ==
    /\ \A s \in Session :
          session[s].status # "absent" =>
             session'[s].status # "absent" /\ session'[s].owner = session[s].owner
    /\ \A s \in Session :
          session[s].status = "absent" /\ session'[s].status # "absent" =>
             session'[s].owner \in User
    /\ \A r \in Request :
          req'[r].pc = "revokeAll" =>
             req'[r] = req[r] \/ \E u \in User : req'[r].targets = ActiveOf(u)

LEMMA OwnersStep ==
  ASSUME TypeOK, OwnersKnown, OwnersStay PROVE OwnersKnown'
<1>1. \A s \in Session : session'[s].status # "absent" => session'[s].owner \in User
  BY DEF OwnersKnown, OwnersStay
<1>2. ASSUME NEW r \in Request, req'[r].pc = "revokeAll"
      PROVE  \E u \in User : \A s \in req'[r].targets :
                session'[s].status # "absent" /\ session'[s].owner = u
  <2>1. CASE req'[r] = req[r]
    <3>1. req[r].targets \in SUBSET Session
      BY <1>2, <2>1 DEF TypeOK, RequestState, Idle
    <3> QED
      BY <1>2, <2>1, <3>1 DEF OwnersKnown, OwnersStay
  <2>2. CASE \E u \in User : req'[r].targets = ActiveOf(u)
    BY <2>2 DEF OwnersStay, ActiveOf, Active
  <2> QED
    BY <1>2, <2>1, <2>2 DEF OwnersStay
<1> QED
  BY <1>1, <1>2 DEF OwnersKnown

\* Revoking sessions of one user withdraws their grants.
LEMMA RevokingSignsOut ==
  ASSUME TypeOK, NEW u \in User, NEW S \in SUBSET Session,
         \A s \in S : Active(s) => session[s].owner = u,
         session' = Revoking(S)
  PROVE  Store!SignOut
<1> DEFINE withdrawn == {GrantOf(s) : s \in {t \in S : Active(t)}}
<1>1. /\ \A x \in Session :
            /\ session'[x].owner = session[x].owner
            /\ session'[x].root = session[x].root
            /\ session'[x].status =
                  IF x \in S /\ Active(x) THEN "revoked" ELSE session[x].status
  BY RevokingFacts
<1>2. withdrawn \in SUBSET Grants
  BY DEF Grants
<1>3. \A g \in withdrawn : g.owner = u
  BY DEF GrantOf, Store!Grant
<1>4. Grants' = Grants \ withdrawn
  <2>1. \A s, t \in Session : GrantOf(s) = GrantOf(t) => s = t
    BY DEF GrantOf, Store!Grant
  <2>2. \A s \in Session : GrantOf(s)' = GrantOf(s)
    BY <1>1 DEF GrantOf, Store!Grant
  <2>3. \A s \in Session : Active(s)' <=> Active(s) /\ s \notin S
    BY <1>1 DEF Active
  <2>4. Grants' = {GrantOf(s)' : s \in {t \in Session : Active(t)'}}
    BY DEF Grants
  <2>5. Grants' = {GrantOf(s) : s \in {t \in Session : Active(t) /\ t \notin S}}
    BY <2>2, <2>3, <2>4
  <2> HIDE DEF withdrawn
  <2>6. \A g \in Grants : g \in withdrawn <=>
           \E s \in Session : s \in S /\ Active(s) /\ g = GrantOf(s)
    BY DEF withdrawn
  <2> QED
    BY <2>1, <2>5, <2>6 DEF Grants
<1>5. Issued' = Issued
  BY <1>1 DEF Issued, Active
<1> QED
  BY <1>2, <1>3, <1>4, <1>5 DEF Store!SignOut, Grants, Issued, GrantOf, Store!Grant

\* A step that leaves the table alone does nothing to the store.
LEMMA TableKept ==
  ASSUME session' = session
  PROVE  UNCHANGED <<Grants, Issued>>
BY DEF Grants, Issued, GrantOf, Store!Grant, Active

\* What each step does to the store.
StoreStep == Store!Next \/ UNCHANGED <<Grants, Issued>>

LEMMA LoginLogsIn ==
  ASSUME SessionInv, Login PROVE OwnersStay /\ StoreStep
<1>1. PICK u \in User, s \in Session :
         /\ session[s].status = "absent"
         /\ session' = [session EXCEPT ![s] = Opened(u, NoSession, s)]
  BY DEF Login
<1> DEFINE new == Opened(u, NoSession, s)
<1>2. new.status = "active" /\ new.root = s /\ new.owner = u
  BY DEF Opened
<1> HIDE DEF new
<1>3. /\ session'[s] = new
      /\ \A x \in Session \ {s} : session'[x] = session[x]
      /\ req' = req
  BY <1>1 DEF SessionInv, TypeOK, new, Login
<1>4. OwnersStay
  BY <1>1, <1>2, <1>3 DEF OwnersStay
<1>5. Issued' = Issued \cup {s}
  BY <1>1, <1>2, <1>3 DEF Issued
<1>6. Grants' = Grants \cup {Store!Grant(s, u, s)}
  <2>1. GrantOf(s)' = Store!Grant(s, u, s)
    BY <1>2, <1>3 DEF GrantOf, Store!Grant
  <2>2. \A x \in Session \ {s} : GrantOf(x)' = GrantOf(x)
    BY <1>3 DEF GrantOf, Store!Grant
  <2>3. \A x \in Session : Active(x)' <=> Active(x) \/ x = s
    BY <1>2, <1>3 DEF Active
  <2>4. ~Active(s)
    BY <1>1 DEF Active
  <2>5. Grants' = {GrantOf(x)' : x \in {t \in Session : Active(t)'}}
    BY DEF Grants
  <2> QED
    BY <2>1, <2>2, <2>3, <2>4, <2>5 DEF Grants
<1>7. s \in Session \ Issued
  BY <1>1 DEF Issued
<1>8. Store!LogIn
  BY <1>5, <1>6, <1>7 DEF Store!LogIn, Grants, Issued, GrantOf, Store!Grant
<1> QED
  BY <1>4, <1>8 DEF StoreStep, Store!Next

LEMMA RotationRefreshes ==
  ASSUME SessionInv, OwnersKnown, NEW r \in Request, CreateSuccessor(r)
  PROVE  OwnersStay /\ StoreStep
<1> USE DEF SessionInv
<1> DEFINE s == req[r].session
<1>1. /\ s \in Session /\ Active(s)
      /\ req' = [req EXCEPT ![r] = Idle]
  <2>1. req[r].pc = "create"
    BY DEF CreateSuccessor
  <2>2. s \in Session
    BY <2>1 DEF TypeOK, RequestState, Idle
  <2> QED
    BY <2>1, <2>2 DEF CreateSuccessor, Resume, LockSound
<1>2. PICK t \in Session :
         /\ session[t].status = "absent"
         /\ session' = [Revoking({s}) EXCEPT
                           ![t] = Opened(session[s].owner, s, session[s].root)]
  BY DEF CreateSuccessor
<1> DEFINE new == Opened(session[s].owner, s, session[s].root)
<1>3. /\ new.status = "active" /\ new.root = session[s].root
      /\ new.owner = session[s].owner
  BY DEF Opened
<1> HIDE DEF new, s
<1>4. /\ Revoking({s}) \in [Session -> Row]
      /\ \A x \in Session :
            /\ Revoking({s})[x].owner = session[x].owner
            /\ Revoking({s})[x].root = session[x].root
            /\ Revoking({s})[x].status =
                  IF x \in {s} /\ Active(x) THEN "revoked" ELSE session[x].status
  BY <1>1, RevokingFacts
<1>5. /\ session'[t] = new
      /\ \A x \in Session \ {t} : session'[x] = Revoking({s})[x]
  BY <1>2, <1>4 DEF new, s
<1>6. s # t
  BY <1>1, <1>2 DEF Active
<1>7. /\ session'[s].status = "revoked"
      /\ \A x \in Session \ {t} :
            session'[x].owner = session[x].owner /\ session'[x].root = session[x].root
      /\ \A x \in Session \ {s, t} : session'[x].status = session[x].status
  BY <1>1, <1>4, <1>5, <1>6
<1>8. OwnersStay
  <2>1. \A q \in Request : req'[q].pc = "revokeAll" => req'[q] = req[q]
    BY <1>1 DEF TypeOK, Idle
  <2>2. session[s].owner \in User
    BY <1>1 DEF OwnersKnown, Active
  <2>3. /\ session'[t].owner \in User
        /\ session'[t].status = "active"
    BY <1>3, <1>5, <2>2
  <2>4. \A x \in Session \ {t} :
           /\ session[x].status # "absent" =>
                 session'[x].status # "absent" /\ session'[x].owner = session[x].owner
           /\ session[x].status = "absent" => session'[x].status = "absent"
    BY <1>1, <1>6, <1>7 DEF Active
  <2> QED
    BY <1>2, <2>1, <2>3, <2>4 DEF OwnersStay
<1>9. Issued' = Issued \cup {t}
  BY <1>1, <1>3, <1>5, <1>7 DEF Issued, Active
<1> DEFINE g == GrantOf(s)
<1>10. g \in Grants
  BY <1>1 DEF Grants
<1>11. g.login = session[s].root /\ g.owner = session[s].owner
  BY DEF GrantOf, Store!Grant
<1>12. Grants' = (Grants \ {g}) \cup {Store!Grant(g.login, g.owner, t)}
  <2>1. GrantOf(t)' = Store!Grant(g.login, g.owner, t)
    BY <1>3, <1>5, <1>11 DEF GrantOf, Store!Grant
  <2>2. \A x \in Session \ {t} : GrantOf(x)' = GrantOf(x)
    BY <1>7 DEF GrantOf, Store!Grant
  <2>3. \A x \in Session : Active(x)' <=> x = t \/ (Active(x) /\ x # s)
    BY <1>3, <1>5, <1>6, <1>7 DEF Active
  <2>4. ~Active(t)
    BY <1>2 DEF Active
  <2>5. \A x, y \in Session : GrantOf(x) = GrantOf(y) => x = y
    BY DEF GrantOf, Store!Grant
  <2>6. Grants' = {GrantOf(x)' : x \in {y \in Session : Active(y)'}}
    BY DEF Grants
  <2> HIDE DEF g
  <2>7. g = GrantOf(s)
    BY DEF g
  <2> QED
    BY <1>1, <2>1, <2>2, <2>3, <2>4, <2>5, <2>6, <2>7 DEF Grants
<1>13. t \in Session \ Issued
  BY <1>2 DEF Issued
<1>14. Store!Refresh
  <2> HIDE DEF g
  <2> QED
    BY <1>9, <1>10, <1>12, <1>13
    DEF Store!Refresh, Grants, Issued, GrantOf, Store!Grant
<1> QED
  BY <1>8, <1>14 DEF StoreStep, Store!Next

LEMMA StoreStepLemma ==
  ASSUME SessionInv, OwnersKnown, [Next]_vars
  PROVE  OwnersStay /\ StoreStep
<1>0. TypeOK
  BY DEF SessionInv
<1>a. ASSUME session' = session,
             \A r \in Request : req'[r].pc = "revokeAll" =>
                req'[r] = req[r] \/ \E u \in User : req'[r].targets = ActiveOf(u)
      PROVE  OwnersStay /\ StoreStep
  BY <1>a, TableKept DEF OwnersStay, StoreStep
<1>1. CASE Login
  BY <1>1, LoginLogsIn
<1>2. CASE Logout
  <2>1. PICK s \in Session :
           Active(s) /\ session' = Revoking({s}) /\ req' = req
    BY <1>2 DEF Logout
  <2>2. session[s].owner \in User
    BY <2>1 DEF OwnersKnown, Active
  <2>3. Store!SignOut
    BY <1>0, <2>1, <2>2, RevokingSignsOut
  <2>4. OwnersStay
    BY <1>0, <2>1, RevokingFacts DEF OwnersStay, Active
  <2> QED
    BY <2>3, <2>4 DEF StoreStep, Store!Next
<1>3. ASSUME NEW r \in Request, StartRefresh(r) PROVE OwnersStay /\ StoreStep
  BY <1>0, <1>3, <1>a DEF StartRefresh, Resume, TypeOK
<1>4. ASSUME NEW r \in Request, RevokeRotated(r) PROVE OwnersStay /\ StoreStep
  BY <1>0, <1>4, <1>a DEF RevokeRotated, Resume, TypeOK, Idle
<1>5. ASSUME NEW r \in Request, CreateSuccessor(r) PROVE OwnersStay /\ StoreStep
  BY <1>5, RotationRefreshes
<1>6. ASSUME NEW r \in Request, StartLogoutAll(r) PROVE OwnersStay /\ StoreStep
  BY <1>0, <1>6, <1>a DEF StartLogoutAll, Resume, TypeOK
<1>7. ASSUME NEW r \in Request, RevokeAll(r) PROVE OwnersStay /\ StoreStep
  <2> DEFINE targets == req[r].targets
  <2>1. /\ req[r].pc = "revokeAll" /\ session' = Revoking(targets)
        /\ req' = [req EXCEPT ![r] = [pc |-> "allRevoked", targets |-> targets]]
    BY <1>7 DEF RevokeAll, Resume
  <2>2. targets \in SUBSET Session
    BY <1>0, <2>1 DEF TypeOK, RequestState, Idle
  <2>3. PICK u \in User : \A s \in targets : session[s].owner = u
    BY <2>1 DEF OwnersKnown
  <2>4. \A q \in Request : req'[q].pc = "revokeAll" => req'[q] = req[q]
    BY <1>0, <2>1 DEF TypeOK
  <2> HIDE DEF targets
  <2>5. Store!SignOut
    BY <1>0, <2>1, <2>2, <2>3, RevokingSignsOut
  <2>6. OwnersStay
    BY <1>0, <2>1, <2>2, <2>4, RevokingFacts DEF OwnersStay, Active
  <2> QED
    BY <2>5, <2>6 DEF StoreStep, Store!Next
<1>8. ASSUME NEW r \in Request, AnswerLogoutAll(r) \/ Fail(r)
      PROVE  OwnersStay /\ StoreStep
  BY <1>0, <1>8, <1>a DEF AnswerLogoutAll, Fail, Resume, TypeOK, Idle
<1>9. CASE UNCHANGED vars
  BY <1>9, <1>a DEF vars
<1> QED
  BY <1>1, <1>2, <1>3, <1>4, <1>5, <1>6, <1>7, <1>8, <1>9 DEF Next

\* The handlers implement the store: a refresh that was split into a read, an
\* update and an insert is one exchange of tokens, whatever ran in between, and
\* what a crash or an old snapshot leaves behind is a sign-out or nothing.
THEOREM HandlersImplementStore == Spec => ImplementsStore
<1>1. Init => OwnersKnown /\ Store!Init
  BY DEF Init, OwnersKnown, Absent, Idle, Store!Init, Active
<1>2. SessionInv /\ OwnersKnown /\ [Next]_vars => OwnersKnown' /\ [Store!Next]_(Store!store)
  <2> SUFFICES ASSUME SessionInv, OwnersKnown, [Next]_vars
               PROVE  OwnersKnown' /\ [Store!Next]_(Store!store)
    OBVIOUS
  <2>1. OwnersKnown'
    BY StoreStepLemma, OwnersStep DEF SessionInv
  <2>2. UNCHANGED <<Grants, Issued>> => UNCHANGED Store!store
    BY DEF Grants, Issued, GrantOf, Store!store, Store!Grant
  <2> QED
    BY <2>1, <2>2, StoreStepLemma DEF StoreStep
<1> QED
  BY <1>1, <1>2, SessionInvariant, PTL DEF Spec, ImplementsStore, Store!Spec
=============================================================================
