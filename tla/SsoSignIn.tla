------------------------------ MODULE SsoSignIn ------------------------------
(***************************************************************************)
(* Signing in through an OpenID Connect provider.                          *)
(*                                                                         *)
(* GET sso/start answers with a redirect to the provider and a cookie that *)
(* holds the state, nonce and verifier of the flow; the provider sends the *)
(* browser back to GET sso/callback with a code, and the callback brings   *)
(* whatever flow cookie the browser has by then.  A browser has one such   *)
(* cookie for all its tabs, and each handler awaits the provider and the   *)
(* database while other visits start, return and answer.                   *)
(***************************************************************************)
EXTENDS FiniteSets

CONSTANTS
    Browser,
    Flow, NoFlow,  \* the random values of a sign-in: state, nonce, verifier
    Visit,         \* requests of GET sso/callback
    Identity,      \* whom the provider may authenticate
    Verified,      \* those whose email the provider does not call unverified
    User, NoUser,
    AccountOf,     \* the user with the email of an identity
    OrgOf,         \* User.organizationId
    SsoOrg         \* the organization named by OIDC_ORGANIZATION_SLUG

ASSUME SsoAssumption ==
    /\ NoFlow \notin Flow
    /\ NoUser \notin User
    /\ Verified \subseteq Identity
    /\ AccountOf \in [Identity -> User \cup {NoUser}]

VARIABLES
    flow,   \* what has become of each flow
    jar,    \* the cookies of each browser
    visit   \* the callbacks being handled

vars == <<flow, jar, visit>>

----------------------------------------------------------------------------
Unused == [stage |-> "unused"]

\* The steps of a flow, from the start to the return from the provider.
Stage == {"redirected", "atProvider"}

\* reloaded and disturbed are history: the callback was sent more than once,
\* and the cookie of the flow was replaced or cleared by another one's answer.
FlowState ==
    {Unused}
    \cup [stage : Stage, browser : Browser, expired : BOOLEAN,
          disturbed : BOOLEAN]
    \cup [stage : {"returned"}, browser : Browser, expired : BOOLEAN,
          disturbed : BOOLEAN, identity : Identity, used : BOOLEAN,
          sent : BOOLEAN, reloaded : BOOLEAN]

Jar == [flow : Flow \cup {NoFlow}, user : User \cup {NoUser}]

\* What may happen to a flow.
Redirected(s) == [s EXCEPT !.stage = "atProvider"]
Expired(s) == [s EXCEPT !.expired = TRUE]
Disturbed(s) == [s EXCEPT !.disturbed = TRUE]
Used(s) == [s EXCEPT !.used = TRUE]
Sent(s) == [[s EXCEPT !.reloaded = s.sent] EXCEPT !.sent = TRUE]

Resting == [pc |-> "idle"]

Handling == {"check", "exchange", "verify", "link"}

VisitState ==
    {Resting}
    \cup [pc : Handling, flow : Flow, cookie : Flow \cup {NoFlow}]
    \cup [pc : {"answer"}, flow : Flow, user : User]
    \cup [pc : {"refused"}, flow : Flow, fault : BOOLEAN]

Continue(v, pc) ==
    visit' = [visit EXCEPT ![v] =
                [pc |-> pc, flow |-> visit[v].flow, cookie |-> visit[v].cookie]]

Refused(v, fault) ==
    visit' = [visit EXCEPT ![v] =
                [pc |-> "refused", flow |-> visit[v].flow, fault |-> fault]]

----------------------------------------------------------------------------
(* GET sso/start *)

\* createAuthorizationRequest; without the provider's configuration it
\* answers 503, and nothing has happened.
StartSso(b) ==
    /\ \E f \in Flow :
        /\ flow[f] = Unused
        /\ flow' = [flow EXCEPT ![f] =
              [stage |-> "redirected", browser |-> b, expired |-> FALSE,
               disturbed |-> FALSE]]
    /\ UNCHANGED <<jar, visit>>

\* The flows of a browser lose the cookie to the answer of f.
Disturb(f) ==
    [g \in Flow |->
        IF g # f /\ flow[g] # Unused /\ flow[g].browser = flow[f].browser
        THEN Disturbed(flow[g]) ELSE flow[g]]

\* The answer arrives: the browser stores the cookie and goes to the provider.
StartArrives(f) ==
    /\ flow[f].stage = "redirected"
    /\ flow' = [Disturb(f) EXCEPT ![f] = Redirected(flow[f])]
    /\ jar' = [jar EXCEPT ![flow[f].browser].flow = f]
    /\ UNCHANGED visit

\* The provider authenticates whoever sits there, and issues a code.
Authenticate(f) ==
    /\ flow[f].stage = "atProvider"
    /\ \E i \in Identity :
        flow' = [flow EXCEPT ![f] =
            [stage |-> "returned", browser |-> flow[f].browser,
             expired |-> flow[f].expired, disturbed |-> flow[f].disturbed,
             identity |-> i, used |-> FALSE, sent |-> FALSE,
             reloaded |-> FALSE]]
    /\ UNCHANGED <<jar, visit>>

\* Ten minutes have passed.
Expire(f) ==
    /\ flow[f] # Unused /\ ~flow[f].expired
    /\ flow' = [flow EXCEPT ![f] = Expired(@)]
    /\ UNCHANGED <<jar, visit>>

----------------------------------------------------------------------------
(* GET sso/callback *)

\* Mutant: a SameSite=Strict cookie does not come back from another site.
CookieSent_Strict(b) == NoFlow

CookieSent(b) == jar[b].flow

\* The redirect of the provider is followed, or reloaded.
SendCallback(v) ==
    /\ visit[v].pc = "idle"
    /\ \E f \in Flow :
        /\ flow[f].stage = "returned"
        /\ visit' = [visit EXCEPT ![v] =
              [pc |-> "check", flow |-> f,
               cookie |-> CookieSent(flow[f].browser)]]
        /\ flow' = [flow EXCEPT ![f] = Sent(@)]
    /\ UNCHANGED jar

\* The cookie is there, is not too old, and has the state of the query.
CheckState(v) ==
    LET q == visit[v] IN
    /\ q.pc = "check"
    /\ IF q.cookie \in Flow /\ ~flow[q.cookie].expired /\ q.cookie = q.flow
       THEN Continue(v, "exchange")
       ELSE Refused(v, FALSE)
    /\ UNCHANGED <<flow, jar>>

\* discovery, and the token endpoint, which takes a code once, with the verifier of its flow.
ExchangeCode(v) ==
    LET q == visit[v]
        f == q.flow
    IN
    /\ q.pc = "exchange"
    /\ \/ /\ ~flow[f].used /\ q.cookie = f
          /\ flow' = [flow EXCEPT ![f] = Used(@)]
          /\ Continue(v, "verify") \/ Refused(v, TRUE)   \* or its answer is lost
       \/ /\ flow[f].used \/ q.cookie # f
          /\ Refused(v, FALSE)
          /\ UNCHANGED flow
    /\ UNCHANGED jar

\* verifyIdToken: the nonce of the token and a verified email.
VerifyIdToken(v) ==
    LET q == visit[v] IN
    /\ q.pc = "verify"
    /\ IF q.cookie = q.flow /\ flow[q.flow].identity \in Verified
       THEN Continue(v, "link")
       ELSE Refused(v, FALSE)
    /\ UNCHANGED <<flow, jar>>

\* Mutant: the email decides alone.
Linked_AnyTenant(i) == AccountOf[i] # NoUser

\* The account of an identity, in the configured organization only.
Linked(i) == AccountOf[i] # NoUser /\ OrgOf[AccountOf[i]] = SsoOrg

\* loginWithOidcEmail, which creates a session.
LinkAccount(v) ==
    LET q == visit[v]
        i == flow[q.flow].identity
    IN
    /\ q.pc = "link"
    /\ IF Linked(i)
       THEN visit' = [visit EXCEPT ![v] =
               [pc |-> "answer", flow |-> q.flow, user |-> AccountOf[i]]]
       ELSE Refused(v, FALSE)
    /\ UNCHANGED <<flow, jar>>

\* The provider or the database does not answer, or answers with an error.
Fault(v) ==
    /\ visit[v].pc \in Handling \ {"check"}
    /\ Refused(v, TRUE)
    /\ UNCHANGED <<flow, jar>>

\* The answer sets the refresh cookie and clears the flow cookie, whichever
\* flow that is of by now.
AnswerArrives(v) ==
    LET q == visit[v]
        b == flow[q.flow].browser
    IN
    /\ q.pc = "answer"
    /\ jar' = [jar EXCEPT ![b] = [flow |-> NoFlow, user |-> q.user]]
    /\ flow' = Disturb(q.flow)
    /\ visit' = [visit EXCEPT ![v] = Resting]

\* A refusal leaves the cookies alone; either answer may be lost.
VisitEnds(v) ==
    /\ visit[v].pc \in {"answer", "refused"}
    /\ visit' = [visit EXCEPT ![v] = Resting]
    /\ UNCHANGED <<flow, jar>>

----------------------------------------------------------------------------
Init ==
    /\ flow = [f \in Flow |-> Unused]
    /\ jar = [b \in Browser |-> [flow |-> NoFlow, user |-> NoUser]]
    /\ visit = [v \in Visit |-> Resting]

Handle(v) ==
    \/ CheckState(v)
    \/ ExchangeCode(v)
    \/ VerifyIdToken(v)
    \/ LinkAccount(v)

Next ==
    \/ \E b \in Browser : StartSso(b)
    \/ \E f \in Flow : StartArrives(f) \/ Authenticate(f) \/ Expire(f)
    \/ \E v \in Visit : \/ SendCallback(v)
                        \/ Handle(v)
                        \/ Fault(v)
                        \/ AnswerArrives(v)
                        \/ VisitEnds(v)

Spec == Init /\ [][Next]_vars

----------------------------------------------------------------------------
TypeOK ==
    /\ flow \in [Flow -> FlowState]
    /\ jar \in [Browser -> Jar]
    /\ visit \in [Visit -> VisitState]

\* A browser that has been signed in is signed in as a user of the configured
\* organization whom the provider, in a flow that this browser started, has
\* authenticated with a verified email.
SignedInWhoAuthenticated ==
    \A b \in Browser :
        jar[b].user # NoUser =>
            /\ OrgOf[jar[b].user] = SsoOrg
            /\ \E f \in Flow :
                  /\ flow[f].stage = "returned" /\ flow[f].browser = b
                  /\ flow[f].identity \in Verified
                  /\ AccountOf[flow[f].identity] = jar[b].user

\* A sign-in fails only for a reason that lies with it: a failed call, ten
\* minutes, a reload of the callback, an answer to another tab of the same
\* browser that replaced or cleared the cookie, or an identity without an
\* account.  No other browser, and no earlier attempt, stands in its way.
RefusedForAReason ==
    \A v \in Visit :
        visit[v].pc = "refused" =>
            LET f == flow[visit[v].flow] IN
            \/ visit[v].fault
            \/ f.expired \/ f.reloaded \/ f.disturbed
            \/ f.identity \notin Verified
            \/ AccountOf[f.identity] = NoUser
            \/ OrgOf[AccountOf[f.identity]] # SsoOrg
=============================================================================
