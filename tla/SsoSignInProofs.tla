---------------------------- MODULE SsoSignInProofs ----------------------------
(***************************************************************************)
(* Proofs about SsoSignIn, for any number of browsers, sign-ins and        *)
(* callbacks, and any provider and directory.                              *)
(***************************************************************************)
EXTENDS SsoSignIn, TLAPS

----------------------------------------------------------------------------
(* Records *)

Underway == [stage : Stage, browser : Browser, expired : BOOLEAN, disturbed : BOOLEAN]
Returned == [stage : {"returned"}, browser : Browser, expired : BOOLEAN,
             disturbed : BOOLEAN, identity : Identity, used : BOOLEAN,
             sent : BOOLEAN, reloaded : BOOLEAN]

\* The stage of a flow tells its fields.
LEMMA FlowFields ==
    ASSUME TypeOK, NEW f \in Flow
    PROVE  /\ flow[f] = Unused \/ flow[f].stage \in Stage \/ flow[f].stage = "returned"
           /\ flow[f] # Unused => /\ flow[f].stage # "unused"
                                  /\ flow[f] \in Underway \cup Returned
           /\ flow[f].stage \in Stage => flow[f] \in Underway
           /\ flow[f].stage = "returned" => flow[f] \in Returned
BY DEF TypeOK, FlowState, Underway, Returned, Unused, Stage

LEMMA VisitFields ==
    ASSUME TypeOK, NEW v \in Visit
    PROVE  /\ visit[v].pc \in {"idle", "answer", "refused"} \cup Handling
           /\ visit[v].pc \in Handling =>
                visit[v] \in [pc : Handling, flow : Flow, cookie : Flow \cup {NoFlow}]
           /\ visit[v].pc = "answer" =>
                visit[v] \in [pc : {"answer"}, flow : Flow, user : User]
           /\ visit[v].pc = "refused" =>
                visit[v] \in [pc : {"refused"}, flow : Flow, fault : BOOLEAN]
BY DEF TypeOK, VisitState, Resting, Handling

\* What a flow under way goes through before it returns.
LEMMA UnderwayChanges ==
    ASSUME NEW s \in Underway
    PROVE  /\ Redirected(s) \in Underway /\ Redirected(s).stage = "atProvider"
           /\ Redirected(s).browser = s.browser
           /\ Redirected(s).disturbed = s.disturbed
           /\ Expired(s) \in Underway /\ Expired(s).stage = s.stage
           /\ Expired(s).browser = s.browser /\ Expired(s).disturbed = s.disturbed
           /\ Disturbed(s) \in Underway /\ Disturbed(s).stage = s.stage
           /\ Disturbed(s).browser = s.browser /\ Disturbed(s).disturbed
BY DEF Underway, Stage, Redirected, Expired, Disturbed

\* What a flow that has returned keeps: who was authenticated, for which browser,
\* and every reason to refuse it.
Keeps(s, t) ==
    /\ t \in Returned
    /\ t.browser = s.browser /\ t.identity = s.identity
    /\ s.expired => t.expired
    /\ s.disturbed => t.disturbed
    /\ s.reloaded => t.reloaded
    /\ s.sent => t.sent

LEMMA ReturnedChanges ==
    ASSUME NEW s \in Returned
    PROVE  /\ Keeps(s, s)
           /\ Keeps(s, Expired(s)) /\ Expired(s).disturbed = s.disturbed
           /\ Expired(s).used = s.used /\ Expired(s).sent = s.sent
           /\ Expired(s).reloaded = s.reloaded
           /\ Keeps(s, Disturbed(s)) /\ Disturbed(s).disturbed
           /\ Disturbed(s).used = s.used /\ Disturbed(s).sent = s.sent
           /\ Disturbed(s).reloaded = s.reloaded
           /\ Keeps(s, Used(s)) /\ Used(s).disturbed = s.disturbed
           /\ Used(s).used /\ Used(s).sent = s.sent
           /\ Used(s).reloaded = s.reloaded
<1>1. Keeps(s, s)
  BY DEF Keeps, Returned
<1>2. /\ Keeps(s, Expired(s)) /\ Expired(s).disturbed = s.disturbed
      /\ Expired(s).used = s.used /\ Expired(s).sent = s.sent
      /\ Expired(s).reloaded = s.reloaded
  BY DEF Keeps, Returned, Expired
<1>3. /\ Keeps(s, Disturbed(s)) /\ Disturbed(s).disturbed
      /\ Disturbed(s).used = s.used /\ Disturbed(s).sent = s.sent
      /\ Disturbed(s).reloaded = s.reloaded
  BY DEF Keeps, Returned, Disturbed
<1>4. /\ Keeps(s, Used(s)) /\ Used(s).disturbed = s.disturbed
      /\ Used(s).used /\ Used(s).sent = s.sent
      /\ Used(s).reloaded = s.reloaded
  BY DEF Keeps, Returned, Used
<1> QED
  BY <1>1, <1>2, <1>3, <1>4

LEMMA SentChanges ==
    ASSUME NEW s \in Returned, s.reloaded => s.sent
    PROVE  /\ Keeps(s, Sent(s)) /\ Sent(s).used = s.used
           /\ Sent(s).disturbed = s.disturbed
           /\ Sent(s).sent /\ Sent(s).reloaded = s.sent
<1> DEFINE t == [s EXCEPT !.reloaded = s.sent]
<1>1. /\ t \in Returned /\ t.browser = s.browser /\ t.identity = s.identity
      /\ t.expired = s.expired /\ t.disturbed = s.disturbed /\ t.used = s.used
      /\ t.reloaded = s.sent
  BY DEF Returned
<1>2. Sent(s) = [t EXCEPT !.sent = TRUE]
  BY DEF Sent
<1> HIDE DEF t
<1>3. /\ Sent(s) \in Returned /\ Sent(s).browser = t.browser
      /\ Sent(s).identity = t.identity /\ Sent(s).expired = t.expired
      /\ Sent(s).disturbed = t.disturbed /\ Sent(s).used = t.used
      /\ Sent(s).reloaded = t.reloaded /\ Sent(s).sent
  BY <1>1, <1>2 DEF Returned
<1> QED
  BY <1>1, <1>3 DEF Keeps

----------------------------------------------------------------------------
(* The invariant *)

\* A browser has the cookie of its flow until the first callback brings it, or
\* the answer to another flow takes it away.
CookieKept(f) ==
    /\ \/ flow[f].stage = "atProvider"
       \/ flow[f].stage = "returned" /\ ~flow[f].sent
    /\ ~flow[f].disturbed
    => jar[flow[f].browser].flow = f

\* A code is used, and a callback reloaded, only after it was sent.
SentFirst(f) ==
    flow[f].stage = "returned" /\ (flow[f].used \/ flow[f].reloaded) => flow[f].sent

Welcome(i) ==
    i \in Verified /\ AccountOf[i] # NoUser /\ OrgOf[AccountOf[i]] = SsoOrg

\* What RefusedForAReason says of one refusal.
Reason(q) ==
    \/ q.fault
    \/ flow[q.flow].expired \/ flow[q.flow].reloaded \/ flow[q.flow].disturbed
    \/ ~Welcome(flow[q.flow].identity)

\* What a callback has to show for the step it has reached.
VisitSound(q) ==
    q.pc # "idle" =>
      /\ q.flow \in Flow
      /\ flow[q.flow].stage = "returned" /\ flow[q.flow].sent
      /\ q.pc = "check" /\ q.cookie # q.flow =>
           flow[q.flow].disturbed \/ flow[q.flow].reloaded
      /\ q.pc \in {"exchange", "verify", "link"} => q.cookie = q.flow
      /\ q.pc \in {"check", "exchange"} /\ flow[q.flow].used => flow[q.flow].reloaded
      /\ q.pc = "link" => flow[q.flow].identity \in Verified
      /\ q.pc = "answer" =>
           Welcome(flow[q.flow].identity) /\ AccountOf[flow[q.flow].identity] = q.user
      /\ q.pc = "refused" => Reason(q)

\* Two callbacks of a flow are a reload.
VisitsAlone ==
    \A v, w \in Visit :
        /\ visit[v].pc # "idle" /\ visit[w].pc # "idle" /\ visit[v].flow = visit[w].flow
        => v = w \/ flow[visit[v].flow].reloaded

\* What SignedInWhoAuthenticated says of one browser.
JarSound(b) ==
    jar[b].user # NoUser =>
      \E f \in Flow :
        /\ flow[f].stage = "returned" /\ flow[f].browser = b
        /\ Welcome(flow[f].identity) /\ AccountOf[flow[f].identity] = jar[b].user

SsoInv ==
    /\ TypeOK
    /\ \A f \in Flow : CookieKept(f) /\ SentFirst(f)
    /\ \A v \in Visit : VisitSound(visit[v])
    /\ VisitsAlone
    /\ \A b \in Browser : JarSound(b)

\* What every step does to the flows that have returned.
FlowsKeep ==
    \A f \in Flow : flow[f].stage = "returned" => Keeps(flow[f], flow'[f])

\* Whatever a visit relied on, or could be refused for, is still there.
LEMMA VisitsCarry ==
    ASSUME SsoInv, FlowsKeep, NEW v \in Visit, visit'[v] = visit[v],
           visit[v].pc \in {"check", "exchange"} /\ flow'[visit[v].flow].used =>
             flow[visit[v].flow].used \/ flow'[visit[v].flow].reloaded
    PROVE  VisitSound(visit[v])'
<1> DEFINE q == visit[v]
<1> SUFFICES ASSUME q.pc # "idle" PROVE VisitSound(visit[v])'
  BY DEF VisitSound
<1>1. VisitSound(q)
  BY DEF SsoInv
<1>2. q.flow \in Flow /\ Keeps(flow[q.flow], flow'[q.flow])
  BY <1>1 DEF VisitSound, FlowsKeep
<1>3. flow'[q.flow].stage = "returned"
  BY <1>2 DEF Keeps, Returned
<1> QED
  BY <1>1, <1>2, <1>3 DEF VisitSound, Reason, Keeps

LEMMA JarsCarry ==
    ASSUME SsoInv, FlowsKeep, NEW b \in Browser, jar'[b].user = jar[b].user
    PROVE  JarSound(b)'
<1> SUFFICES ASSUME jar[b].user # NoUser PROVE JarSound(b)'
  BY DEF JarSound
<1>1. PICK f \in Flow :
        /\ flow[f].stage = "returned" /\ flow[f].browser = b
        /\ Welcome(flow[f].identity) /\ AccountOf[flow[f].identity] = jar[b].user
  BY DEF SsoInv, JarSound
<1>2. /\ flow'[f].stage = "returned" /\ flow'[f].browser = b
      /\ flow'[f].identity = flow[f].identity
  BY <1>1 DEF FlowsKeep, Keeps, Returned
<1> QED
  BY <1>1, <1>2 DEF JarSound

\* Steps in which no visit begins.
LEMMA AloneCarries ==
    ASSUME SsoInv, FlowsKeep,
           \A v \in Visit : visit'[v].pc # "idle" =>
              visit[v].pc # "idle" /\ visit'[v].flow = visit[v].flow
    PROVE  VisitsAlone'
<1> SUFFICES ASSUME NEW v \in Visit, NEW w \in Visit,
                    visit'[v].pc # "idle", visit'[w].pc # "idle",
                    visit'[v].flow = visit'[w].flow, v # w
             PROVE  flow'[visit'[v].flow].reloaded
  BY DEF VisitsAlone
<1>1. flow[visit[v].flow].reloaded /\ visit'[v].flow = visit[v].flow
  BY DEF SsoInv, VisitsAlone
<1>2. visit[v].flow \in Flow /\ flow[visit[v].flow].stage = "returned"
  BY DEF SsoInv, VisitSound
<1> QED
  BY <1>1, <1>2 DEF FlowsKeep, Keeps

----------------------------------------------------------------------------
(* The steps *)

\* A change of one flow, which is not under a callback.
LEMMA FlowStep ==
    ASSUME SsoInv, NEW f \in Flow, NEW t \in FlowState, UNCHANGED <<jar, visit>>,
           flow' = [flow EXCEPT ![f] = t],
           flow[f].stage = "returned" =>
             /\ Keeps(flow[f], t)
             /\ t.used = flow[f].used /\ t.sent = flow[f].sent
             /\ t.reloaded = flow[f].reloaded /\ t.disturbed = flow[f].disturbed,
           flow[f].stage # "returned" /\ t.stage = "returned" =>
             ~t.used /\ ~t.reloaded,
           \/ t.stage = "redirected"
           \/ /\ flow[f].stage \in {"atProvider", "returned"}
              /\ t.browser = flow[f].browser /\ t.disturbed = flow[f].disturbed
    PROVE  SsoInv'
<1>1. TypeOK'
  BY DEF SsoInv, TypeOK
<1>2. flow'[f] = t /\ \A g \in Flow \ {f} : flow'[g] = flow[g]
  BY DEF SsoInv, TypeOK
<1>3. FlowsKeep
  BY <1>2, FlowFields, ReturnedChanges DEF FlowsKeep, SsoInv
<1>4. ASSUME NEW g \in Flow PROVE CookieKept(g)' /\ SentFirst(g)'
  <2>1. CASE g # f
    BY <1>2, <2>1 DEF SsoInv, CookieKept, SentFirst
  <2>2. CASE g = f
    <3>1. SentFirst(f)'
      BY <1>2 DEF SsoInv, SentFirst
    <3>2. CASE t.stage = "redirected"
      BY <1>2, <2>2, <3>1, <3>2 DEF CookieKept
    <3>3. CASE /\ flow[f].stage \in {"atProvider", "returned"}
               /\ t.browser = flow[f].browser /\ t.disturbed = flow[f].disturbed
      <4>1. flow[f].stage = "returned" => t.stage = "returned"
        BY DEF Keeps, Returned
      <4>2. jar' = jar /\ CookieKept(f)
        BY DEF SsoInv
      <4> QED
        BY <1>2, <2>2, <3>1, <3>3, <4>1, <4>2 DEF CookieKept
    <3> QED
      BY <2>2, <3>1, <3>2, <3>3
  <2> QED
    BY <2>1, <2>2
<1>5. \A g \in Flow : flow[g].stage = "returned" => flow'[g].used = flow[g].used
  BY <1>2
<1>6. ASSUME NEW v \in Visit PROVE VisitSound(visit[v])'
  <2>1. visit[v].pc # "idle" =>
          visit[v].flow \in Flow /\ flow[visit[v].flow].stage = "returned"
    BY DEF SsoInv, VisitSound
  <2> QED
    BY <1>3, <1>5, <2>1, VisitsCarry
<1>7. VisitsAlone'
  BY <1>3, AloneCarries
<1>8. ASSUME NEW b \in Browser PROVE JarSound(b)'
  BY <1>3, JarsCarry
<1> QED
  BY <1>1, <1>4, <1>6, <1>7, <1>8 DEF SsoInv

LEMMA StartStep ==
    ASSUME SsoInv, NEW b \in Browser, StartSso(b)
    PROVE  SsoInv'
<1>1. PICK f \in Flow :
        /\ flow[f] = Unused
        /\ flow' = [flow EXCEPT ![f] =
              [stage |-> "redirected", browser |-> b, expired |-> FALSE,
               disturbed |-> FALSE]]
  BY DEF StartSso
<1> DEFINE t == [stage |-> "redirected", browser |-> b, expired |-> FALSE,
                 disturbed |-> FALSE]
<1>2. t \in FlowState /\ t.stage = "redirected"
  BY DEF FlowState, Stage
<1>3. flow[f].stage # "returned" /\ UNCHANGED <<jar, visit>>
  BY <1>1 DEF Unused, StartSso
<1>4. flow' = [flow EXCEPT ![f] = t]
  BY <1>1
<1> HIDE DEF t
<1> QED
  BY <1>2, <1>3, <1>4, FlowStep

LEMMA AuthenticateStep ==
    ASSUME SsoInv, NEW f \in Flow, Authenticate(f)
    PROVE  SsoInv'
<1>1. PICK i \in Identity :
        flow' = [flow EXCEPT ![f] =
            [stage |-> "returned", browser |-> flow[f].browser,
             expired |-> flow[f].expired, disturbed |-> flow[f].disturbed,
             identity |-> i, used |-> FALSE, sent |-> FALSE,
             reloaded |-> FALSE]]
  BY DEF Authenticate
<1> DEFINE t == [stage |-> "returned", browser |-> flow[f].browser,
                 expired |-> flow[f].expired, disturbed |-> flow[f].disturbed,
                 identity |-> i, used |-> FALSE, sent |-> FALSE,
                 reloaded |-> FALSE]
<1>2. flow[f].stage = "atProvider" /\ UNCHANGED <<jar, visit>>
  BY DEF Authenticate
<1>3. flow[f] \in Underway
  BY <1>2, FlowFields DEF SsoInv, Stage
<1>4. /\ t \in FlowState /\ t.stage = "returned" /\ ~t.used /\ ~t.reloaded
      /\ t.browser = flow[f].browser /\ t.disturbed = flow[f].disturbed
  BY <1>3 DEF FlowState, Underway
<1>5. flow' = [flow EXCEPT ![f] = t]
  BY <1>1
<1> HIDE DEF t
<1> QED
  BY <1>2, <1>4, <1>5, FlowStep

LEMMA ExpireStep ==
    ASSUME SsoInv, NEW f \in Flow, Expire(f)
    PROVE  SsoInv'
<1> DEFINE t == Expired(flow[f])
<1>1. /\ flow[f] # Unused /\ UNCHANGED <<jar, visit>>
      /\ flow' = [flow EXCEPT ![f] = t]
  BY DEF Expire
<1>2. flow[f] \in Underway \cup Returned
  BY <1>1, FlowFields DEF SsoInv
<1>3. CASE flow[f] \in Underway
  <2>1. /\ t \in Underway /\ t.stage = flow[f].stage
        /\ t.browser = flow[f].browser /\ t.disturbed = flow[f].disturbed
    BY <1>3, UnderwayChanges
  <2>2. t \in FlowState /\ flow[f].stage \in {"redirected", "atProvider"}
    BY <1>3, <2>1 DEF FlowState, Underway, Stage
  <2> HIDE DEF t
  <2> QED
    BY <1>1, <2>1, <2>2, FlowStep
<1>4. CASE flow[f] \in Returned
  <2>1. /\ Keeps(flow[f], t) /\ t.disturbed = flow[f].disturbed
        /\ t.used = flow[f].used /\ t.sent = flow[f].sent
        /\ t.reloaded = flow[f].reloaded
    BY <1>4, ReturnedChanges
  <2>2. /\ t \in FlowState /\ flow[f].stage = "returned"
        /\ t.browser = flow[f].browser
    BY <1>4, <2>1 DEF FlowState, Returned, Keeps
  <2> HIDE DEF t
  <2> QED
    BY <1>1, <2>1, <2>2, FlowStep
<1> QED
  BY <1>2, <1>3, <1>4

\* The other flows of a browser, when the answer to f replaces their cookie.
LEMMA Disturbs ==
    ASSUME SsoInv, NEW f \in Flow, NEW g \in Flow, NEW t, t = Disturb(f)[g]
    PROVE  /\ t \in FlowState
           /\ flow[g].stage = "returned" =>
                /\ Keeps(flow[g], t) /\ t.used = flow[g].used
                /\ t.sent = flow[g].sent /\ t.reloaded = flow[g].reloaded
           /\ flow[g] # Unused =>
                /\ t.stage = flow[g].stage /\ t.browser = flow[g].browser
                /\ g # f /\ flow[g].browser = flow[f].browser => t.disturbed
                /\ t.disturbed \/ t = flow[g]
           /\ flow[g] = Unused \/ g = f => t = flow[g]
<1>1. CASE g = f \/ flow[g] = Unused \/ flow[g].browser # flow[f].browser
  <2>1. t = flow[g]
    BY <1>1 DEF Disturb
  <2>2. flow[g].stage = "returned" => Keeps(flow[g], flow[g])
    BY FlowFields, ReturnedChanges DEF SsoInv
  <2> QED
    BY <1>1, <2>1, <2>2 DEF SsoInv, TypeOK
<1>2. CASE g # f /\ flow[g] # Unused /\ flow[g].browser = flow[f].browser
  <2>1. t = Disturbed(flow[g])
    BY <1>2 DEF Disturb
  <2>2. CASE flow[g] \in Underway
    <3>1. /\ t \in Underway /\ t.stage = flow[g].stage
          /\ t.browser = flow[g].browser /\ t.disturbed
      BY <2>1, <2>2, UnderwayChanges
    <3>2. t \in FlowState /\ flow[g].stage # "returned"
      BY <2>2, <3>1 DEF FlowState, Underway, Stage
    <3> QED
      BY <1>2, <3>1, <3>2
  <2>3. CASE flow[g] \in Returned
    <3>1. /\ Keeps(flow[g], t) /\ t.disturbed /\ t.used = flow[g].used
          /\ t.sent = flow[g].sent /\ t.reloaded = flow[g].reloaded
      BY <2>1, <2>3, ReturnedChanges
    <3>2. /\ t \in FlowState /\ t.stage = flow[g].stage
          /\ t.browser = flow[g].browser
      BY <2>3, <3>1 DEF FlowState, Returned, Keeps
    <3> QED
      BY <1>2, <3>1, <3>2
  <2> QED
    BY <1>2, <2>2, <2>3, FlowFields DEF SsoInv
<1> QED
  BY <1>1, <1>2

LEMMA ArriveStep ==
    ASSUME SsoInv, NEW f \in Flow, StartArrives(f)
    PROVE  SsoInv'
<1> DEFINE s == Redirected(flow[f])
           b == flow[f].browser
<1>1. /\ flow[f].stage = "redirected"
      /\ flow' = [Disturb(f) EXCEPT ![f] = s]
      /\ jar' = [jar EXCEPT ![b].flow = f] /\ visit' = visit
  BY DEF StartArrives
<1>2. flow[f] \in Underway /\ b \in Browser
  BY <1>1, FlowFields DEF SsoInv, Stage, Underway
<1>3. /\ s \in Underway /\ s.stage = "atProvider" /\ s.browser = b
  BY <1>2, UnderwayChanges
<1>4. s \in FlowState
  BY <1>3 DEF FlowState, Underway
<1> HIDE DEF s
<1>5. flow'[f] = s /\ \A g \in Flow \ {f} : flow'[g] = Disturb(f)[g]
  BY <1>1 DEF Disturb
<1>6. /\ jar'[b].flow = f /\ jar'[b].user = jar[b].user
      /\ \A c \in Browser \ {b} : jar'[c] = jar[c]
      /\ jar' \in [Browser -> Jar]
  <2>1. jar \in [Browser -> Jar] /\ jar[b] \in Jar
    BY <1>2 DEF SsoInv, TypeOK
  <2>2. \A j \in Jar : /\ [j EXCEPT !.flow = f] \in Jar
                       /\ [j EXCEPT !.flow = f].flow = f
                       /\ [j EXCEPT !.flow = f].user = j.user
    BY DEF Jar
  <2>3. jar' = [jar EXCEPT ![b] = [jar[b] EXCEPT !.flow = f]]
    BY <1>1
  <2> QED
    BY <1>2, <2>1, <2>2, <2>3
<1>7. TypeOK'
  <2>1. flow' \in [Flow -> FlowState]
    BY <1>1, <1>4, <1>5, Disturbs DEF Disturb
  <2> QED
    BY <1>1, <1>6, <2>1 DEF SsoInv, TypeOK
<1>8. FlowsKeep /\ \A g \in Flow : flow[g].stage = "returned" => flow'[g].used = flow[g].used
  BY <1>1, <1>5, Disturbs DEF FlowsKeep
<1>9. ASSUME NEW g \in Flow PROVE CookieKept(g)' /\ SentFirst(g)'
  <2>1. CASE g = f
    BY <1>3, <1>5, <1>6, <2>1 DEF CookieKept, SentFirst
  <2>2. CASE g # f /\ flow[g] = Unused
    BY <1>5, <2>2, Disturbs DEF CookieKept, SentFirst, Unused
  <2>3. CASE g # f /\ flow[g] # Unused
    <3>1. CookieKept(g) /\ SentFirst(g)
      BY DEF SsoInv
    <3>2. flow[g].browser \in Browser
      BY <2>3, FlowFields DEF SsoInv, Underway, Returned
    <3>3. SentFirst(g)'
      BY <1>5, <2>3, <3>1, Disturbs DEF SentFirst
    <3>4. CASE flow[g].browser = b
      BY <1>5, <2>3, <3>3, <3>4, Disturbs DEF CookieKept
    <3>5. CASE flow[g].browser # b
      <4>1. jar'[flow[g].browser] = jar[flow[g].browser]
        BY <1>6, <3>2, <3>5
      <4>2. flow'[g].disturbed \/ flow'[g] = flow[g]
        BY <1>5, <2>3, Disturbs
      <4> QED
        BY <3>1, <3>3, <4>1, <4>2 DEF CookieKept
    <3> QED
      BY <3>4, <3>5
  <2> QED
    BY <2>1, <2>2, <2>3
<1>10. ASSUME NEW v \in Visit PROVE VisitSound(visit[v])'
  <2>1. visit[v].pc # "idle" =>
          visit[v].flow \in Flow /\ flow[visit[v].flow].stage = "returned"
    BY DEF SsoInv, VisitSound
  <2> QED
    BY <1>1, <1>8, <2>1, VisitsCarry
<1>11. VisitsAlone'
  BY <1>1, <1>8, AloneCarries
<1>12. ASSUME NEW c \in Browser PROVE JarSound(c)'
  BY <1>6, <1>8, JarsCarry
<1> QED
  BY <1>7, <1>9, <1>10, <1>11, <1>12 DEF SsoInv

\* A step of a callback that changes no flow and no cookie.
LEMMA VisitStep ==
    ASSUME SsoInv, NEW v \in Visit, NEW q \in VisitState, UNCHANGED <<flow, jar>>,
           visit' = [visit EXCEPT ![v] = q],
           VisitSound(q),
           q.pc # "idle" => visit[v].pc # "idle" /\ q.flow = visit[v].flow
    PROVE  SsoInv'
<1>1. TypeOK'
  BY DEF SsoInv, TypeOK
<1>2. visit'[v] = q /\ \A w \in Visit \ {v} : visit'[w] = visit[w]
  BY DEF SsoInv, TypeOK
<1>3. FlowsKeep
  BY FlowFields, ReturnedChanges DEF FlowsKeep, SsoInv
<1>4. \A w \in Visit : VisitSound(visit'[w])
  BY <1>2 DEF SsoInv
<1>5. \A w \in Visit : VisitSound(visit[w])'
  BY <1>4 DEF VisitSound, Reason
<1>6. VisitsAlone'
  BY <1>2, <1>3, AloneCarries
<1>7. \A f \in Flow : CookieKept(f)' /\ SentFirst(f)'
  BY DEF SsoInv, CookieKept, SentFirst
<1>8. \A b \in Browser : JarSound(b)'
  BY DEF SsoInv, JarSound
<1> QED
  BY <1>1, <1>5, <1>6, <1>7, <1>8 DEF SsoInv

\* A refusal for a reason, and a step on to the next check.
LEMMA RefusalStep ==
    ASSUME SsoInv, NEW v \in Visit, visit[v].pc \in Handling, NEW fault \in BOOLEAN,
           Refused(v, fault), UNCHANGED <<flow, jar>>,
           \/ fault
           \/ Reason([pc |-> "refused", flow |-> visit[v].flow, fault |-> fault])
    PROVE  SsoInv'
<1> DEFINE q == [pc |-> "refused", flow |-> visit[v].flow, fault |-> fault]
<1>1. /\ visit[v].flow \in Flow /\ visit[v].pc # "idle"
      /\ flow[visit[v].flow].stage = "returned" /\ flow[visit[v].flow].sent
  BY DEF SsoInv, VisitSound, Handling
<1>2. q \in VisitState /\ q.pc = "refused" /\ q.flow = visit[v].flow
  BY <1>1 DEF VisitState
<1>3. Reason(q)
  BY DEF Reason
<1>4. VisitSound(q)
  BY <1>1, <1>2, <1>3 DEF VisitSound
<1>5. visit' = [visit EXCEPT ![v] = q]
  BY DEF Refused
<1> HIDE DEF q
<1> QED
  BY <1>1, <1>2, <1>4, <1>5, VisitStep

LEMMA ContinueStep ==
    ASSUME SsoInv, NEW v \in Visit, visit[v].pc \in Handling,
           NEW pc \in {"exchange", "link"}, Continue(v, pc), UNCHANGED <<flow, jar>>,
           visit[v].cookie = visit[v].flow,
           pc = "exchange" => visit[v].pc = "check",
           pc = "link" => flow[visit[v].flow].identity \in Verified
    PROVE  SsoInv'
<1> DEFINE q == [pc |-> pc, flow |-> visit[v].flow, cookie |-> visit[v].cookie]
<1>1. VisitSound(visit[v]) /\ visit[v].pc # "idle"
  BY DEF SsoInv, Handling
<1>2. /\ q \in VisitState /\ q.pc = pc /\ q.flow = visit[v].flow
      /\ q.cookie = visit[v].cookie
  BY VisitFields DEF SsoInv, VisitState, Handling
<1>3. VisitSound(q)
  BY <1>1, <1>2 DEF VisitSound
<1>4. visit' = [visit EXCEPT ![v] = q]
  BY DEF Continue
<1> HIDE DEF q
<1> QED
  BY <1>1, <1>2, <1>3, <1>4, VisitStep

LEMMA CheckStep ==
    ASSUME SsoInv, NEW v \in Visit, CheckState(v)
    PROVE  SsoInv'
<1> DEFINE q == visit[v]
<1>1. q.pc = "check" /\ q.pc \in Handling /\ UNCHANGED <<flow, jar>>
  BY DEF CheckState, Handling
<1>2. q.flow \in Flow /\ VisitSound(q)
  BY <1>1 DEF SsoInv, VisitSound
<1>3. CASE q.cookie \in Flow /\ ~flow[q.cookie].expired /\ q.cookie = q.flow
  <2>1. Continue(v, "exchange")
    BY <1>3 DEF CheckState
  <2> QED
    BY <1>1, <1>3, <2>1, ContinueStep
<1>4. CASE ~(q.cookie \in Flow /\ ~flow[q.cookie].expired /\ q.cookie = q.flow)
  <2>1. Refused(v, FALSE)
    BY <1>4 DEF CheckState
  <2>2. \/ flow[q.flow].expired \/ flow[q.flow].disturbed \/ flow[q.flow].reloaded
    BY <1>1, <1>2, <1>4 DEF VisitSound
  <2> DEFINE refusal == [pc |-> "refused", flow |-> q.flow, fault |-> FALSE]
  <2>3. Reason(refusal)
    BY <2>2 DEF Reason
  <2> QED
    BY <1>1, <2>1, <2>3, RefusalStep
<1> QED
  BY <1>3, <1>4

LEMMA VerifyStep ==
    ASSUME SsoInv, NEW v \in Visit, VerifyIdToken(v)
    PROVE  SsoInv'
<1> DEFINE q == visit[v]
<1>1. q.pc = "verify" /\ q.pc \in Handling /\ UNCHANGED <<flow, jar>>
  BY DEF VerifyIdToken, Handling
<1>2. q.cookie = q.flow
  BY <1>1 DEF SsoInv, VisitSound
<1>3. CASE flow[q.flow].identity \in Verified
  <2>1. Continue(v, "link")
    BY <1>2, <1>3 DEF VerifyIdToken
  <2> QED
    BY <1>1, <1>2, <1>3, <2>1, ContinueStep
<1>4. CASE flow[q.flow].identity \notin Verified
  <2>1. Refused(v, FALSE)
    BY <1>4 DEF VerifyIdToken
  <2> DEFINE refusal == [pc |-> "refused", flow |-> q.flow, fault |-> FALSE]
  <2>2. Reason(refusal)
    BY <1>4 DEF Reason, Welcome
  <2> QED
    BY <1>1, <2>1, <2>2, RefusalStep
<1> QED
  BY <1>3, <1>4

LEMMA LinkStep ==
    ASSUME SsoInv, NEW v \in Visit, LinkAccount(v)
    PROVE  SsoInv'
<1> DEFINE i == flow[visit[v].flow].identity
           f == visit[v].flow
<1>1. visit[v].pc = "link" /\ visit[v].pc \in Handling /\ UNCHANGED <<flow, jar>>
  BY DEF LinkAccount, Handling
<1>2. /\ f \in Flow /\ flow[f].stage = "returned" /\ flow[f].sent /\ i \in Verified
  BY <1>1 DEF SsoInv, VisitSound
<1>3. CASE Linked(i)
  <2> DEFINE q == [pc |-> "answer", flow |-> f, user |-> AccountOf[i]]
  <2>1. AccountOf[i] \in User
    BY <1>2, <1>3, SsoAssumption DEF Linked
  <2>2. q \in VisitState /\ q.pc = "answer" /\ q.flow = f /\ q.user = AccountOf[i]
    BY <1>2, <2>1 DEF VisitState
  <2>3. Welcome(i)
    BY <1>2, <1>3 DEF Linked, Welcome
  <2>4. visit' = [visit EXCEPT ![v] = q]
    BY <1>3 DEF LinkAccount
  <2> HIDE DEF q
  <2>5. VisitSound(q)
    BY <1>2, <2>2, <2>3 DEF VisitSound
  <2> QED
    BY <1>1, <2>2, <2>4, <2>5, VisitStep
<1>4. CASE ~Linked(i)
  <2>1. Refused(v, FALSE)
    BY <1>4 DEF LinkAccount
  <2> DEFINE refusal == [pc |-> "refused", flow |-> f, fault |-> FALSE]
  <2>2. Reason(refusal)
    BY <1>4 DEF Reason, Welcome, Linked
  <2> QED
    BY <1>1, <2>1, <2>2, RefusalStep
<1> QED
  BY <1>3, <1>4

LEMMA FaultStep ==
    ASSUME SsoInv, NEW v \in Visit, Fault(v)
    PROVE  SsoInv'
BY RefusalStep DEF Fault

LEMMA EndStep ==
    ASSUME SsoInv, NEW v \in Visit, VisitEnds(v)
    PROVE  SsoInv'
<1>1. Resting \in VisitState /\ Resting.pc = "idle"
  BY DEF VisitState, Resting
<1>2. VisitSound(Resting)
  BY <1>1 DEF VisitSound
<1> QED
  BY <1>1, <1>2, VisitStep DEF VisitEnds

\* A step of a callback that changes its flow too.
LEMMA ReturnedStep ==
    ASSUME SsoInv, NEW f \in Flow, flow[f].stage = "returned",
           NEW t \in Returned, Keeps(flow[f], t), t.sent,
           NEW v \in Visit, NEW q \in VisitState, q.pc # "idle", q.flow = f,
           UNCHANGED jar,
           flow' = [flow EXCEPT ![f] = t], visit' = [visit EXCEPT ![v] = q],
           \A w \in Visit \ {v} :
             visit[w].pc # "idle" /\ visit[w].flow = f => t.reloaded,
           VisitSound(q)'
    PROVE  SsoInv'
<1>1. /\ flow'[f] = t /\ \A g \in Flow \ {f} : flow'[g] = flow[g]
      /\ visit'[v] = q /\ \A w \in Visit \ {v} : visit'[w] = visit[w]
  BY DEF SsoInv, TypeOK
<1>2. TypeOK'
  <2>1. t \in FlowState
    BY DEF FlowState, Returned
  <2> QED
    BY <2>1 DEF SsoInv, TypeOK
<1>3. FlowsKeep
  BY <1>1, FlowFields, ReturnedChanges DEF FlowsKeep, SsoInv
<1>4. \A g \in Flow : CookieKept(g)' /\ SentFirst(g)'
  BY <1>1 DEF SsoInv, CookieKept, SentFirst, Returned
<1>5. ASSUME NEW w \in Visit PROVE VisitSound(visit[w])'
  <2>1. CASE w = v
    BY <1>1, <2>1
  <2>2. CASE w # v
    <3>1. visit[w].pc # "idle" => visit[w].flow \in Flow
      BY DEF SsoInv, VisitSound
    <3>2. visit[w].pc \in {"check", "exchange"} /\ flow'[visit[w].flow].used =>
            flow[visit[w].flow].used \/ flow'[visit[w].flow].reloaded
      BY <1>1, <2>2, <3>1
    <3> QED
      BY <1>1, <1>3, <2>2, <3>2, VisitsCarry
  <2> QED
    BY <2>1, <2>2
<1>6. VisitsAlone'
  <2> SUFFICES ASSUME NEW w \in Visit, NEW x \in Visit,
                      visit'[w].pc # "idle", visit'[x].pc # "idle",
                      visit'[w].flow = visit'[x].flow, w # x
               PROVE  flow'[visit'[w].flow].reloaded
    BY DEF VisitsAlone
  <2>1. CASE w = v \/ x = v
    BY <1>1, <2>1
  <2>2. CASE w # v /\ x # v
    <3>1. flow[visit[w].flow].reloaded /\ visit'[w].flow = visit[w].flow
      BY <1>1, <2>2 DEF SsoInv, VisitsAlone
    <3>2. visit[w].flow \in Flow /\ flow[visit[w].flow].stage = "returned"
      BY <1>1, <2>2 DEF SsoInv, VisitSound
    <3> QED
      BY <1>3, <3>1, <3>2 DEF FlowsKeep, Keeps
  <2> QED
    BY <2>1, <2>2
<1>7. \A b \in Browser : JarSound(b)'
  BY <1>3, JarsCarry
<1> QED
  BY <1>2, <1>4, <1>5, <1>6, <1>7 DEF SsoInv

LEMMA ExchangeStep ==
    ASSUME SsoInv, NEW v \in Visit, ExchangeCode(v)
    PROVE  SsoInv'
<1>1. visit[v].pc = "exchange" /\ visit[v].pc \in Handling /\ UNCHANGED jar
  BY DEF ExchangeCode, Handling
<1>2. PICK f : f = visit[v].flow
  OBVIOUS
<1>3. /\ f \in Flow /\ flow[f].stage = "returned" /\ flow[f].sent
      /\ visit[v].cookie = f
      /\ (flow[f].used => flow[f].reloaded)
  BY <1>1, <1>2 DEF SsoInv, VisitSound
<1>4. CASE Refused(v, FALSE) /\ UNCHANGED flow /\ (flow[f].used \/ visit[v].cookie # f)
  <2> DEFINE refusal == [pc |-> "refused", flow |-> visit[v].flow, fault |-> FALSE]
  <2>1. flow[visit[v].flow].reloaded
    <3>1. flow[f].used
      BY <1>3, <1>4
    <3> QED
      BY <1>2, <1>3, <3>1
  <2>2. Reason(refusal)
    BY <2>1 DEF Reason
  <2> QED
    BY <1>1, <1>4, <2>2, RefusalStep
<1>5. CASE /\ flow' = [flow EXCEPT ![f] = Used(flow[f])]
           /\ Continue(v, "verify") \/ Refused(v, TRUE)
  <2>1. flow[f] \in Returned
    BY <1>3, FlowFields DEF SsoInv
  <2>2. PICK t : t = Used(flow[f])
    OBVIOUS
  <2>3. /\ t \in Returned /\ Keeps(flow[f], t) /\ t.sent
        /\ t.reloaded = flow[f].reloaded
    BY <1>3, <2>1, <2>2, ReturnedChanges DEF Keeps
  <2>4. PICK q : /\ q \in {[pc |-> "verify", flow |-> f, cookie |-> visit[v].cookie],
                           [pc |-> "refused", flow |-> f, fault |-> TRUE]}
                 /\ visit' = [visit EXCEPT ![v] = q]
    BY <1>2, <1>5 DEF Continue, Refused
  <2>5. /\ q \in VisitState /\ q.pc # "idle" /\ q.flow = f
        /\ \/ q.pc = "verify" /\ q.cookie = f
           \/ q.pc = "refused" /\ q.fault
    <3>1. CASE q = [pc |-> "verify", flow |-> f, cookie |-> visit[v].cookie]
      BY <1>3, <3>1 DEF VisitState, Handling
    <3>2. CASE q = [pc |-> "refused", flow |-> f, fault |-> TRUE]
      BY <1>3, <3>2 DEF VisitState
    <3> QED
      BY <2>4, <3>1, <3>2
  <2>6. flow'[f] = t
    BY <1>3, <1>5, <2>2 DEF SsoInv, TypeOK
  <2>7. VisitSound(q)'
    BY <1>3, <2>3, <2>5, <2>6 DEF VisitSound, Reason, Returned
  <2>8. \A w \in Visit \ {v} :
          visit[w].pc # "idle" /\ visit[w].flow = f => t.reloaded
    BY <1>1, <1>2, <2>3 DEF SsoInv, VisitsAlone
  <2> QED
    BY <1>1, <1>3, <1>5, <2>2, <2>3, <2>4, <2>5, <2>7, <2>8, ReturnedStep
<1> QED
  BY <1>2, <1>3, <1>4, <1>5 DEF ExchangeCode

LEMMA SendStep ==
    ASSUME SsoInv, NEW v \in Visit, SendCallback(v)
    PROVE  SsoInv'
<1>1. PICK f \in Flow :
        /\ flow[f].stage = "returned"
        /\ visit' = [visit EXCEPT ![v] =
              [pc |-> "check", flow |-> f, cookie |-> CookieSent(flow[f].browser)]]
        /\ flow' = [flow EXCEPT ![f] = Sent(flow[f])]
  BY DEF SendCallback
<1>2. visit[v].pc = "idle" /\ UNCHANGED jar
  BY DEF SendCallback
<1>3. /\ flow[f] \in Returned /\ flow[f].browser \in Browser
      /\ flow[f].used \/ flow[f].reloaded => flow[f].sent
  BY <1>1, FlowFields DEF SsoInv, Returned, SentFirst
<1>4. PICK t : t = Sent(flow[f])
  OBVIOUS
<1>5. /\ t \in Returned /\ Keeps(flow[f], t) /\ t.sent
      /\ t.reloaded = flow[f].sent /\ t.used = flow[f].used
      /\ t.disturbed = flow[f].disturbed
  BY <1>3, <1>4, SentChanges DEF Keeps
<1>6. PICK q : q = [pc |-> "check", flow |-> f,
                    cookie |-> CookieSent(flow[f].browser)]
  OBVIOUS
<1>7. /\ q \in VisitState /\ q.pc = "check" /\ q.flow = f
      /\ q.cookie = jar[flow[f].browser].flow
  BY <1>3, <1>6 DEF VisitState, Handling, CookieSent, SsoInv, TypeOK, Jar
<1>8. q.cookie # f => flow[f].disturbed \/ flow[f].sent
  BY <1>1, <1>7 DEF SsoInv, CookieKept
<1>9. flow'[f] = t
  BY <1>1, <1>4 DEF SsoInv, TypeOK
<1>10. VisitSound(q)'
  BY <1>3, <1>5, <1>7, <1>8, <1>9 DEF VisitSound, Returned
<1>11. \A w \in Visit \ {v} :
         visit[w].pc # "idle" /\ visit[w].flow = f => t.reloaded
  BY <1>5 DEF SsoInv, VisitSound
<1> QED
  BY <1>1, <1>2, <1>4, <1>5, <1>6, <1>7, <1>10, <1>11, ReturnedStep

LEMMA AnswerStep ==
    ASSUME SsoInv, NEW v \in Visit, AnswerArrives(v)
    PROVE  SsoInv'
<1> DEFINE q == visit[v]
           f == q.flow
           b == flow[f].browser
<1>1. /\ q.pc = "answer" /\ flow' = Disturb(f)
      /\ jar' = [jar EXCEPT ![b] = [flow |-> NoFlow, user |-> q.user]]
      /\ visit' = [visit EXCEPT ![v] = Resting]
  BY DEF AnswerArrives
<1>2. /\ f \in Flow /\ flow[f].stage = "returned" /\ flow[f].sent
      /\ Welcome(flow[f].identity) /\ AccountOf[flow[f].identity] = q.user
  BY <1>1 DEF SsoInv, VisitSound
<1>3. b \in Browser /\ q.user \in User
  BY <1>1, <1>2, FlowFields, VisitFields DEF SsoInv, Returned
<1>4. \A g \in Flow : flow'[g] = Disturb(f)[g]
  BY <1>1
<1>5. /\ jar'[b].flow = NoFlow /\ jar'[b].user = q.user
      /\ \A c \in Browser \ {b} : jar'[c] = jar[c]
  BY <1>1, <1>3 DEF SsoInv, TypeOK
<1>6. /\ visit'[v].pc = "idle"
      /\ \A w \in Visit \ {v} : visit'[w] = visit[w]
  BY <1>1 DEF SsoInv, TypeOK, Resting
<1>7. TypeOK'
  <2>1. flow' \in [Flow -> FlowState]
    BY <1>1, <1>2, <1>4, Disturbs DEF Disturb
  <2>2. jar' \in [Browser -> Jar]
    BY <1>1, <1>3 DEF SsoInv, TypeOK, Jar
  <2>3. visit' \in [Visit -> VisitState]
    BY <1>1 DEF SsoInv, TypeOK, VisitState
  <2> QED
    BY <2>1, <2>2, <2>3 DEF TypeOK
<1>8. FlowsKeep /\ \A g \in Flow : flow[g].stage = "returned" => flow'[g].used = flow[g].used
  BY <1>2, <1>4, Disturbs DEF FlowsKeep
<1>9. ASSUME NEW g \in Flow PROVE CookieKept(g)' /\ SentFirst(g)'
  <2>1. CookieKept(g) /\ SentFirst(g)
    BY DEF SsoInv
  <2>2. CASE flow[g] = Unused
    BY <1>2, <1>4, <2>2, Disturbs DEF CookieKept, SentFirst, Unused
  <2>3. CASE g = f
    BY <1>2, <1>4, <2>1, <2>3, Disturbs DEF CookieKept, SentFirst
  <2>4. CASE g # f /\ flow[g] # Unused
    <3>1. flow[g].browser \in Browser
      BY <2>4, FlowFields DEF SsoInv, Underway, Returned
    <3>2. SentFirst(g)'
      BY <1>2, <1>4, <2>1, <2>4, Disturbs DEF SentFirst
    <3>3. CASE flow[g].browser = b
      BY <1>2, <1>4, <2>4, <3>2, <3>3, Disturbs DEF CookieKept
    <3>4. CASE flow[g].browser # b
      <4>1. jar'[flow[g].browser] = jar[flow[g].browser]
        BY <1>5, <3>1, <3>4
      <4>2. flow'[g].disturbed \/ flow'[g] = flow[g]
        BY <1>2, <1>4, <2>4, Disturbs
      <4> QED
        BY <2>1, <3>2, <4>1, <4>2 DEF CookieKept
    <3> QED
      BY <3>3, <3>4
  <2> QED
    BY <2>2, <2>3, <2>4
<1>10. ASSUME NEW w \in Visit PROVE VisitSound(visit[w])'
  <2>1. CASE w = v
    BY <1>6, <2>1 DEF VisitSound
  <2>2. CASE w # v
    <3>1. visit[w].pc # "idle" =>
            visit[w].flow \in Flow /\ flow[visit[w].flow].stage = "returned"
      BY DEF SsoInv, VisitSound
    <3> QED
      BY <1>6, <1>8, <2>2, <3>1, VisitsCarry
  <2> QED
    BY <2>1, <2>2
<1>11. VisitsAlone'
  BY <1>6, <1>8, AloneCarries
<1>12. ASSUME NEW c \in Browser PROVE JarSound(c)'
  <2>1. CASE c = b
    <3>1. /\ flow'[f].stage = "returned" /\ flow'[f].browser = b
          /\ flow'[f].identity = flow[f].identity
      BY <1>2, <1>8 DEF FlowsKeep, Keeps, Returned
    <3> QED
      BY <1>2, <1>5, <2>1, <3>1 DEF JarSound
  <2>2. CASE c # b
    BY <1>5, <1>8, <2>2, JarsCarry
  <2> QED
    BY <2>1, <2>2
<1> QED
  BY <1>7, <1>9, <1>10, <1>11, <1>12 DEF SsoInv

----------------------------------------------------------------------------
LEMMA SsoInit == Init => SsoInv
<1> SUFFICES ASSUME Init PROVE SsoInv
  OBVIOUS
<1>1. TypeOK
  BY DEF Init, TypeOK, FlowState, Jar, VisitState
<1>2. \A v \in Visit : visit[v].pc = "idle"
  BY DEF Init, Resting
<1>3. \A f \in Flow : flow[f].stage = "unused"
  BY DEF Init, Unused
<1>4. \A b \in Browser : jar[b].user = NoUser
  BY DEF Init
<1> QED
  BY <1>1, <1>2, <1>3, <1>4
     DEF SsoInv, CookieKept, SentFirst, VisitSound, VisitsAlone, JarSound

LEMMA SsoStep == SsoInv /\ [Next]_vars => SsoInv'
<1> SUFFICES ASSUME SsoInv, [Next]_vars PROVE SsoInv'
  OBVIOUS
<1>1. CASE UNCHANGED vars
  <2>1. UNCHANGED flow /\ UNCHANGED jar /\ UNCHANGED visit
    BY <1>1 DEF vars
  <2> QED
    BY <2>1 DEF SsoInv, TypeOK, CookieKept, SentFirst, VisitSound, Reason,
                VisitsAlone, JarSound
<1>2. ASSUME NEW b \in Browser, StartSso(b) PROVE SsoInv'
  BY <1>2, StartStep
<1>3. ASSUME NEW f \in Flow, StartArrives(f) \/ Authenticate(f) \/ Expire(f)
      PROVE  SsoInv'
  BY <1>3, ArriveStep, AuthenticateStep, ExpireStep
<1>4. ASSUME NEW v \in Visit,
             SendCallback(v) \/ Handle(v) \/ Fault(v) \/ AnswerArrives(v) \/ VisitEnds(v)
      PROVE  SsoInv'
  BY <1>4, SendStep, CheckStep, ExchangeStep, VerifyStep, LinkStep, FaultStep,
     AnswerStep, EndStep DEF Handle
<1> QED
  BY <1>1, <1>2, <1>3, <1>4 DEF Next

LEMMA SsoInvariant == Spec => []SsoInv
BY SsoInit, SsoStep, PTL DEF Spec

\* Every reachable state of the flows, the cookies and the callbacks has its type.
THEOREM TypeCorrect == Spec => []TypeOK
BY SsoInvariant, PTL DEF SsoInv

\* Whatever cookies were replaced and callbacks reloaded, a browser is signed in
\* only as the user whose verified identity the provider has authenticated in a
\* flow of that browser, in the configured organization.
THEOREM AuthenticatedOnly == Spec => []SignedInWhoAuthenticated
<1>1. SsoInv => SignedInWhoAuthenticated
  BY DEF SsoInv, JarSound, Welcome, SignedInWhoAuthenticated
<1> QED
  BY <1>1, SsoInvariant, PTL

\* However many tabs and browsers sign in together, nothing but what happened to
\* a flow itself, or to the cookie in its own browser, has it refused.
THEOREM RefusalsHaveReasons == Spec => []RefusedForAReason
<1>1. SsoInv => RefusedForAReason
  <2> SUFFICES ASSUME SsoInv, NEW v \in Visit, visit[v].pc = "refused"
               PROVE  LET f == flow[visit[v].flow] IN
                      \/ visit[v].fault
                      \/ f.expired \/ f.reloaded \/ f.disturbed
                      \/ f.identity \notin Verified
                      \/ AccountOf[f.identity] = NoUser
                      \/ OrgOf[AccountOf[f.identity]] # SsoOrg
    BY DEF RefusedForAReason
  <2>1. Reason(visit[v])
    BY DEF SsoInv, VisitSound
  <2> QED
    BY <2>1 DEF Reason, Welcome
<1> QED
  BY <1>1, SsoInvariant, PTL
=============================================================================
