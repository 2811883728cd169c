------------------------- MODULE BrowserSessionsProofs -------------------------
(***************************************************************************)
(* Proofs about BrowserSessions, for any number of tabs and calls.  They   *)
(* follow the tokens: one that the API has just issued is known to a       *)
(* single answer, so nobody can have used it before it reaches the jar,    *)
(* and what is done later to the session in the jar has an answer on its   *)
(* way that will replace it.                                               *)
(***************************************************************************)
EXTENDS BrowserSessions, TLAPS

\* The session of an answer on its way is accepted, and nobody else knows it.
NewToRefresh(t) ==
    LET s == refresh[t].session IN
    /\ s \in Session /\ s # jar /\ row[s] = "active"
    /\ \A u \in Tab : visit[u].session # s /\ (u # t => refresh[u].session # s)

NewToVisit(t) ==
    LET s == visit[t].session IN
    /\ s \in Session /\ s # jar /\ row[s] = "active"
    /\ \A u \in Tab : refresh[u].session # s /\ (u # t => visit[u].session # s)

AnswersNew ==
    /\ \A t \in Tab : refresh[t].phase = "granted" => NewToRefresh(t)
    /\ \A t \in Tab : visit[t].phase = "loggedIn" => NewToVisit(t)

\* The session of the jar exists; if a tab has rotated it, or signed it out, the
\* answer that replaces the cookie is on its way to that tab, or to some tab.
JarSound ==
    jar # None =>
        /\ row[jar] # None
        /\ \A t \in Tab : row[jar] = t => refresh[t].phase = "granted"
        /\ row[jar] = "out" => \E t \in Tab : visit[t].phase = "loggedOut"

\* A tab does not send a session that it has rotated.
NotSpoiled ==
    \A t \in Tab :
        refresh[t].phase \in {"sent", "refused"} /\ refresh[t].session # None
            => row[refresh[t].session] # t

TokensInv == AnswersNew /\ JarSound /\ NotSpoiled

----------------------------------------------------------------------------
(* Types *)

Fates == {"active", "out", "lost", None} \cup Tab

\* The table keeps what is known of it.
LEMMA RecycledFacts ==
  ASSUME NEW r \in [Session -> Fates]
  PROVE  /\ Recycled(r) \in [Session -> Fates]
         /\ \A s \in Session :
               /\ Recycled(r)[s] \in {r[s], None}
               /\ s \in Known(jar', refresh', visit') => Recycled(r)[s] = r[s]
BY DEF Recycled, Fates

LEMMA RefreshTypes ==
  ASSUME TypeOK, NEW t \in Tab, Refresh(t)
  PROVE  refresh' \in [Tab -> [phase : {"idle", "sent", "granted", "refused"},
                               session : Session \cup {None}]]
BY DEF TypeOK, Refresh, Sent

LEMMA SettleTypes ==
  ASSUME TypeOK, NEW t \in Tab, NEW ok \in BOOLEAN, Settle(t, ok)
  PROVE  /\ view' \in [Tab -> {"closed", "loading", "in", "out"}]
         /\ call' \in [Call -> {"idle", "sent", "waiting", "resent", "failed"}]
         /\ refresh' \in [Tab -> [phase : {"idle", "sent", "granted", "refused"},
                                  session : Session \cup {None}]]
BY DEF TypeOK, Settle, Idle

LEMMA PageTypes ==
  ASSUME TypeOK,
         \/ \E t \in Tab : Mount(t) \/ SignOut(t) \/ SignIn(t)
         \/ \E c \in Call : StartCall(c) \/ Proceed(c)
  PROVE  TypeOK'
<1> TabOf \in [Call -> Tab]
  BY BrowserAssumption
<1>1. ASSUME NEW t \in Tab, Mount(t)
      PROVE  TypeOK'
  <2>1. refresh' \in [Tab -> [phase : {"idle", "sent", "granted", "refused"},
                              session : Session \cup {None}]]
    BY <1>1, RefreshTypes DEF Mount, TypeOK
  <2> QED
    BY <1>1, <2>1 DEF Mount, TypeOK
<1>2. ASSUME NEW t \in Tab, SignOut(t) \/ SignIn(t)
      PROVE  TypeOK'
  BY <1>2 DEF SignOut, SignIn, TypeOK, Sent, Idle, page
<1>3. ASSUME NEW c \in Call, StartCall(c) \/ CallAnswered(c)
      PROVE  TypeOK'
  BY <1>3 DEF StartCall, CallAnswered, TypeOK
<1>4. ASSUME NEW c \in Call, Unauthorized(c)
      PROVE  TypeOK'
  <2>1. refresh' \in [Tab -> [phase : {"idle", "sent", "granted", "refused"},
                              session : Session \cup {None}]]
    BY <1>4, RefreshTypes DEF Unauthorized
  <2> QED
    BY <1>4, <2>1 DEF Unauthorized, TypeOK
<1>5. ASSUME NEW c \in Call, QueryFailed(c)
      PROVE  TypeOK'
  BY <1>5 DEF QueryFailed, TypeOK, Sent
<1> QED
  BY <1>1, <1>2, <1>3, <1>4, <1>5 DEF Proceed

LEMMA ApiTypes ==
  ASSUME TypeOK, NEW t \in Tab, HandleRefresh(t) \/ HandleLogout(t) \/ HandleLogin(t)
  PROVE  TypeOK'
<1>1. CASE HandleRefresh(t)
  <2>1. ASSUME NEW new \in Unknown,
               refresh' = [refresh EXCEPT ![t] = Answered("granted", new)],
               row' = Recycled([row EXCEPT ![refresh[t].session] = t, ![new] = "active"])
        PROVE  TypeOK'
    <3>1. [row EXCEPT ![refresh[t].session] = t, ![new] = "active"] \in [Session -> Fates]
      BY DEF TypeOK, Fates
    <3> QED
      BY <1>1, <2>1, <3>1, RecycledFacts
      DEF HandleRefresh, TypeOK, Fates, Answered, Unknown, page
  <2>2. ASSUME refresh' = [refresh EXCEPT ![t] = Answered("refused", refresh[t].session)],
               row' = row
        PROVE  TypeOK'
    BY <1>1, <2>2 DEF HandleRefresh, TypeOK, Answered, page
  <2> QED
    BY <1>1, <2>1, <2>2 DEF HandleRefresh
<1>2. CASE HandleLogout(t)
  <2> DEFINE r == IF visit[t].session # None /\ row[visit[t].session] = "active"
                  THEN [row EXCEPT ![visit[t].session] = "out"] ELSE row
  <2>1. r \in [Session -> Fates]
    BY DEF TypeOK, Fates
  <2>2. row' = Recycled(r)
    BY <1>2 DEF HandleLogout
  <2> HIDE DEF r
  <2> QED
    BY <1>2, <2>1, <2>2, RecycledFacts DEF HandleLogout, TypeOK, Fates, Answered, page
<1>3. CASE HandleLogin(t)
  <2>1. PICK new \in Unknown :
           /\ visit' = [visit EXCEPT ![t] = Answered("loggedIn", new)]
           /\ row' = Recycled([row EXCEPT ![new] = "active"])
    BY <1>3 DEF HandleLogin
  <2>2. [row EXCEPT ![new] = "active"] \in [Session -> Fates]
    BY DEF TypeOK, Fates
  <2> QED
    BY <1>3, <2>1, <2>2, RecycledFacts
    DEF HandleLogin, TypeOK, Fates, Answered, Unknown, page
<1> QED
  BY <1>1, <1>2, <1>3

LEMMA AnswerTypes ==
  ASSUME TypeOK, NEW t \in Tab,
         \/ RefreshArrives(t) \/ LoginArrives(t) \/ LogoutArrives(t)
         \/ LoseRefresh(t) \/ LoseLogout(t) \/ LoseLogin(t)
  PROVE  TypeOK'
<1>1. row \in [Session -> Fates]
  BY DEF TypeOK, Fates
<1>2. CASE RefreshArrives(t)
  <2>1. row' \in [Session -> Fates]
    BY <1>1, <1>2, RecycledFacts DEF RefreshArrives
  <2> QED
    BY <1>2, <2>1, SettleTypes DEF RefreshArrives, TypeOK, Fates
<1>3. CASE LoginArrives(t) \/ LogoutArrives(t) \/ LoseLogin(t)
  <2>1. row' \in [Session -> Fates]
    BY <1>1, <1>3, RecycledFacts DEF LoginArrives, LogoutArrives, LoseLogin
  <2>2. CASE LoginArrives(t)
    BY <2>1, <2>2 DEF LoginArrives, TypeOK, Fates, Idle
  <2>3. CASE LogoutArrives(t)
    BY <2>1, <2>3 DEF LogoutArrives, TypeOK, Fates, Idle
  <2>4. CASE LoseLogin(t)
    BY <2>1, <2>4 DEF LoseLogin, TypeOK, Fates, Idle, page
  <2> QED
    BY <1>3, <2>2, <2>3, <2>4
<1>4. CASE LoseRefresh(t)
  <2> DEFINE r == [s \in Session |->
                     IF refresh[t].phase = "granted" /\ row[s] = t THEN "lost" ELSE row[s]]
  <2>1. r \in [Session -> Fates]
    BY <1>1 DEF Fates
  <2>2. row' = Recycled(r)
    BY <1>4 DEF LoseRefresh
  <2>3. row' \in [Session -> Fates]
    BY <2>1, <2>2, RecycledFacts
  <2> QED
    BY <1>4, <2>3, SettleTypes DEF LoseRefresh, TypeOK, Fates
<1>5. CASE LoseLogout(t)
  <2> DEFINE r == [s \in Session |->
                     IF visit[t].phase = "loggedOut" /\ row[s] = "out" THEN "lost" ELSE row[s]]
  <2>1. r \in [Session -> Fates]
    BY <1>1 DEF Fates
  <2>2. row' = Recycled(r)
    BY <1>5 DEF LoseLogout
  <2>3. row' \in [Session -> Fates]
    BY <2>1, <2>2, RecycledFacts
  <2> QED
    BY <1>5, <2>3 DEF LoseLogout, TypeOK, Fates, Idle
<1> QED
  BY <1>2, <1>3, <1>4, <1>5

LEMMA TypeStep == TypeOK /\ [Next]_vars => TypeOK'
<1>1. ASSUME TypeOK, UNCHANGED vars
      PROVE  TypeOK'
  BY <1>1 DEF vars, TypeOK
<1> QED
  BY <1>1, PageTypes, ApiTypes, AnswerTypes DEF Next, RefreshProceeds

\* Every variable has its type, for any number of tabs, calls and sessions.
THEOREM TypeCorrect == Spec => []TypeOK
<1>1. Init => TypeOK
  <2> SUFFICES ASSUME Init
               PROVE  TypeOK
    OBVIOUS
  <2>1. token \in BOOLEAN /\ view \in [Tab -> {"closed", "loading", "in", "out"}]
    BY DEF Init
  <2>2. /\ jar \in Session \cup {None}
        /\ refresh \in [Tab -> [phase : {"idle", "sent", "granted", "refused"},
                                session : Session \cup {None}]]
        /\ visit \in [Tab -> [phase : {"idle", "login", "loggedIn", "logout", "loggedOut"},
                              session : Session \cup {None}]]
    BY DEF Init, Idle
  <2>3. /\ call \in [Call -> {"idle", "sent", "waiting", "resent", "failed"}]
        /\ row \in [Session -> {"active", "out", "lost", None} \cup Tab]
    BY DEF Init
  <2> QED
    BY <2>1, <2>2, <2>3 DEF TypeOK
<1> QED
  BY <1>1, TypeStep, PTL DEF Spec

----------------------------------------------------------------------------
(* Calls that wait *)

LEMMA RefreshStarts ==
  ASSUME TypeOK, NEW t \in Tab, Refresh(t)
  PROVE  \A u \in Tab :
            /\ \/ refresh'[u] = refresh[u]
               \/ u = t /\ refresh[u] = Idle /\ refresh'[u] = Sent("sent")
            /\ (u = t \/ refresh[u] # Idle) => refresh'[u] # Idle
<1>1. Sent("sent") # Idle
  BY DEF Sent, Idle
<1>2. CASE refresh[t] = Idle
  BY <1>1, <1>2 DEF TypeOK, Refresh
<1>3. CASE refresh[t] # Idle
  BY <1>3 DEF Refresh
<1> QED
  BY <1>2, <1>3

LEMMA SettleFacts ==
  ASSUME TypeOK, NEW t \in Tab, NEW ok \in BOOLEAN, Settle(t, ok)
  PROVE  /\ \A c \in Call :
               /\ call'[c] = "waiting" => call[c] = "waiting"
               /\ TabOf[c] = t => call'[c] # "waiting"
         /\ refresh'[t] = Idle
         /\ \A u \in Tab : u # t => refresh'[u] = refresh[u]
BY DEF Settle, TypeOK

LEMMA WaitStep == TypeOK /\ NobodyWaitsInVain /\ [Next]_vars => NobodyWaitsInVain'
<1> SUFFICES ASSUME TypeOK, NobodyWaitsInVain, [Next]_vars
             PROVE  NobodyWaitsInVain'
  OBVIOUS
<1> USE DEF NobodyWaitsInVain
<1>0. TabOf \in [Call -> Tab]
  BY BrowserAssumption
<1>1. ASSUME NEW t \in Tab, Mount(t)
      PROVE  NobodyWaitsInVain'
  BY <1>0, <1>1, RefreshStarts DEF Mount
<1>2. ASSUME NEW c \in Call, Unauthorized(c)
      PROVE  NobodyWaitsInVain'
  <2>1. \A d \in Call : d = c \/ call'[d] = call[d]
    BY <1>2 DEF Unauthorized, TypeOK
  <2> QED
    BY <1>0, <1>2, <2>1, RefreshStarts DEF Unauthorized
<1>3. ASSUME NEW c \in Call, StartCall(c) \/ CallAnswered(c) \/ QueryFailed(c)
      PROVE  NobodyWaitsInVain'
  <2>1. \A d \in Call : call'[d] = "waiting" => call[d] = "waiting"
    BY <1>3 DEF StartCall, CallAnswered, QueryFailed, TypeOK
  <2>2. UNCHANGED refresh
    BY <1>3 DEF StartCall, CallAnswered, QueryFailed
  <2> QED
    BY <2>1, <2>2
<1>4. ASSUME NEW t \in Tab, HandleRefresh(t)
      PROVE  NobodyWaitsInVain'
  <2>1. \A s : Answered("granted", s) # Idle /\ Answered("refused", s) # Idle
    BY DEF Answered, Idle
  <2>2. \E s : \/ refresh' = [refresh EXCEPT ![t] = Answered("granted", s)]
               \/ refresh' = [refresh EXCEPT ![t] = Answered("refused", s)]
    BY <1>4 DEF HandleRefresh
  <2>3. \A u \in Tab : refresh[u] # Idle => refresh'[u] # Idle
    BY <2>1, <2>2 DEF TypeOK
  <2> QED
    BY <1>0, <1>4, <2>3 DEF HandleRefresh, page
<1>5. ASSUME NEW t \in Tab, RefreshArrives(t) \/ LoseRefresh(t)
      PROVE  NobodyWaitsInVain'
  BY <1>0, <1>5, SettleFacts DEF RefreshArrives, LoseRefresh
<1>6. ASSUME NEW t \in Tab,
             \/ SignOut(t) \/ HandleLogout(t) \/ LogoutArrives(t) \/ LoseLogout(t)
             \/ SignIn(t) \/ HandleLogin(t) \/ LoginArrives(t) \/ LoseLogin(t)
      PROVE  NobodyWaitsInVain'
  BY <1>6 DEF SignOut, HandleLogout, LogoutArrives, LoseLogout, SignIn, HandleLogin,
              LoginArrives, LoseLogin, page
<1>7. CASE UNCHANGED vars
  BY <1>7 DEF vars
<1> QED
  BY <1>1, <1>2, <1>3, <1>4, <1>5, <1>6, <1>7 DEF Next, Proceed, RefreshProceeds

\* No call waits without a refresh on its way, for any number of calls.
THEOREM CallsWaitForSomething == Spec => []NobodyWaitsInVain
<1>1. Init => NobodyWaitsInVain
  BY DEF Init, NobodyWaitsInVain
<1> QED
  BY <1>1, WaitStep, TypeCorrect, PTL DEF Spec

----------------------------------------------------------------------------
(* Tokens *)

\* A tab that sends something sends what is in the jar, if anything.
LEMMA SendingSound ==
  ASSUME TypeOK, TokensInv, UNCHANGED <<jar, row>>,
         \A u \in Tab :
            \/ refresh'[u] = refresh[u]
            \/ refresh[u] = Idle /\ refresh'[u] = Sent("sent"),
         \A u \in Tab :
            \/ visit'[u] = visit[u]
            \/ /\ visit[u] = Idle
               /\ visit'[u].phase \in {"login", "logout"}
               /\ visit'[u].session \in {jar, None}
  PROVE  TokensInv'
<1>0. None \notin Session /\ jar' = jar /\ row' = row
  BY BrowserAssumption
<1>1. \A u \in Tab :
         /\ refresh'[u].phase = "granted" => refresh'[u] = refresh[u]
         /\ refresh[u].phase = "granted" => refresh'[u] = refresh[u]
         /\ visit'[u].phase \in {"loggedIn", "loggedOut"} => visit'[u] = visit[u]
         /\ visit[u].phase \in {"loggedIn", "loggedOut"} => visit'[u] = visit[u]
         /\ refresh'[u].session \in {refresh[u].session, jar}
         /\ visit'[u].session \in {visit[u].session, jar, None}
  BY DEF Sent, Idle
<1>2. AnswersNew'
  <2>1. ASSUME NEW t \in Tab, refresh'[t].phase = "granted"
        PROVE  NewToRefresh(t)'
    BY <1>0, <1>1, <2>1 DEF TokensInv, AnswersNew, NewToRefresh
  <2>2. ASSUME NEW t \in Tab, visit'[t].phase = "loggedIn"
        PROVE  NewToVisit(t)'
    BY <1>0, <1>1, <2>2 DEF TokensInv, AnswersNew, NewToVisit
  <2> QED
    BY <2>1, <2>2 DEF AnswersNew
<1>3. JarSound'
  BY <1>0, <1>1 DEF TokensInv, JarSound
<1>4. NotSpoiled'
  <2> SUFFICES ASSUME NEW t \in Tab, refresh'[t].phase \in {"sent", "refused"},
                      refresh'[t].session # None
               PROVE  row[refresh'[t].session] # t
    BY DEF NotSpoiled
  <2>1. CASE refresh'[t] = refresh[t]
    BY <1>0, <2>1 DEF TokensInv, NotSpoiled
  <2>2. CASE refresh[t] = Idle /\ refresh'[t] = Sent("sent")
    BY <2>2 DEF TokensInv, JarSound, Sent, Idle
  <2> QED
    BY <2>1, <2>2
<1> QED
  BY <1>2, <1>3, <1>4 DEF TokensInv

LEMMA PagesSound ==
  ASSUME TypeOK, TokensInv,
         \/ \E t \in Tab : Mount(t) \/ SignOut(t) \/ SignIn(t)
         \/ \E c \in Call : StartCall(c) \/ Proceed(c)
  PROVE  TokensInv'
<1> TabOf \in [Call -> Tab]
  BY BrowserAssumption
<1>1. ASSUME NEW t \in Tab, Mount(t)
      PROVE  TokensInv'
  BY <1>1, RefreshStarts, SendingSound DEF Mount
<1>2. ASSUME NEW t \in Tab, SignOut(t) \/ SignIn(t)
      PROVE  TokensInv'
  <2>1. \A u \in Tab :
            \/ visit'[u] = visit[u]
            \/ /\ visit[u] = Idle
               /\ visit'[u].phase \in {"login", "logout"}
               /\ visit'[u].session \in {jar, None}
    BY <1>2 DEF SignOut, SignIn, TypeOK, Sent, Idle
  <2> QED
    BY <1>2, <2>1, SendingSound DEF SignOut, SignIn
<1>3. ASSUME NEW c \in Call, StartCall(c) \/ CallAnswered(c)
      PROVE  TokensInv'
  BY <1>3, SendingSound DEF StartCall, CallAnswered
<1>4. ASSUME NEW c \in Call, Unauthorized(c)
      PROVE  TokensInv'
  BY <1>4, RefreshStarts, SendingSound DEF Unauthorized
<1>5. ASSUME NEW c \in Call, QueryFailed(c)
      PROVE  TokensInv'
  <2>1. \A u \in Tab :
            \/ visit'[u] = visit[u]
            \/ /\ visit[u] = Idle
               /\ visit'[u].phase \in {"login", "logout"}
               /\ visit'[u].session \in {jar, None}
    BY <1>5 DEF QueryFailed, TypeOK, Sent
  <2> QED
    BY <1>5, <2>1, SendingSound DEF QueryFailed
<1> QED
  BY <1>1, <1>2, <1>3, <1>4, <1>5 DEF Proceed

\* What a tab still holds keeps its row.
LEMMA HeldKept ==
  ASSUME NEW r \in [Session -> Fates], row' = Recycled(r)
  PROVE  /\ jar' \in Session => row'[jar'] = r[jar']
         /\ \A u \in Tab :
               /\ refresh'[u].session \in Session
                     => row'[refresh'[u].session] = r[refresh'[u].session]
               /\ visit'[u].session \in Session
                     => row'[visit'[u].session] = r[visit'[u].session]
BY RecycledFacts DEF Known

LEMMA TokenTypes ==
  ASSUME TypeOK
  PROVE  /\ None \notin Session /\ row \in [Session -> Fates]
         /\ None \notin Tab /\ None \notin {"active", "out", "lost"}
         /\ \A u \in Tab : u \notin {"active", "out", "lost"}
         /\ jar # None => jar \in Session
         /\ \A u \in Tab : /\ refresh[u].session # None => refresh[u].session \in Session
                           /\ visit[u].session # None => visit[u].session \in Session
BY BrowserAssumption DEF TypeOK, Fates

LEMMA RefusalSound ==
  ASSUME TypeOK, TokensInv, NEW t \in Tab, refresh[t].phase = "sent",
         refresh' = [refresh EXCEPT ![t] = Answered("refused", refresh[t].session)],
         UNCHANGED <<jar, visit, row>>
  PROVE  TokensInv'
<1>1. jar' = jar /\ visit' = visit /\ row' = row
  OBVIOUS
<1>2. \A u \in Tab :
         /\ refresh'[u].session = refresh[u].session
         /\ refresh'[u].phase = "granted" <=> refresh[u].phase = "granted"
         /\ refresh'[u].phase \in {"sent", "refused"}
               => refresh[u].phase \in {"sent", "refused"}
  BY DEF TypeOK, Answered
<1>3. AnswersNew'
  BY <1>1, <1>2 DEF TokensInv, AnswersNew, NewToRefresh, NewToVisit
<1>4. JarSound'
  BY <1>1, <1>2 DEF TokensInv, JarSound
<1>5. NotSpoiled'
  BY <1>1, <1>2 DEF TokensInv, NotSpoiled
<1> QED
  BY <1>3, <1>4, <1>5 DEF TokensInv

\* The rotated session leaves the table to the new one, which nobody knew.
LEMMA RotationSound ==
  ASSUME TypeOK, TokensInv, NEW t \in Tab, NEW new \in Unknown,
         refresh[t].phase = "sent", refresh[t].session # None,
         row[refresh[t].session] = "active",
         refresh' = [refresh EXCEPT ![t] = Answered("granted", new)],
         NEW r \in [Session -> Fates], row' = Recycled(r),
         r[refresh[t].session] = t, r[new] = "active",
         \A x \in Session : x # refresh[t].session /\ x # new => r[x] = row[x],
         UNCHANGED <<jar, visit>>
  PROVE  TokensInv'
<1> DEFINE s == refresh[t].session
<1>0. jar' = jar /\ visit' = visit /\ row' = Recycled(r)
  OBVIOUS
<1>1. /\ s \in Session /\ new \in Session /\ new # s /\ new # jar
      /\ \A u \in Tab : new # refresh[u].session /\ new # visit[u].session
  BY TokenTypes DEF Unknown, Known
<1>2. /\ r \in [Session -> Fates]
      /\ r[s] = t /\ r[new] = "active"
      /\ \A x \in Session : x # s /\ x # new => r[x] = row[x]
  OBVIOUS
<1>3. /\ refresh'[t].phase = "granted" /\ refresh'[t].session = new
      /\ \A u \in Tab : u # t => refresh'[u] = refresh[u]
  BY DEF TypeOK, Answered
<1>4. /\ jar \in Session => row'[jar] = r[jar]
      /\ \A u \in Tab :
            /\ refresh'[u].session \in Session
                  => row'[refresh'[u].session] = r[refresh'[u].session]
            /\ visit[u].session \in Session
                  => row'[visit[u].session] = r[visit[u].session]
  BY <1>0, <1>2, HeldKept
<1>5. AnswersNew'
  <2>1. NewToRefresh(t)'
    BY <1>0, <1>1, <1>2, <1>3, <1>4 DEF NewToRefresh
  <2>2. ASSUME NEW u \in Tab, u # t, refresh'[u].phase = "granted"
        PROVE  NewToRefresh(u)'
    <3>1. NewToRefresh(u)
      BY <1>3, <2>2 DEF TokensInv, AnswersNew
    <3> QED
      BY <1>0, <1>1, <1>2, <1>3, <1>4, <2>2, <3>1 DEF NewToRefresh
  <2>3. ASSUME NEW u \in Tab, visit'[u].phase = "loggedIn"
        PROVE  NewToVisit(u)'
    <3>1. NewToVisit(u)
      BY <1>0, <2>3 DEF TokensInv, AnswersNew
    <3> QED
      BY <1>0, <1>1, <1>2, <1>3, <1>4, <3>1 DEF NewToVisit
  <2> QED
    BY <2>1, <2>2, <2>3 DEF AnswersNew
<1>6. JarSound'
  <2> SUFFICES ASSUME jar # None
               PROVE  /\ row'[jar] # None
                      /\ \A u \in Tab : row'[jar] = u => refresh'[u].phase = "granted"
                      /\ row'[jar] = "out" => \E u \in Tab : visit[u].phase = "loggedOut"
    BY <1>0 DEF JarSound
  <2>1. CASE jar = s
    BY <1>1, <1>2, <1>3, <1>4, <2>1, TokenTypes
  <2>2. CASE jar # s
    BY <1>1, <1>2, <1>3, <1>4, <2>2, TokenTypes DEF TokensInv, JarSound
  <2> QED
    BY <2>1, <2>2
<1>7. NotSpoiled'
  <2> SUFFICES ASSUME NEW u \in Tab, refresh'[u].phase \in {"sent", "refused"},
                      refresh'[u].session # None
               PROVE  row'[refresh'[u].session] # u
    BY DEF NotSpoiled
  <2>1. u # t /\ refresh'[u] = refresh[u] /\ refresh[u].session \in Session
    BY <1>3, TokenTypes
  <2> QED
    BY <1>1, <1>2, <1>4, <2>1 DEF TokensInv, NotSpoiled
<1> QED
  BY <1>5, <1>6, <1>7 DEF TokensInv

LEMMA LogoutSound ==
  ASSUME TypeOK, TokensInv, NEW t \in Tab, HandleLogout(t)
  PROVE  TokensInv'
<1> DEFINE s == visit[t].session
           r == IF s # None /\ row[s] = "active" THEN [row EXCEPT ![s] = "out"] ELSE row
<1>0. jar' = jar /\ refresh' = refresh /\ row' = Recycled(r)
  BY DEF HandleLogout, page
<1>1. /\ r \in [Session -> Fates]
      /\ \A x \in Session : r[x] = row[x] \/ (x = s /\ r[x] = "out")
  BY TokenTypes DEF Fates
<1>2. /\ visit[t].phase = "logout"
      /\ visit'[t].phase = "loggedOut" /\ visit'[t].session = None
      /\ \A u \in Tab : u # t => visit'[u] = visit[u]
  BY DEF HandleLogout, TypeOK, Answered
<1> HIDE DEF r
<1>3. /\ jar \in Session => row'[jar] = r[jar]
      /\ \A u \in Tab :
            /\ refresh[u].session \in Session
                  => row'[refresh[u].session] = r[refresh[u].session]
            /\ visit'[u].session \in Session
                  => row'[visit'[u].session] = r[visit'[u].session]
  BY <1>0, <1>1, HeldKept
<1>4. AnswersNew'
  <2>1. ASSUME NEW u \in Tab, refresh'[u].phase = "granted"
        PROVE  NewToRefresh(u)'
    <3>1. NewToRefresh(u)
      BY <1>0, <2>1 DEF TokensInv, AnswersNew
    <3> QED
      BY <1>0, <1>1, <1>2, <1>3, <3>1, TokenTypes DEF NewToRefresh
  <2>2. ASSUME NEW u \in Tab, visit'[u].phase = "loggedIn"
        PROVE  NewToVisit(u)'
    <3>1. u # t /\ NewToVisit(u)
      BY <1>2, <2>2 DEF TokensInv, AnswersNew
    <3> QED
      BY <1>0, <1>1, <1>2, <1>3, <3>1, TokenTypes DEF NewToVisit
  <2> QED
    BY <2>1, <2>2 DEF AnswersNew
<1>5. JarSound'
  BY <1>0, <1>1, <1>2, <1>3, TokenTypes DEF TokensInv, JarSound
<1>6. NotSpoiled'
  BY <1>0, <1>1, <1>3, TokenTypes DEF TokensInv, NotSpoiled
<1> QED
  BY <1>4, <1>5, <1>6 DEF TokensInv

LEMMA LoginSound ==
  ASSUME TypeOK, TokensInv, NEW t \in Tab, HandleLogin(t)
  PROVE  TokensInv'
<1>1. PICK new \in Unknown :
         /\ visit' = [visit EXCEPT ![t] = Answered("loggedIn", new)]
         /\ row' = Recycled([row EXCEPT ![new] = "active"])
  BY DEF HandleLogin
<1> DEFINE r == [row EXCEPT ![new] = "active"]
<1>0. jar' = jar /\ refresh' = refresh /\ row' = Recycled(r)
  BY <1>1 DEF HandleLogin, page
<1>2. /\ new \in Session /\ new # jar
      /\ \A u \in Tab : new # refresh[u].session /\ new # visit[u].session
  BY TokenTypes DEF Unknown, Known
<1>3. /\ r \in [Session -> Fates] /\ r[new] = "active"
      /\ \A x \in Session : x # new => r[x] = row[x]
  BY <1>2, TokenTypes DEF Fates
<1>4. /\ visit[t].phase = "login"
      /\ visit'[t].phase = "loggedIn" /\ visit'[t].session = new
      /\ \A u \in Tab : u # t => visit'[u] = visit[u]
  BY <1>1 DEF HandleLogin, TypeOK, Answered
<1> HIDE DEF r
<1>5. /\ jar \in Session => row'[jar] = r[jar]
      /\ \A u \in Tab :
            /\ refresh[u].session \in Session
                  => row'[refresh[u].session] = r[refresh[u].session]
            /\ visit'[u].session \in Session
                  => row'[visit'[u].session] = r[visit'[u].session]
  BY <1>0, <1>3, HeldKept
<1>6. AnswersNew'
  <2>1. ASSUME NEW u \in Tab, refresh'[u].phase = "granted"
        PROVE  NewToRefresh(u)'
    <3>1. NewToRefresh(u)
      BY <1>0, <2>1 DEF TokensInv, AnswersNew
    <3> QED
      BY <1>0, <1>2, <1>3, <1>4, <1>5, <3>1 DEF NewToRefresh
  <2>2. NewToVisit(t)'
    BY <1>0, <1>2, <1>3, <1>4, <1>5 DEF NewToVisit
  <2>3. ASSUME NEW u \in Tab, u # t, visit'[u].phase = "loggedIn"
        PROVE  NewToVisit(u)'
    <3>1. NewToVisit(u)
      BY <1>4, <2>3 DEF TokensInv, AnswersNew
    <3> QED
      BY <1>0, <1>2, <1>3, <1>4, <1>5, <2>3, <3>1 DEF NewToVisit
  <2> QED
    BY <2>1, <2>2, <2>3 DEF AnswersNew
<1>7. JarSound'
  BY <1>0, <1>2, <1>3, <1>4, <1>5, TokenTypes DEF TokensInv, JarSound
<1>8. NotSpoiled'
  BY <1>0, <1>2, <1>3, <1>5, TokenTypes DEF TokensInv, NotSpoiled
<1> QED
  BY <1>6, <1>7, <1>8 DEF TokensInv

LEMMA ApiSound ==
  ASSUME TypeOK, TokensInv, NEW t \in Tab,
         HandleRefresh(t) \/ HandleLogout(t) \/ HandleLogin(t)
  PROVE  TokensInv'
<1>1. CASE HandleRefresh(t)
  <2>1. ASSUME NEW new \in Unknown, refresh[t].session # None,
               row[refresh[t].session] = "active",
               refresh' = [refresh EXCEPT ![t] = Answered("granted", new)],
               row' = Recycled([row EXCEPT ![refresh[t].session] = t, ![new] = "active"])
        PROVE  TokensInv'
    <3> DEFINE s == refresh[t].session
               r == [row EXCEPT ![s] = t, ![new] = "active"]
    <3>1. s \in Session /\ new \in Session /\ new # s
      BY <2>1, TokenTypes DEF Unknown, Known
    <3>2. /\ r \in [Session -> Fates] /\ r[s] = t /\ r[new] = "active"
          /\ \A x \in Session : x # s /\ x # new => r[x] = row[x]
      BY <3>1, TokenTypes DEF Fates
    <3>3. row' = Recycled(r) /\ refresh[t].phase = "sent" /\ UNCHANGED <<jar, visit>>
      BY <1>1, <2>1 DEF HandleRefresh
    <3> HIDE DEF r
    <3> QED
      BY <2>1, <3>2, <3>3, RotationSound
  <2>2. ASSUME refresh' = [refresh EXCEPT ![t] = Answered("refused", refresh[t].session)],
               row' = row
        PROVE  TokensInv'
    BY <1>1, <2>2, RefusalSound DEF HandleRefresh
  <2> QED
    BY <1>1, <2>1, <2>2 DEF HandleRefresh
<1> QED
  BY <1>1, LogoutSound, LoginSound

\* A refresh ends without a new cookie.
LEMMA RefreshEnded ==
  ASSUME TypeOK, TokensInv, NEW t \in Tab, NEW r \in [Session -> Fates],
         refresh'[t] = Idle, \A u \in Tab : u # t => refresh'[u] = refresh[u],
         UNCHANGED <<jar, visit>>, row' = Recycled(r),
         \A x \in Session : r[x] = row[x] \/ (r[x] = "lost" /\ row[x] = t),
         \A x \in Session : row[x] = t /\ refresh[t].phase = "granted" => r[x] = "lost"
  PROVE  TokensInv'
<1>1. jar' = jar /\ visit' = visit
  OBVIOUS
<1>2. refresh'[t].phase = "idle" /\ refresh'[t].session = None
  BY DEF Idle
<1>3. /\ jar \in Session => row'[jar] = r[jar]
      /\ \A u \in Tab :
            /\ refresh'[u].session \in Session
                  => row'[refresh'[u].session] = r[refresh'[u].session]
            /\ visit[u].session \in Session
                  => row'[visit[u].session] = r[visit[u].session]
  BY <1>1, HeldKept
<1>4. AnswersNew'
  <2>1. ASSUME NEW u \in Tab, refresh'[u].phase = "granted"
        PROVE  NewToRefresh(u)'
    <3>1. u # t /\ NewToRefresh(u)
      BY <1>2, <2>1 DEF TokensInv, AnswersNew
    <3> QED
      BY <1>1, <1>2, <1>3, <3>1, TokenTypes DEF NewToRefresh
  <2>2. ASSUME NEW u \in Tab, visit'[u].phase = "loggedIn"
        PROVE  NewToVisit(u)'
    <3>1. NewToVisit(u)
      BY <1>1, <2>2 DEF TokensInv, AnswersNew
    <3> QED
      BY <1>1, <1>2, <1>3, <3>1, TokenTypes DEF NewToVisit
  <2> QED
    BY <2>1, <2>2 DEF AnswersNew
<1>5. JarSound'
  <2> SUFFICES ASSUME jar # None
               PROVE  /\ row'[jar] # None
                      /\ \A u \in Tab : row'[jar] = u => refresh'[u].phase = "granted"
                      /\ row'[jar] = "out" => \E u \in Tab : visit[u].phase = "loggedOut"
    BY <1>1 DEF JarSound
  <2>1. jar \in Session /\ row'[jar] = r[jar]
    BY <1>3, TokenTypes
  <2>2. CASE r[jar] = "lost"
    BY <2>1, <2>2, TokenTypes
  <2>3. CASE r[jar] = row[jar] /\ r[jar] # "lost"
    BY <2>1, <2>3 DEF TokensInv, JarSound
  <2> QED
    BY <2>1, <2>2, <2>3
<1>6. NotSpoiled'
  <2> SUFFICES ASSUME NEW u \in Tab, refresh'[u].phase \in {"sent", "refused"},
                      refresh'[u].session # None
               PROVE  row'[refresh'[u].session] # u
    BY DEF NotSpoiled
  <2>1. u # t /\ refresh'[u] = refresh[u] /\ refresh[u].session \in Session
    BY <1>2, TokenTypes
  <2> QED
    BY <1>3, <2>1, TokenTypes DEF TokensInv, NotSpoiled
<1> QED
  BY <1>4, <1>5, <1>6 DEF TokensInv

LEMMA RefreshArrivalSound ==
  ASSUME TypeOK, TokensInv, NEW t \in Tab, RefreshArrives(t)
  PROVE  TokensInv'
<1>1. /\ refresh'[t] = Idle /\ visit' = visit /\ row' = Recycled(row)
      /\ \A u \in Tab : u # t => refresh'[u] = refresh[u]
  BY SettleFacts DEF RefreshArrives
<1>2. CASE refresh[t].phase = "granted"
  <2>1. NewToRefresh(t) /\ jar' = refresh[t].session
    BY <1>2 DEF RefreshArrives, TokensInv, AnswersNew
  <2>2. refresh'[t].phase = "idle" /\ refresh'[t].session = None
    BY <1>1 DEF Idle
  <2>3. /\ jar' \in Session /\ row'[jar'] = "active"
        /\ \A u \in Tab :
              /\ refresh'[u].session \in Session
                    => row'[refresh'[u].session] = row[refresh'[u].session]
              /\ visit[u].session \in Session
                    => row'[visit[u].session] = row[visit[u].session]
    BY <1>1, <2>1, HeldKept, TokenTypes DEF NewToRefresh
  <2>4. AnswersNew'
    <3>1. ASSUME NEW u \in Tab, refresh'[u].phase = "granted"
          PROVE  NewToRefresh(u)'
      <4>1. u # t /\ NewToRefresh(u)
        BY <1>1, <2>2, <3>1 DEF TokensInv, AnswersNew
      <4> QED
        BY <1>1, <2>1, <2>2, <2>3, <4>1, TokenTypes DEF NewToRefresh
    <3>2. ASSUME NEW u \in Tab, visit'[u].phase = "loggedIn"
          PROVE  NewToVisit(u)'
      <4>1. NewToVisit(u)
        BY <1>1, <3>2 DEF TokensInv, AnswersNew
      <4> QED
        BY <1>1, <2>1, <2>2, <2>3, <4>1, TokenTypes DEF NewToVisit
    <3> QED
      BY <3>1, <3>2 DEF AnswersNew
  <2>5. JarSound'
    BY <2>3, TokenTypes DEF JarSound
  <2>6. NotSpoiled'
    BY <1>1, <2>2, <2>3, TokenTypes DEF TokensInv, NotSpoiled
  <2> QED
    BY <2>4, <2>5, <2>6 DEF TokensInv
<1>3. CASE refresh[t].phase # "granted"
  <2>1. jar' = jar
    BY <1>3 DEF RefreshArrives
  <2> QED
    BY <1>1, <1>3, <2>1, TokenTypes, RefreshEnded
<1> QED
  BY <1>2, <1>3

LEMMA LostRefreshSound ==
  ASSUME TypeOK, TokensInv, NEW t \in Tab, LoseRefresh(t)
  PROVE  TokensInv'
<1> DEFINE r == [s \in Session |->
                   IF refresh[t].phase = "granted" /\ row[s] = t THEN "lost" ELSE row[s]]
<1>1. /\ refresh'[t] = Idle /\ UNCHANGED <<jar, visit>> /\ row' = Recycled(r)
      /\ \A u \in Tab : u # t => refresh'[u] = refresh[u]
  BY SettleFacts DEF LoseRefresh
<1>2. /\ r \in [Session -> Fates]
      /\ \A x \in Session : r[x] = row[x] \/ (r[x] = "lost" /\ row[x] = t)
      /\ \A x \in Session : row[x] = t /\ refresh[t].phase = "granted" => r[x] = "lost"
  BY TokenTypes DEF Fates
<1> HIDE DEF r
<1> QED
  BY <1>1, <1>2, RefreshEnded

\* A visit ends: the jar keeps what it has, or is emptied, or gets the session
\* of the answer.
LEMMA VisitEnded ==
  ASSUME TypeOK, TokensInv, NEW t \in Tab, NEW r \in [Session -> Fates],
         visit' = [visit EXCEPT ![t] = Idle], UNCHANGED refresh, row' = Recycled(r),
         \A x \in Session : r[x] = row[x] \/ (r[x] = "lost" /\ row[x] = "out"),
         \/ jar' = jar /\ visit[t].phase # "loggedOut"
         \/ /\ jar' = jar
            /\ \A x \in Session : row[x] = "out" => r[x] = "lost"
         \/ jar' = None
         \/ jar' = visit[t].session /\ visit[t].phase = "loggedIn"
  PROVE  TokensInv'
<1>1. /\ visit'[t].phase = "idle" /\ visit'[t].session = None
      /\ \A u \in Tab : u # t => visit'[u] = visit[u]
  BY DEF TypeOK, Idle
<1>2. /\ jar' \in Session => row'[jar'] = r[jar']
      /\ \A u \in Tab :
            /\ refresh[u].session \in Session
                  => row'[refresh[u].session] = r[refresh[u].session]
            /\ visit'[u].session \in Session
                  => row'[visit'[u].session] = r[visit'[u].session]
  BY HeldKept
<1>3. AnswersNew'
  <2>1. ASSUME NEW u \in Tab, refresh'[u].phase = "granted"
        PROVE  NewToRefresh(u)'
    <3>1. NewToRefresh(u)
      BY <2>1 DEF TokensInv, AnswersNew
    <3> QED
      BY <1>1, <1>2, <3>1, TokenTypes DEF NewToRefresh
  <2>2. ASSUME NEW u \in Tab, visit'[u].phase = "loggedIn"
        PROVE  NewToVisit(u)'
    <3>1. u # t /\ NewToVisit(u)
      BY <1>1, <2>2 DEF TokensInv, AnswersNew
    <3> QED
      BY <1>1, <1>2, <3>1, TokenTypes DEF NewToVisit
  <2> QED
    BY <2>1, <2>2 DEF AnswersNew
<1>4. JarSound'
  <2>1. CASE jar' = visit[t].session /\ visit[t].phase = "loggedIn"
    <3>1. NewToVisit(t)
      BY <2>1 DEF TokensInv, AnswersNew
    <3>2. jar' \in Session /\ row'[jar'] = "active"
      BY <1>2, <2>1, <3>1, TokenTypes DEF NewToVisit
    <3> QED
      BY <3>2, TokenTypes DEF JarSound
  <2>2. CASE jar' = None
    BY <2>2 DEF JarSound
  <2>3. ASSUME jar' = jar, jar # None,
               \/ visit[t].phase # "loggedOut"
               \/ \A x \in Session : row[x] = "out" => r[x] = "lost"
        PROVE  JarSound'
    <3>1. jar \in Session /\ row'[jar] = r[jar]
      BY <1>2, <2>3, TokenTypes
    <3>2. CASE r[jar] = "lost"
      BY <2>3, <3>1, <3>2, TokenTypes DEF JarSound
    <3>3. CASE r[jar] = row[jar] /\ r[jar] # "lost"
      BY <1>1, <2>3, <3>1, <3>3 DEF TokensInv, JarSound
    <3> QED
      BY <3>1, <3>2, <3>3
  <2> QED
    BY <2>1, <2>2, <2>3
<1>5. NotSpoiled'
  BY <1>2, TokenTypes DEF TokensInv, NotSpoiled
<1> QED
  BY <1>3, <1>4, <1>5 DEF TokensInv

LEMMA AnswersSound ==
  ASSUME TypeOK, TokensInv, NEW t \in Tab,
         \/ RefreshArrives(t) \/ LoginArrives(t) \/ LogoutArrives(t)
         \/ LoseRefresh(t) \/ LoseLogout(t) \/ LoseLogin(t)
  PROVE  TokensInv'
<1>1. CASE LoginArrives(t)
  BY <1>1, VisitEnded, TokenTypes DEF LoginArrives
<1>2. CASE LogoutArrives(t)
  BY <1>2, VisitEnded, TokenTypes DEF LogoutArrives
<1>3. CASE LoseLogin(t)
  BY <1>3, VisitEnded, TokenTypes DEF LoseLogin
<1>4. CASE LoseLogout(t)
  <2> DEFINE r == [s \in Session |->
                     IF visit[t].phase = "loggedOut" /\ row[s] = "out" THEN "lost" ELSE row[s]]
  <2>1. /\ visit' = [visit EXCEPT ![t] = Idle] /\ row' = Recycled(r)
        /\ UNCHANGED <<jar, refresh>>
    BY <1>4 DEF LoseLogout
  <2>2. /\ r \in [Session -> Fates]
        /\ \A x \in Session : r[x] = row[x] \/ (r[x] = "lost" /\ row[x] = "out")
        /\ \/ visit[t].phase # "loggedOut"
           \/ \A x \in Session : row[x] = "out" => r[x] = "lost"
    BY TokenTypes DEF Fates
  <2> HIDE DEF r
  <2> QED
    BY <2>1, <2>2, VisitEnded
<1> QED
  BY <1>1, <1>2, <1>3, <1>4, RefreshArrivalSound, LostRefreshSound

LEMMA TokensStep == TypeOK /\ TokensInv /\ [Next]_vars => TokensInv'
<1>1. ASSUME TokensInv, UNCHANGED vars
      PROVE  TokensInv'
  BY <1>1 DEF vars, TokensInv, AnswersNew, NewToRefresh, NewToVisit, JarSound, NotSpoiled
<1> QED
  BY <1>1, PagesSound, ApiSound, AnswersSound DEF Next, RefreshProceeds

LEMMA TokensInvariant == Spec => []TokensInv
<1>1. Init => TokensInv
  BY DEF Init, Idle, TokensInv, AnswersNew, JarSound, NotSpoiled
<1> QED
  BY <1>1, TokensStep, TypeCorrect, PTL DEF Spec

\* However many tabs refresh, sign in and sign out at once, and in whatever
\* order their answers arrive, the cookie left over in the end is usable unless
\* an answer was lost.
THEOREM QuietJarsAreUsable == Spec => []QuietJarUsable
<1>1. TypeOK /\ TokensInv => QuietJarUsable
  <2> SUFFICES ASSUME TypeOK, TokensInv, jar # None,
                      \A t \in Tab : refresh[t] = Idle /\ visit[t] = Idle
               PROVE  row[jar] \in {"active", "lost"}
    BY DEF QuietJarUsable
  <2>1. Idle.phase = "idle"
    BY DEF Idle
  <2>2. row[jar] \notin Tab /\ row[jar] # "out" /\ row[jar] # None
    BY <2>1 DEF TokensInv, JarSound
  <2>3. row[jar] \in Fates
    BY TokenTypes
  <2> QED
    BY <2>2, <2>3 DEF Fates
<1> QED
  BY <1>1, TypeCorrect, TokensInvariant, PTL

\* No tab is ever refused for a rotation of its own.
THEOREM TabsSpareThemselves == Spec => []RefusedByOthers
<1>1. TokensInv => RefusedByOthers
  BY DEF TokensInv, NotSpoiled, RefusedByOthers
<1> QED
  BY <1>1, TokensInvariant, PTL
=============================================================================
