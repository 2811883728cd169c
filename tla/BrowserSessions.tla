--------------------------- MODULE BrowserSessions ---------------------------
(***************************************************************************)
(* The tabs of one browser and the session they share: lib/api.ts and      *)
(* AuthContext in the browser, AuthController behind them.                 *)
(*                                                                         *)
(* The tabs share the cookie jar, which holds the refresh token, and the   *)
(* local storage, which holds the access token.  A call that is answered   *)
(* 401 refreshes the session and is sent once more; the calls of a tab     *)
(* share one refresh.  The API handles a request and the browser applies   *)
(* the response in steps of their own, and either may be lost.             *)
(*                                                                         *)
(* On the API a refresh is a single step here; RefreshSessions has its     *)
(* transaction, and shows that it rotates a session at most once.          *)
(***************************************************************************)
CONSTANTS
    Tab,
    Call,      \* calls of api that may run at the same time
    TabOf,     \* [Call -> Tab]
    Me,        \* the calls that are a tab's useCurrentUser query
    Session,   \* names of the sessions whose token somebody holds
    None

ASSUME BrowserAssumption ==
    /\ TabOf \in [Call -> Tab] /\ Me \subseteq Call
    /\ None \notin Session \cup Tab \cup {"active", "out", "lost"}
    /\ Tab \cap {"active", "out", "lost"} = {}

VARIABLES
    jar,       \* the session of the refresh cookie
    token,     \* there is an access token in the local storage
    view,      \* AuthContext of each tab
    refresh,   \* refreshRequest of each tab
    visit,     \* its login or logout on the way
    call,      \* where each call is
    row        \* the Session table.  A session is active, was rotated by the
               \* tab that stands here, was signed out, or its successor or its
               \* sign-out was lost on the way back

vars == <<jar, token, view, refresh, visit, call, row>>
page == <<token, view, call>>

----------------------------------------------------------------------------
Idle == [phase |-> "idle", session |-> None]
Sent(phase) == [phase |-> phase, session |-> jar]
Answered(phase, s) == [phase |-> phase, session |-> s]

Known(j, r, v) == {j} \cup {r[t].session : t \in Tab} \cup {v[t].session : t \in Tab}
Unknown == Session \ Known(jar, refresh, visit)

\* The name of a session whose token nobody holds is used again.
Recycled(r) ==
    [s \in Session |-> IF s \in Known(jar', refresh', visit') THEN r[s] ELSE None]

----------------------------------------------------------------------------
(* refreshSession *)

\* Mutant: every call sends a refresh of its own.
Refresh_Unshared(t) == refresh' = [refresh EXCEPT ![t] = Sent("sent")]

\* Start a refresh of the tab, or wait for the pending one.
Refresh(t) ==
    refresh' = IF refresh[t] = Idle THEN [refresh EXCEPT ![t] = Sent("sent")] ELSE refresh

\* Mutant: a refused refresh leaves the calls that wait for it alone.
Settle_NoError(t, ok) ==
    /\ view' = IF view[t] = "loading"
               THEN [view EXCEPT ![t] = IF ok THEN "in" ELSE "out"] ELSE view
    /\ call' = [c \in Call |->
                 IF ok /\ TabOf[c] = t /\ call[c] = "waiting" THEN "resent" ELSE call[c]]
    /\ refresh' = [refresh EXCEPT ![t] = Idle]

\* The promise is settled: AuthContext shows the page or the login, and the
\* calls that wait are sent again, or fail.
Settle(t, ok) ==
    /\ view' = IF view[t] = "loading"
               THEN [view EXCEPT ![t] = IF ok THEN "in" ELSE "out"] ELSE view
    /\ call' = [c \in Call |->
                 IF TabOf[c] # t \/ call[c] # "waiting" THEN call[c]
                 ELSE IF ok THEN "resent"
                 ELSE IF c \in Me THEN "failed" ELSE "idle"]
    /\ refresh' = [refresh EXCEPT ![t] = Idle]

----------------------------------------------------------------------------
(* Pages *)

\* AuthProvider of a tab that is opened.
Mount(t) ==
    /\ view[t] = "closed"
    /\ IF token
       THEN view' = [view EXCEPT ![t] = "in"] /\ UNCHANGED refresh
       ELSE view' = [view EXCEPT ![t] = "loading"] /\ Refresh(t)
    /\ UNCHANGED <<jar, token, visit, call, row>>

\* request.  Whether its access token is accepted is up to the API: it may have
\* expired, or have been removed.
StartCall(c) ==
    /\ call[c] = "idle" /\ view[TabOf[c]] = "in"
    /\ call' = [call EXCEPT ![c] = "sent"]
    /\ UNCHANGED <<jar, token, view, refresh, visit, row>>

\* The call succeeds, or fails with something that is not its first 401.
CallAnswered(c) ==
    /\ call[c] \in {"sent", "resent"}
    /\ \/ call' = [call EXCEPT ![c] = "idle"]
       \/ c \in Me /\ call' = [call EXCEPT ![c] = "failed"]
    /\ UNCHANGED <<jar, token, view, refresh, visit, row>>

\* The first 401.
Unauthorized(c) ==
    /\ call[c] = "sent"
    /\ call' = [call EXCEPT ![c] = "waiting"]
    /\ Refresh(TabOf[c])
    /\ UNCHANGED <<jar, token, view, visit, row>>

\* endSession, of the user or of AppShell when the current-user query failed.
SignOut(t) ==
    /\ visit[t] = Idle /\ view[t] = "in"
    /\ visit' = [visit EXCEPT ![t] = Sent("logout")]
    /\ UNCHANGED <<jar, page, refresh, row>>
QueryFailed(c) ==
    LET t == TabOf[c] IN
    /\ call[c] = "failed"
    /\ call' = [call EXCEPT ![c] = "idle"]
    /\ visit' = IF view[t] = "in" /\ visit[t] = Idle
                THEN [visit EXCEPT ![t] = Sent("logout")] ELSE visit
    /\ UNCHANGED <<jar, token, view, refresh, row>>

\* The form of the login page.
SignIn(t) ==
    /\ visit[t] = Idle /\ view[t] = "out"
    /\ visit' = [visit EXCEPT ![t] = [Idle EXCEPT !.phase = "login"]]
    /\ UNCHANGED <<jar, page, refresh, row>>

----------------------------------------------------------------------------
(* AuthController *)

HandleRefresh(t) ==
    LET s == refresh[t].session
        ok == s # None /\ row[s] = "active"
    IN
    /\ refresh[t].phase = "sent"
    /\ UNCHANGED <<jar, page, visit>>
    /\ \/ \E new \in Unknown :
             /\ ok
             /\ refresh' = [refresh EXCEPT ![t] = Answered("granted", new)]
             /\ row' = Recycled([row EXCEPT ![s] = t, ![new] = "active"])
       \/ /\ ~ok
          /\ refresh' = [refresh EXCEPT ![t] = Answered("refused", s)]
          /\ UNCHANGED row

\* A session that is revoked already stays as it is.
HandleLogout(t) ==
    LET s == visit[t].session IN
    /\ visit[t].phase = "logout"
    /\ visit' = [visit EXCEPT ![t] = Answered("loggedOut", None)]
    /\ UNCHANGED <<jar, page, refresh>>
    /\ row' = Recycled(IF s # None /\ row[s] = "active"
                       THEN [row EXCEPT ![s] = "out"] ELSE row)

HandleLogin(t) == \E new \in Unknown :
    /\ visit[t].phase = "login"
    /\ visit' = [visit EXCEPT ![t] = Answered("loggedIn", new)]
    /\ UNCHANGED <<jar, page, refresh>>
    /\ row' = Recycled([row EXCEPT ![new] = "active"])

----------------------------------------------------------------------------
(* Responses.  The browser puts the cookie into the jar, the page stores   *)
(* the access token.                                                       *)

\* Mutant: the response sets no cookie.
RefreshArrives_NoCookie(t) ==
    LET ok == refresh[t].phase = "granted" IN
    /\ refresh[t].phase \in {"granted", "refused"}
    /\ token' = ok
    /\ Settle(t, ok)
    /\ UNCHANGED <<jar, visit>>
    /\ row' = Recycled(row)

RefreshArrives(t) ==
    LET ok == refresh[t].phase = "granted" IN
    /\ refresh[t].phase \in {"granted", "refused"}
    /\ jar' = IF ok THEN refresh[t].session ELSE jar
    /\ token' = ok
    /\ Settle(t, ok)
    /\ UNCHANGED visit
    /\ row' = Recycled(row)

LoginArrives(t) ==
    /\ visit[t].phase = "loggedIn"
    /\ jar' = visit[t].session /\ token' = TRUE
    /\ view' = [view EXCEPT ![t] = "in"]
    /\ visit' = [visit EXCEPT ![t] = Idle]
    /\ UNCHANGED <<refresh, call>>
    /\ row' = Recycled(row)

LogoutArrives(t) ==
    /\ visit[t].phase = "loggedOut"
    /\ jar' = None /\ token' = FALSE
    /\ view' = [view EXCEPT ![t] = "out"]
    /\ visit' = [visit EXCEPT ![t] = Idle]
    /\ UNCHANGED <<refresh, call>>
    /\ row' = Recycled(row)

\* The request or its response is lost, or the API fails: the page goes on as
\* if refused, and the jar keeps what it has.
LoseRefresh(t) ==
    /\ refresh[t] # Idle
    /\ token' = FALSE
    /\ Settle(t, FALSE)
    /\ UNCHANGED <<jar, visit>>
    /\ row' = Recycled([s \in Session |->
                 IF refresh[t].phase = "granted" /\ row[s] = t THEN "lost" ELSE row[s]])
LoseLogout(t) ==
    /\ visit[t].phase \in {"logout", "loggedOut"}
    /\ token' = FALSE
    /\ view' = [view EXCEPT ![t] = "out"]
    /\ visit' = [visit EXCEPT ![t] = Idle]
    /\ UNCHANGED <<jar, refresh, call>>
    /\ row' = Recycled([s \in Session |->
                 IF visit[t].phase = "loggedOut" /\ row[s] = "out" THEN "lost" ELSE row[s]])
LoseLogin(t) ==
    /\ visit[t].phase \in {"login", "loggedIn"}
    /\ visit' = [visit EXCEPT ![t] = Idle]
    /\ UNCHANGED <<jar, page, refresh>>
    /\ row' = Recycled(row)

----------------------------------------------------------------------------
Init ==
    /\ jar = None /\ token = FALSE
    /\ view = [t \in Tab |-> "closed"]
    /\ refresh = [t \in Tab |-> Idle]
    /\ visit = [t \in Tab |-> Idle]
    /\ call = [c \in Call |-> "idle"]
    /\ row = [s \in Session |-> None]

\* What becomes of a call, and of a refresh, once they are sent.
Proceed(c) == CallAnswered(c) \/ Unauthorized(c) \/ QueryFailed(c)
RefreshProceeds(t) == HandleRefresh(t) \/ RefreshArrives(t)

Next ==
    \/ \E c \in Call : StartCall(c) \/ Proceed(c)
    \/ \E t \in Tab : \/ Mount(t) \/ RefreshProceeds(t) \/ LoseRefresh(t)
                      \/ SignOut(t) \/ HandleLogout(t) \/ LogoutArrives(t) \/ LoseLogout(t)
                      \/ SignIn(t) \/ HandleLogin(t) \/ LoginArrives(t) \/ LoseLogin(t)

Spec == Init /\ [][Next]_vars

----------------------------------------------------------------------------
TypeOK ==
    /\ jar \in Session \cup {None}
    /\ token \in BOOLEAN
    /\ view \in [Tab -> {"closed", "loading", "in", "out"}]
    /\ refresh \in [Tab -> [phase : {"idle", "sent", "granted", "refused"},
                            session : Session \cup {None}]]
    /\ visit \in [Tab -> [phase : {"idle", "login", "loggedIn", "logout", "loggedOut"},
                          session : Session \cup {None}]]
    /\ call \in [Call -> {"idle", "sent", "waiting", "resent", "failed"}]
    /\ row \in [Session -> {"active", "out", "lost", None} \cup Tab]

\* Responses of several tabs arrive in any order, and still the cookie that is
\* left when all have arrived is of no session, of one that the API accepts, or
\* of one whose successor or sign-out was lost on the way.
QuietJarUsable ==
    (\A t \in Tab : refresh[t] = Idle /\ visit[t] = Idle)
        => jar = None \/ row[jar] \in {"active", "lost"}

\* A tab never spoils its own session: when the API refuses to refresh a
\* session because it has been rotated, another tab has rotated it, or the
\* answer that would have brought the new cookie was lost.
RefusedByOthers ==
    \A t \in Tab :
        refresh[t].phase = "refused" /\ refresh[t].session # None
            => row[refresh[t].session] # t

\* Nobody waits in vain: as long as a call waits for a refresh one is on its way,
\* whatever mixture of 401s, refusals and lost answers has come before.
NobodyWaitsInVain ==
    \A c \in Call : call[c] = "waiting" => refresh[TabOf[c]] # Idle
=============================================================================
