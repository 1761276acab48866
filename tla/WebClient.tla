----------------------------- MODULE WebClient ------------------------------
(***************************************************************************)
(* src/lib/api.ts, src/lib/auth.ts, AuthGuard.tsx and the pages that sign  *)
(* in and out: the browser side of the token refresh.  The tabs of a       *)
(* browser share the cookie jar and localStorage; isRefreshing, the queue  *)
(* of waiting requests and every axios request belong to one tab.  The     *)
(* browser applies the cookies of an answer before the script that waits   *)
(* for it writes localStorage: these are two steps, and other tabs run in  *)
(* between.  The server is the auth middleware and the refresh and logout  *)
(* endpoints, told apart as far as the client can see them.                *)
(*                                                                         *)
(* Sessions and the access tokens issued with them are numbered together,  *)
(* and 0 is none.  The wms_access cookie lives as long as the token in it, *)
(* so one number stands for the cookies of a session.  Access tokens have  *)
(* equal lifetimes: they expire in the order of their numbers.             *)
(***************************************************************************)
EXTENDS Integers, FiniteSets

CONSTANTS
    Tabs,           \* tabs of one browser, signed in as one user
    Requests,       \* Requests[t]: the requests tab t makes
    MaxExpiries,    \* bound: how often access tokens expire
    MaxIncidents    \* bound: what users, pages and the network do, see Incident

ASSUME WebClientAssumption ==
    /\ DOMAIN Requests = Tabs
    /\ MaxExpiries \in Nat
    /\ MaxIncidents \in Nat

VARIABLES
    cookie,         \* session the cookie jar holds
    token,          \* access token localStorage holds
    page,           \* page[t]: "app" or "login"
    req,            \* req[t][r]
    isRefreshing,   \* isRefreshing[t]
    refresh,        \* refresh[t]: the call to /auth/refresh
    entering,       \* entering[t]: session of a login answered but not stored
    leaving,        \* leaving[t]: signed out, localStorage still to be cleared
    live,           \* server: sessions that can be refreshed
    issued,         \* server: sessions (and tokens) issued so far
    horizon,        \* access tokens up to this one have expired
    cause,          \* history: something happened that may sign a tab out
    expiries,       \* capped by MaxExpiries
    incidents       \* capped by MaxIncidents

vars == <<cookie, token, page, req, isRefreshing, refresh, entering, leaving,
          live, issued, horizon, cause, expiries, incidents>>

signing == <<entering, leaving>>
client == <<cookie, token, page, req, isRefreshing, signing>>
server == <<live, issued, horizon>>
bounds == <<expiries, incidents>>

(* _retry is a field of the request's axios config.                        *)
Request == [phase: {"new", "sent", "unauthorized", "queued", "waiting", "done"},
            token: Nat, retry: BOOLEAN]

(* "ok" and "failed": the answer is on its way; "renewed" and "refused":   *)
(* the browser has applied its cookies.                                    *)
Refresh == [phase: {"none", "sent", "found", "ok", "failed", "renewed", "refused"},
            session: Nat, header: BOOLEAN]

NewRequest == [phase |-> "new", token |-> 0, retry |-> FALSE]
Done == [phase |-> "done", token |-> 0, retry |-> FALSE]

NoRefresh == [phase |-> "none", session |-> 0, header |-> FALSE]

TypeOK ==
    /\ cookie \in 0..issued
    /\ token \in 0..issued
    /\ page \in [Tabs -> {"app", "login"}]
    /\ \A t \in Tabs : req[t] \in [Requests[t] -> Request]
    /\ isRefreshing \in [Tabs -> BOOLEAN]
    /\ refresh \in [Tabs -> Refresh]
    /\ entering \in [Tabs -> 0..issued]
    /\ leaving \in [Tabs -> BOOLEAN]
    /\ live \subseteq 1..issued
    /\ horizon \in 0..issued

Init ==
    /\ cookie = 1
    /\ token = 1
    /\ page = [t \in Tabs |-> "app"]
    /\ req = [t \in Tabs |-> [r \in Requests[t] |-> NewRequest]]
    /\ isRefreshing = [t \in Tabs |-> FALSE]
    /\ refresh = [t \in Tabs |-> NoRefresh]
    /\ entering = [t \in Tabs |-> 0]
    /\ leaving = [t \in Tabs |-> FALSE]
    /\ live = {1}
    /\ issued = 1
    /\ horizon = 0
    /\ cause = FALSE
    /\ expiries = 0
    /\ incidents = 0

(* What users, pages and the network do beside the requests: a login, a    *)
(* refused one or a logout, a guard that sends its page away, a reload, a  *)
(* refresh without an answer, a session that ends on the server.           *)
Incident ==
    /\ incidents < MaxIncidents
    /\ incidents' = incidents + 1

-----------------------------------------------------------------------------
(* Requests of a page.                                                     *)

(* The request interceptor attaches what localStorage holds when a request *)
(* is sent, the first time and every time.                                 *)
Sent(tok, retry) == [phase |-> "sent", token |-> tok, retry |-> retry]

Issue(t, r) ==
    /\ page[t] = "app"
    /\ req[t][r].phase = "new"
    /\ req' = [req EXCEPT ![t][r] = Sent(token, FALSE)]
    /\ UNCHANGED <<cookie, token, page, isRefreshing, refresh, signing, server, cause, bounds>>

(* AuthMiddleware: the Authorization header, else the access cookie.       *)
Authorized(tok) == (IF tok # 0 THEN tok ELSE cookie) > horizon

(* An answer other than 401 goes to the caller and changes nothing here.   *)
Serve(t, r) ==
    /\ req[t][r].phase = "sent"
    /\ req' = [req EXCEPT ![t][r] = IF Authorized(@.token) THEN Done
                                    ELSE [@ EXCEPT !.phase = "unauthorized"]]
    /\ UNCHANGED <<cookie, token, page, isRefreshing, refresh, signing, server, cause, bounds>>

-----------------------------------------------------------------------------
(* The response interceptor on a 401.                                      *)

MustQueueFault(t) == FALSE
MustQueue(t) == isRefreshing[t]

Receive401Queue(t, r) ==
    /\ req[t][r].phase = "unauthorized"
    /\ ~req[t][r].retry
    /\ MustQueue(t)
    /\ req' = [req EXCEPT ![t][r].phase = "queued", ![t][r].token = 0]
    /\ UNCHANGED <<cookie, token, page, isRefreshing, refresh, signing, server, cause, bounds>>

(* Two tabs that refresh at the same time do so with the same session.     *)
Receive401Refresh(t, r) ==
    /\ req[t][r].phase = "unauthorized"
    /\ ~req[t][r].retry
    /\ ~MustQueue(t)
    /\ req' = [req EXCEPT ![t][r] = [phase |-> "waiting", token |-> 0, retry |-> TRUE]]
    /\ isRefreshing' = [isRefreshing EXCEPT ![t] = TRUE]
    /\ refresh' = [refresh EXCEPT ![t] = [phase |-> "sent", session |-> cookie,
                                              header |-> token # 0]]
    /\ cause' = (cause \/ \E u \in Tabs \ {t} : isRefreshing[u])
    /\ UNCHANGED <<cookie, token, page, signing, server, bounds>>

(* A document is loaded anew: whatever the old one was waiting for is      *)
(* gone, and so is the timer of a logout; the new document makes requests  *)
(* of its own.                                                             *)
Unload(t) ==
    /\ req' = [req EXCEPT ![t] = [r \in Requests[t] |->
                                    IF req[t][r].phase = "new" THEN NewRequest ELSE Done]]
    /\ isRefreshing' = [isRefreshing EXCEPT ![t] = FALSE]
    /\ refresh' = [refresh EXCEPT ![t] = NoRefresh]
    /\ entering' = [entering EXCEPT ![t] = 0]
    /\ leaving' = [leaving EXCEPT ![t] = FALSE]

Rotate(s) ==
    /\ live' = (live \ {s}) \cup {issued + 1}
    /\ issued' = issued + 1

(* The call to /auth/refresh of a document that is gone: the server may    *)
(* still rotate the session, and the new one reaches nobody and takes no   *)
(* number; an answer on its way leaves no cookie.                          *)
Abort(t) ==
    \/ UNCHANGED <<live, issued>>
    \/ /\ refresh[t].phase \in {"sent", "found"}
       /\ live' = live \ {refresh[t].session}
       /\ UNCHANGED issued

(* localStorage is cleared and the page goes to /login.                    *)
Leave(t) ==
    /\ token' = 0
    /\ page' = [page EXCEPT ![t] = "login"]
    /\ Unload(t)

(* A second 401 for the same request: sign out.  Its token expired while   *)
(* the request was on its way.                                             *)
Receive401SignOut(t, r) ==
    /\ req[t][r].phase = "unauthorized"
    /\ req[t][r].retry
    /\ Leave(t)
    /\ Abort(t)
    /\ cause' = (cause \/ req[t][r].token <= horizon)
    /\ UNCHANGED <<cookie, horizon, bounds>>

-----------------------------------------------------------------------------
(* /auth/refresh.  The claims come from the access cookie or the header of *)
(* the call; without claims the session is taken for stolen and revoked.   *)

HasClaims(t) == refresh[t].session > horizon \/ refresh[t].header

RefreshFind(t) ==
    /\ refresh[t].phase = "sent"
    /\ IF refresh[t].session \in live /\ HasClaims(t)
       THEN refresh' = [refresh EXCEPT ![t].phase = "found"] /\ UNCHANGED live
       ELSE /\ refresh' = [refresh EXCEPT ![t].phase = "failed"]
            /\ live' = live \ {refresh[t].session}
    /\ UNCHANGED <<client, issued, horizon, cause, bounds>>

RefreshRotate(t) ==
    /\ refresh[t].phase = "found"
    /\ Rotate(refresh[t].session)
    /\ refresh' = [refresh EXCEPT ![t] = [phase |-> "ok", session |-> issued', header |-> FALSE]]
    /\ UNCHANGED <<client, horizon, cause, bounds>>

(* processQueue and the retry of the request that asked for the refresh.   *)
ResumedFault(t, new) ==
    [r \in Requests[t] |-> IF req[t][r].phase = "waiting" THEN Sent(new, TRUE) ELSE req[t][r]]
Resumed(t, new) ==
    [r \in Requests[t] |-> CASE req[t][r].phase = "waiting" -> Sent(new, TRUE)
                          [] req[t][r].phase = "queued"  -> Sent(new, FALSE)
                          [] OTHER -> req[t][r]]

(* The browser has the answer.  A refused refresh clears the cookies,      *)
(* whoever set them meanwhile, unless the call came without one.           *)
RefreshAnswered(t) ==
    /\ \/ /\ refresh[t].phase = "ok"
          /\ cookie' = refresh[t].session
          /\ refresh' = [refresh EXCEPT ![t].phase = "renewed"]
       \/ /\ refresh[t].phase = "failed"
          /\ cookie' = IF refresh[t].session = 0 THEN cookie ELSE 0
          /\ refresh' = [refresh EXCEPT ![t].phase = "refused"]
    /\ UNCHANGED <<token, page, req, isRefreshing, signing, server, cause, bounds>>

RefreshOk(t) ==
    LET new == refresh[t].session IN
    /\ refresh[t].phase = "renewed"
    /\ token' = new
    /\ req' = [req EXCEPT ![t] = Resumed(t, new)]
    /\ isRefreshing' = [isRefreshing EXCEPT ![t] = FALSE]
    /\ refresh' = [refresh EXCEPT ![t] = NoRefresh]
    /\ UNCHANGED <<cookie, page, signing, server, cause, bounds>>

RefreshFailed(t) ==
    /\ refresh[t].phase = "refused"
    /\ Leave(t)
    /\ UNCHANGED <<cookie, server, cause, bounds>>

-----------------------------------------------------------------------------
(* Signing in and out, and the guard of the pages.                         *)

(* isAuthenticated: the token localStorage holds, by its expiry.           *)
Guarded(tok) == IF tok > horizon THEN "app" ELSE "login"

(* A page of the application mounts: the first one, or one with a guard of *)
(* its own.  router.replace keeps the document, its requests and timers.   *)
AuthGuard(t) ==
    /\ page[t] = "app"
    /\ Incident
    /\ Guarded(token) = "login"
    /\ page' = [page EXCEPT ![t] = "login"]
    /\ cause' = (cause \/ token # 0)
    /\ UNCHANGED <<cookie, token, req, isRefreshing, refresh, signing, server, expiries>>

(* The answer to a login, with a second factor or without: its cookies are *)
(* set before the page has stored the token.                               *)
LoginAnswer(t) ==
    /\ page[t] = "login"
    /\ Incident
    /\ issued' = issued + 1
    /\ live' = live \cup {issued'}
    /\ cookie' = issued'
    /\ entering' = [entering EXCEPT ![t] = issued']
    /\ UNCHANGED <<token, page, req, isRefreshing, refresh, leaving, horizon, cause, expiries>>

LoginStore(t) ==
    /\ entering[t] # 0
    /\ token' = entering[t]
    /\ page' = [page EXCEPT ![t] = Guarded(token')]
    /\ entering' = [entering EXCEPT ![t] = 0]
    /\ UNCHANGED <<cookie, req, isRefreshing, refresh, leaving, server, cause, bounds>>

(* A wrong password is a 401 that is not retried: it signs out every tab's *)
(* localStorage and loads /login again.                                    *)
LoginRefused(t) ==
    /\ page[t] = "login"
    /\ Incident
    /\ Leave(t)
    /\ Abort(t)
    /\ UNCHANGED <<cookie, horizon, cause, expiries>>

(* logout waits for /auth/logout before it clears anything, and goes on    *)
(* when the call fails.  The server answers without an error when the      *)
(* session could not be revoked.                                           *)
Logout(t) ==
    /\ page[t] = "app"
    /\ ~leaving[t]
    /\ Incident
    /\ \/ live' = live \ {cookie}
       \/ UNCHANGED live
    /\ \/ cookie' = 0
       \/ UNCHANGED cookie
    /\ leaving' = [leaving EXCEPT ![t] = TRUE]
    /\ cause' = TRUE
    /\ UNCHANGED <<token, page, req, isRefreshing, refresh, entering, issued, horizon, expiries>>

(* The security page signs out everywhere, and 1500 ms later this browser. *)
LogoutAll(t) ==
    /\ page[t] = "app"
    /\ ~leaving[t]
    /\ Incident
    /\ Authorized(token)
    /\ live' = {}
    /\ cookie' = 0
    /\ leaving' = [leaving EXCEPT ![t] = TRUE]
    /\ cause' = TRUE
    /\ UNCHANGED <<token, page, req, isRefreshing, refresh, entering, issued, horizon, expiries>>

LogoutLeave(t) ==
    /\ leaving[t]
    /\ Leave(t)
    /\ Abort(t)
    /\ UNCHANGED <<cookie, horizon, cause, bounds>>

-----------------------------------------------------------------------------
(* Time and the network.                                                   *)

TokensExpire ==
    /\ expiries < MaxExpiries
    /\ expiries' = expiries + 1
    /\ horizon' \in horizon + 1 .. issued
    /\ UNCHANGED <<client, refresh, live, issued, cause, incidents>>

(* The browser's session ends on the server: too old, or revoked from      *)
(* elsewhere.                                                              *)
SessionEnds ==
    /\ Incident
    /\ cookie \in live
    /\ live' = live \ {cookie}
    /\ cause' = TRUE
    /\ UNCHANGED <<client, refresh, issued, horizon, expiries>>

(* No answer within fifteen seconds: the request is rejected.              *)
Timeout(t, r) ==
    /\ req[t][r].phase \in {"sent", "unauthorized"}
    /\ req' = [req EXCEPT ![t][r] = Done]
    /\ UNCHANGED <<cookie, token, page, isRefreshing, refresh, signing, server, cause, bounds>>

(* The refresh itself gets no answer: the tab signs out, the cookies stay. *)
RefreshTimeout(t) ==
    /\ Incident
    /\ refresh[t].phase \in {"sent", "found", "ok", "failed"}
    /\ Leave(t)
    /\ Abort(t)
    /\ cause' = TRUE
    /\ UNCHANGED <<cookie, horizon, expiries>>

(* Reloads while the tab refreshes; at other times one drops its requests   *)
(* as their time-outs do, and its guard is AuthGuard.                       *)
Reload(t) ==
    /\ Incident
    /\ isRefreshing[t]
    /\ page' = [page EXCEPT ![t] = IF @ = "app" THEN Guarded(token) ELSE @]
    /\ Unload(t)
    /\ Abort(t)
    /\ cause' = TRUE
    /\ UNCHANGED <<cookie, token, horizon, expiries>>

-----------------------------------------------------------------------------

RequestStep(t, r) ==
    \/ Serve(t, r)
    \/ Receive401Queue(t, r) \/ Receive401Refresh(t, r) \/ Receive401SignOut(t, r)

RefreshStep(t) ==
    \/ RefreshFind(t) \/ RefreshRotate(t)
    \/ RefreshAnswered(t)
    \/ RefreshOk(t) \/ RefreshFailed(t)

Next ==
    \/ \E t \in Tabs : \E r \in Requests[t] : Issue(t, r) \/ RequestStep(t, r) \/ Timeout(t, r)
    \/ \E t \in Tabs :
          \/ RefreshStep(t) \/ RefreshTimeout(t) \/ Reload(t)
          \/ AuthGuard(t)
          \/ LoginAnswer(t) \/ LoginStore(t) \/ LoginRefused(t)
          \/ Logout(t) \/ LogoutAll(t) \/ LogoutLeave(t)
    \/ SessionEnds
    \/ TokensExpire

(* The server answers and the event loop turns.                            *)
Fairness ==
    \A t \in Tabs :
        /\ \A r \in Requests[t] : WF_vars(RequestStep(t, r))
        /\ WF_vars(RefreshStep(t))

Spec == Init /\ [][Next]_vars /\ Fairness

-----------------------------------------------------------------------------
(* Properties.                                                             *)

(* However many requests of a tab are refused at once, the user stays      *)
(* signed in: a page goes to /login only after a logout, the end of the    *)
(* session, a lost answer, a token that expired under a retry, another tab *)
(* refreshing at the same time, or when a page mounts while the access     *)
(* token in localStorage has expired and no request has renewed it yet.    *)
NoSpuriousSignOut == (\E t \in Tabs : page[t] = "login") => cause

(* The variables have their types, isRefreshing is set for exactly one     *)
(* request, the one that asked for the refresh, and a request is queued    *)
(* only behind a refresh under way: whatever ends a refresh, an answer, a  *)
(* time-out, another sign-out or a reload, empties the queue with it.      *)
ClientWellFormed ==
    /\ TypeOK
    /\ \A t \in Tabs :
          /\ Cardinality({r \in Requests[t] : req[t][r].phase = "waiting"}) =
                 IF isRefreshing[t] THEN 1 ELSE 0
          /\ \A r \in Requests[t] : req[t][r].phase = "queued" => isRefreshing[t]

(* Every request is answered or rejected or its page is left: none waits   *)
(* in the queue for ever.                                                  *)
RequestsSettle ==
    \A t \in Tabs : \A r \in Requests[t] :
        req[t][r].phase # "new" ~> req[t][r].phase = "done"

=============================================================================
