-------------------------- MODULE WebClientProofs ---------------------------
(***************************************************************************)
(* For every set of tabs and of requests, however often tokens expire,     *)
(* users sign in and out, pages mount and answers are lost: a tab refreshes *)
(* for exactly one of its requests, none is queued without a refresh, and  *)
(* a page goes to /login only for a cause.                                 *)
(***************************************************************************)
EXTENDS WebClient, FiniteSetTheorems, TLAPS

-----------------------------------------------------------------------------
(* What holds of one tab: rs are its requests, ref its refresh, n the      *)
(* number of the last session, h that of the last token that expired.      *)

RequestOK(q, h) ==
    q.retry = TRUE => /\ q.phase = "sent" => q.token # 0
                      /\ q.phase = "unauthorized" => q.token <= h

TabOK(R, rs, refreshing, ref, n, h) ==
    /\ rs \in [R -> Request]
    /\ refreshing \in BOOLEAN
    /\ ref \in Refresh
    /\ ref.session <= n
    /\ ref.phase \in {"ok", "renewed"} => ref.session # 0
    /\ ref.phase # "none" <=> refreshing = TRUE
    /\ \A r, s \in R : rs[r].phase = "waiting" /\ rs[s].phase = "waiting" => r = s
    /\ (\E r \in R : rs[r].phase = "waiting") <=> refreshing = TRUE
    /\ \A r \in R : rs[r].phase = "queued" => refreshing = TRUE
    /\ \A r \in R : RequestOK(rs[r], h)

LEMMA TabLater ==
    ASSUME NEW R, NEW rs, NEW refreshing, NEW ref, NEW n \in Nat, NEW h \in Nat,
           TabOK(R, rs, refreshing, ref, n, h), NEW m \in Nat, NEW k \in Nat, n <= m, h <= k
    PROVE  TabOK(R, rs, refreshing, ref, m, k)
  <1>1. ref.session \in Nat
    BY DEF TabOK, Refresh
  <1>2. \A r \in R : rs[r] \in Request /\ rs[r].token \in Nat
    BY DEF TabOK, Request
  <1>3. \A r \in R : RequestOK(rs[r], k)
    BY <1>2 DEF TabOK, RequestOK
  <1>. QED  BY <1>1, <1>3 DEF TabOK

LEMMA TabQuiet ==
    ASSUME NEW R, NEW rs \in [R -> Request], NEW n \in Nat, NEW h \in Nat,
           \A r \in R : rs[r].phase \notin {"waiting", "queued"} /\ RequestOK(rs[r], h)
    PROVE  TabOK(R, rs, FALSE, NoRefresh, n, h)
  <1>1. NoRefresh \in Refresh /\ NoRefresh.phase = "none" /\ NoRefresh.session = 0
    BY DEF NoRefresh, Refresh
  <1>. QED  BY <1>1 DEF TabOK

(* The document of a tab is left.                                          *)
LEMMA TabLeft ==
    ASSUME NEW R, NEW n \in Nat, NEW h \in Nat, NEW rs,
           \A r \in R : rs[r] \in {NewRequest, Done}, rs = [r \in R |-> rs[r]]
    PROVE  TabOK(R, rs, FALSE, NoRefresh, n, h)
  <1>1. /\ NewRequest \in Request /\ NewRequest.phase = "new" /\ NewRequest.retry = FALSE
        /\ Done \in Request /\ Done.phase = "done" /\ Done.retry = FALSE
    BY DEF NewRequest, Done, Request
  <1>2. rs \in [R -> Request]
    BY <1>1
  <1>. QED  BY <1>1, <1>2, TabQuiet DEF RequestOK

(* A request of the tab changes that is not the one that asked.            *)
LEMMA TabRequest ==
    ASSUME NEW R, NEW rs, NEW refreshing, NEW ref, NEW n, NEW h,
           TabOK(R, rs, refreshing, ref, n, h), NEW r \in R, NEW q \in Request,
           rs[r].phase # "waiting", q.phase # "waiting", RequestOK(q, h),
           q.phase = "queued" => refreshing = TRUE
    PROVE  TabOK(R, [rs EXCEPT ![r] = q], refreshing, ref, n, h)
  <1>1. /\ [rs EXCEPT ![r] = q] \in [R -> Request]
        /\ \A s \in R : [rs EXCEPT ![r] = q][s] = IF s = r THEN q ELSE rs[s]
    BY DEF TabOK
  <1>2. PICK ps : ps = [rs EXCEPT ![r] = q]
    OBVIOUS
  <1>3. \A s \in R : ps[s].phase = "waiting" <=> rs[s].phase = "waiting"
    BY <1>1, <1>2
  <1>4. \A s \in R : RequestOK(ps[s], h)
    BY <1>1, <1>2 DEF TabOK
  <1>5. ps \in [R -> Request]
    BY <1>1, <1>2
  <1>6. \A s \in R : ps[s].phase = "queued" => refreshing = TRUE
    BY <1>1, <1>2 DEF TabOK
  <1>7. TabOK(R, ps, refreshing, ref, n, h)
    BY <1>3, <1>4, <1>5, <1>6 DEF TabOK
  <1>. QED  BY <1>2, <1>7

LEMMA TabAsks ==
    ASSUME NEW R, NEW rs, NEW ref, NEW n, NEW h,
           TabOK(R, rs, FALSE, ref, n, h), NEW r \in R, NEW q \in Request, NEW new \in Refresh,
           q.phase = "waiting", new.phase = "sent", new.session <= n
    PROVE  TabOK(R, [rs EXCEPT ![r] = q], TRUE, new, n, h)
  <1>1. /\ [rs EXCEPT ![r] = q] \in [R -> Request]
        /\ \A s \in R : [rs EXCEPT ![r] = q][s] = IF s = r THEN q ELSE rs[s]
    BY DEF TabOK
  <1>2. PICK ps : ps = [rs EXCEPT ![r] = q]
    OBVIOUS
  <1>3. \A s \in R : ps[s].phase = "waiting" <=> s = r
    BY <1>1, <1>2 DEF TabOK
  <1>4. RequestOK(q, h)
    BY DEF RequestOK
  <1>5. \A s \in R : RequestOK(ps[s], h)
    BY <1>1, <1>2, <1>4 DEF TabOK
  <1>6. ps \in [R -> Request]
    BY <1>1, <1>2
  <1>7. TabOK(R, ps, TRUE, new, n, h)
    BY <1>3, <1>5, <1>6 DEF TabOK
  <1>. QED  BY <1>2, <1>7

LEMMA TabRefreshes ==
    ASSUME NEW R, NEW rs, NEW refreshing, NEW ref, NEW n, NEW h,
           TabOK(R, rs, refreshing, ref, n, h), ref.phase # "none",
           NEW new \in Refresh, new.phase # "none", new.session <= n,
           new.phase \in {"ok", "renewed"} => new.session # 0
    PROVE  TabOK(R, rs, refreshing, new, n, h)
  BY DEF TabOK

LEMMA TabResumes ==
    ASSUME NEW R, NEW rs, NEW refreshing, NEW ref, NEW n \in Nat, NEW h \in Nat,
           TabOK(R, rs, refreshing, ref, n, h), NEW new \in Nat \ {0},
           NEW ps, ps = [r \in R |-> CASE rs[r].phase = "waiting" -> Sent(new, TRUE)
                                       [] rs[r].phase = "queued"  -> Sent(new, FALSE)
                                       [] OTHER -> rs[r]]
    PROVE  TabOK(R, ps, FALSE, NoRefresh, n, h)
  <1>1. /\ Sent(new, TRUE) \in Request /\ Sent(new, FALSE) \in Request
        /\ Sent(new, TRUE).phase = "sent" /\ Sent(new, FALSE).phase = "sent"
        /\ Sent(new, TRUE).token # 0 /\ Sent(new, FALSE).retry = FALSE
    BY DEF Sent, Request
  <1>2. \A r \in R : \/ ps[r] = Sent(new, TRUE) \/ ps[r] = Sent(new, FALSE)
                     \/ ps[r] = rs[r] /\ rs[r].phase \notin {"waiting", "queued"}
    OBVIOUS
  <1>3. \A r \in R : ps[r] \in Request /\ ps[r].phase \notin {"waiting", "queued"}
    BY <1>1, <1>2 DEF TabOK
  <1>4. ps \in [R -> Request]
    BY <1>3
  <1>5. RequestOK(Sent(new, TRUE), h) /\ RequestOK(Sent(new, FALSE), h)
    BY <1>1 DEF RequestOK
  <1>6. \A r \in R : RequestOK(ps[r], h)
    BY <1>2, <1>5 DEF TabOK
  <1>. QED  BY <1>3, <1>4, <1>6, TabQuiet

-----------------------------------------------------------------------------
(* The inductive invariant: the shape of everything, and what is so while  *)
(* nothing happened that may sign a tab out.                               *)

Numbers ==
    /\ issued \in Nat /\ horizon \in Nat /\ horizon <= issued
    /\ cookie \in 0..issued /\ token \in 0..issued
    /\ live \subseteq 1..issued
    /\ cause \in BOOLEAN

Signing ==
    /\ page \in [Tabs -> {"app", "login"}]
    /\ entering \in [Tabs -> 0..issued]
    /\ leaving \in [Tabs -> BOOLEAN]

Shape ==
    /\ Numbers
    /\ Signing
    /\ req = [t \in Tabs |-> req[t]]
    /\ isRefreshing = [t \in Tabs |-> isRefreshing[t]]
    /\ refresh = [t \in Tabs |-> refresh[t]]
    /\ \A t \in Tabs : TabOK(Requests[t], req[t], isRefreshing[t], refresh[t], issued, horizon)

Calm ==
    /\ token # 0
    /\ \A t \in Tabs : /\ page[t] = "app"
                       /\ entering[t] = 0
                       /\ leaving[t] = FALSE
                       /\ refresh[t].phase \notin {"failed", "refused"}
                       /\ refresh[t].phase \in {"sent", "found"} =>
                              refresh[t].session = cookie /\ refresh[t].header = TRUE
                       /\ refresh[t].phase = "ok" => refresh[t].session \in live
    /\ \A t, u \in Tabs : refresh[t].phase # "none" /\ refresh[u].phase # "none" => t = u
    /\ (\A t \in Tabs : refresh[t].phase # "ok") => cookie \in live

Inv == Shape /\ (cause = FALSE => Calm)

(* A step of tab t, in terms of what it makes of the tab.                  *)
Becomes(t, rs, refreshing, ref) ==
    /\ req' = [req EXCEPT ![t] = rs]
    /\ isRefreshing' = [isRefreshing EXCEPT ![t] = refreshing]
    /\ refresh' = [refresh EXCEPT ![t] = ref]

LEMMA SigningStays ==
    ASSUME Signing, issued \in Nat, issued' \in Nat, issued <= issued',
           UNCHANGED <<page, entering, leaving>>
    PROVE  Signing'
  <1>1. 0..issued \subseteq 0..issued'
    OBVIOUS
  <1>. QED  BY <1>1 DEF Signing

LEMMA BecomesShape ==
    ASSUME Shape, NEW t \in Tabs, NEW rs, NEW refreshing, NEW ref, Becomes(t, rs, refreshing, ref),
           Numbers', issued <= issued', horizon <= horizon',
           Signing',
           TabOK(Requests[t], rs, refreshing, ref, issued', horizon')
    PROVE  /\ Shape'
           /\ req'[t] = rs /\ isRefreshing'[t] = refreshing /\ refresh'[t] = ref
           /\ \A u \in Tabs : u # t => refresh'[u] = refresh[u]
  <1>1. /\ req' = [u \in Tabs |-> IF u = t THEN rs ELSE req[u]]
        /\ isRefreshing' = [u \in Tabs |-> IF u = t THEN refreshing ELSE isRefreshing[u]]
        /\ refresh' = [u \in Tabs |-> IF u = t THEN ref ELSE refresh[u]]
    BY DEF Shape, Becomes
  <1>2. PICK m, k : m = issued' /\ k = horizon'
    OBVIOUS
  <1>3. m \in Nat /\ k \in Nat /\ issued \in Nat /\ horizon \in Nat /\ issued <= m /\ horizon <= k
    BY <1>2 DEF Shape, Numbers
  <1>4. ASSUME NEW u \in Tabs, u # t
        PROVE  TabOK(Requests[u], req'[u], isRefreshing'[u], refresh'[u], m, k)
    <2>1. TabOK(Requests[u], req[u], isRefreshing[u], refresh[u], m, k)
      BY <1>3, TabLater DEF Shape
    <2>. QED  BY <1>1, <1>4, <2>1
  <1>5. TabOK(Requests[t], req'[t], isRefreshing'[t], refresh'[t], m, k)
    BY <1>1, <1>2
  <1>6. /\ req' = [u \in Tabs |-> req'[u]]
        /\ isRefreshing' = [u \in Tabs |-> isRefreshing'[u]]
        /\ refresh' = [u \in Tabs |-> refresh'[u]]
    BY <1>1
  <1>7. \A u \in Tabs : TabOK(Requests[u], req'[u], isRefreshing'[u], refresh'[u], m, k)
    BY <1>4, <1>5
  <1>8. Shape'
    BY <1>2, <1>6, <1>7 DEF Shape
  <1>. QED  BY <1>1, <1>8

(* A request that is not the one waiting changes, and nothing else.        *)
LEMMA OneRequest ==
    ASSUME Inv, NEW t \in Tabs, NEW r \in Requests[t], NEW q \in Request,
           req[t][r].phase # "waiting", q.phase # "waiting", RequestOK(q, horizon),
           q.phase = "queued" => isRefreshing[t] = TRUE,
           req' = [req EXCEPT ![t][r] = q],
           UNCHANGED <<cookie, token, page, isRefreshing, refresh, signing, server, cause>>
    PROVE  Inv'
  <1>0. UNCHANGED <<cookie, token, page, isRefreshing, refresh, entering, leaving,
                    live, issued, horizon, cause>>
    BY DEF server, signing
  <1>1. /\ Shape /\ (cause = FALSE => Calm)
        /\ TabOK(Requests[t], req[t], isRefreshing[t], refresh[t], issued, horizon)
    BY DEF Inv, Shape
  <1>2. PICK rs : rs = [req[t] EXCEPT ![r] = q]
    OBVIOUS
  <1>3. TabOK(Requests[t], rs, isRefreshing[t], refresh[t], issued, horizon)
    BY <1>1, <1>2, TabRequest
  <1>4. Becomes(t, rs, isRefreshing[t], refresh[t])
    <2>1. req' = [req EXCEPT ![t] = rs]
      BY <1>2
    <2>2. /\ isRefreshing = [isRefreshing EXCEPT ![t] = isRefreshing[t]]
          /\ refresh = [refresh EXCEPT ![t] = refresh[t]]
      BY <1>1 DEF Shape
    <2>. QED  BY <1>0, <2>1, <2>2 DEF Becomes
  <1>5. Numbers' /\ issued <= issued' /\ horizon <= horizon' /\ Signing'
    BY <1>0, <1>1 DEF Shape, Numbers, Signing
  <1>6. Shape'
    BY <1>0, <1>1, <1>3, <1>4, <1>5, BecomesShape
  <1>7. cause' = FALSE => Calm'
    BY <1>0, <1>1 DEF Calm
  <1>. QED  BY <1>6, <1>7 DEF Inv

LEMMA IssueStep ==
    ASSUME Inv, NEW t \in Tabs, NEW r \in Requests[t],
           Issue(t, r) \/ Serve(t, r) \/ Receive401Queue(t, r) \/ Timeout(t, r)
    PROVE  Inv'
  <1>0. /\ Shape /\ (cause = FALSE => Calm) /\ token \in Nat /\ horizon \in Nat
        /\ TabOK(Requests[t], req[t], isRefreshing[t], refresh[t], issued, horizon)
    BY DEF Inv, Shape, Numbers
  <1>1. PICK p \in Request : p = req[t][r]
    BY <1>0 DEF TabOK
  <1>2. RequestOK(p, horizon)
    BY <1>0, <1>1 DEF TabOK
  <1>3. /\ Done \in Request /\ Done.phase = "done" /\ RequestOK(Done, horizon)
        /\ Sent(token, FALSE) \in Request /\ Sent(token, FALSE).phase = "sent"
        /\ RequestOK(Sent(token, FALSE), horizon)
    BY <1>0 DEF Done, Sent, Request, RequestOK
  <1>4. CASE Issue(t, r)
    BY <1>1, <1>3, <1>4, OneRequest DEF Issue
  <1>5. CASE Serve(t, r)
    <2>1. PICK q : q = IF Authorized(p.token) THEN Done ELSE [p EXCEPT !.phase = "unauthorized"]
      OBVIOUS
    <2>2. p.phase = "sent" /\ req' = [req EXCEPT ![t][r] = q]
      BY <1>1, <1>5, <2>1 DEF Serve
    <2>3. q \in Request /\ q.phase \in {"done", "unauthorized"}
      BY <1>1, <1>3, <2>1 DEF Request
    <2>4. RequestOK(q, horizon)
      <3>1. CASE q = Done
        BY <1>3, <3>1
      <3>2. CASE ~Authorized(p.token) /\ q = [p EXCEPT !.phase = "unauthorized"]
        <4>1. q.token = p.token /\ q.retry = p.retry /\ q.phase = "unauthorized" /\ p.token \in Nat
          BY <1>1, <3>2 DEF Request
        <4>2. p.token # 0 => p.token <= horizon
          BY <1>0, <3>2, <4>1 DEF Authorized
        <4>. QED  BY <1>2, <2>2, <4>1, <4>2 DEF RequestOK
      <3>. QED  BY <2>1, <3>1, <3>2
    <2>. QED  BY <1>1, <1>5, <2>2, <2>3, <2>4, OneRequest DEF Serve
  <1>6. CASE Receive401Queue(t, r)
    <2>1. PICK q : q = [p EXCEPT !.phase = "queued", !.token = 0]
      OBVIOUS
    <2>2. /\ p.phase = "unauthorized" /\ req' = [req EXCEPT ![t][r] = q] /\ ~p.retry
          /\ isRefreshing[t] = TRUE
      BY <1>0, <1>1, <1>6, <2>1 DEF Receive401Queue, MustQueue, TabOK
    <2>3. q \in Request /\ q.phase = "queued"
      BY <1>1, <2>1 DEF Request
    <2>4. RequestOK(q, horizon)
      BY <2>3 DEF RequestOK
    <2>. QED  BY <1>1, <1>6, <2>2, <2>3, <2>4, OneRequest DEF Receive401Queue
  <1>7. CASE Timeout(t, r)
    BY <1>1, <1>3, <1>7, OneRequest DEF Timeout
  <1>. QED  BY <1>4, <1>5, <1>6, <1>7

LEMMA AskStep ==
    ASSUME Inv, NEW t \in Tabs, NEW r \in Requests[t], Receive401Refresh(t, r)
    PROVE  Inv'
  <1>0. /\ Shape /\ (cause = FALSE => Calm) /\ Numbers
        /\ TabOK(Requests[t], req[t], isRefreshing[t], refresh[t], issued, horizon)
    BY DEF Inv, Shape
  <1>1. PICK q, ref : /\ q = [phase |-> "waiting", token |-> 0, retry |-> TRUE]
                      /\ ref = [phase |-> "sent", session |-> cookie, header |-> token # 0]
    OBVIOUS
  <1>2. q \in Request /\ q.phase = "waiting"
    BY <1>1 DEF Request
  <1>3. /\ ref \in Refresh /\ ref.phase = "sent" /\ ref.session = cookie /\ ref.header = (token # 0)
        /\ ref.session <= issued
    BY <1>0, <1>1 DEF Refresh, Numbers
  <1>4. PICK rs : rs = [req[t] EXCEPT ![r] = q]
    OBVIOUS
  <1>5. isRefreshing[t] = FALSE
    BY <1>0 DEF Receive401Refresh, MustQueue, TabOK
  <1>6. TabOK(Requests[t], rs, TRUE, ref, issued, horizon)
    <2>1. TabOK(Requests[t], req[t], FALSE, refresh[t], issued, horizon)
      BY <1>0, <1>5
    <2>2. TabOK(Requests[t], [req[t] EXCEPT ![r] = q], TRUE, ref, issued, horizon)
      BY <1>2, <1>3, <2>1, TabAsks
    <2>. QED  BY <1>4, <2>2
  <1>7. Becomes(t, rs, TRUE, ref)
    BY <1>1, <1>4 DEF Receive401Refresh, Becomes
  <1>8. UNCHANGED <<cookie, token, page, entering, leaving, live, issued, horizon>>
    BY DEF Receive401Refresh, server, signing
  <1>9. cause' \in BOOLEAN /\ (cause' = FALSE => /\ cause = FALSE
                                                /\ \A u \in Tabs \ {t} : isRefreshing[u] = FALSE)
    <2>1. \A u \in Tabs : isRefreshing[u] \in BOOLEAN
      BY <1>0 DEF Shape, TabOK
    <2>2. cause' = (cause \/ \E u \in Tabs \ {t} : isRefreshing[u])
      BY DEF Receive401Refresh
    <2>3. cause \in BOOLEAN
      BY <1>0 DEF Numbers
    <2>. QED  BY <2>1, <2>2, <2>3
  <1>10. Numbers' /\ issued <= issued' /\ horizon <= horizon' /\ Signing'
    BY <1>0, <1>8, <1>9 DEF Shape, Numbers, Signing
  <1>11. /\ Shape' /\ refresh'[t] = ref
         /\ \A u \in Tabs : u # t => refresh'[u] = refresh[u]
    BY <1>0, <1>6, <1>7, <1>8, <1>10, BecomesShape
  <1>12. ASSUME cause' = FALSE PROVE Calm'
    <2>1. Calm /\ \A u \in Tabs : u # t => refresh[u].phase = "none"
      BY <1>0, <1>9, <1>12 DEF Shape, TabOK
    <2>2. refresh[t].phase = "none"
      BY <1>0, <1>5 DEF TabOK
    <2>3. cookie \in live
      BY <2>1, <2>2 DEF Calm
    <2>4. PICK rf : rf = refresh'
      OBVIOUS
    <2>5. \A u \in Tabs : IF u = t THEN rf[u] = ref ELSE rf[u].phase = "none"
      BY <1>11, <2>1, <2>4
    <2>. QED  BY <1>3, <1>8, <2>1, <2>3, <2>4, <2>5 DEF Calm
  <1>. QED  BY <1>0, <1>8, <1>11, <1>12 DEF Inv

(* A document that is left, whatever becomes of the call it made.          *)
LEMMA UnloadStep ==
    ASSUME Inv, NEW t \in Tabs, Unload(t), page' \in [Tabs -> {"app", "login"}],
           Numbers', issued' = issued, horizon <= horizon', cause' = TRUE
    PROVE  Inv'
  <1>1. Shape /\ issued \in Nat /\ issued' \in Nat /\ horizon' \in Nat
    BY DEF Inv, Shape, Numbers
  <1>2. PICK rs, m, k : /\ rs = [r \in Requests[t] |->
                                     IF req[t][r].phase = "new" THEN NewRequest ELSE Done]
                        /\ m = issued' /\ k = horizon'
    OBVIOUS
  <1>3. TabOK(Requests[t], rs, FALSE, NoRefresh, m, k)
    <2>1. \A r \in Requests[t] : rs[r] \in {NewRequest, Done}
      BY <1>2
    <2>2. rs = [r \in Requests[t] |-> rs[r]]
      BY <1>2
    <2>. QED  BY <1>1, <1>2, <2>1, <2>2, TabLeft
  <1>4. Becomes(t, rs, FALSE, NoRefresh)
    BY <1>2 DEF Becomes, Unload
  <1>5. Signing'
    <2>1. entering' = [entering EXCEPT ![t] = 0] /\ leaving' = [leaving EXCEPT ![t] = FALSE]
      BY DEF Unload
    <2>2. entering \in [Tabs -> 0..issued] /\ leaving \in [Tabs -> BOOLEAN] /\ 0 \in 0..issued
      BY <1>1 DEF Shape, Signing
    <2>. QED  BY <2>1, <2>2 DEF Signing
  <1>6. TabOK(Requests[t], rs, FALSE, NoRefresh, issued', horizon')
    BY <1>2, <1>3
  <1>7. issued <= issued'
    BY <1>1
  <1>8. Shape'
    BY <1>1, <1>4, <1>5, <1>6, <1>7, BecomesShape
  <1>. QED  BY <1>8 DEF Inv

LEMMA AbortNumbers ==
    ASSUME Inv, NEW t \in Tabs, Abort(t), UNCHANGED horizon,
           cookie' \in {0, cookie}, token' \in {0, token}, cause' \in BOOLEAN
    PROVE  Numbers' /\ issued' = issued /\ horizon <= horizon'
  <1>1. Numbers
    BY DEF Inv, Shape
  <1>2. issued' = issued /\ live' \subseteq live
    BY DEF Abort
  <1>. QED  BY <1>1, <1>2 DEF Numbers

LEMMA LeavePage ==
    ASSUME Inv, NEW t \in Tabs, Leave(t)
    PROVE  page' \in [Tabs -> {"app", "login"}] /\ token' = 0 /\ Unload(t)
  BY DEF Inv, Shape, Signing, Leave

LEMMA SignOutStep ==
    ASSUME Inv, NEW t \in Tabs, NEW r \in Requests[t], Receive401SignOut(t, r)
    PROVE  Inv'
  <1>0. /\ Shape /\ Numbers
        /\ TabOK(Requests[t], req[t], isRefreshing[t], refresh[t], issued, horizon)
    BY DEF Inv, Shape
  <1>1. req[t][r] \in Request /\ RequestOK(req[t][r], horizon)
    BY <1>0 DEF TabOK
  <1>2. req[t][r].retry = TRUE /\ req[t][r].phase = "unauthorized"
    BY <1>1 DEF Receive401SignOut, Request
  <1>3. req[t][r].token <= horizon
    BY <1>1, <1>2 DEF RequestOK
  <1>4. cause' = TRUE
    BY <1>0, <1>3 DEF Receive401SignOut, Numbers
  <1>5. UNCHANGED <<cookie, horizon>> /\ Abort(t) /\ Leave(t)
    BY DEF Receive401SignOut
  <1>6. page' \in [Tabs -> {"app", "login"}] /\ token' = 0 /\ Unload(t)
    BY <1>5, LeavePage
  <1>7. Numbers' /\ issued' = issued /\ horizon <= horizon'
    BY <1>4, <1>5, <1>6, AbortNumbers
  <1>. QED  BY <1>4, <1>6, <1>7, UnloadStep

LEMMA LostStep ==
    ASSUME Inv, NEW t \in Tabs, RefreshTimeout(t) \/ Reload(t)
    PROVE  Inv'
  <1>0. Shape
    BY DEF Inv
  <1>1. cause' = TRUE /\ UNCHANGED <<cookie, horizon>> /\ Abort(t)
    BY DEF RefreshTimeout, Reload
  <1>2. page' \in [Tabs -> {"app", "login"}] /\ token' \in {0, token} /\ Unload(t)
    <2>1. CASE RefreshTimeout(t)
      BY <2>1, LeavePage DEF RefreshTimeout
    <2>2. CASE Reload(t)
      BY <1>0, <2>2 DEF Reload, Shape, Signing, Guarded
    <2>. QED  BY <2>1, <2>2
  <1>3. Numbers' /\ issued' = issued /\ horizon <= horizon'
    BY <1>1, <1>2, AbortNumbers
  <1>. QED  BY <1>1, <1>2, <1>3, UnloadStep

(* A login refused or a logout that ends leaves the page; neither happens  *)
(* while nothing happened that may sign a tab out.                         *)
LEMMA DoorStep ==
    ASSUME Inv, NEW t \in Tabs, LoginRefused(t) \/ LogoutLeave(t)
    PROVE  Inv'
  <1>1. UNCHANGED <<cookie, horizon, cause>> /\ Abort(t) /\ Leave(t)
    BY DEF LoginRefused, LogoutLeave
  <1>2. ~Calm
    BY DEF LoginRefused, LogoutLeave, Calm
  <1>3. cause' = TRUE
    BY <1>1, <1>2 DEF Inv, Shape, Numbers
  <1>4. page' \in [Tabs -> {"app", "login"}] /\ token' = 0 /\ Unload(t)
    BY <1>1, LeavePage
  <1>5. Numbers' /\ issued' = issued /\ horizon <= horizon'
    BY <1>1, <1>3, <1>4, AbortNumbers
  <1>. QED  BY <1>3, <1>4, <1>5, UnloadStep

(* Only a refresh that failed leaves without a cause of its own.           *)
LEMMA FailedStep ==
    ASSUME Inv, NEW t \in Tabs, RefreshFailed(t)
    PROVE  Inv'
  <1>0. Shape /\ Numbers
    BY DEF Inv, Shape
  <1>1. UNCHANGED <<cookie, live, issued, horizon, cause>> /\ Leave(t)
    BY DEF RefreshFailed, server
  <1>2. page' \in [Tabs -> {"app", "login"}] /\ token' = 0 /\ Unload(t)
    BY <1>1, LeavePage
  <1>3. Numbers' /\ issued' = issued /\ horizon <= horizon'
    BY <1>0, <1>1, <1>2 DEF Numbers
  <1>4. ~Calm
    BY DEF RefreshFailed, Calm
  <1>5. cause' = TRUE
    BY <1>0, <1>1, <1>4 DEF Inv, Numbers
  <1>. QED  BY <1>2, <1>3, <1>5, UnloadStep

-----------------------------------------------------------------------------
(* The refresh.                                                            *)

LEMMA FindStep ==
    ASSUME Inv, NEW t \in Tabs, RefreshFind(t)
    PROVE  Inv'
  <1>0. /\ Shape /\ Numbers /\ (cause = FALSE => Calm)
        /\ TabOK(Requests[t], req[t], isRefreshing[t], refresh[t], issued, horizon)
    BY DEF Inv, Shape
  <1>1. PICK p \in Refresh : p = refresh[t]
    BY <1>0 DEF TabOK
  <1>2. PICK ok \in BOOLEAN : ok <=> (p.session \in live /\ HasClaims(t))
    OBVIOUS
  <1>3. PICK ref : ref = [p EXCEPT !.phase = IF ok THEN "found" ELSE "failed"]
    OBVIOUS
  <1>4. /\ ref \in Refresh /\ ref.session = p.session /\ ref.header = p.header
        /\ ref.phase = IF ok THEN "found" ELSE "failed"
    BY <1>1, <1>2, <1>3 DEF Refresh
  <1>5. /\ p.phase = "sent" /\ p.session <= issued
        /\ refresh' = [refresh EXCEPT ![t] = ref]
        /\ live' \subseteq live /\ (ok => live' = live)
    BY <1>0, <1>1, <1>2, <1>3 DEF RefreshFind, TabOK
  <1>6. UNCHANGED <<cookie, token, page, req, isRefreshing, entering, leaving, issued, horizon, cause>>
    BY DEF RefreshFind, client, signing
  <1>7. TabOK(Requests[t], req[t], isRefreshing[t], ref, issued, horizon)
    BY <1>0, <1>1, <1>4, <1>5, TabRefreshes
  <1>8. Becomes(t, req[t], isRefreshing[t], ref)
    <2>1. /\ req = [req EXCEPT ![t] = req[t]]
          /\ isRefreshing = [isRefreshing EXCEPT ![t] = isRefreshing[t]]
      BY <1>0 DEF Shape
    <2>. QED  BY <1>5, <1>6, <2>1 DEF Becomes
  <1>9. Numbers' /\ issued <= issued' /\ horizon <= horizon' /\ Signing'
    BY <1>0, <1>5, <1>6 DEF Shape, Numbers, Signing
  <1>10. /\ Shape' /\ refresh'[t] = ref
         /\ \A u \in Tabs : u # t => refresh'[u] = refresh[u]
    BY <1>0, <1>6, <1>7, <1>8, <1>9, BecomesShape
  <1>11. ASSUME cause' = FALSE PROVE Calm'
    <2>1. Calm
      BY <1>0, <1>6, <1>11
    <2>2. \A u \in Tabs : u # t => refresh[u].phase = "none"
      BY <1>1, <1>5, <2>1 DEF Calm
    <2>3. p.session = cookie /\ p.header = TRUE /\ cookie \in live
      BY <1>1, <1>5, <2>1, <2>2 DEF Calm
    <2>4. ok
      BY <1>1, <1>2, <2>3 DEF HasClaims
    <2>5. PICK rf : rf = refresh'
      OBVIOUS
    <2>6. /\ \A u \in Tabs : IF u = t THEN rf[u] = ref ELSE rf[u].phase = "none"
          /\ ref.phase = "found" /\ ref.session = cookie /\ ref.header = TRUE
      BY <1>4, <1>10, <2>2, <2>3, <2>4, <2>5
    <2>7. live' = live
      BY <1>5, <2>4
    <2>. QED  BY <1>6, <2>1, <2>3, <2>5, <2>6, <2>7 DEF Calm
  <1>. QED  BY <1>0, <1>6, <1>10, <1>11 DEF Inv

LEMMA RotateStep ==
    ASSUME Inv, NEW t \in Tabs, RefreshRotate(t)
    PROVE  Inv'
  <1>0. /\ Shape /\ Numbers /\ (cause = FALSE => Calm)
        /\ TabOK(Requests[t], req[t], isRefreshing[t], refresh[t], issued, horizon)
    BY DEF Inv, Shape
  <1>1. PICK n \in Nat : n = issued
    BY <1>0 DEF Numbers
  <1>2. /\ issued' = n + 1 /\ live' = (live \ {refresh[t].session}) \cup {n + 1}
        /\ refresh[t].phase = "found"
        /\ UNCHANGED <<cookie, token, page, req, isRefreshing, entering, leaving, horizon, cause>>
    BY <1>1 DEF RefreshRotate, Rotate, client, signing
  <1>3. PICK ref : ref = [phase |-> "ok", session |-> n + 1, header |-> FALSE]
    OBVIOUS
  <1>4. ref \in Refresh /\ ref.phase = "ok" /\ ref.session = n + 1
    BY <1>3 DEF Refresh
  <1>5. refresh' = [refresh EXCEPT ![t] = ref]
    BY <1>2, <1>3 DEF RefreshRotate
  <1>6. Numbers' /\ issued <= issued' /\ horizon <= horizon' /\ Signing'
    <2>1. live' \subseteq 1..(n + 1)
      <3>1. live \subseteq 1..n /\ 1..n \subseteq 1..(n + 1) /\ n + 1 \in 1..(n + 1)
        BY <1>0, <1>1 DEF Numbers
      <3>. QED  BY <1>2, <3>1
    <2>2. Numbers' /\ issued <= issued' /\ horizon <= horizon'
      BY <1>0, <1>1, <1>2, <2>1 DEF Numbers
    <2>. QED  BY <1>0, <1>2, <2>2, SigningStays DEF Shape, Numbers
  <1>7. TabOK(Requests[t], req[t], isRefreshing[t], refresh[t], n + 1, horizon)
    BY <1>0, <1>1, TabLater DEF Numbers
  <1>8. TabOK(Requests[t], req[t], isRefreshing[t], ref, n + 1, horizon)
    BY <1>2, <1>4, <1>7, TabRefreshes
  <1>9. Becomes(t, req[t], isRefreshing[t], ref)
    <2>1. /\ req = [req EXCEPT ![t] = req[t]]
          /\ isRefreshing = [isRefreshing EXCEPT ![t] = isRefreshing[t]]
      BY <1>0 DEF Shape
    <2>. QED  BY <1>2, <1>5, <2>1 DEF Becomes
  <1>10. /\ Shape' /\ refresh'[t] = ref
         /\ \A u \in Tabs : u # t => refresh'[u] = refresh[u]
    BY <1>0, <1>2, <1>6, <1>8, <1>9, BecomesShape
  <1>11. ASSUME cause' = FALSE PROVE Calm'
    <2>1. Calm
      BY <1>0, <1>2, <1>11
    <2>2. \A u \in Tabs : u # t => refresh[u].phase = "none"
      BY <1>2, <2>1 DEF Calm
    <2>3. PICK rf : rf = refresh'
      OBVIOUS
    <2>4. \A u \in Tabs : IF u = t THEN rf[u] = ref ELSE rf[u].phase = "none"
      BY <1>10, <2>2, <2>3
    <2>5. ref.session \in live'
      BY <1>2, <1>4
    <2>. QED  BY <1>2, <1>4, <2>1, <2>3, <2>4, <2>5 DEF Calm
  <1>. QED  BY <1>0, <1>2, <1>10, <1>11 DEF Inv

LEMMA AnsweredStep ==
    ASSUME Inv, NEW t \in Tabs, RefreshAnswered(t)
    PROVE  Inv'
  <1>0. /\ Shape /\ Numbers /\ (cause = FALSE => Calm)
        /\ TabOK(Requests[t], req[t], isRefreshing[t], refresh[t], issued, horizon)
    BY DEF Inv, Shape
  <1>1. PICK p \in Refresh : p = refresh[t]
    BY <1>0 DEF TabOK
  <1>2. PICK ref : ref = [p EXCEPT !.phase = IF p.phase = "ok" THEN "renewed" ELSE "refused"]
    OBVIOUS
  <1>3. /\ ref \in Refresh /\ ref.session = p.session
        /\ ref.phase = IF p.phase = "ok" THEN "renewed" ELSE "refused"
    BY <1>1, <1>2 DEF Refresh
  <1>4. /\ p.phase \in {"ok", "failed"} /\ p.session \in Nat /\ p.session <= issued
        /\ p.phase = "ok" => p.session # 0
        /\ refresh' = [refresh EXCEPT ![t] = ref]
        /\ cookie' \in {0, cookie, p.session} /\ (p.phase = "ok" => cookie' = p.session)
    BY <1>0, <1>1, <1>2 DEF RefreshAnswered, TabOK, Refresh
  <1>5. UNCHANGED <<token, page, req, isRefreshing, entering, leaving, live, issued, horizon, cause>>
    BY DEF RefreshAnswered, server, signing
  <1>6. TabOK(Requests[t], req[t], isRefreshing[t], ref, issued, horizon)
    BY <1>0, <1>1, <1>3, <1>4, TabRefreshes
  <1>7. Becomes(t, req[t], isRefreshing[t], ref)
    <2>1. /\ req = [req EXCEPT ![t] = req[t]]
          /\ isRefreshing = [isRefreshing EXCEPT ![t] = isRefreshing[t]]
      BY <1>0 DEF Shape
    <2>. QED  BY <1>4, <1>5, <2>1 DEF Becomes
  <1>8. Numbers' /\ issued <= issued' /\ horizon <= horizon' /\ Signing'
    BY <1>0, <1>4, <1>5 DEF Shape, Numbers, Signing
  <1>9. /\ Shape' /\ refresh'[t] = ref
        /\ \A u \in Tabs : u # t => refresh'[u] = refresh[u]
    BY <1>0, <1>5, <1>6, <1>7, <1>8, BecomesShape
  <1>10. ASSUME cause' = FALSE PROVE Calm'
    <2>1. Calm
      BY <1>0, <1>5, <1>10
    <2>2. p.phase = "ok" /\ p.session \in live
      BY <1>1, <1>4, <2>1 DEF Calm
    <2>3. \A u \in Tabs : u # t => refresh[u].phase = "none"
      BY <1>1, <2>1, <2>2 DEF Calm
    <2>4. PICK rf : rf = refresh'
      OBVIOUS
    <2>5. /\ \A u \in Tabs : IF u = t THEN rf[u] = ref ELSE rf[u].phase = "none"
          /\ ref.phase = "renewed"
      BY <1>3, <1>9, <2>2, <2>3, <2>4
    <2>6. cookie' \in live
      BY <1>4, <2>2
    <2>. QED  BY <1>5, <2>1, <2>4, <2>5, <2>6 DEF Calm
  <1>. QED  BY <1>0, <1>9, <1>10 DEF Inv

LEMMA OkStep ==
    ASSUME Inv, NEW t \in Tabs, RefreshOk(t)
    PROVE  Inv'
  <1>0. /\ Shape /\ Numbers /\ (cause = FALSE => Calm)
        /\ TabOK(Requests[t], req[t], isRefreshing[t], refresh[t], issued, horizon)
    BY DEF Inv, Shape
  <1>1. PICK new : new = refresh[t].session
    OBVIOUS
  <1>2. refresh[t].phase = "renewed"
    BY DEF RefreshOk
  <1>3. new \in Nat \ {0} /\ new <= issued
    BY <1>0, <1>1, <1>2 DEF TabOK, Refresh
  <1>4. PICK rs : rs = [r \in Requests[t] |-> CASE req[t][r].phase = "waiting" -> Sent(new, TRUE)
                                                [] req[t][r].phase = "queued"  -> Sent(new, FALSE)
                                                [] OTHER -> req[t][r]]
    OBVIOUS
  <1>5. token' = new /\ UNCHANGED <<cookie, page, entering, leaving, live, issued, horizon, cause>>
    BY <1>1 DEF RefreshOk, server, signing
  <1>6. Becomes(t, rs, FALSE, NoRefresh)
    BY <1>1, <1>4 DEF RefreshOk, Resumed, Becomes
  <1>7. issued \in Nat /\ horizon \in Nat
    BY <1>0 DEF Numbers
  <1>8. TabOK(Requests[t], rs, FALSE, NoRefresh, issued, horizon)
    BY <1>0, <1>3, <1>4, <1>7, TabResumes
  <1>9. Numbers' /\ issued <= issued' /\ horizon <= horizon' /\ Signing'
    BY <1>0, <1>3, <1>5 DEF Shape, Numbers, Signing
  <1>10. /\ Shape' /\ refresh'[t] = NoRefresh
         /\ \A u \in Tabs : u # t => refresh'[u] = refresh[u]
    BY <1>0, <1>5, <1>6, <1>8, <1>9, BecomesShape
  <1>11. ASSUME cause' = FALSE PROVE Calm'
    <2>1. Calm
      BY <1>0, <1>5, <1>11
    <2>2. \A u \in Tabs : u # t => refresh[u].phase = "none"
      BY <1>2, <2>1 DEF Calm
    <2>3. PICK rf : rf = refresh'
      OBVIOUS
    <2>4. \A u \in Tabs : rf[u].phase = "none"
      BY <1>10, <2>2, <2>3 DEF NoRefresh
    <2>5. \A u \in Tabs : refresh[u].phase # "ok"
      BY <1>2, <2>2
    <2>6. cookie' \in live'
      BY <1>5, <2>1, <2>5 DEF Calm
    <2>. QED  BY <1>3, <1>5, <2>1, <2>3, <2>4, <2>6 DEF Calm
  <1>. QED  BY <1>10, <1>11 DEF Inv

-----------------------------------------------------------------------------
(* Steps that touch no request and no refresh.                             *)

LEMMA QuietStep ==
    ASSUME Inv, UNCHANGED <<req, isRefreshing, refresh>>, Numbers', Signing',
           issued <= issued', horizon <= horizon', cause' = FALSE => Calm'
    PROVE  Inv'
  <1>1. Shape
    BY DEF Inv
  <1>2. PICK m, k : m = issued' /\ k = horizon'
    OBVIOUS
  <1>3. m \in Nat /\ k \in Nat /\ issued \in Nat /\ horizon \in Nat /\ issued <= m /\ horizon <= k
    BY <1>1, <1>2 DEF Shape, Numbers
  <1>4. \A u \in Tabs : TabOK(Requests[u], req[u], isRefreshing[u], refresh[u], m, k)
    BY <1>1, <1>3, TabLater DEF Shape
  <1>5. Shape'
    BY <1>1, <1>2, <1>4 DEF Shape
  <1>. QED  BY <1>5 DEF Inv

LEMMA LoginStep ==
    ASSUME Inv, NEW t \in Tabs, LoginAnswer(t) \/ LoginStore(t)
    PROVE  Inv'
  <1>0. /\ Shape /\ Numbers /\ Signing /\ (cause = FALSE => Calm)
    BY DEF Inv, Shape
  <1>1. UNCHANGED <<req, isRefreshing, refresh, leaving, horizon, cause>>
    BY DEF LoginAnswer, LoginStore, server
  <1>2. ~Calm
    BY DEF LoginAnswer, LoginStore, Calm
  <1>3. cause' = TRUE
    BY <1>0, <1>1, <1>2 DEF Numbers
  <1>4. PICK n \in Nat : n = issued
    BY <1>0 DEF Numbers
  <1>5. CASE LoginAnswer(t)
    <2>1. /\ issued' = n + 1 /\ live' = live \cup {n + 1} /\ cookie' = n + 1
          /\ entering' = [entering EXCEPT ![t] = n + 1] /\ UNCHANGED <<token, page>>
      BY <1>4, <1>5 DEF LoginAnswer
    <2>2. Numbers' /\ issued <= issued' /\ horizon <= horizon'
      BY <1>0, <1>1, <1>4, <2>1 DEF Numbers
    <2>3. entering \in [Tabs -> 0..(n + 1)]
      <3>1. 0..n \subseteq 0..(n + 1)
        OBVIOUS
      <3>. QED  BY <1>0, <1>4, <3>1 DEF Signing
    <2>4. Signing'
      BY <1>0, <1>1, <2>1, <2>3 DEF Signing
    <2>. QED  BY <1>1, <1>3, <2>2, <2>4, QuietStep
  <1>6. CASE LoginStore(t)
    <2>1. /\ token' = entering[t] /\ UNCHANGED <<cookie, live, issued>>
          /\ entering' = [entering EXCEPT ![t] = 0]
          /\ page' = [page EXCEPT ![t] = Guarded(token')]
      BY <1>6 DEF LoginStore, server
    <2>2. entering[t] \in 0..issued /\ 0 \in 0..issued
      BY <1>0 DEF Signing, Numbers
    <2>3. Numbers' /\ issued <= issued' /\ horizon <= horizon'
      BY <1>0, <1>1, <2>1, <2>2 DEF Numbers
    <2>4. Guarded(token') \in {"app", "login"}
      BY DEF Guarded
    <2>5. Signing'
      BY <1>0, <1>1, <2>1, <2>2, <2>4 DEF Signing
    <2>. QED  BY <1>1, <1>3, <2>3, <2>5, QuietStep
  <1>. QED  BY <1>5, <1>6

LEMMA GuardStep ==
    ASSUME Inv, NEW t \in Tabs, AuthGuard(t)
    PROVE  Inv'
  <1>0. /\ Shape /\ Numbers /\ Signing /\ (cause = FALSE => Calm)
    BY DEF Inv, Shape
  <1>1. /\ UNCHANGED <<cookie, token, req, isRefreshing, refresh, entering, leaving,
                       live, issued, horizon>>
        /\ page' = [page EXCEPT ![t] = "login"] /\ cause' = (cause \/ token # 0)
    BY DEF AuthGuard, server, signing
  <1>2. cause' = TRUE
    <2>1. token # 0 \/ cause = TRUE
      BY <1>0 DEF Calm, Numbers
    <2>2. cause \in BOOLEAN
      BY <1>0 DEF Numbers
    <2>. QED  BY <1>1, <2>1, <2>2
  <1>3. Numbers' /\ issued <= issued' /\ horizon <= horizon'
    BY <1>0, <1>1, <1>2 DEF Numbers
  <1>4. Signing'
    BY <1>0, <1>1 DEF Signing
  <1>. QED  BY <1>1, <1>2, <1>3, <1>4, QuietStep

LEMMA LogoutStep ==
    ASSUME Inv, NEW t \in Tabs, Logout(t) \/ LogoutAll(t)
    PROVE  Inv'
  <1>0. /\ Shape /\ Numbers /\ Signing
    BY DEF Inv, Shape
  <1>1. /\ UNCHANGED <<token, page, req, isRefreshing, refresh, entering, issued, horizon>>
        /\ cause' = TRUE /\ cookie' \in {0, cookie} /\ live' \subseteq live
        /\ leaving' = [leaving EXCEPT ![t] = TRUE]
    BY DEF Logout, LogoutAll
  <1>2. Numbers' /\ issued <= issued' /\ horizon <= horizon'
    BY <1>0, <1>1 DEF Numbers
  <1>3. Signing'
    BY <1>0, <1>1 DEF Signing
  <1>. QED  BY <1>1, <1>2, <1>3, QuietStep

LEMMA WorldStep ==
    ASSUME Inv, SessionEnds \/ TokensExpire
    PROVE  Inv'
  <1>0. /\ Shape /\ Numbers /\ Signing /\ (cause = FALSE => Calm)
    BY DEF Inv, Shape
  <1>1. UNCHANGED <<cookie, token, page, req, isRefreshing, refresh, entering, leaving, issued>>
    BY DEF SessionEnds, TokensExpire, client, signing
  <1>2. Signing'
    BY <1>0, <1>1 DEF Signing
  <1>3. CASE SessionEnds
    <2>1. live' = live \ {cookie} /\ cause' = TRUE /\ UNCHANGED horizon
      BY <1>3 DEF SessionEnds
    <2>2. Numbers' /\ issued <= issued' /\ horizon <= horizon'
      BY <1>0, <1>1, <2>1 DEF Numbers
    <2>. QED  BY <1>1, <1>2, <2>1, <2>2, QuietStep
  <1>4. CASE TokensExpire
    <2>1. horizon' \in horizon + 1 .. issued /\ UNCHANGED <<live, cause>>
      BY <1>4 DEF TokensExpire
    <2>2. Numbers' /\ issued <= issued' /\ horizon <= horizon'
      BY <1>0, <1>1, <2>1 DEF Numbers
    <2>3. cause' = FALSE => Calm'
      BY <1>0, <1>1, <2>1 DEF Calm
    <2>. QED  BY <1>1, <1>2, <2>2, <2>3, QuietStep
  <1>. QED  BY <1>3, <1>4

LEMMA StepInv ==
    ASSUME Inv, [Next]_vars PROVE Inv'
  <1>1. ASSUME NEW t \in Tabs, NEW r \in Requests[t],
               Issue(t, r) \/ RequestStep(t, r) \/ Timeout(t, r)
        PROVE  Inv'
    BY <1>1, IssueStep, AskStep, SignOutStep DEF RequestStep
  <1>2. ASSUME NEW t \in Tabs, RefreshStep(t) \/ RefreshTimeout(t) \/ Reload(t)
        PROVE  Inv'
    BY <1>2, FindStep, RotateStep, AnsweredStep, OkStep, FailedStep, LostStep DEF RefreshStep
  <1>3. ASSUME NEW t \in Tabs,
               \/ AuthGuard(t)
               \/ LoginAnswer(t) \/ LoginStore(t) \/ LoginRefused(t)
               \/ Logout(t) \/ LogoutAll(t) \/ LogoutLeave(t)
        PROVE  Inv'
    BY <1>3, GuardStep, LoginStep, LogoutStep, DoorStep
  <1>4. CASE UNCHANGED vars
    <2>1. Shape /\ Numbers /\ Signing /\ (cause = FALSE => Calm)
      BY DEF Inv, Shape
    <2>2. UNCHANGED <<cookie, token, page, req, isRefreshing, refresh, entering, leaving,
                      live, issued, horizon, cause>>
      BY <1>4 DEF vars
    <2>3. /\ Numbers' /\ issued <= issued' /\ horizon <= horizon' /\ Signing'
          /\ (cause' = FALSE => Calm')
      BY <2>1, <2>2 DEF Numbers, Signing, Calm
    <2>. QED  BY <2>2, <2>3, QuietStep
  <1>. QED  BY <1>1, <1>2, <1>3, <1>4, WorldStep DEF Next

LEMMA InitInv == Init => Inv
  <1>. SUFFICES ASSUME Init PROVE Inv
    OBVIOUS
  <1>1. Numbers
    <2>1. /\ cookie = 1 /\ token = 1 /\ live = {1} /\ issued = 1 /\ horizon = 0
          /\ cause = FALSE
      BY DEF Init
    <2>2. live \subseteq 1..issued
      BY <2>1
    <2>3. cookie \in 0..issued /\ token \in 0..issued /\ horizon <= issued
      BY <2>1
    <2>4. issued \in Nat /\ horizon \in Nat /\ cause \in BOOLEAN
      BY <2>1
    <2>. QED  BY <2>1, <2>2, <2>3, <2>4 DEF Numbers
  <1>2. \A t \in Tabs : TabOK(Requests[t], req[t], isRefreshing[t], refresh[t], issued, horizon)
    <2>1. ASSUME NEW t \in Tabs
          PROVE  TabOK(Requests[t], [r \in Requests[t] |-> NewRequest], FALSE, NoRefresh, 1, 0)
      <3>1. PICK rs : rs = [r \in Requests[t] |-> NewRequest]
        OBVIOUS
      <3>2. rs = [r \in Requests[t] |-> rs[r]] /\ \A r \in Requests[t] : rs[r] \in {NewRequest, Done}
        BY <3>1
      <3>. QED  BY <3>1, <3>2, TabLeft
    <2>. QED  BY <2>1 DEF Init
  <1>3. Signing
    BY DEF Init, Signing
  <1>4. Shape
    BY <1>1, <1>2, <1>3 DEF Init, Shape
  <1>5. Calm
    BY DEF Init, Calm, NoRefresh
  <1>. QED  BY <1>4, <1>5 DEF Inv

LEMMA AlwaysInv == Spec => []Inv
  BY InitInv, StepInv, PTL DEF Spec

-----------------------------------------------------------------------------

(* Whatever ends a refresh, no request stays in the queue behind it, and a *)
(* tab refreshes for exactly one of its requests.                          *)
THEOREM QueueIsServed == Spec => []ClientWellFormed
  <1>1. Inv => ClientWellFormed
    <2>1. SUFFICES ASSUME Inv PROVE ClientWellFormed
      OBVIOUS
    <2>2. Shape /\ Numbers /\ Signing
      BY <2>1 DEF Inv, Shape
    <2>3. ASSUME NEW t \in Tabs
          PROVE  /\ req[t] \in [Requests[t] -> Request]
                 /\ isRefreshing[t] \in BOOLEAN /\ refresh[t] \in Refresh
                 /\ Cardinality({r \in Requests[t] : req[t][r].phase = "waiting"}) =
                       IF isRefreshing[t] THEN 1 ELSE 0
                 /\ \A r \in Requests[t] : req[t][r].phase = "queued" => isRefreshing[t]
      <3>1. TabOK(Requests[t], req[t], isRefreshing[t], refresh[t], issued, horizon)
        BY <2>2 DEF Shape
      <3>2. PICK W : W = {r \in Requests[t] : req[t][r].phase = "waiting"}
        OBVIOUS
      <3>3. CASE isRefreshing[t] = TRUE
        <4>1. PICK r \in W : TRUE
          BY <3>1, <3>2, <3>3 DEF TabOK
        <4>2. W = {r}
          BY <3>1, <3>2, <4>1 DEF TabOK
        <4>3. Cardinality(W) = 1
          BY <4>2, FS_Singleton
        <4>. QED  BY <3>1, <3>2, <3>3, <4>3 DEF TabOK
      <3>4. CASE isRefreshing[t] = FALSE
        <4>1. W = {}
          BY <3>1, <3>2, <3>4 DEF TabOK
        <4>2. Cardinality(W) = 0
          BY <4>1, FS_EmptySet
        <4>. QED  BY <3>1, <3>2, <3>4, <4>2 DEF TabOK
      <3>. QED  BY <3>1, <3>3, <3>4 DEF TabOK
    <2>4. isRefreshing \in [Tabs -> BOOLEAN] /\ refresh \in [Tabs -> Refresh]
      BY <2>2, <2>3 DEF Shape
    <2>5. /\ cookie \in 0..issued /\ token \in 0..issued /\ live \subseteq 1..issued
          /\ horizon \in 0..issued
      BY <2>2 DEF Numbers
    <2>6. TypeOK
      BY <2>2, <2>3, <2>4, <2>5 DEF TypeOK, Signing
    <2>. QED  BY <2>3, <2>6 DEF ClientWellFormed
  <1>. QED  BY <1>1, AlwaysInv, PTL

(* However many requests are refused at once, a page goes to /login only   *)
(* after a logout, the end of the session, a lost answer, a token that     *)
(* expired under a retry, another tab that refreshed at the same time, or  *)
(* when a page mounts while its access token has expired.                  *)
THEOREM SignOutsHaveACause == Spec => []NoSpuriousSignOut
  <1>1. Inv => NoSpuriousSignOut
    <2>1. ASSUME Inv, NEW t \in Tabs, page[t] = "login" PROVE cause = TRUE
      BY <2>1 DEF Inv, Shape, Numbers, Calm
    <2>. QED  BY <2>1 DEF NoSpuriousSignOut
  <1>. QED  BY <1>1, AlwaysInv, PTL

=============================================================================
