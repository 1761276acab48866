--------------------------- MODULE SessionsProofs ---------------------------
(***************************************************************************)
(* For every set of goroutines, accounts and passwords, every limit of     *)
(* attempts, and with or without failures: the bounds on rotations, reset  *)
(* tokens and counted failures, the finality of a logout everywhere, and   *)
(* the shape of the documents.                                             *)
(***************************************************************************)
EXTENDS Sessions, Collections

-----------------------------------------------------------------------------
(* Types, with the history and the counters, and the documents that the    *)
(* requests under way refer to.                                            *)

Typed ==
    /\ TypeOK
    /\ epoch \in [Users -> Nat]
    /\ overlapped \in [Users -> BOOLEAN]
    /\ raced \in [Users -> BOOLEAN]
    /\ faults \in Nat

Refers(label, l) ==
    /\ label = "lookup" => l.doc = 0
    /\ label \in {"rotate", "revoke"} => l.doc \in DOMAIN sessions
    /\ label = "createSession" => l.doc = 0 \/ l.doc \in DOMAIN sessions
    /\ label \in {"rotate", "createSession"} /\ l.doc # 0 => sessions[l.doc].user = l.user
    /\ label \in {"setPassword", "findToken", "markUsed"} => l.doc \in DOMAIN resets

Basic == Typed /\ \A w \in Workers : Refers(pc[w], loc[w])

(* Goroutine w goes on at label, with locals l.                            *)
Moves(w, label, l) ==
    /\ pc' = [pc EXCEPT ![w] = label]
    /\ loc' = [loc EXCEPT ![w] = l]

(* The sessions keep what never changes, and stay revoked.                 *)
SessionsKept ==
    /\ sessions' \in Seq(Session)
    /\ DOMAIN sessions \subseteq DOMAIN sessions'
    /\ \A s \in DOMAIN sessions :
          /\ sessions'[s].user = sessions[s].user
          /\ sessions'[s].from = sessions[s].from
          /\ sessions'[s].born = sessions[s].born
          /\ sessions[s].revoked => sessions'[s].revoked

SameSessions == SessionsKept /\ DOMAIN sessions' = DOMAIN sessions

ResetsKept ==
    /\ resets' \in Seq(Reset)
    /\ DOMAIN resets \subseteq DOMAIN resets'

-----------------------------------------------------------------------------
LEMMA LocalsTyped ==
    /\ NoLocals \in Locals
    /\ \A u \in Users : /\ OfUser(u) \in Locals
                        /\ OfUser(u).user = u
                        /\ OfUser(u).doc = 0
    /\ \A l \in Locals :
          /\ \A p \in Passwords : [l EXCEPT !.password = p] \in Locals
          /\ \A d \in Nat : [l EXCEPT !.doc = d] \in Locals
          /\ \A b \in Nat : [l EXCEPT !.born = b] \in Locals
  BY SessionsAssumption DEF NoLocals, Locals, OfUser

LEMMA UnchangedSessions ==
    ASSUME Typed, sessions' = sessions
    PROVE  SameSessions
  BY DEF Typed, TypeOK, SessionsKept, SameSessions

LEMMA UnchangedResets ==
    ASSUME Typed, resets' = resets
    PROVE  ResetsKept
  BY DEF Typed, TypeOK, ResetsKept

LEMMA RevokedKeeps ==
    ASSUME Typed, NEW S, sessions' = Revoked(S)
    PROVE  /\ SameSessions
           /\ \A s \in DOMAIN sessions :
                 sessions'[s].revoked <=> (sessions[s].revoked \/ s \in S)
  <1>1. /\ DOMAIN sessions = 1..Len(sessions)
        /\ Len(sessions) \in Nat
    BY Positions DEF Typed, TypeOK
  <1>2. \A s \in DOMAIN sessions : sessions[s] \in Session
    BY DocumentAt DEF Typed, TypeOK
  <1>3. \A s \in DOMAIN sessions : sessions'[s] \in Session
    BY <1>2 DEF Revoked, Session
  <1>4. sessions' = [s \in 1..Len(sessions) |-> sessions'[s]]
    BY <1>1 DEF Revoked
  <1>5. sessions' \in Seq(Session)
    BY <1>1, <1>3, <1>4, IsASeq
  <1>6. DOMAIN sessions' = DOMAIN sessions
    BY DEF Revoked
  <1>7. ASSUME NEW s \in DOMAIN sessions
        PROVE  /\ sessions'[s].user = sessions[s].user
               /\ sessions'[s].from = sessions[s].from
               /\ sessions'[s].born = sessions[s].born
               /\ sessions'[s].revoked <=> (sessions[s].revoked \/ s \in S)
    BY <1>2 DEF Revoked, Session
  <1>. QED  BY <1>5, <1>6, <1>7 DEF SameSessions, SessionsKept

LEMMA ExpiryKeeps ==
    ASSUME Typed, NEW s \in DOMAIN sessions, sessions' = [sessions EXCEPT ![s].expired = TRUE]
    PROVE  /\ SameSessions
           /\ \A r \in DOMAIN sessions : sessions'[r].revoked = sessions[r].revoked
  <1>1. sessions[s] \in Session
    BY DocumentAt DEF Typed, TypeOK
  <1> DEFINE e == [sessions[s] EXCEPT !.expired = TRUE]
  <1>2. /\ e \in Session
        /\ e.user = sessions[s].user /\ e.from = sessions[s].from
        /\ e.born = sessions[s].born /\ e.revoked = sessions[s].revoked
    BY <1>1 DEF Session
  <1>3. sessions' = [sessions EXCEPT ![s] = e]
    OBVIOUS
  <1> HIDE DEF e
  <1>4. /\ sessions' \in Seq(Session)
        /\ DOMAIN sessions' = DOMAIN sessions
        /\ \A r \in DOMAIN sessions : sessions'[r] = IF r = s THEN e ELSE sessions[r]
    <2>1. sessions \in Seq(Session)
      BY DEF Typed, TypeOK
    <2>. QED  BY ONLY <1>2, <1>3, <2>1, ReplaceDocument, s \in DOMAIN sessions
  <1>. QED  BY <1>2, <1>4 DEF SameSessions, SessionsKept

LEMMA CreationKeeps ==
    ASSUME Typed, NEW w \in Workers, sessions' = Append(sessions, NewSession(loc[w].user, loc[w].doc, loc[w].born))
    PROVE  /\ SessionsKept
           /\ DOMAIN sessions = 1..Len(sessions)
           /\ Len(sessions) \in Nat
           /\ DOMAIN sessions' = 1..(Len(sessions) + 1)
           /\ \A s \in DOMAIN sessions : sessions'[s] = sessions[s]
           /\ sessions'[Len(sessions) + 1] = NewSession(loc[w].user, loc[w].doc, loc[w].born)
  <1>1. NewSession(loc[w].user, loc[w].doc, loc[w].born) \in Session
    BY DEF Typed, TypeOK, Locals, NewSession, Session
  <1>. QED  BY <1>1, AppendDocument DEF Typed, TypeOK, SessionsKept
-----------------------------------------------------------------------------
(* Basic is kept by a move that leaves the documents in place and whose    *)
(* new locals refer to documents.                                          *)

LEMMA GotoMoves ==
    ASSUME NEW w \in Workers, NEW label, NEW l, Goto(w, label, l)
    PROVE  Moves(w, label, IF label = "idle" THEN NoLocals ELSE l)
  BY DEF Goto, Moves

LEMMA MovesBasic ==
    ASSUME Basic, SessionsKept, ResetsKept, NEW w \in Workers, NEW label \in Labels,
           NEW l \in Locals, Moves(w, label, l), Refers(label, l)'
    PROVE  /\ pc' \in [Workers -> Labels]
           /\ loc' \in [Workers -> Locals]
           /\ pc'[w] = label /\ loc'[w] = l
           /\ \A v \in Workers : v # w => pc'[v] = pc[v] /\ loc'[v] = loc[v]
           /\ \A v \in Workers : Refers(pc[v], loc[v])'
  <1>1. /\ pc' \in [Workers -> Labels]
        /\ loc' \in [Workers -> Locals]
        /\ pc'[w] = label /\ loc'[w] = l
        /\ \A v \in Workers : v # w => pc'[v] = pc[v] /\ loc'[v] = loc[v]
    BY DEF Moves, Basic, Typed, TypeOK
  <1>2. ASSUME NEW v \in Workers PROVE Refers(pc[v], loc[v])'
    <2>1. CASE v = w
      BY <1>1, <2>1
    <2>2. CASE v # w
      BY <1>1, <2>2 DEF Refers, Basic, SessionsKept, ResetsKept
    <2>. QED  BY <2>1, <2>2
  <1>. QED  BY <1>1, <1>2

LEMMA StaysBasic ==
    ASSUME Basic, SessionsKept, ResetsKept, UNCHANGED <<pc, loc>>
    PROVE  /\ pc' \in [Workers -> Labels]
           /\ loc' \in [Workers -> Locals]
           /\ \A v \in Workers : Refers(pc[v], loc[v])'
  BY DEF Basic, Typed, TypeOK, Refers, SessionsKept, ResetsKept

(* Sessions that stay as many keep their lineage.                          *)
Lineage ==
    \A s \in DOMAIN sessions :
        sessions[s].from # 0 =>
            /\ sessions[s].from < s
            /\ sessions[s].user = sessions[sessions[s].from].user

LEMMA SameLineage ==
    ASSUME Typed, SameSessions
    PROVE  Lineage'
  <1>1. ASSUME NEW s \in DOMAIN sessions PROVE sessions[s].from \in Nat
    <2>1. sessions[s] \in Session
      BY DocumentAt DEF Typed, TypeOK
    <2>. QED  BY <2>1 DEF Session
  <1>2. Lineage
    BY DEF Typed, TypeOK, Lineage
  <1>3. /\ DOMAIN sessions = 1..Len(sessions)
        /\ Len(sessions) \in Nat
    BY Positions DEF Typed, TypeOK
  <1>. QED  BY <1>1, <1>2, <1>3 DEF SameSessions, SessionsKept, Lineage

LEMMA BasicFrom ==
    ASSUME users' \in [Users -> User], failures' \in [Users -> Nat],
           sessions' \in Seq(Session), Lineage', resets' \in Seq(Reset),
           temps' \in SUBSET Users, pc' \in [Workers -> Labels],
           loc' \in [Workers -> Locals], epoch' \in [Users -> Nat],
           overlapped' \in [Users -> BOOLEAN], raced' \in [Users -> BOOLEAN],
           faults' \in Nat, \A v \in Workers : Refers(pc[v], loc[v])'
    PROVE  Basic'
  BY DEF Basic, Typed, TypeOK, Lineage

(* A request moves and no document is added or changes but by what these   *)
(* hypotheses allow.                                                       *)
LEMMA BasicStep ==
    ASSUME Basic, SameSessions, ResetsKept, NEW w \in Workers, NEW label \in Labels,
           NEW l \in Locals, Moves(w, label, l), Refers(label, l)',
           users' \in [Users -> User], failures' \in [Users -> Nat],
           temps' \in SUBSET Users, epoch' \in [Users -> Nat],
           overlapped' \in [Users -> BOOLEAN], raced' \in [Users -> BOOLEAN], faults' \in Nat
    PROVE  Basic'
  <1>1. SessionsKept /\ Typed
    BY DEF SameSessions, Basic
  <1>2. Lineage'
    BY <1>1, SameLineage
  <1>3. /\ pc' \in [Workers -> Labels]
        /\ loc' \in [Workers -> Locals]
        /\ \A v \in Workers : Refers(pc[v], loc[v])'
    BY <1>1, MovesBasic
  <1>. QED  BY <1>1, <1>2, <1>3, BasicFrom DEF SessionsKept, ResetsKept

LEMMA BasicStay ==
    ASSUME Basic, SameSessions, ResetsKept, UNCHANGED <<pc, loc>>,
           users' \in [Users -> User], failures' \in [Users -> Nat],
           temps' \in SUBSET Users, epoch' \in [Users -> Nat],
           overlapped' \in [Users -> BOOLEAN], raced' \in [Users -> BOOLEAN], faults' \in Nat
    PROVE  Basic'
  <1>1. SessionsKept /\ Typed
    BY DEF SameSessions, Basic
  <1>2. Lineage'
    BY <1>1, SameLineage
  <1>3. /\ pc' \in [Workers -> Labels]
        /\ loc' \in [Workers -> Locals]
        /\ \A v \in Workers : Refers(pc[v], loc[v])'
    BY <1>1, StaysBasic
  <1>. QED  BY <1>1, <1>2, <1>3, BasicFrom DEF SessionsKept, ResetsKept
-----------------------------------------------------------------------------
(* The actions keep Basic.                                                 *)

LEMMA EnterBasic ==
    ASSUME Basic, NEW w \in Workers, NEW op, NEW label \in Labels, NEW l \in Locals,
           Refers(label, l), Enter(w, op, label, l), faults' \in Nat,
           UNCHANGED <<accounts, rotation, resets>>
    PROVE  Basic'
  <1>1. SameSessions /\ ResetsKept
    BY UnchangedSessions, UnchangedResets DEF Basic, rotation
  <1>2. Moves(w, label, l)
    BY DEF Enter, Moves
  <1>3. Refers(label, l)'
    BY DEF Refers, rotation
  <1>4. /\ users' \in [Users -> User] /\ failures' \in [Users -> Nat]
        /\ temps' \in SUBSET Users /\ epoch' \in [Users -> Nat]
        /\ overlapped' \in [Users -> BOOLEAN] /\ raced' \in [Users -> BOOLEAN]
        /\ faults' \in Nat
    BY DEF Basic, Typed, TypeOK, accounts, rotation
  <1>. QED  BY <1>1, <1>2, <1>3, <1>4, BasicStep

LEMMA StartBasic ==
    ASSUME Basic, NEW w \in Workers, NEW op, NEW label \in Labels, NEW l \in Locals,
           Refers(label, l), Start(w, op, label, l), UNCHANGED <<accounts, rotation, resets>>
    PROVE  Basic'
  BY EnterBasic DEF Start, Basic, Typed

LEMMA StartsBasic ==
    ASSUME Basic, NEW w \in Workers,
           \/ \E u \in Users, p \in Passwords : LoginCheck(w, u, p)
           \/ \E u \in Users : Login2FA(w, u) \/ SetupRead(w, u) \/ VerifyRead(w, u)
           \/ \E s \in DOMAIN sessions, mine \in BOOLEAN : RefreshFind(w, s, mine)
           \/ \E s \in DOMAIN sessions : LogoutFind(w, s)
           \/ \E t \in DOMAIN resets, p \in Passwords : ResetFind(w, t, p)
    PROVE  Basic'
  <1>1. ASSUME NEW u \in Users, NEW p \in Passwords, LoginCheck(w, u, p) PROVE Basic'
    <2>1. [OfUser(u) EXCEPT !.password = p] \in Locals
      BY LocalsTyped
    <2>2. Refers("lookup", [OfUser(u) EXCEPT !.password = p])
      BY LocalsTyped DEF Refers, Locals
    <2>3. faults' \in Nat
      BY <1>1 DEF LoginCheck, Fault, Basic, Typed
    <2>. QED  BY <1>1, <2>1, <2>2, <2>3, EnterBasic DEF LoginCheck, Labels
  <1>2. ASSUME NEW u \in Users, Login2FA(w, u) PROVE Basic'
    <2>1. /\ [OfUser(u) EXCEPT !.born = epoch[u]] \in Locals
          /\ [OfUser(u) EXCEPT !.born = epoch[u]].doc = 0
      BY LocalsTyped DEF Basic, Typed, Locals
    <2>2. Refers("createSession", [OfUser(u) EXCEPT !.born = epoch[u]])
      BY <2>1 DEF Refers
    <2>. QED  BY <1>2, <2>1, <2>2, StartBasic DEF Login2FA, Labels
  <1>3. ASSUME NEW u \in Users, SetupRead(w, u) \/ VerifyRead(w, u) PROVE Basic'
    <2>1. Refers("storeSecret", OfUser(u)) /\ Refers("enable", OfUser(u))
      BY DEF Refers
    <2>. QED  BY <1>3, <2>1, LocalsTyped, StartBasic DEF SetupRead, VerifyRead, Labels
  <1>4. ASSUME NEW s \in DOMAIN sessions
        PROVE  /\ s \in Nat
               /\ sessions[s].user \in Users /\ sessions[s].born \in Nat
    <2>1. sessions[s] \in Session
      BY DocumentAt DEF Basic, Typed, TypeOK
    <2>. QED  BY <2>1, Positions DEF Session, Basic, Typed, TypeOK
  <1>5. ASSUME NEW s \in DOMAIN sessions, NEW mine \in BOOLEAN, RefreshFind(w, s, mine)
        PROVE  Basic'
    <2> DEFINE l == [OfUser(sessions[s].user) EXCEPT !.doc = s, !.born = sessions[s].born]
    <2>1. l \in Locals /\ l.doc = s /\ l.user = sessions[s].user
      BY <1>4, LocalsTyped DEF Locals
    <2>2. Refers("rotate", l) /\ Refers("revoke", l)
      BY <2>1 DEF Refers
    <2>3. Start(w, "refresh", IF mine THEN "rotate" ELSE "revoke", l)
      BY <1>5 DEF RefreshFind
    <2> HIDE DEF l
    <2>. QED  BY <1>5, <2>1, <2>2, <2>3, StartBasic DEF RefreshFind, Labels
  <1>6. ASSUME NEW s \in DOMAIN sessions, LogoutFind(w, s) PROVE Basic'
    <2> DEFINE l == [OfUser(sessions[s].user) EXCEPT !.doc = s]
    <2>1. l \in Locals /\ l.doc = s
      BY <1>4, LocalsTyped DEF Locals
    <2>2. Refers("revoke", l)
      BY <2>1 DEF Refers
    <2>. QED  BY <1>6, <2>1, <2>2, StartBasic DEF LogoutFind, Labels
  <1>7. ASSUME NEW t \in DOMAIN resets, NEW p \in Passwords, ResetFind(w, t, p) PROVE Basic'
    <2> DEFINE l == [OfUser(resets[t].user) EXCEPT !.password = p, !.doc = t]
    <2>1. resets[t] \in Reset /\ t \in Nat
      BY DocumentAt, Positions DEF Basic, Typed, TypeOK
    <2>2. resets[t].user \in Users
      BY <2>1 DEF Reset
    <2>3. l \in Locals /\ l.doc = t
      BY <2>1, <2>2, LocalsTyped DEF Locals
    <2>4. Refers("setPassword", l)
      BY <2>3 DEF Refers
    <2>. QED  BY <1>7, <2>3, <2>4, StartBasic DEF ResetFind, Labels
  <1>. QED  BY <1>1, <1>2, <1>3, <1>5, <1>6, <1>7

(* A request that ends.                                                    *)
LEMMA EndMoves ==
    ASSUME NEW w \in Workers, Finish(w)
    PROVE  /\ Moves(w, "idle", NoLocals)
           /\ Refers("idle", NoLocals)'
           /\ "idle" \in Labels /\ NoLocals \in Locals
           /\ UNCHANGED <<started, faults>>
  BY LocalsTyped DEF Finish, Goto, Moves, Refers, Labels

LEMMA LoginLookupBasic ==
    ASSUME Basic, NEW w \in Workers, LoginLookup(w)
    PROVE  Basic'
  <1>1. SameSessions /\ ResetsKept
    BY UnchangedSessions, UnchangedResets DEF Basic, rotation, LoginLookup
  <1>2. /\ users' \in [Users -> User] /\ failures' \in [Users -> Nat]
        /\ epoch' \in [Users -> Nat]
        /\ overlapped' \in [Users -> BOOLEAN] /\ raced' \in [Users -> BOOLEAN]
    BY DEF Basic, Typed, TypeOK, rotation, LoginLookup
  <1>3. PICK u \in Users : u = loc[w].user
    BY DEF Basic, Typed, TypeOK, Locals
  <1>4. loc[w] \in Locals /\ epoch[u] \in Nat
    BY DEF Basic, Typed, TypeOK
  <1>5. temps' \in SUBSET Users
    BY <1>3 DEF LoginLookup, Basic, Typed, TypeOK
  <1>6. faults' \in Nat
    BY DEF LoginLookup, Goto, Finish, Fault, Basic, Typed
  <1>7. \E label \in Labels, l \in Locals : Moves(w, label, l) /\ Refers(label, l)'
    <2>1. CASE Goto(w, "recordFailure", loc[w])
      BY <1>4, <2>1 DEF Goto, Moves, Refers, Labels
    <2>2. CASE Finish(w)
      BY <2>2, EndMoves
    <2>3. CASE Goto(w, "createSession", [loc[w] EXCEPT !.born = epoch[u]])
      <3>1. [loc[w] EXCEPT !.born = epoch[u]] \in Locals
        BY <1>4 DEF Locals
      <3>2. pc[w] = "lookup" /\ Refers(pc[w], loc[w])
        BY DEF Basic, LoginLookup
      <3>3. [loc[w] EXCEPT !.born = epoch[u]].doc = 0
        BY <1>4, <3>2 DEF Locals, Refers
      <3>. QED  BY <2>3, <3>1, <3>3 DEF Goto, Moves, Refers, Labels
    <2>4. CASE pc' = [pc EXCEPT ![w] = "recordFailure"] /\ UNCHANGED <<loc, started, temps>>
      <3>1. /\ Moves(w, "recordFailure", loc[w])
            /\ loc[w] \in Locals
        BY <2>4 DEF Moves, Basic, Typed, TypeOK
      <3>. QED  BY <3>1 DEF Refers, Labels
    <2>. QED  BY <2>1, <2>2, <2>3, <2>4, <1>3 DEF LoginLookup
  <1>. QED  BY <1>1, <1>2, <1>5, <1>6, <1>7, BasicStep
LEMMA LoginRecordBasic ==
    ASSUME Basic, NEW w \in Workers, LoginRecord(w)
    PROVE  Basic'
  <1>1. SameSessions /\ ResetsKept
    BY UnchangedSessions, UnchangedResets DEF Basic, rotation, LoginRecord
  <1>2. /\ users' \in [Users -> User] /\ temps' \in SUBSET Users
        /\ epoch' \in [Users -> Nat]
        /\ overlapped' \in [Users -> BOOLEAN] /\ raced' \in [Users -> BOOLEAN]
    BY DEF Basic, Typed, TypeOK, rotation, LoginRecord
  <1>3. failures' \in [Users -> Nat]
    <2>1. loc[w].user \in Users
      BY DEF Basic, Typed, TypeOK, Locals
    <2>. QED  BY <2>1 DEF Basic, Typed, TypeOK, LoginRecord
  <1>4. Finish(w) /\ faults \in Nat
    BY DEF LoginRecord, Basic, Typed
  <1>. QED  BY <1>1, <1>2, <1>3, <1>4, EndMoves, BasicStep

LEMMA CreateBasic ==
    ASSUME Basic, NEW w \in Workers, CreateSession(w)
    PROVE  /\ Basic'
           /\ SessionsKept
           /\ Len(sessions) \in Nat
           /\ DOMAIN sessions = 1..Len(sessions)
           /\ DOMAIN sessions' = 1..(Len(sessions) + 1)
           /\ \A s \in DOMAIN sessions : sessions'[s] = sessions[s]
           /\ sessions'[Len(sessions) + 1] = NewSession(loc[w].user, loc[w].doc, loc[w].born)
  <1>1. sessions' = Append(sessions, NewSession(loc[w].user, loc[w].doc, loc[w].born))
    BY DEF CreateSession, Rotated
  <1>2. /\ SessionsKept
        /\ DOMAIN sessions = 1..Len(sessions)
        /\ Len(sessions) \in Nat
        /\ DOMAIN sessions' = 1..(Len(sessions) + 1)
        /\ \A s \in DOMAIN sessions : sessions'[s] = sessions[s]
        /\ sessions'[Len(sessions) + 1] = NewSession(loc[w].user, loc[w].doc, loc[w].born)
    BY <1>1, CreationKeeps DEF Basic
  <1>3. ResetsKept
    BY UnchangedResets DEF CreateSession, Basic
  <1>4. /\ loc[w].doc \in Nat
        /\ loc[w].doc = 0 \/ loc[w].doc \in DOMAIN sessions
        /\ loc[w].doc # 0 => sessions[loc[w].doc].user = loc[w].user
    BY DEF Basic, Typed, TypeOK, Locals, Refers, CreateSession
  <1>5. Lineage'
    <2>1. PICK n \in Nat : n = Len(sessions)
      BY <1>2
    <2>2. PICK d \in Nat : d = loc[w].doc
      BY <1>4
    <2>3. /\ sessions'[n + 1].from = d
          /\ sessions'[n + 1].user = loc[w].user
      BY <1>2, <2>1, <2>2 DEF NewSession
    <2>4. d # 0 => d < n + 1 /\ sessions'[d].user = loc[w].user
      BY <1>2, <1>4, <2>1, <2>2
    <2>5. ASSUME NEW s \in DOMAIN sessions, sessions'[s].from # 0
          PROVE  /\ sessions'[s].from < s
                 /\ sessions'[s].user = sessions'[sessions'[s].from].user
      <3>1. sessions[s] \in Session
        BY DocumentAt DEF Basic, Typed, TypeOK
      <3>2. /\ sessions[s].from \in Nat /\ sessions[s].from # 0
            /\ sessions[s].from < s
            /\ sessions[s].user = sessions[sessions[s].from].user
        BY <1>2, <2>5, <3>1 DEF Session, Basic, Typed, TypeOK
      <3>3. sessions[s].from \in DOMAIN sessions
        BY <1>2, <2>1, <3>2
      <3>. QED  BY <1>2, <3>2, <3>3
    <2>6. \A s \in DOMAIN sessions' : s \in DOMAIN sessions \/ s = n + 1
      BY <1>2, <2>1
    <2>. QED  BY <2>3, <2>4, <2>5, <2>6 DEF Lineage
  <1>6. Finish(w)
    BY DEF CreateSession
  <1>7. /\ pc' \in [Workers -> Labels]
        /\ loc' \in [Workers -> Locals]
        /\ \A v \in Workers : Refers(pc[v], loc[v])'
    BY <1>2, <1>3, <1>6, EndMoves, MovesBasic
  <1>8. /\ users' \in [Users -> User] /\ failures' \in [Users -> Nat]
        /\ temps' \in SUBSET Users /\ epoch' \in [Users -> Nat]
        /\ overlapped' \in [Users -> BOOLEAN] /\ raced' \in [Users -> BOOLEAN]
        /\ faults' \in Nat
    BY <1>6, EndMoves DEF Basic, Typed, TypeOK, accounts, CreateSession
  <1>9. Basic'
    BY <1>2, <1>3, <1>5, <1>7, <1>8, BasicFrom DEF SessionsKept, ResetsKept
  <1>. QED  BY <1>2, <1>9

(* Only the sessions change.                                               *)
LEMMA RevokeBasic ==
    ASSUME Basic, NEW S, sessions' = Revoked(S), NEW w \in Workers, NEW label \in Labels,
           NEW l \in Locals, Moves(w, label, l), Refers(label, l)', faults' \in Nat,
           UNCHANGED <<accounts, resets>>, epoch' \in [Users -> Nat],
           overlapped' \in [Users -> BOOLEAN]
    PROVE  Basic'
  <1>1. SameSessions /\ ResetsKept
    BY RevokedKeeps, UnchangedResets DEF Basic
  <1>2. /\ users' \in [Users -> User] /\ failures' \in [Users -> Nat]
        /\ temps' \in SUBSET Users /\ raced' \in [Users -> BOOLEAN]
    BY DEF Basic, Typed, TypeOK, accounts
  <1>. QED  BY <1>1, <1>2, BasicStep

LEMMA RefreshRevokeBasic ==
    ASSUME Basic, NEW w \in Workers, RefreshRevoke(w)
    PROVE  Basic'
  <1>1. /\ loc[w] \in Locals /\ Refers("rotate", loc[w])
        /\ pc[w] = "rotate"
        /\ epoch \in [Users -> Nat] /\ overlapped \in [Users -> BOOLEAN]
        /\ faults \in Nat
    BY DEF Basic, Typed, TypeOK, RefreshRevoke
  <1>0. PICK l \in Locals : l = loc[w]
    BY <1>1
  <1>2. ASSUME SameSessions PROVE Refers("createSession", l)'
    BY <1>0, <1>1, <1>2 DEF SameSessions, SessionsKept, Refers
  <1>3. CASE sessions' = Revoked({loc[w].doc}) /\ Goto(w, "createSession", loc[w])
    <2>1. Moves(w, "createSession", l) /\ faults' \in Nat
      BY <1>0, <1>1, <1>3 DEF Goto, Moves
    <2>2. Refers("createSession", l)'
      BY <1>2, <1>3, RevokedKeeps DEF Basic
    <2>3. UNCHANGED <<accounts, resets, epoch, overlapped>>
      BY DEF RefreshRevoke
    <2>. QED  BY <1>1, <1>3, <2>1, <2>2, <2>3, RevokeBasic DEF Labels
  <1>4. CASE /\ faults' = faults + 1
             /\ pc' = [pc EXCEPT ![w] = "createSession"]
             /\ UNCHANGED <<sessions, loc, started>>
    <2>1. Moves(w, "createSession", l) /\ faults' \in Nat
      BY <1>0, <1>1, <1>4 DEF Moves, Basic, Typed, TypeOK
    <2>2. SameSessions /\ ResetsKept
      BY <1>4, UnchangedSessions, UnchangedResets DEF Basic, RefreshRevoke
    <2>3. Refers("createSession", l)'
      BY <1>2, <2>2
    <2>4. /\ users' \in [Users -> User] /\ failures' \in [Users -> Nat]
          /\ temps' \in SUBSET Users /\ epoch' \in [Users -> Nat]
          /\ overlapped' \in [Users -> BOOLEAN] /\ raced' \in [Users -> BOOLEAN]
      BY DEF Basic, Typed, TypeOK, accounts, rotation, RefreshRevoke
    <2>. QED  BY <1>1, <2>1, <2>2, <2>3, <2>4, BasicStep DEF Labels
  <1>. QED  BY <1>3, <1>4 DEF RefreshRevoke, Fault
LEMMA RevokeFoundBasic ==
    ASSUME Basic, NEW w \in Workers, RevokeFound(w)
    PROVE  Basic'
  BY EndMoves, RevokeBasic DEF RevokeFound, Basic, Typed

LEMMA StayRevokeBasic ==
    ASSUME Basic, NEW S, sessions' = Revoked(S), UNCHANGED <<pc, loc, faults, accounts, resets>>,
           epoch' \in [Users -> Nat], overlapped' \in [Users -> BOOLEAN]
    PROVE  Basic'
  <1>1. SameSessions /\ ResetsKept
    BY RevokedKeeps, UnchangedResets DEF Basic
  <1>2. /\ users' \in [Users -> User] /\ failures' \in [Users -> Nat]
        /\ temps' \in SUBSET Users /\ raced' \in [Users -> BOOLEAN] /\ faults' \in Nat
    BY DEF Basic, Typed, TypeOK, accounts
  <1>. QED  BY <1>1, <1>2, BasicStay

LEMMA RevokeAllTyped ==
    ASSUME Basic, NEW u \in Users, RevokeAllUserSessions(u)
    PROVE  /\ sessions' = Revoked(ToRevoke(u))
           /\ epoch' \in [Users -> Nat] /\ overlapped' \in [Users -> BOOLEAN]
  <1>1. Creating(u) \in BOOLEAN
    BY DEF Creating
  <1>. QED  BY <1>1 DEF RevokeAllUserSessions, Basic, Typed

LEMMA RevokesBasic ==
    ASSUME Basic,
           \/ \E s \in DOMAIN sessions : RevokeSession(s)
           \/ \E u \in Users : LogoutAll(u)
           \/ \E w \in Workers : ResetRevokeAll(w)
    PROVE  Basic'
  <1>1. CASE \E s \in DOMAIN sessions : RevokeSession(s)
    <2>1. PICK s \in DOMAIN sessions : RevokeSession(s)
      BY <1>1
    <2>2. epoch' \in [Users -> Nat] /\ overlapped' \in [Users -> BOOLEAN]
      BY <2>1 DEF RevokeSession, Basic, Typed
    <2>. QED  BY <2>1, <2>2, StayRevokeBasic DEF RevokeSession, Once
  <1>2. CASE \E u \in Users : LogoutAll(u)
    BY <1>2, RevokeAllTyped, StayRevokeBasic DEF LogoutAll, Once
  <1>3. CASE \E w \in Workers : ResetRevokeAll(w)
    <2>1. PICK w \in Workers : ResetRevokeAll(w)
      BY <1>3
    <2>2. PICK u \in Users : u = loc[w].user
      BY DEF Basic, Typed, TypeOK, Locals
    <2>3. RevokeAllUserSessions(u) /\ Finish(w) /\ UNCHANGED <<accounts, resets>>
      BY <2>1, <2>2 DEF ResetRevokeAll
    <2>. QED  BY <2>3, RevokeAllTyped, EndMoves, RevokeBasic DEF Basic, Typed
  <1>. QED  BY <1>1, <1>2, <1>3

-----------------------------------------------------------------------------
(* Reset tokens.                                                           *)

ResetAt(t, new) ==
    /\ new \in Reset
    /\ resets' = [resets EXCEPT ![t] = new]

LEMMA ResetChanges ==
    ASSUME Basic, NEW t \in DOMAIN resets, NEW new, ResetAt(t, new)
    PROVE  /\ ResetsKept
           /\ DOMAIN resets' = DOMAIN resets
           /\ \A r \in DOMAIN resets : resets'[r] = IF r = t THEN new ELSE resets[r]
  <1>1. resets \in Seq(Reset)
    BY DEF Basic, Typed, TypeOK
  <1>. QED  BY <1>1, ReplaceDocument DEF ResetAt, ResetsKept

LEMMA ResetFields ==
    ASSUME Basic, NEW t \in DOMAIN resets
    PROVE  /\ resets[t] \in Reset
           /\ resets[t].uses \in Nat /\ resets[t].user \in Users
           /\ resets[t].used \in BOOLEAN /\ resets[t].expired \in BOOLEAN
           /\ \A v \in Nat : /\ [resets[t] EXCEPT !.uses = v] \in Reset
                             /\ [resets[t] EXCEPT !.uses = v].uses = v
                             /\ [resets[t] EXCEPT !.uses = v].used = resets[t].used
                             /\ [resets[t] EXCEPT !.uses = v].expired = resets[t].expired
           /\ [resets[t] EXCEPT !.used = TRUE] \in Reset
           /\ [resets[t] EXCEPT !.used = TRUE].used
           /\ [resets[t] EXCEPT !.used = TRUE].uses = resets[t].uses
           /\ [resets[t] EXCEPT !.expired = TRUE] \in Reset
           /\ [resets[t] EXCEPT !.expired = TRUE].expired
           /\ [resets[t] EXCEPT !.expired = TRUE].uses = resets[t].uses
           /\ [resets[t] EXCEPT !.expired = TRUE].used = resets[t].used
  <1>1. resets[t] \in Reset
    BY DocumentAt DEF Basic, Typed, TypeOK
  <1>. QED  BY <1>1 DEF Reset

(* What a token becomes by each action on it.                              *)
LEMMA SetPasswordShape ==
    ASSUME Basic, NEW w \in Workers, ResetSetPassword(w)
    PROVE  /\ loc[w].doc \in DOMAIN resets
           /\ ResetAt(loc[w].doc, [resets[loc[w].doc] EXCEPT !.uses = resets[loc[w].doc].uses + 1])
  <1>1. loc[w].doc \in DOMAIN resets
    BY DEF Basic, Refers, ResetSetPassword
  <1>2. [resets[loc[w].doc] EXCEPT !.uses = resets[loc[w].doc].uses + 1] \in Reset
    <2>1. \A n \in Nat : n + 1 \in Nat
      OBVIOUS
    <2>2. resets[loc[w].doc].uses \in Nat
      BY <1>1, ResetFields
    <2>3. resets[loc[w].doc].uses + 1 \in Nat
      BY <2>1, <2>2
    <2>. QED  BY <1>1, <2>3, ResetFields
  <1>. QED  BY <1>1, <1>2 DEF ResetAt, ResetSetPassword

LEMMA MarkUsedShape ==
    ASSUME Basic, NEW w \in Workers, ResetMarkUsed(w)
    PROVE  /\ loc[w].doc \in DOMAIN resets
           /\ ResetAt(loc[w].doc, [resets[loc[w].doc] EXCEPT !.used = TRUE])
  <1>1. loc[w].doc \in DOMAIN resets
    BY DEF Basic, Refers, ResetMarkUsed
  <1>. QED  BY <1>1, ResetFields DEF ResetAt, ResetMarkUsed

LEMMA UpdatedTyped ==
    ASSUME Basic, NEW u \in Users, NEW d, users[u] \in User => d \in User,
           users' = Updated(u, d)
    PROVE  users' \in [Users -> User]
  BY DEF Basic, Typed, TypeOK, Updated

LEMMA UserFields ==
    ASSUME NEW d \in User
    PROVE  /\ \A p \in Passwords : [d EXCEPT !.password = p] \in User
           /\ \A b \in BOOLEAN : /\ [d EXCEPT !.exists = b] \in User
                                 /\ [d EXCEPT !.secret = b] \in User
                                 /\ [d EXCEPT !.enabled = b] \in User
           /\ [d EXCEPT !.enabled = FALSE, !.secret = FALSE] \in User
           /\ ~[d EXCEPT !.enabled = FALSE, !.secret = FALSE].enabled
  BY DEF User
(* The sessions do not change, nor their history.                          *)
LEMMA PlainBasic ==
    ASSUME Basic, UNCHANGED rotation, ResetsKept, NEW w \in Workers, NEW label \in Labels,
           NEW l \in Locals, Moves(w, label, l), Refers(label, l)',
           users' \in [Users -> User], UNCHANGED <<failures, temps, raced>>, faults' \in Nat
    PROVE  Basic'
  <1>1. SameSessions
    BY UnchangedSessions DEF Basic, rotation
  <1>2. /\ failures' \in [Users -> Nat] /\ temps' \in SUBSET Users /\ epoch' \in [Users -> Nat]
        /\ overlapped' \in [Users -> BOOLEAN] /\ raced' \in [Users -> BOOLEAN]
    BY DEF Basic, Typed, TypeOK, rotation
  <1>. QED  BY <1>1, <1>2, BasicStep

LEMMA ResetStepsBasic ==
    ASSUME Basic, NEW w \in Workers,
           ResetSetPassword(w) \/ ResetFindToken(w) \/ ResetMarkUsed(w)
    PROVE  Basic'
  <1>1. /\ loc[w] \in Locals /\ Refers(pc[w], loc[w]) /\ faults \in Nat
        /\ users \in [Users -> User]
    BY DEF Basic, Typed, TypeOK
  <1>2. PICK l \in Locals : l = loc[w]
    BY <1>1
  <1>3. l.user \in Users /\ l.password \in Passwords
    BY DEF Locals
  <1>4. CASE ResetSetPassword(w)
    <2>1. ResetsKept /\ DOMAIN resets' = DOMAIN resets /\ l.doc \in DOMAIN resets
      BY <1>2, <1>4, SetPasswordShape, ResetChanges
    <2>2. Refers("findToken", l)'
      BY <2>1 DEF Refers
    <2>3. users' \in [Users -> User]
      BY <1>2, <1>3, <1>4, UserFields, UpdatedTyped DEF ResetSetPassword
    <2>4. Moves(w, "findToken", l) /\ faults' \in Nat
      BY <1>1, <1>2, <1>4 DEF ResetSetPassword, Goto, Moves
    <2>. QED  BY <1>4, <2>1, <2>2, <2>3, <2>4, PlainBasic DEF ResetSetPassword, Labels
  <1>5. CASE ResetFindToken(w)
    <2>1. ResetsKept /\ users' \in [Users -> User]
      BY <1>1, <1>5, UnchangedResets DEF ResetFindToken, Basic, accounts
    <2>2. Refers("markUsed", l)' /\ Refers("revokeAll", l)'
      BY <1>1, <1>2, <1>5 DEF Refers, ResetFindToken
    <2>3. /\ \/ Moves(w, "markUsed", l)
             \/ Moves(w, "revokeAll", l)
          /\ faults' \in Nat
      BY <1>1, <1>2, <1>5 DEF ResetFindToken, Goto, Moves
    <2>. QED  BY <1>5, <2>1, <2>2, <2>3, PlainBasic DEF ResetFindToken, Labels, accounts
  <1>6. CASE ResetMarkUsed(w)
    <2>1. ResetsKept /\ users' \in [Users -> User]
      BY <1>1, <1>6, MarkUsedShape, ResetChanges DEF ResetMarkUsed, accounts
    <2>2. Refers("revokeAll", l)'
      BY DEF Refers
    <2>3. Moves(w, "revokeAll", l) /\ faults' \in Nat
      BY <1>1, <1>2, <1>6 DEF ResetMarkUsed, Goto, Moves
    <2>. QED  BY <1>6, <2>1, <2>2, <2>3, PlainBasic DEF ResetMarkUsed, Labels, accounts
  <1>. QED  BY <1>4, <1>5, <1>6

LEMMA FactorStepsBasic ==
    ASSUME Basic, NEW w \in Workers, SetupStore(w) \/ VerifyEnable(w)
    PROVE  Basic'
  <1>1. ResetsKept
    BY UnchangedResets DEF SetupStore, VerifyEnable, Basic
  <1>2. loc[w].user \in Users /\ faults \in Nat
    BY DEF Basic, Typed, TypeOK, Locals
  <1>3. users' \in [Users -> User]
    BY <1>2, UserFields, UpdatedTyped DEF SetupStore, VerifyEnable
  <1>. QED  BY <1>1, <1>2, <1>3, EndMoves, PlainBasic DEF SetupStore, VerifyEnable

LEMMA FailuresBasic ==
    ASSUME Basic, NEW w \in Workers, Abandon(w) \/ ResetGoesOn(w)
    PROVE  Basic'
  <1>1. /\ ResetsKept /\ users' \in [Users -> User] /\ faults' \in Nat
        /\ UNCHANGED <<rotation, failures, temps, raced>>
    BY UnchangedResets DEF Abandon, ResetGoesOn, Fault, Basic, Typed, TypeOK, accounts
  <1>2. CASE Abandon(w)
    <2>1. Moves(w, "idle", NoLocals) /\ Refers("idle", NoLocals)'
      BY <1>2 DEF Abandon, Moves, Refers
    <2>. QED  BY <1>1, <2>1, LocalsTyped, PlainBasic DEF Labels
  <1>3. CASE ResetGoesOn(w)
    <2>1. PICK l \in Locals : l = loc[w]
      BY DEF Basic, Typed, TypeOK
    <2>2. Moves(w, "revokeAll", l) /\ Refers("revokeAll", l)'
      BY <1>3, <2>1 DEF ResetGoesOn, Moves, Refers, Basic, Typed, TypeOK
    <2>. QED  BY <1>1, <2>2, PlainBasic DEF Labels
  <1>. QED  BY <1>2, <1>3

LEMMA GenerateShape ==
    ASSUME Basic, NEW u \in Users, GenerateResetToken(u)
    PROVE  /\ ResetsKept
           /\ Len(resets) \in Nat
           /\ DOMAIN resets = 1..Len(resets)
           /\ DOMAIN resets' = 1..(Len(resets) + 1)
           /\ \A t \in DOMAIN resets : resets'[t] = resets[t]
           /\ resets'[Len(resets) + 1].uses = 0
  <1> DEFINE e == [user |-> u, used |-> FALSE, expired |-> FALSE, uses |-> 0]
  <1>1. e \in Reset /\ e.uses = 0
    BY DEF Reset
  <1>2. resets \in Seq(Reset) /\ resets' = Append(resets, e)
    BY DEF Basic, Typed, TypeOK, GenerateResetToken
  <1> HIDE DEF e
  <1>. QED  BY <1>1, <1>2, AppendDocument DEF ResetsKept

LEMMA SingleCallsBasic ==
    ASSUME Basic, SingleCall
    PROVE  Basic'
  <1>1. CASE (\E s \in DOMAIN sessions : RevokeSession(s)) \/ (\E u \in Users : LogoutAll(u))
    BY <1>1, RevokesBasic
  <1>2. ASSUME NEW u \in Users, GenerateResetToken(u) PROVE Basic'
    <2>1. ResetsKept
      BY <1>2, GenerateShape
    <2>2. SameSessions
      BY <1>2, UnchangedSessions DEF Basic, GenerateResetToken, rotation
    <2>3. /\ users' \in [Users -> User] /\ failures' \in [Users -> Nat]
          /\ temps' \in SUBSET Users /\ epoch' \in [Users -> Nat]
          /\ overlapped' \in [Users -> BOOLEAN] /\ raced' \in [Users -> BOOLEAN]
          /\ faults' \in Nat /\ UNCHANGED <<pc, loc>>
      BY <1>2 DEF Basic, Typed, TypeOK, accounts, rotation, GenerateResetToken, Once
    <2>. QED  BY <2>1, <2>2, <2>3, BasicStay
  <1>3. ASSUME users' \in [Users -> User], raced' \in [Users -> BOOLEAN],
               UNCHANGED <<failures, temps, rotation, resets, pc, loc, faults>>
        PROVE  Basic'
    <2>1. SameSessions /\ ResetsKept
      BY <1>3, UnchangedSessions, UnchangedResets DEF Basic, rotation
    <2>2. /\ failures' \in [Users -> Nat]
          /\ temps' \in SUBSET Users /\ epoch' \in [Users -> Nat]
          /\ overlapped' \in [Users -> BOOLEAN] /\ faults' \in Nat
      BY <1>3 DEF Basic, Typed, TypeOK, rotation
    <2>. QED  BY <1>3, <2>1, <2>2, BasicStay
  <1>4. ASSUME NEW u \in Users, Disable2FA(u) PROVE Basic'
    <2>1. users' \in [Users -> User]
      BY <1>4, UserFields, UpdatedTyped DEF Disable2FA
    <2>2. raced' \in [Users -> BOOLEAN]
      <3>1. (raced[u] \/ \E w \in Workers : pc[w] = "enable" /\ loc[w].user = u) \in BOOLEAN
        OBVIOUS
      <3>. QED  BY <1>4, <3>1, Zenon DEF Disable2FA, Basic, Typed
    <2>. QED  BY <1>3, <1>4, <2>1, <2>2 DEF Disable2FA, Once
  <1>5. ASSUME NEW u \in Users, NEW p \in Passwords, UpdatePassword(u, p) PROVE Basic'
    <2>1. users' \in [Users -> User]
      BY <1>5, UserFields DEF UpdatePassword, Basic, Typed, TypeOK
    <2>2. raced' \in [Users -> BOOLEAN]
      BY <1>5 DEF UpdatePassword, Basic, Typed
    <2>. QED  BY <1>3, <1>5, <2>1, <2>2 DEF UpdatePassword, Once
  <1>6. ASSUME NEW u \in Users, DeleteUser(u) PROVE Basic'
    <2>1. users' \in [Users -> User]
      BY <1>6, UserFields DEF DeleteUser, Basic, Typed, TypeOK
    <2>2. raced' \in [Users -> BOOLEAN]
      BY <1>6 DEF DeleteUser, Basic, Typed
    <2>. QED  BY <1>3, <1>6, <2>1, <2>2 DEF DeleteUser, Once
  <1>. QED  BY <1>1, <1>2, <1>4, <1>5, <1>6 DEF SingleCall
LEMMA TimeBasic ==
    ASSUME Basic, TimePasses
    PROVE  Basic'
  <1>1. ASSUME NEW s \in DOMAIN sessions, SessionExpires(s) PROVE Basic'
    <2>1. SameSessions /\ ResetsKept
      BY <1>1, ExpiryKeeps, UnchangedResets DEF Basic, SessionExpires
    <2>2. /\ users' \in [Users -> User] /\ failures' \in [Users -> Nat]
          /\ temps' \in SUBSET Users /\ epoch' \in [Users -> Nat]
          /\ overlapped' \in [Users -> BOOLEAN] /\ raced' \in [Users -> BOOLEAN]
          /\ faults' \in Nat /\ UNCHANGED <<pc, loc>>
      BY <1>1 DEF Basic, Typed, TypeOK, accounts, requests, SessionExpires
    <2>. QED  BY <2>1, <2>2, BasicStay
  <1>2. ASSUME NEW t \in DOMAIN resets, ResetExpires(t) PROVE Basic'
    <2>1. ResetAt(t, [resets[t] EXCEPT !.expired = TRUE])
      BY <1>2, ResetFields DEF ResetExpires, ResetAt
    <2>2. SameSessions /\ ResetsKept
      BY <1>2, <2>1, ResetChanges, UnchangedSessions DEF Basic, ResetExpires, rotation
    <2>3. /\ users' \in [Users -> User] /\ failures' \in [Users -> Nat]
          /\ temps' \in SUBSET Users /\ epoch' \in [Users -> Nat]
          /\ overlapped' \in [Users -> BOOLEAN] /\ raced' \in [Users -> BOOLEAN]
          /\ faults' \in Nat /\ UNCHANGED <<pc, loc>>
      BY <1>2 DEF Basic, Typed, TypeOK, accounts, rotation, requests, ResetExpires
    <2>. QED  BY <2>2, <2>3, BasicStay
  <1>3. ASSUME NEW u \in Users, TempExpires(u) \/ WindowPasses(u) PROVE Basic'
    <2>1. SameSessions /\ ResetsKept
      BY <1>3, UnchangedSessions, UnchangedResets
         DEF Basic, TempExpires, WindowPasses, rotation
    <2>2. /\ users' \in [Users -> User] /\ temps' \in SUBSET Users /\ epoch' \in [Users -> Nat]
          /\ overlapped' \in [Users -> BOOLEAN] /\ raced' \in [Users -> BOOLEAN]
          /\ faults' \in Nat /\ UNCHANGED <<pc, loc>>
      BY <1>3 DEF Basic, Typed, TypeOK, rotation, requests, TempExpires, WindowPasses
    <2>3. failures' \in [Users -> Nat]
      <3>1. failures \in [Users -> Nat] /\ failures[u] \in Nat
        BY DEF Basic, Typed, TypeOK
      <3>2. failures[u] > 0 => failures[u] - 1 \in Nat
        BY <3>1
      <3>. QED  BY <1>3, <3>1, <3>2 DEF TempExpires, WindowPasses
    <2>. QED  BY <2>1, <2>2, <2>3, BasicStay
  <1>. QED  BY <1>1, <1>2, <1>3 DEF TimePasses

LEMMA InitBasic == Init => Basic
  <1>1. ASSUME Init PROVE Basic
    <2>1. <<>> \in Seq(Session) /\ <<>> \in Seq(Reset) /\ DOMAIN <<>> = {}
      OBVIOUS
    <2>2. users \in [Users -> User]
      BY <1>1, SessionsAssumption DEF Init, User
    <2>3. pc \in [Workers -> Labels] /\ loc \in [Workers -> Locals]
      BY <1>1, LocalsTyped DEF Init, Labels
    <2>4. Typed
      BY <1>1, <2>1, <2>2, <2>3 DEF Init, Typed, TypeOK
    <2>5. \A w \in Workers : Refers(pc[w], loc[w])
      BY <1>1 DEF Init, Refers
    <2>. QED  BY <2>4, <2>5 DEF Basic
  <1>. QED  BY <1>1

LEMMA StepBasic == Basic /\ [Next]_vars => Basic'
  <1> SUFFICES ASSUME Basic, [Next]_vars PROVE Basic'
    OBVIOUS
  <1>1. ASSUME NEW w \in Workers, WorkerStep(w) PROVE Basic'
    <2>1. CASE \/ \E u \in Users, p \in Passwords : LoginCheck(w, u, p)
               \/ \E u \in Users : Login2FA(w, u) \/ SetupRead(w, u) \/ VerifyRead(w, u)
               \/ \E s \in DOMAIN sessions, mine \in BOOLEAN : RefreshFind(w, s, mine)
               \/ \E s \in DOMAIN sessions : LogoutFind(w, s)
               \/ \E t \in DOMAIN resets, p \in Passwords : ResetFind(w, t, p)
      BY <2>1, StartsBasic
    <2>2. CASE LoginLookup(w) \/ LoginRecord(w) \/ CreateSession(w)
      BY <2>2, LoginLookupBasic, LoginRecordBasic, CreateBasic
    <2>3. CASE RefreshRevoke(w) \/ RevokeFound(w)
      BY <2>3, RefreshRevokeBasic, RevokeFoundBasic
    <2>4. CASE ResetSetPassword(w) \/ ResetFindToken(w) \/ ResetMarkUsed(w) \/ ResetRevokeAll(w)
      BY <2>4, ResetStepsBasic, RevokesBasic
    <2>5. CASE SetupStore(w) \/ VerifyEnable(w) \/ Abandon(w) \/ ResetGoesOn(w)
      BY <2>5, FactorStepsBasic, FailuresBasic
    <2>. QED  BY <1>1, <2>1, <2>2, <2>3, <2>4, <2>5 DEF WorkerStep
  <1>2. CASE UNCHANGED vars
    BY <1>2 DEF vars, Basic, Typed, TypeOK, Refers
  <1>. QED  BY <1>1, <1>2, SingleCallsBasic, TimeBasic DEF Next

LEMMA AlwaysBasic == Spec => []Basic
  BY InitBasic, StepBasic, PTL DEF Spec

-----------------------------------------------------------------------------
(* A verification under way has a secret, unless 2FA was disabled since.   *)

Backed(u) == users[u].secret \/ raced[u]

Factors ==
    /\ \A u \in Users : users[u].enabled => Backed(u)
    /\ \A w \in Workers : pc[w] = "enable" => Backed(loc[w].user)
(* Where the steps of a request lead.                                      *)
MovesTo(w, L) == \E label \in L, l \in Locals : Moves(w, label, l)

LEMMA StepMoves ==
    ASSUME Basic, NEW w \in Workers
    PROVE  /\ \A u \in Users, p \in Passwords : LoginCheck(w, u, p) => MovesTo(w, {"lookup"})
           /\ \A u \in Users : /\ Login2FA(w, u) => MovesTo(w, {"createSession"})
                               /\ SetupRead(w, u) => MovesTo(w, {"storeSecret"})
                               /\ VerifyRead(w, u) => MovesTo(w, {"enable"})
           /\ \A s \in DOMAIN sessions : LogoutFind(w, s) => MovesTo(w, {"revoke"})
           /\ \A s \in DOMAIN sessions, mine \in BOOLEAN :
                 RefreshFind(w, s, mine) => MovesTo(w, {IF mine THEN "rotate" ELSE "revoke"})
           /\ \A t \in DOMAIN resets, p \in Passwords :
                 ResetFind(w, t, p) => MovesTo(w, {"setPassword"})
           /\ LoginLookup(w) => MovesTo(w, {"recordFailure", "idle", "createSession"})
           /\ LoginRecord(w) \/ CreateSession(w) \/ RevokeFound(w) \/ ResetRevokeAll(w)
                 \/ SetupStore(w) \/ VerifyEnable(w) \/ Abandon(w) => MovesTo(w, {"idle"})
           /\ RefreshRevoke(w) => MovesTo(w, {"createSession"})
           /\ ResetSetPassword(w) => MovesTo(w, {"findToken"})
           /\ ResetFindToken(w) => MovesTo(w, {"markUsed", "revokeAll"})
           /\ ResetMarkUsed(w) \/ ResetGoesOn(w) => MovesTo(w, {"revokeAll"})
  <1>1. ASSUME NEW u \in Users, NEW p \in Passwords, LoginCheck(w, u, p)
        PROVE  MovesTo(w, {"lookup"})
    BY <1>1, LocalsTyped DEF LoginCheck, Enter, MovesTo, Moves
  <1>2. ASSUME NEW u \in Users
        PROVE  /\ Login2FA(w, u) => MovesTo(w, {"createSession"})
               /\ SetupRead(w, u) => MovesTo(w, {"storeSecret"})
               /\ VerifyRead(w, u) => MovesTo(w, {"enable"})
    <2>1. epoch[u] \in Nat
      BY DEF Basic, Typed
    <2>. QED  BY <2>1, LocalsTyped DEF Login2FA, SetupRead, VerifyRead, Start, Enter, MovesTo, Moves
  <1>3. ASSUME NEW s \in DOMAIN sessions, LogoutFind(w, s)
        PROVE  MovesTo(w, {"revoke"})
    <2>1. sessions[s] \in Session /\ s \in Nat
      BY DocumentAt, Positions DEF Basic, Typed, TypeOK
    <2>2. sessions[s].user \in Users
      BY <2>1 DEF Session
    <2>. QED  BY <1>3, <2>1, <2>2, LocalsTyped DEF LogoutFind, Start, Enter, MovesTo, Moves
  <1>4. ASSUME NEW t \in DOMAIN resets, NEW p \in Passwords, ResetFind(w, t, p)
        PROVE  MovesTo(w, {"setPassword"})
    <2>1. resets[t] \in Reset /\ t \in Nat
      BY DocumentAt, Positions DEF Basic, Typed, TypeOK
    <2>2. resets[t].user \in Users
      BY <2>1 DEF Reset
    <2>3. [OfUser(resets[t].user) EXCEPT !.password = p, !.doc = t] \in Locals
      BY <2>1, <2>2, LocalsTyped DEF Locals
    <2>. QED  BY <1>4, <2>3 DEF ResetFind, Start, Enter, MovesTo, Moves
  <1>5. LoginRecord(w) \/ CreateSession(w) \/ RevokeFound(w) \/ ResetRevokeAll(w)
          \/ SetupStore(w) \/ VerifyEnable(w) \/ Abandon(w) => MovesTo(w, {"idle"})
    BY LocalsTyped DEF LoginRecord, CreateSession, RevokeFound, ResetRevokeAll, SetupStore,
                       VerifyEnable, Abandon, Finish, Goto, MovesTo, Moves
  <1>6. loc[w] \in Locals /\ loc = [loc EXCEPT ![w] = loc[w]]
    BY DEF Basic, Typed, TypeOK
  <1>7. RefreshRevoke(w) => MovesTo(w, {"createSession"})
    BY <1>6 DEF RefreshRevoke, Goto, MovesTo, Moves
  <1>8. /\ ResetSetPassword(w) => MovesTo(w, {"findToken"})
        /\ ResetFindToken(w) => MovesTo(w, {"markUsed", "revokeAll"})
        /\ ResetMarkUsed(w) \/ ResetGoesOn(w) => MovesTo(w, {"revokeAll"})
    BY <1>6 DEF ResetSetPassword, ResetFindToken, ResetMarkUsed, ResetGoesOn, Goto, MovesTo, Moves
  <1>9. ASSUME NEW s \in DOMAIN sessions, NEW mine \in BOOLEAN, RefreshFind(w, s, mine)
        PROVE  MovesTo(w, {IF mine THEN "rotate" ELSE "revoke"})
    <2>1. sessions[s] \in Session /\ s \in Nat
      BY DocumentAt, Positions DEF Basic, Typed, TypeOK
    <2>2. sessions[s].user \in Users /\ sessions[s].born \in Nat
      BY <2>1 DEF Session
    <2>3. [OfUser(sessions[s].user) EXCEPT !.doc = s, !.born = sessions[s].born] \in Locals
      BY <2>1, <2>2, LocalsTyped DEF Locals
    <2>. QED  BY <1>9, <2>3 DEF RefreshFind, Start, Enter, MovesTo, Moves
  <1>10. LoginLookup(w) => MovesTo(w, {"recordFailure", "idle", "createSession"})
    <2>1. loc[w].user \in Users
      BY <1>6 DEF Locals
    <2>2. epoch[loc[w].user] \in Nat
      BY <2>1 DEF Basic, Typed
    <2>3. [loc[w] EXCEPT !.born = epoch[loc[w].user]] \in Locals
      BY <1>6, <2>2, LocalsTyped
    <2>. QED  BY <1>6, <2>3, LocalsTyped DEF LoginLookup, Finish, Goto, MovesTo, Moves
  <1>. QED  BY <1>1, <1>2, <1>3, <1>4, <1>5, <1>7, <1>8, <1>9, <1>10

LEMMA MovesElsewhere ==
    ASSUME Basic, NEW w \in Workers, NEW L, MovesTo(w, L)
    PROVE  /\ \A v \in Workers : v # w => pc'[v] = pc[v] /\ loc'[v] = loc[v]
           /\ pc'[w] \in L
  BY DEF MovesTo, Moves, Basic, Typed, TypeOK

(* Neither the accounts nor the verifications under way change.            *)
LEMMA QuietFactors ==
    ASSUME Basic, Factors, NEW w \in Workers, NEW L, MovesTo(w, L), "enable" \notin L,
           UNCHANGED <<users, raced>>
    PROVE  Factors'
  BY MovesElsewhere DEF Factors, Backed

LEMMA StillFactors ==
    ASSUME Factors, UNCHANGED <<users, raced, pc, loc>>
    PROVE  Factors'
  BY DEF Factors, Backed

(* An account changes, and keeps its secret or counts as raced.            *)
LEMMA AccountFactors ==
    ASSUME Basic, Factors, NEW u \in Users, NEW new \in User, users' = [users EXCEPT ![u] = new],
           new.enabled => new.secret \/ raced'[u],
           \A v \in Users : raced[v] => raced'[v],
           \A v \in Workers : pc'[v] = "enable" =>
               /\ pc[v] = "enable" /\ loc'[v] = loc[v]
               /\ loc[v].user = u => new.secret \/ raced'[u]
    PROVE  Factors'
  <1>1. \A v \in Users : users'[v] = IF v = u THEN new ELSE users[v]
    BY DEF Basic, Typed, TypeOK
  <1>2. \A v \in Workers : loc[v].user \in Users
    BY DEF Basic, Typed, TypeOK, Locals
  <1>3. ASSUME NEW v \in Users PROVE users'[v].enabled => Backed(v)'
    BY <1>1 DEF Factors, Backed
  <1>4. ASSUME NEW v \in Workers, pc'[v] = "enable" PROVE Backed(loc[v].user)'
    <2>1. /\ pc[v] = "enable" /\ loc'[v] = loc[v] /\ Backed(loc[v].user)
          /\ loc[v].user = u => new.secret \/ raced'[u]
      BY <1>4 DEF Factors
    <2>. QED  BY <1>1, <1>2, <2>1 DEF Backed
  <1>. QED  BY <1>3, <1>4 DEF Factors

(* The same for an account that is gone: then nothing changes.             *)
LEMMA UpdateFactors ==
    ASSUME Basic, Factors, NEW u \in Users, NEW new \in User, users' = Updated(u, new),
           new.enabled => new.secret \/ raced'[u],
           \A v \in Users : raced[v] => raced'[v],
           \A v \in Workers : pc'[v] = "enable" =>
               /\ pc[v] = "enable" /\ loc'[v] = loc[v]
               /\ loc[v].user = u => new.secret \/ raced'[u]
    PROVE  Factors'
  <1>1. CASE users[u].exists
    <2>1. users' = [users EXCEPT ![u] = new]
      BY <1>1 DEF Updated
    <2>. QED  BY <2>1, AccountFactors
  <1>2. CASE ~users[u].exists
    <2>1. users' = users
      BY <1>2 DEF Updated, Basic, Typed, TypeOK
    <2>. QED  BY <2>1 DEF Factors, Backed, Basic, Typed, TypeOK, Locals
  <1>. QED  BY <1>1, <1>2
LEMMA WorkerFactors ==
    ASSUME Basic, Factors, NEW w \in Workers, WorkerStep(w)
    PROVE  Factors'
  <1>1. loc[w].user \in Users /\ loc[w].password \in Passwords
    BY DEF Basic, Typed, TypeOK, Locals
  <1>2. users[loc[w].user] \in User
    BY <1>1 DEF Basic, Typed, TypeOK
  <1>3. ASSUME NEW u \in Users, NEW p \in Passwords, LoginCheck(w, u, p) PROVE Factors'
    BY <1>3, StepMoves, QuietFactors DEF LoginCheck, accounts
  <1>4. ASSUME NEW u \in Users, Login2FA(w, u) \/ SetupRead(w, u) PROVE Factors'
    BY <1>4, StepMoves, QuietFactors DEF Login2FA, SetupRead, accounts
  <1>5. ASSUME NEW u \in Users, VerifyRead(w, u) PROVE Factors'
    <2>1. /\ \A v \in Workers : v # w => pc'[v] = pc[v] /\ loc'[v] = loc[v]
          /\ loc'[w].user = u
      BY <1>5, LocalsTyped DEF VerifyRead, Start, Enter, Basic, Typed, TypeOK
    <2>2. users' = users /\ raced' = raced /\ users[u].secret
      BY <1>5 DEF VerifyRead, HasSecret, accounts
    <2>. QED  BY <2>1, <2>2 DEF Factors, Backed
  <1>6. ASSUME NEW s \in DOMAIN sessions, NEW mine \in BOOLEAN, RefreshFind(w, s, mine)
        PROVE  Factors'
    BY <1>6, StepMoves, QuietFactors DEF RefreshFind, accounts
  <1>7. ASSUME NEW s \in DOMAIN sessions, LogoutFind(w, s) PROVE Factors'
    BY <1>7, StepMoves, QuietFactors DEF LogoutFind, accounts
  <1>8. ASSUME NEW t \in DOMAIN resets, NEW p \in Passwords, ResetFind(w, t, p) PROVE Factors'
    BY <1>8, StepMoves, QuietFactors DEF ResetFind, accounts
  <1>9. CASE LoginLookup(w) \/ LoginRecord(w) \/ CreateSession(w) \/ RevokeFound(w)
    BY <1>9, StepMoves, QuietFactors DEF LoginLookup, LoginRecord, CreateSession, RevokeFound, accounts
  <1>10. CASE RefreshRevoke(w) \/ ResetFindToken(w) \/ ResetMarkUsed(w) \/ ResetRevokeAll(w)
                 \/ Abandon(w) \/ ResetGoesOn(w)
    BY <1>10, StepMoves, QuietFactors DEF RefreshRevoke, ResetFindToken, ResetMarkUsed,
                                          ResetRevokeAll, Abandon, ResetGoesOn, accounts
  <1>11. CASE ResetSetPassword(w)
    <2> DEFINE new == [users[loc[w].user] EXCEPT !.password = loc[w].password]
    <2>1. /\ new \in User
          /\ new.enabled = users[loc[w].user].enabled /\ new.secret = users[loc[w].user].secret
      BY <1>1, <1>2 DEF User
    <2>2. users' = Updated(loc[w].user, new) /\ raced' = raced
      BY <1>11 DEF ResetSetPassword
    <2>3. \A v \in Workers : pc'[v] = "enable" => pc[v] = "enable" /\ loc'[v] = loc[v]
      BY <1>11, StepMoves, MovesElsewhere
    <2> HIDE DEF new
    <2>. QED  BY <1>1, <2>1, <2>2, <2>3, UpdateFactors DEF Factors, Backed
  <1>12. CASE SetupStore(w)
    <2> DEFINE new == [users[loc[w].user] EXCEPT !.secret = TRUE]
    <2>1. new \in User /\ new.secret
      BY <1>1, <1>2 DEF User
    <2>2. users' = Updated(loc[w].user, new) /\ raced' = raced
      BY <1>12 DEF SetupStore
    <2>3. \A v \in Workers : pc'[v] = "enable" => pc[v] = "enable" /\ loc'[v] = loc[v]
      BY <1>12, StepMoves, MovesElsewhere
    <2> HIDE DEF new
    <2>. QED  BY <1>1, <2>1, <2>2, <2>3, UpdateFactors
  <1>13. CASE VerifyEnable(w)
    <2> DEFINE new == [users[loc[w].user] EXCEPT !.enabled = TRUE]
    <2>1. new \in User /\ new.secret = users[loc[w].user].secret
      BY <1>1, <1>2 DEF User
    <2>2. users' = Updated(loc[w].user, new) /\ raced' = raced
      BY <1>13 DEF VerifyEnable
    <2>3. \A v \in Workers : pc'[v] = "enable" => pc[v] = "enable" /\ loc'[v] = loc[v]
      BY <1>13, StepMoves, MovesElsewhere
    <2>4. new.secret \/ raced'[loc[w].user]
      BY <1>13, <2>1, <2>2 DEF VerifyEnable, Factors, Backed
    <2> HIDE DEF new
    <2>. QED  BY <1>1, <2>1, <2>2, <2>3, <2>4, UpdateFactors
  <1>. QED  BY <1>3, <1>4, <1>5, <1>6, <1>7, <1>8, <1>9, <1>10, <1>11, <1>12, <1>13 DEF WorkerStep

LEMMA CallFactors ==
    ASSUME Basic, Factors, SingleCall
    PROVE  Factors'
  <1>0. \A u \in Users : users[u] \in User
    BY DEF Basic, Typed, TypeOK
  <1>1. CASE \E s \in DOMAIN sessions : RevokeSession(s)
    BY <1>1, StillFactors DEF RevokeSession, accounts, Once
  <1>2. CASE \E u \in Users : LogoutAll(u) \/ GenerateResetToken(u)
    BY <1>2, StillFactors DEF LogoutAll, GenerateResetToken, accounts, Once
  <1>3. ASSUME NEW u \in Users, Disable2FA(u) PROVE Factors'
    <2> DEFINE new == [users[u] EXCEPT !.enabled = FALSE, !.secret = FALSE]
               race == raced[u] \/ \E w \in Workers : pc[w] = "enable" /\ loc[w].user = u
    <2>1. new \in User /\ ~new.enabled
      BY <1>0, UserFields
    <2>2. raced' = [raced EXCEPT ![u] = race]
      BY <1>3 DEF Disable2FA
    <2>3. /\ \A v \in Users : v # u => raced'[v] = raced[v]
          /\ raced'[u] = race
      BY <2>2, Zenon DEF Basic, Typed
    <2>4. /\ \A v \in Users : raced[v] => raced'[v]
          /\ \A v \in Workers : pc[v] = "enable" /\ loc[v].user = u => raced'[u]
      BY <2>3, Zenon
    <2>5. users' = Updated(u, new) /\ UNCHANGED <<pc, loc>>
      BY <1>3 DEF Disable2FA, Once
    <2> HIDE DEF new, race
    <2>. QED  BY <2>1, <2>4, <2>5, UpdateFactors
  <1>4. ASSUME NEW u \in Users, DeleteUser(u) PROVE Factors'
    <2> DEFINE new == [users[u] EXCEPT !.exists = FALSE]
    <2>1. new \in User /\ new.enabled = users[u].enabled /\ new.secret = users[u].secret
      BY <1>0 DEF User
    <2>2. users' = [users EXCEPT ![u] = new] /\ UNCHANGED <<raced, pc, loc>>
      BY <1>4 DEF DeleteUser, Once
    <2> HIDE DEF new
    <2>. QED  BY <2>1, <2>2, AccountFactors DEF Factors, Backed
  <1>5. ASSUME NEW u \in Users, NEW p \in Passwords, UpdatePassword(u, p) PROVE Factors'
    <2> DEFINE new == [users[u] EXCEPT !.password = p]
    <2>1. new \in User /\ new.enabled = users[u].enabled /\ new.secret = users[u].secret
      BY <1>0 DEF User
    <2>2. users' = [users EXCEPT ![u] = new] /\ UNCHANGED <<raced, pc, loc>>
      BY <1>5 DEF UpdatePassword, Once
    <2> HIDE DEF new
    <2>. QED  BY <2>1, <2>2, AccountFactors DEF Factors, Backed
  <1>. QED  BY <1>1, <1>2, <1>3, <1>4, <1>5 DEF SingleCall

(* Sessions SessionsWellFormed: the users, sessions and reset tokens keep their    *)
(* types, a rotated session descends from an older one of its user, and no *)
(* account asks for a code without a secret to check it against unless 2FA *)
(* was disabled between the two calls of a verification (core/auth).       *)
THEOREM SessionsAreWellFormed == Spec => []SessionsWellFormed
  <1>1. Init => Factors
    BY DEF Init, Factors
  <1>2. Basic /\ Factors /\ [Next]_vars => Factors'
    <2> SUFFICES ASSUME Basic, Factors, [Next]_vars PROVE Factors'
      OBVIOUS
    <2>1. CASE TimePasses
      BY <2>1, StillFactors DEF TimePasses, SessionExpires, ResetExpires, TempExpires,
                                WindowPasses, accounts, requests
    <2>2. CASE UNCHANGED vars
      BY <2>2, StillFactors DEF vars
    <2>. QED  BY <2>1, <2>2, WorkerFactors, CallFactors DEF Next
  <1>3. Basic /\ Factors => SessionsWellFormed
    BY DEF Basic, Typed, Factors, Backed, SessionsWellFormed
  <1>. QED  BY <1>1, <1>2, <1>3, AlwaysBasic, PTL DEF Spec
-----------------------------------------------------------------------------
(* Every login under way was let in when fewer than MaxAttempts failures   *)
(* were counted, or because the count failed, and records at most one.     *)

LoggingIn(u) == {w \in Workers : pc[w] \in {"lookup", "recordFailure"} /\ loc[w].user = u}

Attempts ==
    \A u \in Users :
        failures[u] + Cardinality(LoggingIn(u)) <= MaxAttempts - 1 + Cardinality(Workers) + faults

LEMMA LoginsCounted ==
    ASSUME NEW u
    PROVE  /\ Cardinality(LoggingIn(u)) \in Nat /\ Cardinality(LoggingIn(u)') \in Nat
           /\ Cardinality(LoggingIn(u)') <= Cardinality(Workers)
           /\ Cardinality(Workers) \in Nat
           /\ LoggingIn(u)' \subseteq LoggingIn(u) =>
                 Cardinality(LoggingIn(u)') <= Cardinality(LoggingIn(u))
  <1>1. LoggingIn(u) \subseteq Workers /\ LoggingIn(u)' \subseteq Workers
    BY DEF LoggingIn
  <1>. QED  BY <1>1, SessionsAssumption, FS_Subset, FS_CardinalityType

LEMMA WorkerFaults ==
    ASSUME Basic, NEW w \in Workers, WorkerStep(w)
    PROVE  /\ faults \in Nat /\ faults' \in Nat
           /\ faults <= faults'
  <1>1. faults \in Nat
    BY DEF Basic, Typed
  <1>2. faults' = faults \/ faults' = faults + 1
    BY DEF WorkerStep, LoginCheck, Login2FA, SetupRead, VerifyRead, RefreshFind, LogoutFind,
           ResetFind, LoginLookup, LoginRecord, CreateSession, RefreshRevoke, RevokeFound,
           ResetSetPassword, ResetFindToken, ResetMarkUsed, ResetRevokeAll, SetupStore,
           VerifyEnable, Abandon, ResetGoesOn, Start, Goto, Finish, Fault
  <1>. QED  BY <1>1, <1>2

(* No failure is added and no login starts.                                *)
LEMMA QuietAttempts ==
    ASSUME Basic, Attempts, \A u \in Users : failures'[u] \in Nat /\ failures'[u] <= failures[u],
           \A u \in Users : LoggingIn(u)' \subseteq LoggingIn(u),
           faults \in Nat, faults' \in Nat, faults <= faults'
    PROVE  Attempts'
  <1>1. ASSUME NEW u \in Users
        PROVE  failures'[u] + Cardinality(LoggingIn(u)') <= MaxAttempts - 1 + Cardinality(Workers) + faults'
    <2>1. PICK a \in Nat, b \in Nat : a = Cardinality(LoggingIn(u)) /\ b = Cardinality(LoggingIn(u)')
      BY LoginsCounted
    <2>2. b <= a
      BY <2>1, LoginsCounted
    <2>3. failures[u] \in Nat
      BY DEF Basic, Typed, TypeOK
    <2>4. failures[u] + a <= MaxAttempts - 1 + Cardinality(Workers) + faults
      BY <2>1 DEF Attempts
    <2>. QED  BY <2>1, <2>2, <2>3, <2>4, LoginsCounted, SessionsAssumption
  <1>. QED  BY <1>1 DEF Attempts

LEMMA FewerLogins ==
    ASSUME Basic, NEW w \in Workers, NEW L, MovesTo(w, L),
           \/ "lookup" \notin L /\ "recordFailure" \notin L
           \/ pc[w] = "lookup" /\ loc'[w].user = loc[w].user
    PROVE  \A u \in Users : LoggingIn(u)' \subseteq LoggingIn(u)
  BY MovesElsewhere DEF LoggingIn

LEMMA SameLogins ==
    ASSUME UNCHANGED <<pc, loc>>
    PROVE  \A u \in Users : LoggingIn(u)' \subseteq LoggingIn(u)
  BY DEF LoggingIn

LEMMA FailuresTyped ==
    ASSUME Basic, failures' = failures
    PROVE  \A u \in Users : failures'[u] \in Nat /\ failures'[u] <= failures[u]
  BY DEF Basic, Typed, TypeOK

LEMMA WorkerAttempts ==
    ASSUME Basic, Attempts, NEW w \in Workers, WorkerStep(w)
    PROVE  Attempts'
  <1>0. faults \in Nat /\ faults' \in Nat /\ faults <= faults'
    BY WorkerFaults
  <1>1. ASSUME NEW u \in Users, NEW p \in Passwords, LoginCheck(w, u, p) PROVE Attempts'
    <2>1. /\ \A v \in Workers : v # w => pc'[v] = pc[v] /\ loc'[v] = loc[v]
          /\ loc'[w].user = u
      BY <1>1, LocalsTyped DEF LoginCheck, Enter, Basic, Typed, TypeOK, Locals
    <2>2. failures' = failures
      BY <1>1 DEF LoginCheck, accounts
    <2>3. \A v \in Users : failures[v] \in Nat
      BY DEF Basic, Typed, TypeOK
    <2>4. failures[u] < MaxAttempts \/ faults' = faults + 1
      BY <1>1, <2>3, SessionsAssumption DEF LoginCheck, Locked, Fault
    <2>5. ASSUME NEW v \in Users
          PROVE  failures'[v] + Cardinality(LoggingIn(v)')
                   <= MaxAttempts - 1 + Cardinality(Workers) + faults'
      <3>1. CASE v = u
        <4>1. PICK b \in Nat, k \in Nat : /\ b = Cardinality(LoggingIn(v)')
                                          /\ k = Cardinality(Workers) /\ b <= k
          BY LoginsCounted
        <4>2. CASE failures[u] < MaxAttempts
          BY <1>0, <2>2, <2>3, <3>1, <4>1, <4>2, SessionsAssumption
        <4>3. CASE faults' = faults + 1
          <5>1. PICK a \in Nat : /\ a = Cardinality(LoggingIn(v))
                                 /\ b <= a + 1
            <6>1. \A x \in Workers : x # w => (x \in LoggingIn(v) <=> x \in LoggingIn(v)')
              BY <2>1 DEF LoggingIn
            <6>2. LoggingIn(v) \subseteq Workers /\ LoggingIn(v)' \subseteq Workers
              BY DEF LoggingIn
            <6>3. PICK a \in Nat : a = Cardinality(LoggingIn(v))
              BY LoginsCounted
            <6>4. b = a - 1 \/ b = a + 1 \/ b = a
              BY <4>1, <6>1, <6>2, <6>3, OneMoves, SessionsAssumption
            <6>. QED  BY <4>1, <6>3, <6>4
          <5>2. failures[v] + a <= MaxAttempts - 1 + k + faults
            BY <4>1, <5>1 DEF Attempts
          <5>. QED  BY <1>0, <2>2, <2>3, <4>1, <4>3, <5>1, <5>2, SessionsAssumption
        <4>. QED  BY <2>4, <3>1, <4>2, <4>3
      <3>2. CASE v # u
        <4>1. LoggingIn(v)' \subseteq LoggingIn(v)
          BY <2>1, <3>2 DEF LoggingIn
        <4>2. PICK a \in Nat, b \in Nat : /\ a = Cardinality(LoggingIn(v))
                                          /\ b = Cardinality(LoggingIn(v)') /\ b <= a
          BY <4>1, LoginsCounted
        <4>3. failures[v] + a <= MaxAttempts - 1 + Cardinality(Workers) + faults
          BY <4>2 DEF Attempts
        <4>. QED  BY <1>0, <2>2, <2>3, <4>2, <4>3, LoginsCounted, SessionsAssumption
      <3>. QED  BY <3>1, <3>2
    <2>. QED  BY <2>5 DEF Attempts
  <1>2. ASSUME NEW u \in Users, Login2FA(w, u) \/ SetupRead(w, u) \/ VerifyRead(w, u)
        PROVE  Attempts'
    <2>1. failures' = failures
      BY <1>2 DEF Login2FA, SetupRead, VerifyRead, accounts
    <2>2. \A v \in Users : LoggingIn(v)' \subseteq LoggingIn(v)
      BY <1>2, StepMoves, FewerLogins
    <2>. QED  BY <2>1, <2>2, FailuresTyped, QuietAttempts, <1>0
  <1>3. ASSUME NEW s \in DOMAIN sessions, NEW mine \in BOOLEAN, RefreshFind(w, s, mine)
        PROVE  Attempts'
    <2>1. failures' = failures
      BY <1>3 DEF RefreshFind, accounts
    <2>2. \A v \in Users : LoggingIn(v)' \subseteq LoggingIn(v)
      <3>1. MovesTo(w, {IF mine THEN "rotate" ELSE "revoke"})
        BY <1>3, StepMoves
      <3>. QED  BY <3>1, FewerLogins
    <2>. QED  BY <2>1, <2>2, FailuresTyped, QuietAttempts, <1>0
  <1>4. ASSUME NEW s \in DOMAIN sessions, LogoutFind(w, s) PROVE Attempts'
    <2>1. failures' = failures
      BY <1>4 DEF LogoutFind, accounts
    <2>2. \A v \in Users : LoggingIn(v)' \subseteq LoggingIn(v)
      BY <1>4, StepMoves, FewerLogins
    <2>. QED  BY <2>1, <2>2, FailuresTyped, QuietAttempts, <1>0
  <1>5. ASSUME NEW t \in DOMAIN resets, NEW p \in Passwords, ResetFind(w, t, p) PROVE Attempts'
    <2>1. failures' = failures
      BY <1>5 DEF ResetFind, accounts
    <2>2. \A v \in Users : LoggingIn(v)' \subseteq LoggingIn(v)
      BY <1>5, StepMoves, FewerLogins
    <2>. QED  BY <2>1, <2>2, FailuresTyped, QuietAttempts, <1>0
  <1>6. CASE LoginLookup(w)
    <2>1. failures' = failures /\ pc[w] = "lookup"
      BY <1>6 DEF LoginLookup
    <2>2. \/ MovesTo(w, {"idle"})
          \/ MovesTo(w, {"createSession"})
          \/ MovesTo(w, {"recordFailure"}) /\ loc'[w].user = loc[w].user
      <3>1. /\ loc[w] \in Locals /\ loc[w].user \in Users /\ epoch[loc[w].user] \in Nat
        BY DEF Basic, Typed, TypeOK, Locals
      <3>2. [loc[w] EXCEPT !.born = epoch[loc[w].user]] \in Locals
        BY <3>1, LocalsTyped
      <3>3. CASE Goto(w, "recordFailure", loc[w])
        BY <3>1, <3>3 DEF Goto, MovesTo, Moves, Basic, Typed, TypeOK
      <3>4. CASE Finish(w)
        BY <3>4, LocalsTyped DEF Finish, Goto, MovesTo, Moves
      <3>5. CASE Goto(w, "createSession", [loc[w] EXCEPT !.born = epoch[loc[w].user]])
        BY <3>2, <3>5 DEF Goto, MovesTo, Moves
      <3>6. CASE pc' = [pc EXCEPT ![w] = "recordFailure"] /\ UNCHANGED <<loc, started, temps>>
        BY <3>1, <3>6 DEF MovesTo, Moves, Basic, Typed, TypeOK
      <3>. QED  BY <1>6, <3>3, <3>4, <3>5, <3>6 DEF LoginLookup
    <2>3. \A v \in Users : LoggingIn(v)' \subseteq LoggingIn(v)
      BY <2>1, <2>2, FewerLogins
    <2>. QED  BY <2>1, <2>3, FailuresTyped, QuietAttempts, <1>0
  <1>7. CASE LoginRecord(w)
    <2>1. PICK u \in Users : u = loc[w].user
      BY DEF Basic, Typed, TypeOK, Locals
    <2>2. /\ \A v \in Users : failures'[v] = IF v = u THEN failures[v] + 1 ELSE failures[v]
          /\ \A v \in Users : failures[v] \in Nat
      BY <1>7, <2>1 DEF LoginRecord, Basic, Typed, TypeOK
    <2>3. /\ \A v \in Workers : v # w => pc'[v] = pc[v] /\ loc'[v] = loc[v]
          /\ pc'[w] = "idle"
      BY <1>7, StepMoves, MovesElsewhere
    <2>4. pc[w] = "recordFailure"
      BY <1>7 DEF LoginRecord
    <2>5. ASSUME NEW v \in Users
          PROVE  failures'[v] + Cardinality(LoggingIn(v)')
                   <= MaxAttempts - 1 + Cardinality(Workers) + faults'
      <3>1. /\ LoggingIn(v) \subseteq Workers /\ LoggingIn(v)' \subseteq Workers
            /\ \A x \in Workers : x # w => (x \in LoggingIn(v) <=> x \in LoggingIn(v)')
            /\ w \notin LoggingIn(v)'
            /\ w \in LoggingIn(v) <=> v = u
        BY <2>1, <2>3, <2>4 DEF LoggingIn
      <3>2. PICK a \in Nat, b \in Nat :
               /\ a = Cardinality(LoggingIn(v)) /\ b = Cardinality(LoggingIn(v)')
        BY LoginsCounted
      <3>3. /\ v = u => b = a - 1
            /\ v # u => b = a
        BY <3>1, <3>2, OneMoves, SessionsAssumption
      <3>4. failures[v] + a <= MaxAttempts - 1 + Cardinality(Workers) + faults
        BY <3>2 DEF Attempts
      <3>. QED  BY <1>0, <2>2, <3>2, <3>3, <3>4, LoginsCounted, SessionsAssumption
    <2>. QED  BY <2>5 DEF Attempts
  <1>8. ASSUME NEW L, MovesTo(w, L), "lookup" \notin L, "recordFailure" \notin L,
               failures' = failures
        PROVE  Attempts'
    BY <1>8, <1>0, FewerLogins, FailuresTyped, QuietAttempts
  <1>9. CASE CreateSession(w) \/ RevokeFound(w) \/ ResetRevokeAll(w) \/ SetupStore(w)
               \/ VerifyEnable(w) \/ Abandon(w)
    <2>1. failures' = failures
      BY <1>9 DEF CreateSession, RevokeFound, ResetRevokeAll, SetupStore, VerifyEnable, Abandon, accounts
    <2>. QED  BY <1>8, <1>9, <2>1, StepMoves
  <1>10. CASE RefreshRevoke(w) \/ ResetSetPassword(w) \/ ResetFindToken(w)
               \/ ResetMarkUsed(w) \/ ResetGoesOn(w)
    <2>1. failures' = failures
      BY <1>10 DEF RefreshRevoke, ResetSetPassword, ResetFindToken, ResetMarkUsed, ResetGoesOn, accounts
    <2>. QED  BY <1>8, <1>10, <2>1, StepMoves
  <1>. QED  BY <1>1, <1>2, <1>3, <1>4, <1>5, <1>6, <1>7, <1>9, <1>10 DEF WorkerStep

(* FailuresBounded: the failures counted for an account in a window never  *)
(* exceed the limit by more than the logins let in before the last ones    *)
(* were recorded, and those let in because the count failed                *)
(* (core/auth CheckBruteForce, RecordAttempt).                             *)
THEOREM FailuresAreBounded == Spec => []FailuresBounded
  <1>1. Init => Attempts
    <2>1. Init => \A u \in Users : LoggingIn(u) = {} /\ failures[u] = 0 /\ faults = 0
      BY DEF Init, LoggingIn
    <2>2. PICK k \in Nat : k = Cardinality(Workers)
      BY FS_CardinalityType, SessionsAssumption
    <2>3. Cardinality({}) = 0 /\ 0 + 0 <= MaxAttempts - 1 + k + 0
      BY FS_EmptySet, SessionsAssumption
    <2>. QED  BY <2>1, <2>2, <2>3 DEF Attempts
  <1>2. Basic /\ Attempts /\ [Next]_vars => Attempts'
    <2> SUFFICES ASSUME Basic, Attempts, [Next]_vars PROVE Attempts'
      OBVIOUS
    <2>0. faults \in Nat
      BY DEF Basic, Typed
    <2>1. CASE SingleCall
      <3>1. failures' = failures /\ UNCHANGED <<pc, loc, faults>>
        BY <2>1 DEF SingleCall, RevokeSession, LogoutAll, GenerateResetToken, Disable2FA,
                    DeleteUser, UpdatePassword, Once, accounts
      <3>. QED  BY <2>0, <3>1, SameLogins, FailuresTyped, QuietAttempts
    <2>2. CASE TimePasses
      <3>1. UNCHANGED <<pc, loc, faults>>
        BY <2>2 DEF TimePasses, SessionExpires, ResetExpires, TempExpires, WindowPasses, requests
      <3>2. failures' = failures \/ \E u \in Users : WindowPasses(u)
        BY <2>2 DEF TimePasses, SessionExpires, ResetExpires, TempExpires, accounts
      <3>3. \A u \in Users : failures'[u] \in Nat /\ failures'[u] <= failures[u]
        <4>1. ASSUME NEW u \in Users, WindowPasses(u), NEW v \in Users
              PROVE  failures'[v] \in Nat /\ failures'[v] <= failures[v]
          BY <4>1 DEF WindowPasses, Basic, Typed, TypeOK
        <4>. QED  BY <3>2, <4>1, FailuresTyped
      <3>. QED  BY <2>0, <3>1, <3>3, SameLogins, QuietAttempts
    <2>3. CASE UNCHANGED vars
      <3>1. failures' = failures /\ UNCHANGED <<pc, loc, faults>>
        BY <2>3 DEF vars
      <3>. QED  BY <2>0, <3>1, SameLogins, FailuresTyped, QuietAttempts
    <2>. QED  BY <2>1, <2>2, <2>3, WorkerAttempts DEF Next
  <1>3. Basic /\ Attempts => FailuresBounded
    <2> SUFFICES ASSUME Basic, Attempts, NEW u \in Users
        PROVE  failures[u] + Cardinality({w \in Workers : pc[w] = "recordFailure" /\ loc[w].user = u})
                 <= MaxAttempts - 1 + Cardinality(Workers) + faults
      BY DEF FailuresBounded
    <2> DEFINE F == {w \in Workers : pc[w] = "recordFailure" /\ loc[w].user = u}
    <2>1. F \subseteq LoggingIn(u) /\ LoggingIn(u) \subseteq Workers
      BY DEF LoggingIn
    <2>2. /\ Cardinality(F) \in Nat /\ Cardinality(LoggingIn(u)) \in Nat
          /\ Cardinality(F) <= Cardinality(LoggingIn(u))
      BY <2>1, FS_Subset, FS_CardinalityType, SessionsAssumption
    <2>3. failures[u] \in Nat /\ Cardinality(Workers) \in Nat /\ faults \in Nat
      BY FS_CardinalityType, SessionsAssumption DEF Basic, Typed, TypeOK
    <2>4. failures[u] + Cardinality(LoggingIn(u)) <= MaxAttempts - 1 + Cardinality(Workers) + faults
      BY DEF Attempts
    <2> HIDE DEF F
    <2>5. failures[u] + Cardinality(F) <= MaxAttempts - 1 + Cardinality(Workers) + faults
      BY <2>2, <2>3, <2>4, SessionsAssumption
    <2>. QED  BY <2>5 DEF F
  <1>. QED  BY <1>1, <1>2, <1>3, AlwaysBasic, PTL DEF Spec
-----------------------------------------------------------------------------
(* Unless a session of the user was being created at the last revocation,  *)
(* what is live or about to be goes back to a login after it.              *)

OfEpoch(u) ==
    /\ \A s \in DOMAIN sessions :
          sessions[s].user = u /\ ~sessions[s].revoked => sessions[s].born = epoch[u]
    /\ \A w \in Workers :
          pc[w] \in {"rotate", "createSession"} /\ loc[w].user = u => loc[w].born = epoch[u]

Final == \A u \in Users : overlapped[u] \/ OfEpoch(u)

LEMMA MovesFinal ==
    ASSUME Basic, Final, NEW w \in Workers, NEW label, NEW l \in Locals, Moves(w, label, l),
           label \in {"rotate", "createSession"} => overlapped[l.user] \/ l.born = epoch[l.user],
           SameSessions, UNCHANGED <<epoch, overlapped>>
    PROVE  Final'
  <1>1. /\ pc'[w] = label /\ loc'[w] = l
        /\ \A v \in Workers : v # w => pc'[v] = pc[v] /\ loc'[v] = loc[v]
    BY DEF Moves, Basic, Typed, TypeOK
  <1>2. ASSUME NEW u \in Users, OfEpoch(u), ~overlapped[u] PROVE OfEpoch(u)'
    BY <1>1, <1>2 DEF OfEpoch, SameSessions, SessionsKept
  <1>. QED  BY <1>2 DEF Final

(* Nothing is about to be created that was not before.                     *)
LEMMA QuietFinal ==
    ASSUME Basic, Final, NEW w \in Workers, NEW L, MovesTo(w, L),
           "rotate" \notin L, "createSession" \notin L,
           SameSessions, UNCHANGED <<epoch, overlapped>>
    PROVE  Final'
  <1>1. PICK label \in L, l \in Locals : Moves(w, label, l)
    BY DEF MovesTo
  <1>. QED  BY <1>1, MovesFinal

LEMMA StillFinal ==
    ASSUME Final, UNCHANGED <<pc, loc, epoch, overlapped>>, SameSessions
    PROVE  Final'
  <1>1. ASSUME NEW u \in Users, OfEpoch(u) PROVE OfEpoch(u)'
    BY <1>1 DEF OfEpoch, SameSessions, SessionsKept
  <1>. QED  BY <1>1 DEF Final

(* A revocation of all sessions.  The goroutine that makes it, if it is a  *)
(* request of several calls, is not creating a session then or later.      *)
LEMMA RevokeAllFinal ==
    ASSUME Basic, Final, NEW u \in Users, RevokeAllUserSessions(u),
           \A v \in Workers : pc'[v] \in {"rotate", "createSession"} =>
               pc'[v] = pc[v] /\ loc'[v] = loc[v]
    PROVE  Final'
  <1>1. SameSessions
        /\ \A s \in DOMAIN sessions :
              sessions'[s].revoked <=> (sessions[s].revoked \/ s \in ToRevoke(u))
    BY RevokedKeeps DEF RevokeAllUserSessions, Basic
  <1> DEFINE busy == Creating(u)
  <1>2. epoch' = [epoch EXCEPT ![u] = epoch[u] + 1] /\ overlapped' = [overlapped EXCEPT ![u] = busy]
    BY DEF RevokeAllUserSessions
  <1>3. \A v \in Users : v # u => epoch'[v] = epoch[v]
    BY <1>2 DEF Basic, Typed
  <1>4. (\A v \in Users : v # u => overlapped'[v] = overlapped[v]) /\ overlapped'[u] = busy
    BY <1>2, Zenon DEF Basic, Typed
  <1>5. ASSUME NEW v \in Users, v # u, OfEpoch(v) PROVE OfEpoch(v)'
    BY <1>1, <1>3, <1>5 DEF OfEpoch, SameSessions, SessionsKept
  <1>6. ASSUME ~busy PROVE OfEpoch(u)'
    <2>1. \A s \in DOMAIN sessions' : sessions'[s].user = u => sessions'[s].revoked
      BY <1>1 DEF SameSessions, SessionsKept, ToRevoke, SessionsOf
    <2>2. \A w \in Workers : ~(pc'[w] \in {"rotate", "createSession"} /\ loc'[w].user = u)
      BY <1>6 DEF Creating
    <2>. QED  BY <2>1, <2>2 DEF OfEpoch
  <1> HIDE DEF busy
  <1>7. ASSUME NEW v \in Users PROVE overlapped'[v] \/ OfEpoch(v)'
    <2>1. CASE v = u
      BY <1>4, <1>6, <2>1, Zenon
    <2>2. CASE v # u
      BY <1>4, <1>5, <2>2, Zenon DEF Final
    <2>. QED  BY <2>1, <2>2
  <1>. QED  BY <1>7 DEF Final

LEMMA WorkerFinal ==
    ASSUME Basic, Final, NEW w \in Workers, WorkerStep(w)
    PROVE  Final'
  <1>0. sessions' = sessions => SameSessions
    BY UnchangedSessions DEF Basic
  <1>1. ASSUME NEW L, MovesTo(w, L), "rotate" \notin L, "createSession" \notin L,
               UNCHANGED rotation
        PROVE  Final'
    BY <1>0, <1>1, QuietFinal DEF rotation
  <1>2. /\ loc[w] \in Locals /\ loc[w].user \in Users
        /\ \A u \in Users : epoch[u] \in Nat
    BY DEF Basic, Typed, TypeOK, Locals
  <1>3. ASSUME NEW u \in Users, NEW p \in Passwords, LoginCheck(w, u, p) PROVE Final'
    BY <1>1, <1>3, StepMoves DEF LoginCheck
  <1>4. ASSUME NEW u \in Users, SetupRead(w, u) \/ VerifyRead(w, u) PROVE Final'
    BY <1>1, <1>4, StepMoves DEF SetupRead, VerifyRead
  <1>5. ASSUME NEW u \in Users, Login2FA(w, u) PROVE Final'
    <2> DEFINE l == [OfUser(u) EXCEPT !.born = epoch[u]]
    <2>1. l \in Locals /\ l.user = u /\ l.born = epoch[u]
      BY <1>2, LocalsTyped DEF Locals
    <2>2. Moves(w, "createSession", l)
      BY <1>5 DEF Login2FA, Start, Enter, Moves
    <2>3. SameSessions /\ UNCHANGED <<epoch, overlapped>>
      BY <1>0, <1>5 DEF Login2FA, rotation
    <2> HIDE DEF l
    <2>. QED  BY <2>1, <2>2, <2>3, MovesFinal
  <1>6. ASSUME NEW s \in DOMAIN sessions, NEW mine \in BOOLEAN, RefreshFind(w, s, mine)
        PROVE  Final'
    <2> DEFINE l == [OfUser(sessions[s].user) EXCEPT !.doc = s, !.born = sessions[s].born]
    <2>1. sessions[s] \in Session /\ s \in Nat
      BY DocumentAt, Positions DEF Basic, Typed, TypeOK
    <2>2. sessions[s].user \in Users /\ sessions[s].born \in Nat
      BY <2>1 DEF Session
    <2>3. l \in Locals /\ l.user = sessions[s].user /\ l.born = sessions[s].born
      BY <2>1, <2>2, LocalsTyped DEF Locals
    <2>4. Moves(w, IF mine THEN "rotate" ELSE "revoke", l)
      BY <1>6 DEF RefreshFind, Start, Enter, Moves
    <2>5. SameSessions /\ UNCHANGED <<epoch, overlapped>>
      BY <1>0, <1>6 DEF RefreshFind, rotation
    <2>6. overlapped[sessions[s].user] \/ sessions[s].born = epoch[sessions[s].user]
      BY <1>6, <2>2 DEF RefreshFind, Live, Final, OfEpoch
    <2> HIDE DEF l
    <2>. QED  BY <2>3, <2>4, <2>5, <2>6, MovesFinal
  <1>7. ASSUME NEW s \in DOMAIN sessions, LogoutFind(w, s) PROVE Final'
    BY <1>1, <1>7, StepMoves DEF LogoutFind
  <1>8. ASSUME NEW t \in DOMAIN resets, NEW p \in Passwords, ResetFind(w, t, p) PROVE Final'
    BY <1>1, <1>8, StepMoves DEF ResetFind
  <1>9. CASE LoginLookup(w)
    <2>0. SameSessions /\ UNCHANGED <<epoch, overlapped>> /\ UNCHANGED rotation
      BY <1>0, <1>9 DEF LoginLookup, rotation
    <2> DEFINE l == [loc[w] EXCEPT !.born = epoch[loc[w].user]]
    <2>1. l \in Locals /\ l.user = loc[w].user /\ l.born = epoch[loc[w].user]
      BY <1>2 DEF Locals
    <2>2. CASE Goto(w, "recordFailure", loc[w])
      <3>1. MovesTo(w, {"recordFailure"})
        BY <1>2, <2>2 DEF Goto, MovesTo, Moves
      <3>. QED  BY <1>1, <2>0, <3>1
    <2>3. CASE Finish(w)
      <3>1. MovesTo(w, {"idle"})
        BY <2>3, LocalsTyped DEF Finish, Goto, MovesTo, Moves
      <3>. QED  BY <1>1, <2>0, <3>1
    <2>4. CASE Goto(w, "createSession", l)
      <3>1. Moves(w, "createSession", l)
        BY <2>4 DEF Goto, Moves
      <3> HIDE DEF l
      <3>. QED  BY <2>0, <2>1, <3>1, MovesFinal
    <2>5. CASE pc' = [pc EXCEPT ![w] = "recordFailure"] /\ UNCHANGED <<loc, started, temps>>
      <3>1. MovesTo(w, {"recordFailure"})
        BY <1>2, <2>5 DEF MovesTo, Moves, Basic, Typed, TypeOK
      <3>. QED  BY <1>1, <2>0, <3>1
    <2>. QED  BY <1>9, <2>2, <2>3, <2>4, <2>5 DEF LoginLookup
  <1>10. CASE LoginRecord(w) \/ SetupStore(w) \/ VerifyEnable(w) \/ Abandon(w)
    <2>1. UNCHANGED rotation
      BY <1>10 DEF LoginRecord, SetupStore, VerifyEnable, Abandon
    <2>. QED  BY <1>1, <1>10, <2>1, StepMoves
  <1>11. CASE CreateSession(w)
    <2>1. /\ SessionsKept
          /\ DOMAIN sessions = 1..Len(sessions) /\ Len(sessions) \in Nat
          /\ DOMAIN sessions' = 1..(Len(sessions) + 1)
          /\ sessions'[Len(sessions) + 1] = NewSession(loc[w].user, loc[w].doc, loc[w].born)
          /\ \A s \in DOMAIN sessions : sessions'[s] = sessions[s]
      BY <1>11, CreateBasic
    <2>2. /\ \A v \in Workers : v # w => pc'[v] = pc[v] /\ loc'[v] = loc[v]
          /\ pc'[w] = "idle"
      BY <1>11, StepMoves, MovesElsewhere
    <2>3. epoch' = epoch /\ overlapped' = overlapped /\ pc[w] = "createSession"
      BY <1>11 DEF CreateSession
    <2>4. ASSUME NEW u \in Users, OfEpoch(u) PROVE OfEpoch(u)'
      <3>1. PICK n \in Nat : n = Len(sessions)
        BY <2>1
      <3>2. \A s \in DOMAIN sessions' : s \in DOMAIN sessions \/ s = n + 1
        BY <2>1, <3>1
      <3>3. /\ sessions'[n + 1].user = loc[w].user
            /\ sessions'[n + 1].born = loc[w].born
        BY <2>1, <3>1 DEF NewSession
      <3>. QED  BY <2>1, <2>2, <2>3, <2>4, <3>2, <3>3 DEF OfEpoch
    <2>. QED  BY <2>3, <2>4 DEF Final
  <1>12. CASE RefreshRevoke(w)
    <2>1. PICK l \in Locals : l = loc[w]
      BY <1>2
    <2>2. SameSessions
      BY <1>0, <1>12, RevokedKeeps DEF RefreshRevoke, Basic
    <2>3. Moves(w, "createSession", l) /\ UNCHANGED <<epoch, overlapped>> /\ pc[w] = "rotate"
      BY <1>12, <2>1 DEF RefreshRevoke, Goto, Moves, Basic, Typed, TypeOK
    <2>4. overlapped[l.user] \/ l.born = epoch[l.user]
      BY <1>2, <2>1, <2>3 DEF Final, OfEpoch
    <2>. QED  BY <2>2, <2>3, <2>4, MovesFinal
  <1>13. CASE RevokeFound(w)
    <2>1. SameSessions /\ UNCHANGED <<epoch, overlapped>>
      BY <1>13, RevokedKeeps DEF RevokeFound, Basic
    <2>. QED  BY <1>13, <2>1, StepMoves, QuietFinal
  <1>14. CASE ResetSetPassword(w) \/ ResetFindToken(w) \/ ResetMarkUsed(w) \/ ResetGoesOn(w)
    <2>1. UNCHANGED rotation
      BY <1>14 DEF ResetSetPassword, ResetFindToken, ResetMarkUsed, ResetGoesOn
    <2>. QED  BY <1>1, <1>14, <2>1, StepMoves
  <1>15. CASE ResetRevokeAll(w)
    <2>1. PICK u \in Users : u = loc[w].user
      BY <1>2
    <2>2. RevokeAllUserSessions(u)
      BY <1>15, <2>1 DEF ResetRevokeAll
    <2>3. \A v \in Workers : pc'[v] \in {"rotate", "createSession"} =>
              pc'[v] = pc[v] /\ loc'[v] = loc[v]
      BY <1>15, StepMoves, MovesElsewhere
    <2>. QED  BY <2>2, <2>3, RevokeAllFinal
  <1>. QED  BY <1>3, <1>4, <1>5, <1>6, <1>7, <1>8, <1>9, <1>10, <1>11, <1>12, <1>13, <1>14, <1>15
            DEF WorkerStep

(* LogoutAllIsFinal: after RevokeAllUserSessions, and whatever refreshes   *)
(* follow, no session of the user that goes back to an earlier login is    *)
(* live, unless one was between its two calls at that moment               *)
(* (core/session RevokeAllUserSessions, RefreshSession).                   *)
THEOREM LogoutAllStaysFinal == Spec => []LogoutAllIsFinal
  <1>1. Init => Final
    <2>1. DOMAIN <<>> = {}
      OBVIOUS
    <2>. QED  BY <2>1 DEF Init, Final, OfEpoch
  <1>2. Basic /\ Final /\ [Next]_vars => Final'
    <2> SUFFICES ASSUME Basic, Final, [Next]_vars PROVE Final'
      OBVIOUS
    <2>0. sessions' = sessions => SameSessions
      BY UnchangedSessions DEF Basic
    <2>1. CASE SingleCall
      <3>1. CASE \E s \in DOMAIN sessions : RevokeSession(s)
        BY <3>1, RevokedKeeps, StillFinal DEF RevokeSession, Once, Basic
      <3>2. CASE \E u \in Users : LogoutAll(u)
        BY <3>2, RevokeAllFinal DEF LogoutAll, Once
      <3>3. CASE \/ \E u \in Users : GenerateResetToken(u) \/ Disable2FA(u) \/ DeleteUser(u)
                 \/ \E u \in Users, p \in Passwords : UpdatePassword(u, p)
        <4>1. UNCHANGED rotation /\ UNCHANGED <<pc, loc>>
          BY <3>3 DEF GenerateResetToken, Disable2FA, DeleteUser, UpdatePassword, Once
        <4>. QED  BY <2>0, <4>1, StillFinal DEF rotation
      <3>. QED  BY <2>1, <3>1, <3>2, <3>3 DEF SingleCall
    <2>2. CASE TimePasses
      <3>1. UNCHANGED <<pc, loc, epoch, overlapped>>
        BY <2>2 DEF TimePasses, SessionExpires, ResetExpires, TempExpires, WindowPasses,
                    requests, rotation
      <3>2. sessions' = sessions \/ \E s \in DOMAIN sessions : SessionExpires(s)
        BY <2>2 DEF TimePasses, ResetExpires, TempExpires, WindowPasses, rotation
      <3>3. SameSessions
        BY <2>0, <3>2, ExpiryKeeps DEF SessionExpires, Basic
      <3>. QED  BY <3>1, <3>3, StillFinal
    <2>3. CASE UNCHANGED vars
      BY <2>0, <2>3, StillFinal DEF vars
    <2>. QED  BY <2>1, <2>2, <2>3, WorkerFinal DEF Next
  <1>3. Basic /\ Final => LogoutAllIsFinal
    BY DEF Final, OfEpoch, LogoutAllIsFinal, SessionsOf
  <1>. QED  BY <1>1, <1>2, <1>3, AlwaysBasic, PTL DEF Spec
-----------------------------------------------------------------------------
(* While a reset token is valid, every use of it but those that ended in a *)
(* failure is by a request that has not marked it yet.                     *)

Setting(t) == {w \in Workers : pc[w] = "setPassword" /\ loc[w].doc = t}
Marking(t) == {w \in Workers : pc[w] \in {"findToken", "markUsed"} /\ loc[w].doc = t}

TokenUses(t) ==
    /\ Valid(t) => resets[t].uses <= Cardinality(Marking(t)) + faults
    /\ resets[t].uses + Cardinality(Setting(t)) <= Cardinality(Workers) + faults

Tokens == \A t \in DOMAIN resets : TokenUses(t)

LEMMA ResetsCounted ==
    ASSUME NEW t
    PROVE  /\ Cardinality(Setting(t)) \in Nat /\ Cardinality(Setting(t)') \in Nat
           /\ Cardinality(Marking(t)) \in Nat /\ Cardinality(Marking(t)') \in Nat
           /\ Cardinality(Workers) \in Nat
           /\ Setting(t)' \subseteq Setting(t) => Cardinality(Setting(t)') <= Cardinality(Setting(t))
           /\ Marking(t) \subseteq Marking(t)' => Cardinality(Marking(t)) <= Cardinality(Marking(t)')
           /\ Cardinality(Setting(t)') + Cardinality(Marking(t)') <= Cardinality(Workers)
  <1>1. /\ Setting(t) \subseteq Workers /\ Setting(t)' \subseteq Workers
        /\ Marking(t) \subseteq Workers /\ Marking(t)' \subseteq Workers
        /\ Setting(t)' \cap Marking(t)' = {}
    BY DEF Setting, Marking
  <1>2. /\ IsFiniteSet(Setting(t)) /\ IsFiniteSet(Marking(t)')
        /\ Cardinality(Setting(t)) \in Nat /\ Cardinality(Marking(t)) \in Nat
    BY <1>1, SessionsAssumption, FS_Subset, FS_CardinalityType
  <1>3. /\ Setting(t)' \subseteq Setting(t) => Cardinality(Setting(t)') <= Cardinality(Setting(t))
        /\ Marking(t) \subseteq Marking(t)' => Cardinality(Marking(t)) <= Cardinality(Marking(t)')
    BY <1>2, FS_Subset
  <1>4. /\ Cardinality(Setting(t)') \in Nat /\ Cardinality(Marking(t)') \in Nat
        /\ Cardinality(Workers) \in Nat
        /\ Cardinality(Setting(t)') + Cardinality(Marking(t)') <= Cardinality(Workers)
    BY <1>1, SessionsAssumption, CountApart
  <1>. QED  BY <1>2, <1>3, <1>4

(* What keeps the bounds of one token: it is used no more, and as long as  *)
(* it is valid no request leaves it but by a failure.                      *)
LEMMA KeepsUses ==
    ASSUME Basic, NEW t \in DOMAIN resets, TokenUses(t), faults' \in Nat, faults <= faults',
           resets'[t].uses = resets[t].uses,
           Cardinality(Setting(t)') <= Cardinality(Setting(t)),
           Valid(t)' => /\ Valid(t)
                        /\ Cardinality(Marking(t)) + faults <= Cardinality(Marking(t)') + faults'
    PROVE  TokenUses(t)'
  <1>1. PICK a \in Nat, b \in Nat, c \in Nat, d \in Nat, k \in Nat :
           /\ a = Cardinality(Setting(t)) /\ b = Cardinality(Setting(t)')
           /\ c = Cardinality(Marking(t)) /\ d = Cardinality(Marking(t)')
           /\ k = Cardinality(Workers)
    BY ResetsCounted
  <1>2. PICK n \in Nat : n = resets[t].uses
    BY ResetFields
  <1>3. faults \in Nat
    BY DEF Basic, Typed
  <1>4. n + b <= k + faults'
    BY <1>1, <1>2, <1>3 DEF TokenUses
  <1>5. Valid(t)' => n <= d + faults'
    BY <1>1, <1>2, <1>3 DEF TokenUses
  <1>. QED  BY <1>1, <1>2, <1>4, <1>5 DEF TokenUses

(* The tokens stay as they are, and a request elsewhere moves.             *)
LEMMA StillTokens ==
    ASSUME Basic, Tokens, faults' \in Nat, faults <= faults', resets' = resets,
           \A t \in DOMAIN resets : Setting(t)' \subseteq Setting(t) /\ Marking(t) \subseteq Marking(t)'
    PROVE  Tokens'
  <1>1. ASSUME NEW t \in DOMAIN resets PROVE TokenUses(t)'
    <2>1. resets'[t].uses = resets[t].uses /\ (Valid(t)' => Valid(t))
      BY DEF Valid
    <2>2. Cardinality(Setting(t)') <= Cardinality(Setting(t))
      BY ResetsCounted
    <2>3. PICK c \in Nat, d \in Nat :
             c = Cardinality(Marking(t)) /\ d = Cardinality(Marking(t)') /\ c <= d
      BY ResetsCounted
    <2>4. Cardinality(Marking(t)) + faults <= Cardinality(Marking(t)') + faults'
      BY <2>3 DEF Basic, Typed
    <2>5. TokenUses(t)
      BY DEF Tokens
    <2>. QED  BY <2>1, <2>2, <2>4, <2>5, KeepsUses
  <1>. QED  BY <1>1 DEF Tokens

LEMMA ElsewhereTokens ==
    ASSUME Basic, Tokens, NEW w \in Workers, NEW L, MovesTo(w, L), "setPassword" \notin L,
           pc[w] \notin {"findToken", "markUsed"}, resets' = resets, faults' \in Nat,
           faults <= faults'
    PROVE  Tokens'
  <1>1. \A t \in DOMAIN resets : Setting(t)' \subseteq Setting(t) /\ Marking(t) \subseteq Marking(t)'
    BY MovesElsewhere DEF Setting, Marking
  <1>. QED  BY <1>1, StillTokens

LEMMA ResetFindTokens ==
    ASSUME Basic, Tokens, NEW w \in Workers, NEW t \in DOMAIN resets, NEW p \in Passwords,
           ResetFind(w, t, p)
    PROVE  Tokens'
  <1>1. /\ \A v \in Workers : v # w => pc'[v] = pc[v] /\ loc'[v] = loc[v]
        /\ pc'[w] = "setPassword" /\ loc'[w].doc = t
        /\ pc[w] = "idle"
    <2>1. resets[t].user \in Users /\ t \in Nat
      BY ResetFields, Positions DEF Basic, Typed, TypeOK
    <2>2. [OfUser(resets[t].user) EXCEPT !.password = p, !.doc = t].doc = t
      BY <2>1, LocalsTyped DEF Locals
    <2>. QED  BY <2>2 DEF ResetFind, Start, Enter, Basic, Typed, TypeOK
  <1>2. resets' = resets /\ faults' = faults /\ faults \in Nat
    BY DEF ResetFind, Start, Enter, Basic, Typed
  <1>3. ASSUME NEW r \in DOMAIN resets PROVE TokenUses(r)'
    <2>0. TokenUses(r)
      BY DEF Tokens
    <2>1. Marking(r)' = Marking(r)
      BY <1>1 DEF Marking
    <2>2. CASE r = t
      <3>1. PICK n \in Nat : n = resets[t].uses
        BY ResetFields
      <3>2. PICK b \in Nat, d \in Nat, k \in Nat :
               /\ b = Cardinality(Setting(t)') /\ d = Cardinality(Marking(t)')
               /\ k = Cardinality(Workers) /\ b + d <= k
        BY ResetsCounted
      <3>3. n <= d + faults
        BY <2>0, <2>1, <2>2, <3>1, <3>2 DEF ResetFind, TokenUses
      <3>4. n + b <= k + faults
        BY <3>2, <3>3, <1>2
      <3>. QED  BY <1>2, <2>2, <3>1, <3>2, <3>3, <3>4 DEF TokenUses
    <2>3. CASE r # t
      <3>1. Setting(r)' = Setting(r)
        BY <1>1, <2>3 DEF Setting
      <3>2. Valid(r)' <=> Valid(r)
        BY <1>2 DEF Valid
      <3>. QED  BY <1>2, <2>0, <2>1, <3>1, <3>2 DEF TokenUses
    <2>. QED  BY <2>2, <2>3
  <1>. QED  BY <1>2, <1>3 DEF Tokens

LEMMA SetPasswordTokens ==
    ASSUME Basic, Tokens, NEW w \in Workers, ResetSetPassword(w)
    PROVE  Tokens'
  <1>1. PICK t \in DOMAIN resets :
           /\ t = loc[w].doc
           /\ ResetAt(t, [resets[t] EXCEPT !.uses = resets[t].uses + 1])
    BY SetPasswordShape
  <1>2. /\ DOMAIN resets' = DOMAIN resets
        /\ \A r \in DOMAIN resets : r # t => resets'[r] = resets[r]
        /\ resets'[t] = [resets[t] EXCEPT !.uses = resets[t].uses + 1]
    BY <1>1, ResetChanges
  <1>3. /\ resets'[t].uses = resets[t].uses + 1
        /\ resets'[t].used = resets[t].used /\ resets'[t].expired = resets[t].expired
        /\ resets[t].uses \in Nat
    <2>1. resets[t] \in Reset /\ resets[t].uses \in Nat
      BY ResetFields
    <2>. QED  BY <1>2, <2>1 DEF Reset
  <1>4. /\ \A v \in Workers : v # w => pc'[v] = pc[v] /\ loc'[v] = loc[v]
        /\ pc'[w] = "findToken" /\ loc'[w] = loc[w]
        /\ pc[w] = "setPassword"
    BY DEF ResetSetPassword, Goto, Basic, Typed, TypeOK
  <1>5. faults' = faults /\ faults \in Nat
    BY DEF ResetSetPassword, Goto, Basic, Typed
  <1>6. ASSUME NEW r \in DOMAIN resets PROVE TokenUses(r)'
    <2>0. TokenUses(r)
      BY DEF Tokens
    <2>1. CASE r = t
      <3>1. /\ Setting(t) \subseteq Workers /\ Setting(t)' \subseteq Workers
            /\ Marking(t) \subseteq Workers /\ Marking(t)' \subseteq Workers
            /\ \A v \in Workers : v # w => (v \in Setting(t) <=> v \in Setting(t)')
            /\ \A v \in Workers : v # w => (v \in Marking(t) <=> v \in Marking(t)')
            /\ w \in Setting(t) /\ w \notin Setting(t)'
            /\ w \notin Marking(t) /\ w \in Marking(t)'
        BY <1>1, <1>4 DEF Setting, Marking
      <3>2. Cardinality(Setting(t)') = Cardinality(Setting(t)) - 1
        BY <3>1, OneMoves, SessionsAssumption
      <3>3. Cardinality(Marking(t)') = Cardinality(Marking(t)) + 1
        BY <3>1, OneMoves, SessionsAssumption
      <3>4. PICK a \in Nat, c \in Nat, k \in Nat, n \in Nat :
               /\ a = Cardinality(Setting(t)) /\ c = Cardinality(Marking(t))
               /\ k = Cardinality(Workers) /\ n = resets[t].uses
        BY <1>3, ResetsCounted
      <3>5. Valid(t)' => Valid(t)
        BY <1>3 DEF Valid
      <3>6. (Valid(t) => n <= c + faults) /\ n + a <= k + faults
        BY <2>0, <2>1, <3>4 DEF TokenUses
      <3>7. (Valid(t)' => n + 1 <= (c + 1) + faults) /\ (n + 1) + (a - 1) <= k + faults
        BY <1>5, <3>4, <3>5, <3>6
      <3>. QED  BY <1>3, <1>5, <2>1, <3>2, <3>3, <3>4, <3>7 DEF TokenUses
    <2>2. CASE r # t
      <3>1. Setting(r)' = Setting(r) /\ Marking(r)' = Marking(r)
        BY <1>1, <1>4, <2>2 DEF Setting, Marking
      <3>2. (Valid(r)' <=> Valid(r)) /\ resets'[r] = resets[r]
        BY <1>2, <2>2 DEF Valid
      <3>. QED  BY <1>5, <2>0, <3>1, <3>2 DEF TokenUses
    <2>. QED  BY <2>1, <2>2
  <1>. QED  BY <1>2, <1>6 DEF Tokens
(* A request that has used its token looks it up or marks it, or fails to. *)
LEMMA MarkingTokens ==
    ASSUME Basic, Tokens, NEW w \in Workers,
           ResetFindToken(w) \/ ResetMarkUsed(w) \/ ResetGoesOn(w)
    PROVE  Tokens'
  <1>1. PICK t \in DOMAIN resets : t = loc[w].doc
    BY DEF Basic, Refers, ResetFindToken, ResetMarkUsed, ResetGoesOn
  <1>2. /\ \A v \in Workers : v # w => pc'[v] = pc[v] /\ loc'[v] = loc[v]
        /\ pc'[w] \in {"markUsed", "revokeAll"} /\ loc'[w] = loc[w]
        /\ pc[w] \in {"findToken", "markUsed"}
        /\ loc[w].doc = t
    BY <1>1 DEF ResetFindToken, ResetMarkUsed, ResetGoesOn, Goto, Basic, Typed, TypeOK
  <1>3. \A r \in DOMAIN resets : Setting(r)' = Setting(r)
    BY <1>2 DEF Setting
  <1>4. \A r \in DOMAIN resets : r # t => Marking(r)' = Marking(r)
    BY <1>2 DEF Marking
  <1>5. faults \in Nat /\ faults' \in Nat /\ faults <= faults'
    BY DEF ResetFindToken, ResetMarkUsed, ResetGoesOn, Fault, Goto, Basic, Typed
  <1>6. /\ DOMAIN resets' = DOMAIN resets
        /\ \A r \in DOMAIN resets : resets'[r].uses = resets[r].uses
        /\ \A r \in DOMAIN resets : Valid(r)' => Valid(r)
    <2>1. CASE ResetMarkUsed(w)
      <3>1. /\ DOMAIN resets' = DOMAIN resets
            /\ \A r \in DOMAIN resets :
                  resets'[r] = IF r = t THEN [resets[t] EXCEPT !.used = TRUE] ELSE resets[r]
        BY <1>1, <2>1, MarkUsedShape, ResetChanges
      <3>. QED  BY <3>1, ResetFields DEF Valid
    <2>2. CASE ResetFindToken(w) \/ ResetGoesOn(w)
      BY <2>2 DEF ResetFindToken, ResetGoesOn, Valid
    <2>. QED  BY <2>1, <2>2
  <1>7. PICK c \in Nat, d \in Nat : c = Cardinality(Marking(t)) /\ d = Cardinality(Marking(t)')
    BY ResetsCounted
  <1>8. /\ Marking(t) \subseteq Workers /\ Marking(t)' \subseteq Workers
        /\ \A v \in Workers : v # w => (v \in Marking(t) <=> v \in Marking(t)')
        /\ w \in Marking(t)
        /\ pc'[w] = "markUsed" => w \in Marking(t)'
    BY <1>2 DEF Marking
  <1>9. Valid(t)' => c + faults <= d + faults'
    <2>1. CASE ResetFindToken(w)
      <3>1. Valid(t)' => pc'[w] = "markUsed"
        BY <1>1, <2>1 DEF ResetFindToken, Goto, Valid, Basic, Typed, TypeOK
      <3>2. Valid(t)' => d = c
        BY <3>1, <1>7, <1>8, OneMoves, SessionsAssumption
      <3>. QED  BY <3>2, <1>5, <1>7
    <2>2. CASE ResetMarkUsed(w)
      <3>1. resets'[t] = [resets[t] EXCEPT !.used = TRUE]
        BY <1>1, <2>2, MarkUsedShape, ResetChanges
      <3>. QED  BY <3>1, ResetFields DEF Valid
    <2>3. CASE ResetGoesOn(w)
      <3>1. d = c \/ d = c - 1
        BY <1>7, <1>8, OneMoves, SessionsAssumption
      <3>2. faults' = faults + 1
        BY <2>3 DEF ResetGoesOn, Fault
      <3>. QED  BY <3>1, <3>2, <1>5, <1>7
    <2>. QED  BY <2>1, <2>2, <2>3
  <1>10. ASSUME NEW r \in DOMAIN resets PROVE TokenUses(r)'
    <2>1. TokenUses(r)
      BY DEF Tokens
    <2>2. Cardinality(Setting(r)') <= Cardinality(Setting(r))
      BY <1>3, ResetsCounted
    <2>3. Valid(r)' => Cardinality(Marking(r)) + faults <= Cardinality(Marking(r)') + faults'
      <3>1. CASE r = t
        BY <1>7, <1>9, <3>1
      <3>2. CASE r # t
        <4>1. PICK m \in Nat : m = Cardinality(Marking(r)) /\ m = Cardinality(Marking(r)')
          BY <1>4, <3>2, ResetsCounted
        <4>. QED  BY <4>1, <1>5
      <3>. QED  BY <3>1, <3>2
    <2>. QED  BY <1>5, <1>6, <2>1, <2>2, <2>3, KeepsUses
  <1>. QED  BY <1>6, <1>10 DEF Tokens

(* The goroutine dies, or the call fails.                                  *)
LEMMA AbandonTokens ==
    ASSUME Basic, Tokens, NEW w \in Workers, Abandon(w)
    PROVE  Tokens'
  <1>1. /\ \A v \in Workers : v # w => pc'[v] = pc[v] /\ loc'[v] = loc[v]
        /\ pc'[w] = "idle"
    BY StepMoves, MovesElsewhere
  <1>2. resets' = resets /\ faults' = faults + 1 /\ faults \in Nat
    BY DEF Abandon, Fault, Basic, Typed
  <1>3. ASSUME NEW r \in DOMAIN resets PROVE TokenUses(r)'
    <2>1. TokenUses(r)
      BY DEF Tokens
    <2>2. Setting(r)' \subseteq Setting(r)
      BY <1>1 DEF Setting
    <2>3. Cardinality(Setting(r)') <= Cardinality(Setting(r))
      BY <2>2, ResetsCounted
    <2>4. PICK c \in Nat, d \in Nat : c = Cardinality(Marking(r)) /\ d = Cardinality(Marking(r)')
      BY ResetsCounted
    <2>5. /\ Marking(r) \subseteq Workers /\ Marking(r)' \subseteq Workers
          /\ \A v \in Workers : v # w => (v \in Marking(r) <=> v \in Marking(r)')
          /\ w \notin Marking(r)'
      BY <1>1 DEF Marking
    <2>6. d = c \/ d = c - 1
      BY <2>4, <2>5, OneMoves, SessionsAssumption
    <2>7. Cardinality(Marking(r)) + faults <= Cardinality(Marking(r)') + faults'
      BY <1>2, <2>4, <2>6
    <2>8. resets'[r].uses = resets[r].uses /\ (Valid(r)' => Valid(r))
      BY <1>2 DEF Valid
    <2>9. faults' \in Nat /\ faults <= faults'
      BY <1>2
    <2>. QED  BY <2>1, <2>3, <2>7, <2>8, <2>9, KeepsUses
  <1>. QED  BY <1>2, <1>3 DEF Tokens

LEMMA WorkerTokens ==
    ASSUME Basic, Tokens, NEW w \in Workers, WorkerStep(w)
    PROVE  Tokens'
  <1>0. faults \in Nat
    BY DEF Basic, Typed
  <1>1. ASSUME NEW L, MovesTo(w, L), "setPassword" \notin L,
               pc[w] \notin {"findToken", "markUsed"}, resets' = resets,
               faults' = faults \/ faults' = faults + 1
        PROVE  Tokens'
    BY <1>0, <1>1, ElsewhereTokens
  <1>2. ASSUME NEW u \in Users, NEW p \in Passwords, LoginCheck(w, u, p) PROVE Tokens'
    <2>1. MovesTo(w, {"lookup"}) /\ pc[w] = "idle" /\ resets' = resets
      BY <1>2, StepMoves DEF LoginCheck, Enter
    <2>2. faults' = faults \/ faults' = faults + 1
      BY <1>2 DEF LoginCheck, Fault
    <2>. QED  BY <1>1, <2>1, <2>2
  <1>3. ASSUME NEW u \in Users, Login2FA(w, u) \/ SetupRead(w, u) \/ VerifyRead(w, u) PROVE Tokens'
    BY <1>1, <1>3, StepMoves DEF Login2FA, SetupRead, VerifyRead, Start, Enter
  <1>4. ASSUME NEW s \in DOMAIN sessions, NEW mine \in BOOLEAN, RefreshFind(w, s, mine) PROVE Tokens'
    <2>1. /\ MovesTo(w, {IF mine THEN "rotate" ELSE "revoke"})
          /\ pc[w] = "idle" /\ resets' = resets /\ faults' = faults
      BY <1>4, StepMoves DEF RefreshFind, Start, Enter
    <2>. QED  BY <1>1, <2>1
  <1>5. ASSUME NEW s \in DOMAIN sessions, LogoutFind(w, s) PROVE Tokens'
    BY <1>1, <1>5, StepMoves DEF LogoutFind, Start, Enter
  <1>6. CASE LoginLookup(w)
    <2>1. /\ MovesTo(w, {"recordFailure", "idle", "createSession"})
          /\ pc[w] = "lookup" /\ resets' = resets
      BY <1>6, StepMoves DEF LoginLookup
    <2>2. faults' = faults \/ faults' = faults + 1
      BY <1>6 DEF LoginLookup, Finish, Goto, Fault
    <2>. QED  BY <1>1, <2>1, <2>2
  <1>7. CASE LoginRecord(w) \/ CreateSession(w) \/ RevokeFound(w) \/ ResetRevokeAll(w)
               \/ SetupStore(w) \/ VerifyEnable(w)
    <2>1. /\ MovesTo(w, {"idle"}) /\ resets' = resets /\ faults' = faults
          /\ pc[w] \notin {"findToken", "markUsed"}
      BY <1>7, StepMoves DEF LoginRecord, CreateSession, RevokeFound, ResetRevokeAll, SetupStore,
                             VerifyEnable, Finish, Goto
    <2>. QED  BY <1>1, <2>1
  <1>8. CASE RefreshRevoke(w)
    <2>1. /\ MovesTo(w, {"createSession"}) /\ resets' = resets
          /\ pc[w] = "rotate"
      BY <1>8, StepMoves DEF RefreshRevoke
    <2>2. faults' \in Nat /\ faults <= faults'
      BY <1>0, <1>8 DEF RefreshRevoke, Goto, Fault
    <2>. QED  BY <2>1, <2>2, ElsewhereTokens
  <1>. QED  BY <1>2, <1>3, <1>4, <1>5, <1>6, <1>7, <1>8, ResetFindTokens, SetPasswordTokens,
               MarkingTokens, AbandonTokens DEF WorkerStep

LEMMA GenerateTokens ==
    ASSUME Basic, Tokens, NEW u \in Users, GenerateResetToken(u)
    PROVE  Tokens'
  <1>1. PICK n \in Nat : n = Len(resets)
    BY GenerateShape
  <1>2. /\ DOMAIN resets = 1..n /\ DOMAIN resets' = 1..(n + 1)
        /\ \A t \in DOMAIN resets : resets'[t] = resets[t]
        /\ resets'[n + 1].uses = 0
    BY <1>1, GenerateShape
  <1>3. UNCHANGED <<pc, loc, faults>> /\ faults \in Nat
    BY DEF GenerateResetToken, Once, Basic, Typed
  <1>4. ASSUME NEW t \in DOMAIN resets PROVE TokenUses(t)'
    <2>1. TokenUses(t) /\ Setting(t)' = Setting(t) /\ Marking(t)' = Marking(t)
          /\ (Valid(t)' <=> Valid(t))
      BY <1>2, <1>3 DEF Tokens, Setting, Marking, Valid
    <2>. QED  BY <1>2, <1>3, <2>1 DEF TokenUses
  <1>5. TokenUses(n + 1)'
    <2>1. Setting(n + 1)' = {}
      BY <1>2, <1>3 DEF Setting, Basic, Refers
    <2>2. PICK m \in Nat, d \in Nat, k \in Nat :
             m = n + 1 /\ d = Cardinality(Marking(m)') /\ k = Cardinality(Workers)
      BY ResetsCounted
    <2>3. Cardinality(Setting(m)') = 0
      BY <2>1, <2>2, FS_EmptySet
    <2>4. TokenUses(m)'
      BY <1>2, <1>3, <2>2, <2>3 DEF TokenUses
    <2>. QED  BY <2>2, <2>4
  <1>6. \A t \in DOMAIN resets' : t \in DOMAIN resets \/ t = n + 1
    BY <1>2
  <1>. QED  BY <1>4, <1>5, <1>6 DEF Tokens

(* ResetUsesBounded: a reset token changes passwords no more often than    *)
(* the requests that found it valid together, and the failures between the *)
(* change and the mark (core/auth ResetPassword, FindValidResetToken).     *)
THEOREM ResetUsesAreBounded == Spec => []ResetUsesBounded
  <1>1. Init => Tokens
    <2>1. DOMAIN <<>> = {}
      OBVIOUS
    <2>. QED  BY <2>1 DEF Init, Tokens
  <1>2. Basic /\ Tokens /\ [Next]_vars => Tokens'
    <2> SUFFICES ASSUME Basic, Tokens, [Next]_vars PROVE Tokens'
      OBVIOUS
    <2>0. faults \in Nat
      BY DEF Basic, Typed
    <2>1. ASSUME UNCHANGED <<pc, loc, faults, resets>> PROVE Tokens'
      <3>1. \A t \in DOMAIN resets : Setting(t)' \subseteq Setting(t) /\ Marking(t) \subseteq Marking(t)'
        BY <2>1 DEF Setting, Marking
      <3>. QED  BY <2>0, <2>1, <3>1, StillTokens
    <2>2. CASE SingleCall
      <3>1. CASE \E u \in Users : GenerateResetToken(u)
        BY <3>1, GenerateTokens
      <3>2. CASE \/ \E s \in DOMAIN sessions : RevokeSession(s)
                 \/ \E u \in Users : LogoutAll(u) \/ Disable2FA(u) \/ DeleteUser(u)
                 \/ \E u \in Users, p \in Passwords : UpdatePassword(u, p)
        BY <2>1, <3>2 DEF RevokeSession, LogoutAll, Disable2FA, DeleteUser, UpdatePassword, Once
      <3>. QED  BY <2>2, <3>1, <3>2 DEF SingleCall
    <2>3. CASE TimePasses
      <3>1. CASE \E t \in DOMAIN resets : ResetExpires(t)
        <4>1. PICK t \in DOMAIN resets : ResetExpires(t)
          BY <3>1
        <4>2. ResetAt(t, [resets[t] EXCEPT !.expired = TRUE]) /\ UNCHANGED <<pc, loc, faults>>
          BY <4>1, ResetFields DEF ResetExpires, ResetAt, requests
        <4>3. /\ DOMAIN resets' = DOMAIN resets
              /\ \A r \in DOMAIN resets :
                    resets'[r] = IF r = t THEN [resets[t] EXCEPT !.expired = TRUE] ELSE resets[r]
          BY <4>2, ResetChanges
        <4>4. \A r \in DOMAIN resets :
                 resets'[r].uses = resets[r].uses /\ (Valid(r)' => Valid(r))
          BY <4>3, ResetFields DEF Valid
        <4>5. ASSUME NEW r \in DOMAIN resets PROVE TokenUses(r)'
          <5>1. Setting(r)' = Setting(r) /\ Marking(r)' = Marking(r) /\ TokenUses(r)
            BY <4>2 DEF Setting, Marking, Tokens
          <5>. QED  BY <4>2, <4>4, <5>1 DEF TokenUses
        <4>. QED  BY <4>3, <4>5 DEF Tokens
      <3>2. CASE \/ \E s \in DOMAIN sessions : SessionExpires(s)
                 \/ \E u \in Users : TempExpires(u) \/ WindowPasses(u)
        BY <2>1, <3>2 DEF SessionExpires, TempExpires, WindowPasses, requests
      <3>. QED  BY <2>3, <3>1, <3>2 DEF TimePasses
    <2>4. CASE UNCHANGED vars
      BY <2>1, <2>4 DEF vars
    <2>. QED  BY <2>2, <2>3, <2>4, WorkerTokens DEF Next
  <1>3. Basic /\ Tokens => ResetUsesBounded
    BY DEF Tokens, TokenUses, Setting, ResetUsesBounded
  <1>. QED  BY <1>1, <1>2, <1>3, AlwaysBasic, PTL DEF Spec
-----------------------------------------------------------------------------
(* As long as a session is not revoked, every successor it has or is about *)
(* to get stands for a revocation that failed.                             *)

Kids(s) == {c \in DOMAIN sessions : sessions[c].from = s}
Making(s) == {w \in Workers : pc[w] = "createSession" /\ loc[w].doc = s}
Pending(s) == {w \in Workers : pc[w] \in {"rotate", "createSession"} /\ loc[w].doc = s}

Honours(s) ==
    /\ ~sessions[s].revoked => Cardinality(Kids(s)) + Cardinality(Making(s)) <= faults
    /\ Cardinality(Kids(s)) + Cardinality(Pending(s)) <= Cardinality(Workers) + faults

Honoured == \A s \in DOMAIN sessions : Honours(s)

LEMMA SuccessorsCounted ==
    ASSUME Basic, Basic', NEW s
    PROVE  /\ IsFiniteSet(Kids(s)) /\ IsFiniteSet(Kids(s)')
           /\ Cardinality(Kids(s)) \in Nat /\ Cardinality(Kids(s)') \in Nat
           /\ Cardinality(Making(s)) \in Nat /\ Cardinality(Making(s)') \in Nat
           /\ Cardinality(Pending(s)) \in Nat /\ Cardinality(Pending(s)') \in Nat
           /\ Cardinality(Workers) \in Nat
           /\ Cardinality(Pending(s)') <= Cardinality(Workers)
           /\ Making(s)' \subseteq Making(s) => Cardinality(Making(s)') <= Cardinality(Making(s))
           /\ Pending(s)' \subseteq Pending(s) => Cardinality(Pending(s)') <= Cardinality(Pending(s))
  <1>1. IsFiniteSet(DOMAIN sessions) /\ IsFiniteSet(DOMAIN sessions')
    <2>1. sessions \in Seq(Session) /\ sessions' \in Seq(Session)
      BY DEF Basic, Typed, TypeOK
    <2>. QED  BY <2>1, Positions
  <1>2. Kids(s) \subseteq DOMAIN sessions /\ Kids(s)' \subseteq DOMAIN sessions'
    BY DEF Kids
  <1>3. IsFiniteSet(Kids(s)) /\ IsFiniteSet(Kids(s)')
    BY <1>1, <1>2, FS_Subset
  <1>4. /\ Making(s) \subseteq Workers /\ Making(s)' \subseteq Workers
        /\ Pending(s) \subseteq Workers /\ Pending(s)' \subseteq Workers
    BY DEF Making, Pending
  <1>5. /\ IsFiniteSet(Making(s)) /\ IsFiniteSet(Making(s)')
        /\ IsFiniteSet(Pending(s)) /\ IsFiniteSet(Pending(s)')
        /\ Cardinality(Pending(s)') <= Cardinality(Workers)
    BY <1>4, SessionsAssumption, FS_Subset
  <1>6. /\ Making(s)' \subseteq Making(s) => Cardinality(Making(s)') <= Cardinality(Making(s))
        /\ Pending(s)' \subseteq Pending(s) => Cardinality(Pending(s)') <= Cardinality(Pending(s))
    BY <1>5, FS_Subset
  <1>. QED  BY <1>3, <1>5, <1>6, SessionsAssumption, FS_CardinalityType

(* What keeps the bounds of one session that gets no successor.            *)
LEMMA KeepsHonour ==
    ASSUME Basic, Basic', NEW s \in DOMAIN sessions, Honours(s), SameSessions, faults <= faults',
           Pending(s)' \subseteq Pending(s) \/ ~sessions[s].revoked,
           ~sessions'[s].revoked =>
               Cardinality(Making(s)') + faults <= Cardinality(Making(s)) + faults'
    PROVE  Honours(s)'
  <1>1. Kids(s)' = Kids(s)
    BY DEF Kids, SameSessions, SessionsKept
  <1>2. PICK j \in Nat, a \in Nat, b \in Nat, c \in Nat, d \in Nat, k \in Nat :
           /\ j = Cardinality(Kids(s))
           /\ a = Cardinality(Making(s)) /\ b = Cardinality(Making(s)')
           /\ c = Cardinality(Pending(s)) /\ d = Cardinality(Pending(s)')
           /\ k = Cardinality(Workers) /\ d <= k
    BY SuccessorsCounted
  <1>3. faults \in Nat /\ faults' \in Nat
    BY DEF Basic, Typed
  <1>4. sessions'[s].revoked \/ ~sessions[s].revoked
    BY DEF SameSessions, SessionsKept
  <1>5. /\ ~sessions[s].revoked => j + a <= faults
        /\ j + c <= k + faults
    BY <1>2 DEF Honours
  <1>6. ~sessions'[s].revoked => j + b <= faults'
    BY <1>2, <1>3, <1>4, <1>5
  <1>7. d <= c \/ ~sessions[s].revoked
    BY <1>2, SuccessorsCounted
  <1>8. j + d <= k + faults'
    BY <1>2, <1>3, <1>5, <1>7
  <1>9. j = Cardinality(Kids(s)')
    BY <1>1, <1>2
  <1>. QED  BY <1>2, <1>6, <1>8, <1>9 DEF Honours

(* No rotation starts and no successor is made.                            *)
LEMMA QuietHonoured ==
    ASSUME Basic, Basic', Honoured, SameSessions, faults <= faults',
           \A s \in DOMAIN sessions : Making(s)' \subseteq Making(s) /\ Pending(s)' \subseteq Pending(s)
    PROVE  Honoured'
  <1>1. ASSUME NEW s \in DOMAIN sessions PROVE Honours(s)'
    <2>1. PICK a \in Nat, b \in Nat :
             a = Cardinality(Making(s)) /\ b = Cardinality(Making(s)') /\ b <= a
      BY SuccessorsCounted
    <2>2. Cardinality(Making(s)') + faults <= Cardinality(Making(s)) + faults'
      BY <2>1 DEF Basic, Typed
    <2>3. Honours(s)
      BY DEF Honoured
    <2>. QED  BY <2>2, <2>3, KeepsHonour
  <1>. QED  BY <1>1 DEF Honoured, SameSessions

LEMMA ElsewhereHonoured ==
    ASSUME Basic, Basic', Honoured, SameSessions, faults <= faults', NEW w \in Workers, NEW L,
           MovesTo(w, L), "rotate" \notin L,
           "createSession" \notin L \/ loc'[w].doc = 0
    PROVE  Honoured'
  <1>1. \A s \in DOMAIN sessions : s # 0
    BY Positions DEF Basic, Typed, TypeOK
  <1>2. \A s \in DOMAIN sessions : Making(s)' \subseteq Making(s) /\ Pending(s)' \subseteq Pending(s)
    BY <1>1, MovesElsewhere DEF Making, Pending
  <1>. QED  BY <1>2, QuietHonoured

LEMMA StillHonoured ==
    ASSUME Basic, Basic', Honoured, SameSessions, UNCHANGED <<pc, loc, faults>>
    PROVE  Honoured'
  <1>1. \A s \in DOMAIN sessions : Making(s)' \subseteq Making(s) /\ Pending(s)' \subseteq Pending(s)
    BY DEF Making, Pending
  <1>2. faults <= faults'
    BY DEF Basic, Typed
  <1>. QED  BY <1>1, <1>2, QuietHonoured

LEMMA RefreshFindHonoured ==
    ASSUME Basic, Basic', Honoured, NEW w \in Workers, NEW s \in DOMAIN sessions,
           NEW mine \in BOOLEAN, RefreshFind(w, s, mine)
    PROVE  Honoured'
  <1>1. /\ \A v \in Workers : v # w => pc'[v] = pc[v] /\ loc'[v] = loc[v]
        /\ pc'[w] \in {"rotate", "revoke"} /\ loc'[w].doc = s
    <2>1. sessions[s] \in Session /\ s \in Nat
      BY DocumentAt, Positions DEF Basic, Typed, TypeOK
    <2>2. sessions[s].user \in Users /\ sessions[s].born \in Nat
      BY <2>1 DEF Session
    <2>3. [OfUser(sessions[s].user) EXCEPT !.doc = s, !.born = sessions[s].born].doc = s
      BY <2>1, <2>2, LocalsTyped DEF Locals
    <2>. QED  BY <2>3 DEF RefreshFind, Start, Enter, Basic, Typed, TypeOK
  <1>2. SameSessions /\ faults' = faults /\ faults \in Nat
    BY UnchangedSessions DEF RefreshFind, Start, Enter, rotation, Basic, Typed
  <1>3. ~sessions[s].revoked
    BY DEF RefreshFind, Live
  <1>4. ASSUME NEW r \in DOMAIN sessions PROVE Honours(r)'
    <2>1. Making(r)' \subseteq Making(r)
      BY <1>1 DEF Making
    <2>2. Pending(r)' \subseteq Pending(r) \/ r = s
      BY <1>1 DEF Pending
    <2>3. PICK a \in Nat, b \in Nat :
             a = Cardinality(Making(r)) /\ b = Cardinality(Making(r)') /\ b <= a
      BY <2>1, SuccessorsCounted
    <2>4. Cardinality(Making(r)') + faults <= Cardinality(Making(r)) + faults'
      BY <1>2, <2>3
    <2>5. Honours(r) /\ faults <= faults'
      BY <1>2 DEF Honoured
    <2>. QED  BY <1>2, <1>3, <2>2, <2>4, <2>5, KeepsHonour
  <1>. QED  BY <1>2, <1>4 DEF Honoured, SameSessions

(* The session is revoked and its successor about to be made; when the     *)
(* call fails the failure pays for it.                                     *)
LEMMA RefreshRevokeHonoured ==
    ASSUME Basic, Basic', Honoured, NEW w \in Workers, RefreshRevoke(w)
    PROVE  Honoured'
  <1>1. PICK t \in DOMAIN sessions : t = loc[w].doc
    BY DEF RefreshRevoke, Basic, Refers
  <1>2. /\ \A v \in Workers : v # w => pc'[v] = pc[v] /\ loc'[v] = loc[v]
        /\ pc[w] = "rotate" /\ pc'[w] = "createSession" /\ loc'[w] = loc[w]
    BY DEF RefreshRevoke, Goto, Basic, Typed, TypeOK
  <1>3. SameSessions
    BY RevokedKeeps, UnchangedSessions DEF RefreshRevoke, Basic
  <1>4. faults \in Nat /\ (faults' = faults \/ faults' = faults + 1)
    BY DEF RefreshRevoke, Goto, Fault, Basic, Typed
  <1>5. ASSUME NEW r \in DOMAIN sessions PROVE Honours(r)'
    <2>1. Pending(r)' \subseteq Pending(r)
      BY <1>2 DEF Pending
    <2>2. PICK a \in Nat, b \in Nat : a = Cardinality(Making(r)) /\ b = Cardinality(Making(r)')
      BY SuccessorsCounted
    <2>3. CASE r = t
      <3>1. /\ Making(t) \subseteq Workers /\ Making(t)' \subseteq Workers
            /\ \A v \in Workers : v # w => (v \in Making(t) <=> v \in Making(t)')
            /\ w \notin Making(t) /\ w \in Making(t)'
        BY <1>1, <1>2 DEF Making
      <3>2. b = a + 1
        BY <2>2, <2>3, <3>1, OneMoves, SessionsAssumption
      <3>3. sessions'[t].revoked \/ faults' = faults + 1
        BY <1>1, RevokedKeeps DEF RefreshRevoke, Fault, Basic
      <3>4. ~sessions'[r].revoked =>
                Cardinality(Making(r)') + faults <= Cardinality(Making(r)) + faults'
        BY <1>4, <2>2, <2>3, <3>2, <3>3
      <3>5. Honours(r) /\ faults <= faults'
        BY <1>4 DEF Honoured
      <3>. QED  BY <1>3, <2>1, <3>4, <3>5, KeepsHonour
    <2>4. CASE r # t
      <3>1. Making(r)' \subseteq Making(r)
        BY <1>1, <1>2, <2>4 DEF Making
      <3>2. b <= a
        BY <2>2, <3>1, SuccessorsCounted
      <3>. QED  BY <1>3, <1>4, <2>1, <2>2, <3>2, KeepsHonour DEF Honoured
    <2>. QED  BY <2>3, <2>4
  <1>. QED  BY <1>3, <1>5 DEF Honoured, SameSessions

LEMMA CreateHonoured ==
    ASSUME Basic, Basic', Honoured, NEW w \in Workers, CreateSession(w)
    PROVE  Honoured'
  <1>1. PICK n \in Nat : n = Len(sessions)
    BY CreateBasic
  <1>2. PICK d \in Nat : d = loc[w].doc
    BY DEF Basic, Typed, TypeOK, Locals
  <1>3. /\ DOMAIN sessions = 1..n /\ DOMAIN sessions' = 1..(n + 1)
        /\ \A s \in DOMAIN sessions : sessions'[s] = sessions[s]
        /\ sessions'[n + 1].from = d
    <2>1. /\ DOMAIN sessions = 1..n /\ DOMAIN sessions' = 1..(n + 1)
          /\ \A s \in DOMAIN sessions : sessions'[s] = sessions[s]
          /\ sessions'[n + 1] = NewSession(loc[w].user, loc[w].doc, loc[w].born)
      BY <1>1, CreateBasic
    <2>2. sessions'[n + 1].from = d
      BY <1>2, <2>1 DEF NewSession
    <2>. QED  BY <2>1, <2>2
  <1>4. /\ \A v \in Workers : v # w => pc'[v] = pc[v] /\ loc'[v] = loc[v]
        /\ pc'[w] = "idle" /\ pc[w] = "createSession"
    BY StepMoves, MovesElsewhere DEF CreateSession
  <1>5. faults' = faults /\ faults \in Nat
    BY DEF CreateSession, Finish, Goto, Basic, Typed
  <1>6. d = 0 \/ d \in 1..n
    BY <1>2, <1>3, <1>4 DEF Basic, Refers
  <1>7. ASSUME NEW s \in DOMAIN sessions PROVE Honours(s)'
    <2>1. PICK j \in Nat, a \in Nat, c \in Nat, k \in Nat :
             /\ j = Cardinality(Kids(s)) /\ a = Cardinality(Making(s))
             /\ c = Cardinality(Pending(s)) /\ k = Cardinality(Workers)
      BY SuccessorsCounted
    <2>2. /\ ~sessions[s].revoked => j + a <= faults
          /\ j + c <= k + faults
      BY <2>1 DEF Honoured, Honours
    <2>3. CASE s = d
      <3>1. Kids(s)' = Kids(s) \cup {n + 1} /\ n + 1 \notin Kids(s)
        BY <1>3, <2>3 DEF Kids
      <3>2. Cardinality(Kids(s)') = j + 1
        BY <2>1, <3>1, FS_AddElement, SuccessorsCounted
      <3>3. /\ Making(s) \subseteq Workers /\ Making(s)' \subseteq Workers
            /\ \A v \in Workers : v # w => (v \in Making(s) <=> v \in Making(s)')
            /\ w \in Making(s) /\ w \notin Making(s)'
            /\ Pending(s) \subseteq Workers /\ Pending(s)' \subseteq Workers
            /\ \A v \in Workers : v # w => (v \in Pending(s) <=> v \in Pending(s)')
            /\ w \in Pending(s) /\ w \notin Pending(s)'
        BY <1>2, <1>4, <2>3 DEF Making, Pending
      <3>4. Cardinality(Making(s)') = a - 1
        BY <2>1, <3>3, OneMoves, SessionsAssumption
      <3>5. Cardinality(Pending(s)') = c - 1
        BY <2>1, <3>3, OneMoves, SessionsAssumption
      <3>6. /\ ~sessions[s].revoked => (j + 1) + (a - 1) <= faults
            /\ (j + 1) + (c - 1) <= k + faults
        BY <1>5, <2>2
      <3>. QED  BY <1>3, <1>5, <2>1, <3>2, <3>4, <3>5, <3>6 DEF Honours
    <2>4. CASE s # d
      <3>1. Kids(s)' = Kids(s) /\ Making(s)' = Making(s) /\ Pending(s)' = Pending(s)
        BY <1>2, <1>3, <1>4, <2>4 DEF Kids, Making, Pending
      <3>. QED  BY <1>3, <1>5, <2>1, <2>2, <3>1 DEF Honours
    <2>. QED  BY <2>3, <2>4
  <1>8. Honours(n + 1)'
    <2>1. PICK m \in Nat, k \in Nat : m = n + 1 /\ k = Cardinality(Workers)
      BY FS_CardinalityType, SessionsAssumption
    <2>2. ASSUME NEW c \in DOMAIN sessions', sessions'[c].from = m PROVE FALSE
      <3>1. sessions'[c].from # 0 /\ c \in 1..m
        BY <1>3, <2>1, <2>2
      <3>2. sessions'[c].from < c
        BY <3>1 DEF Basic, Typed, TypeOK
      <3>. QED  BY <2>2, <3>1, <3>2
    <2>3. Kids(m)' = {}
      BY <2>2 DEF Kids
    <2>4. Pending(m)' = {} /\ Making(m)' = {}
      <3>1. ASSUME NEW v \in Workers, pc'[v] \in {"rotate", "createSession"}, loc'[v].doc = m
            PROVE  FALSE
        <4>1. pc[v] \in {"rotate", "createSession"} /\ loc[v].doc = m
          BY <1>4, <3>1
        <4>2. m \in DOMAIN sessions
          BY <2>1, <4>1 DEF Basic, Refers
        <4>. QED  BY <1>3, <2>1, <4>2
      <3>. QED  BY <3>1 DEF Pending, Making
    <2>5. Honours(m)'
      BY <1>5, <2>1, <2>3, <2>4, FS_EmptySet DEF Honours
    <2>. QED  BY <2>1, <2>5
  <1>9. \A s \in DOMAIN sessions' : s \in DOMAIN sessions \/ s = n + 1
    BY <1>3
  <1>. QED  BY <1>7, <1>8, <1>9 DEF Honoured
LEMMA WorkerHonoured ==
    ASSUME Basic, Basic', Honoured, NEW w \in Workers, WorkerStep(w)
    PROVE  Honoured'
  <1>0. faults \in Nat /\ (sessions' = sessions => SameSessions)
    BY UnchangedSessions DEF Basic, Typed
  <1>1. ASSUME NEW L, MovesTo(w, L), "rotate" \notin L, "createSession" \notin L,
               SameSessions, faults' = faults \/ faults' = faults + 1
        PROVE  Honoured'
    BY <1>0, <1>1, ElsewhereHonoured
  <1>2. ASSUME NEW u \in Users, NEW p \in Passwords, LoginCheck(w, u, p) PROVE Honoured'
    <2>1. MovesTo(w, {"lookup"}) /\ SameSessions
      BY <1>0, <1>2, StepMoves DEF LoginCheck, rotation
    <2>2. faults' = faults \/ faults' = faults + 1
      BY <1>2 DEF LoginCheck, Fault
    <2>. QED  BY <1>1, <2>1, <2>2
  <1>3. ASSUME NEW u \in Users, SetupRead(w, u) \/ VerifyRead(w, u) PROVE Honoured'
    BY <1>0, <1>1, <1>3, StepMoves DEF SetupRead, VerifyRead, Start, Enter, rotation
  <1>4. ASSUME NEW u \in Users, Login2FA(w, u) PROVE Honoured'
    <2>1. epoch[u] \in Nat
      BY DEF Basic, Typed
    <2>2. [OfUser(u) EXCEPT !.born = epoch[u]].doc = 0
      BY <2>1, LocalsTyped DEF Locals
    <2>3. loc'[w].doc = 0 /\ SameSessions /\ faults' = faults
      BY <1>0, <1>4, <2>2 DEF Login2FA, Start, Enter, rotation, Basic, Typed, TypeOK
    <2>4. MovesTo(w, {"createSession"}) /\ faults <= faults'
      BY <1>0, <1>4, <2>3, StepMoves
    <2>. QED  BY <2>3, <2>4, ElsewhereHonoured
  <1>5. ASSUME NEW s \in DOMAIN sessions, LogoutFind(w, s) PROVE Honoured'
    BY <1>0, <1>1, <1>5, StepMoves DEF LogoutFind, Start, Enter, rotation
  <1>6. ASSUME NEW t \in DOMAIN resets, NEW p \in Passwords, ResetFind(w, t, p) PROVE Honoured'
    BY <1>0, <1>1, <1>6, StepMoves DEF ResetFind, Start, Enter, rotation
  <1>7. CASE LoginLookup(w)
    <2>1. SameSessions /\ pc[w] = "lookup"
      BY <1>0, <1>7 DEF LoginLookup, rotation
    <2>2. faults <= faults'
      BY <1>0, <1>7 DEF LoginLookup, Finish, Goto, Fault
    <2>3. loc[w] \in Locals /\ loc[w].user \in Users /\ loc[w].doc = 0
      BY <2>1 DEF Basic, Refers, Typed, TypeOK, Locals
    <2>4. epoch[loc[w].user] \in Nat
      BY <2>3 DEF Basic, Typed
    <2>5. [loc[w] EXCEPT !.born = epoch[loc[w].user]].doc = 0 /\ NoLocals.doc = 0
      BY <2>3, <2>4 DEF Locals, NoLocals
    <2>6. loc'[w].doc = 0
      BY <1>7, <2>3, <2>5 DEF LoginLookup, Finish, Goto, Basic, Typed, TypeOK
    <2>7. MovesTo(w, {"recordFailure", "idle", "createSession"})
      BY <1>7, StepMoves
    <2>. QED  BY <2>1, <2>2, <2>6, <2>7, ElsewhereHonoured
  <1>8. CASE LoginRecord(w) \/ SetupStore(w) \/ VerifyEnable(w) \/ Abandon(w)
    <2>1. SameSessions /\ (faults' = faults \/ faults' = faults + 1)
      BY <1>0, <1>8 DEF LoginRecord, SetupStore, VerifyEnable, Abandon, Finish, Goto, Fault, rotation
    <2>. QED  BY <1>1, <1>8, <2>1, StepMoves
  <1>9. CASE RevokeFound(w) \/ ResetRevokeAll(w)
    <2>1. SameSessions /\ faults' = faults
      BY <1>9, RevokedKeeps DEF RevokeFound, ResetRevokeAll, RevokeAllUserSessions, Finish, Goto, Basic
    <2>. QED  BY <1>1, <1>9, <2>1, StepMoves
  <1>10. CASE ResetSetPassword(w) \/ ResetFindToken(w) \/ ResetMarkUsed(w) \/ ResetGoesOn(w)
    <2>1. SameSessions /\ (faults' = faults \/ faults' = faults + 1)
      BY <1>0, <1>10 DEF ResetSetPassword, ResetFindToken, ResetMarkUsed, ResetGoesOn, Goto, Fault, rotation
    <2>. QED  BY <1>1, <1>10, <2>1, StepMoves
  <1>. QED  BY <1>2, <1>3, <1>4, <1>5, <1>6, <1>7, <1>8, <1>9, <1>10, RefreshFindHonoured,
               RefreshRevokeHonoured, CreateHonoured DEF WorkerStep

(* HonouredOnce: the successors of a session, with those about to be made, *)
(* are no more than the refreshes that had found it before the first of    *)
(* them revoked it, and the revocations whose failure was ignored          *)
(* (core/session RefreshSession).                                          *)
THEOREM TokensAreHonouredOnce == Spec => []HonouredOnce
  <1>1. Init => Honoured
    <2>1. DOMAIN <<>> = {}
      OBVIOUS
    <2>. QED  BY <2>1 DEF Init, Honoured
  <1>2. Basic /\ Basic' /\ Honoured /\ [Next]_vars => Honoured'
    <2> SUFFICES ASSUME Basic, Basic', Honoured, [Next]_vars PROVE Honoured'
      OBVIOUS
    <2>0. sessions' = sessions => SameSessions
      BY UnchangedSessions DEF Basic
    <2>1. CASE SingleCall
      <3>1. CASE (\E s \in DOMAIN sessions : RevokeSession(s)) \/ (\E u \in Users : LogoutAll(u))
        <4>1. SameSessions /\ UNCHANGED <<pc, loc, faults>>
          BY <3>1, RevokedKeeps DEF RevokeSession, LogoutAll, RevokeAllUserSessions, Once, Basic
        <4>. QED  BY <4>1, StillHonoured
      <3>2. CASE \/ \E u \in Users : GenerateResetToken(u) \/ Disable2FA(u) \/ DeleteUser(u)
                 \/ \E u \in Users, p \in Passwords : UpdatePassword(u, p)
        <4>1. SameSessions /\ UNCHANGED <<pc, loc, faults>>
          BY <2>0, <3>2 DEF GenerateResetToken, Disable2FA, DeleteUser, UpdatePassword, Once, rotation
        <4>. QED  BY <4>1, StillHonoured
      <3>. QED  BY <2>1, <3>1, <3>2 DEF SingleCall
    <2>2. CASE TimePasses
      <3>1. UNCHANGED <<pc, loc, faults>>
        BY <2>2 DEF TimePasses, SessionExpires, ResetExpires, TempExpires, WindowPasses, requests
      <3>2. sessions' = sessions \/ \E s \in DOMAIN sessions : SessionExpires(s)
        BY <2>2 DEF TimePasses, ResetExpires, TempExpires, WindowPasses, rotation
      <3>3. SameSessions
        BY <2>0, <3>2, ExpiryKeeps DEF SessionExpires, Basic
      <3>. QED  BY <3>1, <3>3, StillHonoured
    <2>3. CASE UNCHANGED vars
      BY <2>0, <2>3, StillHonoured DEF vars
    <2>. QED  BY <2>1, <2>2, <2>3, WorkerHonoured DEF Next
  <1>3. Basic /\ Honoured => HonouredOnce
    BY DEF Honoured, Honours, Kids, Pending, HonouredOnce
  <1>. QED  BY <1>1, <1>2, <1>3, AlwaysBasic, PTL DEF Spec


=============================================================================
