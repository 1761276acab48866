------------------------------ MODULE Sessions ------------------------------
(***************************************************************************)
(* core/session and core/auth: logins with their brute-force counter and   *)
(* second factor, refresh-token sessions and their rotation, logout,       *)
(* password reset tokens, and the two-factor settings of an account.       *)
(*                                                                         *)
(* A request is a sequence of repository calls that interleave with those  *)
(* of other requests.  Time is an action: a session, a reset token or a    *)
(* temporary token expires at any moment and stays expired, and the        *)
(* failures counted for an account leave the fifteen-minute window.  A raw *)
(* token is known by the position of its document.  Errors the code drops  *)
(* ("_ =") let the request go on as if the call had worked.                *)
(***************************************************************************)
EXTENDS Integers, Sequences, FiniteSetsExt

CONSTANTS
    Workers,        \* request goroutines
    Users,          \* accounts that exist at the start
    Passwords,      \* passwords that pass ValidatePassword
    MaxAttempts,    \* BruteForceMaxAttempts
    Ops,            \* operations clients issue in this configuration
    MayFail,        \* may a request die, or a repository call fail
    MaxRequests,    \* bound: requests started in one behaviour
    MaxFaults       \* bound: failures in one behaviour

AllOps == {"login", "login2fa", "refresh", "logout", "revoke", "revokeAll", "newReset",
           "reset", "setup", "verify", "disable", "update", "delete"}

ASSUME SessionsAssumption ==
    /\ IsFiniteSet(Workers)
    /\ Users # {}
    /\ Passwords # {}
    /\ MaxAttempts \in Nat \ {0}
    /\ Ops \subseteq AllOps
    /\ MayFail \in BOOLEAN
    /\ MaxRequests \in Nat
    /\ MaxFaults \in Nat

VARIABLES
    users,          \* the users collection
    failures,       \* failures[u]: failed attempts in the window, one address
    sessions,       \* the sessions collection, in order of insertion
    resets,         \* the reset_tokens collection, in order of insertion
    temps,          \* users with an unexpired temporary token
    epoch,          \* history: epoch[u]: how often all sessions of u were revoked
    overlapped,     \* history: sessions of u were being created at the last of these
    raced,          \* history: u's 2FA was disabled while a verification was under way
    pc,             \* pc[w]: next repository call of goroutine w
    loc,            \* loc[w]: locals of goroutine w
    started,        \* requests started, capped by MaxRequests
    faults          \* failures so far, capped by MaxFaults

vars == <<users, failures, sessions, resets, temps, epoch, overlapped, raced,
          pc, loc, started, faults>>

User == [password: Passwords, exists: BOOLEAN, secret: BOOLEAN, enabled: BOOLEAN]

(* from is 0 for a session a login opened; born is a history field: the    *)
(* epoch of the login the session goes back to.                            *)
Session == [user: Users, revoked: BOOLEAN, expired: BOOLEAN, from: Nat, born: Nat]

(* uses is a history field: password changes made with the token.          *)
Reset == [user: Users, used: BOOLEAN, expired: BOOLEAN, uses: Nat]

Labels == {"idle", "lookup", "recordFailure", "createSession", "rotate", "revoke",
           "setPassword", "findToken", "markUsed", "revokeAll", "storeSecret", "enable"}

Locals == [user: Users, password: Passwords, doc: Nat, born: Nat]

NoLocals == [user |-> CHOOSE u \in Users : TRUE, password |-> CHOOSE p \in Passwords : TRUE,
             doc |-> 0, born |-> 0]

(* Every document has its shape, and a session rotated from another names  *)
(* an older session of the same user.                                      *)
TypeOK ==
    /\ users \in [Users -> User]
    /\ failures \in [Users -> Nat]
    /\ sessions \in Seq(Session)
    /\ \A s \in DOMAIN sessions :
          sessions[s].from # 0 =>
              /\ sessions[s].from < s
              /\ sessions[s].user = sessions[sessions[s].from].user
    /\ resets \in Seq(Reset)
    /\ temps \in SUBSET Users
    /\ pc \in [Workers -> Labels]
    /\ loc \in [Workers -> Locals]

Init ==
    /\ users = [u \in Users |-> [password |-> CHOOSE p \in Passwords : TRUE, exists |-> TRUE,
                                 secret |-> FALSE, enabled |-> FALSE]]
    /\ failures = [u \in Users |-> 0]
    /\ sessions = <<>>
    /\ resets = <<>>
    /\ temps = {}
    /\ epoch = [u \in Users |-> 0]
    /\ overlapped = [u \in Users |-> FALSE]
    /\ raced = [u \in Users |-> FALSE]
    /\ pc = [w \in Workers |-> "idle"]
    /\ loc = [w \in Workers |-> NoLocals]
    /\ started = 0
    /\ faults = 0

-----------------------------------------------------------------------------
(* Queries.                                                                *)

LockedFault(u) == failures[u] > MaxAttempts
Locked(u) == failures[u] >= MaxAttempts

(* FindActiveSessionByHash.                                                *)
LiveFault(s) == ~sessions[s].expired
Live(s) == ~sessions[s].revoked /\ ~sessions[s].expired

(* FindValidResetToken.                                                    *)
ValidFault(t) == ~resets[t].expired
Valid(t) == ~resets[t].used /\ ~resets[t].expired

SessionsOf(u) == {s \in DOMAIN sessions : sessions[s].user = u}

(* The filter of RevokeAllUserSessions.                                    *)
ToRevokeFault(u) ==
    {s \in SessionsOf(u) : ~sessions[s].revoked /\ \A r \in SessionsOf(u) : r < s => sessions[r].revoked}
ToRevoke(u) == {s \in SessionsOf(u) : ~sessions[s].revoked}

Revoked(S) == [s \in DOMAIN sessions |->
                  IF s \in S THEN [sessions[s] EXCEPT !.revoked = TRUE] ELSE sessions[s]]

NewSession(u, from, born) ==
    [user |-> u, revoked |-> FALSE, expired |-> FALSE, from |-> from, born |-> born]

(* RefreshSession copies the user of the session, never of the claims.     *)
Rotated(l) == NewSession(l.user, l.doc, l.born)

(* UpdateByID: nothing happens when the account is gone.                   *)
Updated(u, doc) == [users EXCEPT ![u] = IF @.exists THEN doc ELSE @]

(* validate2FACode, with the code of the moment.                           *)
CodeAccepted(u) == users[u].exists /\ users[u].enabled /\ users[u].secret

Creating(u) ==
    \E w \in Workers : loc[w].user = u /\ pc[w] \in {"createSession", "rotate"}

-----------------------------------------------------------------------------
(* Requests.                                                               *)

Can(op) == op \in Ops /\ started < MaxRequests

Enter(w, op, label, l) ==
    /\ Can(op)
    /\ pc[w] = "idle"
    /\ started' = started + 1
    /\ pc' = [pc EXCEPT ![w] = label]
    /\ loc' = [loc EXCEPT ![w] = l]

Start(w, op, label, l) == Enter(w, op, label, l) /\ UNCHANGED faults

(* A request that is a single repository call.                             *)
Once(op) ==
    /\ Can(op)
    /\ started' = started + 1
    /\ UNCHANGED <<pc, loc, faults>>

Goto(w, label, l) ==
    /\ pc' = [pc EXCEPT ![w] = label]
    /\ loc' = [loc EXCEPT ![w] = IF label = "idle" THEN NoLocals ELSE l]
    /\ UNCHANGED <<started, faults>>

Finish(w) == Goto(w, "idle", NoLocals)

(* One repository call fails.                                              *)
Fault ==
    /\ MayFail
    /\ faults < MaxFaults
    /\ faults' = faults + 1

OfUser(u) == [NoLocals EXCEPT !.user = u]

accounts == <<users, failures, temps, raced>>
rotation == <<sessions, epoch, overlapped>>

-----------------------------------------------------------------------------
(* Login: count the failures, look the user up, record the attempt, then   *)
(* open a session or, with 2FA enabled, hand out a temporary token.  The   *)
(* lock fails open: a count that fails is answered as "not locked".  A     *)
(* look-up that fails counts as an attempt with wrong credentials.         *)

LoginCheck(w, u, p) ==
    /\ (~Locked(u) /\ UNCHANGED faults) \/ Fault
    /\ Enter(w, "login", "lookup", [OfUser(u) EXCEPT !.password = p])
    /\ UNCHANGED <<accounts, rotation, resets>>

Matches(u, p) == users[u].exists /\ users[u].password = p

LoginLookup(w) ==
    LET u == loc[w].user IN
    /\ pc[w] = "lookup"
    /\ \/ ~Matches(u, loc[w].password) /\ Goto(w, "recordFailure", loc[w]) /\ UNCHANGED temps
       \/ /\ Matches(u, loc[w].password) /\ users[u].enabled
          /\ Finish(w)
          /\ temps' = temps \cup {u}
       \/ /\ Matches(u, loc[w].password) /\ ~users[u].enabled
          /\ Goto(w, "createSession", [loc[w] EXCEPT !.born = epoch[u]])
          /\ UNCHANGED temps
       \/ /\ Fault
          /\ pc' = [pc EXCEPT ![w] = "recordFailure"]
          /\ UNCHANGED <<loc, started, temps>>
    /\ UNCHANGED <<users, failures, raced, rotation, resets>>

LoginRecord(w) ==
    /\ pc[w] = "recordFailure"
    /\ failures' = [failures EXCEPT ![loc[w].user] = @ + 1]
    /\ Finish(w)
    /\ UNCHANGED <<users, temps, raced, rotation, resets>>

(* The temporary token is not used up; the code is checked against the     *)
(* secret of the moment.                                                   *)
Login2FA(w, u) ==
    /\ u \in temps
    /\ CodeAccepted(u)
    /\ Start(w, "login2fa", "createSession", [OfUser(u) EXCEPT !.born = epoch[u]])
    /\ UNCHANGED <<accounts, rotation, resets>>

CreateSession(w) ==
    /\ pc[w] = "createSession"
    /\ sessions' = Append(sessions, IF loc[w].doc = 0
                                    THEN NewSession(loc[w].user, 0, loc[w].born)
                                    ELSE Rotated(loc[w]))
    /\ Finish(w)
    /\ UNCHANGED <<accounts, epoch, overlapped, resets>>

-----------------------------------------------------------------------------
(* Refresh: find the session, revoke it, create its successor.  When the   *)
(* claims name nobody or another user the session is revoked instead.      *)

RefreshFind(w, s, mine) ==
    /\ Live(s)
    /\ Start(w, "refresh", IF mine THEN "rotate" ELSE "revoke",
             [OfUser(sessions[s].user) EXCEPT !.doc = s, !.born = sessions[s].born])
    /\ UNCHANGED <<accounts, rotation, resets>>

RefreshRevoke(w) ==
    /\ pc[w] = "rotate"
    /\ \/ sessions' = Revoked({loc[w].doc}) /\ Goto(w, "createSession", loc[w])
       \/ /\ Fault
          /\ pc' = [pc EXCEPT ![w] = "createSession"]
          /\ UNCHANGED <<sessions, loc, started>>
    /\ UNCHANGED <<accounts, epoch, overlapped, resets>>

LogoutFind(w, s) ==
    /\ Live(s)
    /\ Start(w, "logout", "revoke", [OfUser(sessions[s].user) EXCEPT !.doc = s])
    /\ UNCHANGED <<accounts, rotation, resets>>

RevokeFound(w) ==
    /\ pc[w] = "revoke"
    /\ sessions' = Revoked({loc[w].doc})
    /\ Finish(w)
    /\ UNCHANGED <<accounts, epoch, overlapped, resets>>

RevokeSession(s) ==
    /\ sessions' = Revoked({s})
    /\ Once("revoke")
    /\ UNCHANGED <<accounts, epoch, overlapped, resets>>

RevokeAllUserSessions(u) ==
    /\ sessions' = Revoked(ToRevoke(u))
    /\ epoch' = [epoch EXCEPT ![u] = @ + 1]
    /\ overlapped' = [overlapped EXCEPT ![u] = Creating(u)]

LogoutAll(u) ==
    /\ RevokeAllUserSessions(u)
    /\ Once("revokeAll")
    /\ UNCHANGED <<accounts, resets>>

-----------------------------------------------------------------------------
(* Password reset: validate the token, change the password, look the token *)
(* up again and mark it used, revoke every session.  The errors of the     *)
(* last two are dropped.                                                   *)

GenerateResetToken(u) ==
    /\ resets' = Append(resets, [user |-> u, used |-> FALSE, expired |-> FALSE, uses |-> 0])
    /\ Once("newReset")
    /\ UNCHANGED <<accounts, rotation>>

ResetFind(w, t, p) ==
    /\ Valid(t)
    /\ Start(w, "reset", "setPassword",
             [OfUser(resets[t].user) EXCEPT !.password = p, !.doc = t])
    /\ UNCHANGED <<accounts, rotation, resets>>

ResetSetPassword(w) ==
    /\ pc[w] = "setPassword"
    /\ users' = Updated(loc[w].user, [users[loc[w].user] EXCEPT !.password = loc[w].password])
    /\ resets' = [resets EXCEPT ![loc[w].doc].uses = @ + 1]
    /\ Goto(w, "findToken", loc[w])
    /\ UNCHANGED <<failures, temps, raced, rotation>>

ResetFindToken(w) ==
    /\ pc[w] = "findToken"
    /\ Goto(w, IF Valid(loc[w].doc) THEN "markUsed" ELSE "revokeAll", loc[w])
    /\ UNCHANGED <<accounts, rotation, resets>>

ResetMarkUsed(w) ==
    /\ pc[w] = "markUsed"
    /\ resets' = [resets EXCEPT ![loc[w].doc].used = TRUE]
    /\ Goto(w, "revokeAll", loc[w])
    /\ UNCHANGED <<accounts, rotation>>

ResetRevokeAll(w) ==
    /\ pc[w] = "revokeAll"
    /\ RevokeAllUserSessions(loc[w].user)
    /\ Finish(w)
    /\ UNCHANGED <<accounts, resets>>

-----------------------------------------------------------------------------
(* Two-factor settings, of accounts whose tenant allows them or that have  *)
(* no tenant.  Setup2FA replaces the secret whatever is there; Verify2FA   *)
(* checks the code against the secret it read and then enables; Disable2FA *)
(* clears both fields in one update.                                       *)

SetupRead(w, u) ==
    /\ users[u].exists
    /\ Start(w, "setup", "storeSecret", OfUser(u))
    /\ UNCHANGED <<accounts, rotation, resets>>

SetupStore(w) ==
    /\ pc[w] = "storeSecret"
    /\ users' = Updated(loc[w].user, [users[loc[w].user] EXCEPT !.secret = TRUE])
    /\ Finish(w)
    /\ UNCHANGED <<failures, temps, raced, rotation, resets>>

HasSecretFault(u) == users[u].exists
HasSecret(u) == users[u].exists /\ users[u].secret

VerifyRead(w, u) ==
    /\ HasSecret(u)
    /\ Start(w, "verify", "enable", OfUser(u))
    /\ UNCHANGED <<accounts, rotation, resets>>

VerifyEnable(w) ==
    /\ pc[w] = "enable"
    /\ users' = Updated(loc[w].user, [users[loc[w].user] EXCEPT !.enabled = TRUE])
    /\ Finish(w)
    /\ UNCHANGED <<failures, temps, raced, rotation, resets>>

Disable2FA(u) ==
    /\ users' = Updated(u, [users[u] EXCEPT !.enabled = FALSE, !.secret = FALSE])
    /\ raced' = [raced EXCEPT ![u] = @ \/ \E w \in Workers : pc[w] = "enable" /\ loc[w].user = u]
    /\ Once("disable")
    /\ UNCHANGED <<failures, temps, rotation, resets>>

-----------------------------------------------------------------------------
(* UpdateUser with a new password, and DeleteUser: neither looks at the    *)
(* sessions.  What they read before the write guards nothing modelled      *)
(* here, so the read is taken with the write.                              *)

UpdatePassword(u, p) ==
    /\ users[u].exists
    /\ users' = [users EXCEPT ![u].password = p]
    /\ Once("update")
    /\ UNCHANGED <<failures, temps, raced, rotation, resets>>

DeleteUser(u) ==
    /\ users[u].exists
    /\ users' = [users EXCEPT ![u].exists = FALSE]
    /\ Once("delete")
    /\ UNCHANGED <<failures, temps, raced, rotation, resets>>

-----------------------------------------------------------------------------
(* Time, and failures.                                                     *)

requests == <<pc, loc, started, faults>>

SessionExpires(s) ==
    /\ ~sessions[s].expired
    /\ sessions' = [sessions EXCEPT ![s].expired = TRUE]
    /\ UNCHANGED <<accounts, epoch, overlapped, resets, requests>>

ResetExpires(t) ==
    /\ ~resets[t].expired
    /\ resets' = [resets EXCEPT ![t].expired = TRUE]
    /\ UNCHANGED <<accounts, rotation, requests>>

TempExpires(u) ==
    /\ u \in temps
    /\ temps' = temps \ {u}
    /\ UNCHANGED <<users, failures, raced, rotation, resets, requests>>

WindowPasses(u) ==
    /\ failures[u] > 0
    /\ failures' = [failures EXCEPT ![u] = @ - 1]
    /\ UNCHANGED <<users, temps, raced, rotation, resets, requests>>

(* The process dies or the call fails: the request ends where it stands.   *)
Abandon(w) ==
    /\ Fault
    /\ pc[w] # "idle"
    /\ pc' = [pc EXCEPT ![w] = "idle"]
    /\ loc' = [loc EXCEPT ![w] = NoLocals]
    /\ UNCHANGED <<accounts, rotation, resets, started>>

(* Dropped errors of a reset: the token stays valid or the sessions live.  *)
ResetGoesOn(w) ==
    /\ Fault
    /\ pc[w] \in {"findToken", "markUsed"}
    /\ pc' = [pc EXCEPT ![w] = "revokeAll"]
    /\ UNCHANGED <<accounts, rotation, resets, loc, started>>

WorkerStep(w) ==
    \/ \E u \in Users, p \in Passwords : LoginCheck(w, u, p)
    \/ \E u \in Users : Login2FA(w, u) \/ SetupRead(w, u) \/ VerifyRead(w, u)
    \/ \E s \in DOMAIN sessions, mine \in BOOLEAN : RefreshFind(w, s, mine)
    \/ \E s \in DOMAIN sessions : LogoutFind(w, s)
    \/ \E t \in DOMAIN resets, p \in Passwords : ResetFind(w, t, p)
    \/ LoginLookup(w) \/ LoginRecord(w) \/ CreateSession(w)
    \/ RefreshRevoke(w) \/ RevokeFound(w)
    \/ ResetSetPassword(w) \/ ResetFindToken(w) \/ ResetMarkUsed(w) \/ ResetRevokeAll(w)
    \/ SetupStore(w) \/ VerifyEnable(w)
    \/ Abandon(w) \/ ResetGoesOn(w)

SingleCall ==
    \/ \E s \in DOMAIN sessions : RevokeSession(s)
    \/ \E u \in Users : LogoutAll(u) \/ GenerateResetToken(u) \/ Disable2FA(u) \/ DeleteUser(u)
    \/ \E u \in Users, p \in Passwords : UpdatePassword(u, p)

TimePasses ==
    \/ \E s \in DOMAIN sessions : SessionExpires(s)
    \/ \E t \in DOMAIN resets : ResetExpires(t)
    \/ \E u \in Users : TempExpires(u) \/ WindowPasses(u)

Next == (\E w \in Workers : WorkerStep(w)) \/ SingleCall \/ TimePasses

Spec == Init /\ [][Next]_vars

-----------------------------------------------------------------------------
(* Properties.                                                             *)

(* A refresh token is honoured once: beyond its first use a session gets a *)
(* second successor only from a refresh that had found it before the first *)
(* one revoked it, or because that revocation failed and the error was     *)
(* dropped.                                                                *)
HonouredOnce ==
    \A s \in DOMAIN sessions :
        Cardinality({c \in DOMAIN sessions : sessions[c].from = s}) +
        Cardinality({w \in Workers : pc[w] \in {"rotate", "createSession"} /\ loc[w].doc = s})
            <= Cardinality(Workers) + faults

(* Logging out everywhere is final: unless a session of the user was being *)
(* created at that very moment, no session that goes back to an earlier    *)
(* login is live afterwards, through whatever chain of refreshes.          *)
LogoutAllIsFinal ==
    \A u \in Users :
        overlapped[u] \/
        \A s \in SessionsOf(u) :
            (~sessions[s].revoked /\ ~sessions[s].expired) => sessions[s].born = epoch[u]

(* A reset token changes a password once, concurrent requests and failures *)
(* aside: validation and consumption are different calls.                  *)
ResetUsesBounded ==
    \A t \in DOMAIN resets :
        resets[t].uses + Cardinality({w \in Workers : pc[w] = "setPassword" /\ loc[w].doc = t})
            <= Cardinality(Workers) + faults

(* The lock of an account is checked before the attempt is recorded, and a *)
(* check that fails lets the attempt through: the failures of a window     *)
(* exceed the limit by no more than the logins under way together and the  *)
(* calls that failed.                                                      *)
FailuresBounded ==
    \A u \in Users :
        failures[u] + Cardinality({w \in Workers : pc[w] = "recordFailure" /\ loc[w].user = u})
            <= MaxAttempts - 1 + Cardinality(Workers) + faults

(* The documents have their types, and nobody is asked for a code without  *)
(* a secret to check it against, unless 2FA was disabled while a           *)
(* verification was under way.                                             *)
SessionsWellFormed ==
    /\ TypeOK
    /\ \A u \in Users : users[u].enabled => users[u].secret \/ raced[u]

=============================================================================
