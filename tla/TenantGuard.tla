---------------------------- MODULE TenantGuard -----------------------------
(***************************************************************************)
(* core/middleware/tenant_guard.go: requests of the tenant's users pass    *)
(* RequireTenantActive and, when they create something, EnforceLimit.  The *)
(* tenant's configuration comes from the cache of the process, which a     *)
(* miss fills from the database.  A guard that cannot read the tenant or   *)
(* the count lets the request pass.                                        *)
(***************************************************************************)
EXTENDS TenantStore

VARIABLES
    count,          \* documents of the tenant that the limit is about
    bypassed        \* history: of these, how many nothing compared with the limit

creation == <<count, bypassed>>

GuardTypeOK == count \in Nat /\ bypassed \in Nat

-----------------------------------------------------------------------------
(* getTenantConfig.                                                        *)

FreshFault(i) == cache[i].age # "none"
Fresh(i) == cache[i].age = "fresh"

(* RequireTenantActive, and RequireFeature after it, look at the           *)
(* configuration; a request that passed without one is not asked again.    *)
Decide(w, l) ==
    IF l.kind = "passed" \/ (l.kind = "create" /\ l.cfg.status # "SUSPENDED")
    THEN Goto(w, "count", l)
    ELSE Finish(w)

Arrival(i, kind, n) == [On(i) EXCEPT !.kind = kind, !.batch = n]

(* Reads are not counted.                                                  *)
Arrives(w, kind, n) ==
    /\ At(w, "idle")
    /\ kind \in Kinds
    /\ \/ kind = "read" /\ n = 0 /\ UNCHANGED started
       \/ kind = "create" /\ n \in Batches /\ started < MaxRequests /\ started' = started + 1
    /\ UNCHANGED <<doc, clean, peak, custom, administered, count>>

(* A request that may create its documents whatever their number.          *)
Bypass(n) == bypassed' = bypassed + n

RequestHit(w, i, kind, n) ==
    /\ Arrives(w, kind, n)
    /\ Fresh(i)
    /\ Decide(w, [Arrival(i, kind, n) EXCEPT !.cfg = cache[i].cfg])
    /\ UNCHANGED <<cache, faults, bypassed>>

(* The database is read here and the entry stored in the next step.        *)
RequestMiss(w, i, kind, n) ==
    /\ Arrives(w, kind, n)
    /\ ~Fresh(i)
    /\ doc.exists
    /\ Goto(w, "store", [Arrival(i, kind, n) EXCEPT !.cfg = ConfigOf(doc)])
    /\ UNCHANGED <<cache, faults, bypassed>>

StoreEntry(w) ==
    /\ At(w, "store")
    /\ cache' = [cache EXCEPT ![loc[w].instance] = [cfg |-> loc[w].cfg, age |-> "fresh"]]
    /\ Decide(w, loc[w])
    /\ UNCHANGED <<doc, clean, peak, custom, requests, creation>>

(* Fail-open: no tenant, or no answer from the database.                   *)
Unanswered ==
    IF doc.exists
    THEN MayFail /\ faults < MaxFaults /\ faults' = faults + 1
    ELSE UNCHANGED faults

PassUnguarded(w, i, n) ==
    /\ Arrives(w, "create", n)
    /\ ~Fresh(i)
    /\ Unanswered
    /\ Goto(w, "limit", [Arrival(i, "create", n) EXCEPT !.kind = "passed"])
    /\ UNCHANGED <<cache, bypassed>>

(* EnforceLimit asks for the configuration that did not come.              *)
LimitConfig(w) ==
    LET i == loc[w].instance IN
    /\ At(w, "limit")
    /\ \/ /\ Fresh(i)
          /\ Goto(w, "count", [loc[w] EXCEPT !.cfg = cache[i].cfg])
          /\ UNCHANGED <<faults, bypassed>>
       \/ /\ ~Fresh(i)
          /\ doc.exists
          /\ Goto(w, "store", [loc[w] EXCEPT !.cfg = ConfigOf(doc)])
          /\ UNCHANGED <<faults, bypassed>>
       \/ /\ ~Fresh(i)
          /\ Unanswered
          /\ Goto(w, "create", loc[w])
          /\ Bypass(loc[w].batch)
    /\ UNCHANGED <<doc, cache, clean, peak, custom, administered, started, count>>

-----------------------------------------------------------------------------
(* EnforceLimit compares the count with the limit of the configuration it  *)
(* was given; the handler creates the documents afterwards.  An import     *)
(* creates many after one check.  Register compares with the document      *)
(* itself, not with the cache, and with nothing when it does not get it.   *)

BelowFault(n, limit) == n <= limit
Below(n, limit) == n < limit

RegisterRead(w, i) ==
    /\ Arrives(w, "create", 1)
    /\ 1 \in Batches
    /\ \/ /\ doc.exists
          /\ doc.status # "SUSPENDED"
          /\ Goto(w, "count", [Arrival(i, "create", 1) EXCEPT !.cfg = ConfigOf(doc)])
          /\ UNCHANGED <<faults, bypassed>>
       \/ /\ Unanswered
          /\ Goto(w, "create", Arrival(i, "create", 1))
          /\ Bypass(1)
    /\ UNCHANGED cache

CheckLimit(w) ==
    /\ At(w, "count")
    /\ IF Below(count, loc[w].cfg.limit) THEN Goto(w, "create", loc[w]) ELSE Finish(w)
    /\ UNCHANGED <<doc, cache, clean, peak, custom, requests, creation>>

(* The documents cannot be counted: the request passes.                    *)
CountFails(w) ==
    /\ At(w, "count")
    /\ MayFail
    /\ faults < MaxFaults
    /\ faults' = faults + 1
    /\ Goto(w, "create", loc[w])
    /\ Bypass(loc[w].batch)
    /\ UNCHANGED <<doc, cache, clean, peak, custom, administered, started, count>>

CreateDocuments(w) ==
    /\ At(w, "create")
    /\ count' = count + loc[w].batch
    /\ Finish(w)
    /\ UNCHANGED <<doc, cache, clean, peak, custom, requests, bypassed>>

(* What no guard compares with the limit: the requests of a superadmin,    *)
(* the creating routes of api/index.go (they carry no EnforceLimit), and   *)
(* an account that UpdateUser moves into the tenant.                       *)
CreateUncounted(n) ==
    /\ n \in Batches
    /\ started < MaxRequests
    /\ started' = started + 1
    /\ count' = count + n
    /\ Bypass(n)
    /\ UNCHANGED <<doc, cache, clean, peak, custom, pc, loc, administered, faults>>

DeleteDocument ==
    /\ count > 0
    /\ count' = count - 1
    /\ UNCHANGED <<doc, cache, clean, peak, custom, pc, loc, requests, bypassed>>

(* The entry of process i gets older than the TTL.                         *)
EntryAges(i) ==
    /\ cache[i].age = "fresh"
    /\ cache' = [cache EXCEPT ![i].age = "stale"]
    /\ UNCHANGED <<doc, clean, peak, custom, pc, loc, requests, creation>>

Guarded(w) ==
    \/ \E i \in Instances, kind \in Kinds, n \in Batches \cup {0} :
          RequestHit(w, i, kind, n) \/ RequestMiss(w, i, kind, n)
    \/ \E i \in Instances, n \in Batches : PassUnguarded(w, i, n)
    \/ \E i \in Instances : RegisterRead(w, i)
    \/ StoreEntry(w) \/ LimitConfig(w) \/ CheckLimit(w) \/ CountFails(w) \/ CreateDocuments(w)

=============================================================================
