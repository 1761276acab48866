---------------------------- MODULE TenantStore -----------------------------
(***************************************************************************)
(* One tenant: its document, the plans, the copies of the document that    *)
(* the server processes keep in memory, and the administrator's requests   *)
(* that change it (core/tenant).  Tenants do not meet: the collection, the *)
(* cache and the limits are keyed by tenant.                               *)
(*                                                                         *)
(* A request runs on one process and is a sequence of database calls and   *)
(* cache accesses that interleave with those of other requests.            *)
(***************************************************************************)
EXTENDS Integers, Sequences, FiniteSetsExt

CONSTANTS
    Workers,        \* request goroutines
    Instances,      \* server processes
    Plans,          \* the plans an administrator or Stripe may choose
    Quota,          \* Quota[p]: the limit plan p sets, for one kind of document
    Settable,       \* the fields an administrator sets one by one
    Kinds,          \* what users ask for: subset of RequestKinds
    Batches,        \* how many documents one request may create
    MayFail,        \* may a request die, or a database call fail
    MaxRequests,    \* bound: requests that may change something
    MaxFaults       \* bound: failures

RequestKinds == {"read", "create"}

ASSUME TenantAssumption ==
    /\ "FREE" \in Plans
    /\ Plans \subseteq {"FREE", "PRO", "ENTERPRISE"}
    /\ Settable \subseteq {"status", "limit", "plan", "features"}
    /\ Kinds \subseteq RequestKinds
    /\ Quota \in [Plans -> Nat \ {0}]
    /\ Batches \subseteq Nat \ {0}
    /\ \E m \in Batches : \A n \in Batches : n <= m
    /\ IsFiniteSet(Workers)
    /\ MayFail \in BOOLEAN
    /\ MaxRequests \in Nat
    /\ MaxFaults \in Nat

VARIABLES
    doc,            \* the tenant document
    cache,          \* cache[i]: entry of process i for this tenant
    clean,          \* history: process i dropped its entry after the last change,
                    \* and no fill of an older read was under way there
    peak,           \* history: the largest limit the document ever had
    custom,         \* history: plan, limits or features were set one by one
    pc,             \* pc[w]: next step of goroutine w
    loc,            \* loc[w]: locals of goroutine w
    administered,   \* history: the administrator changed the document
    started,        \* requests other than reads, capped by MaxRequests
    faults          \* failures, capped by MaxFaults

(* Nothing tells TRIALING from ACTIVE.                                     *)
BillingStatuses == {"NONE", "ACTIVE", "PAST_DUE", "CANCELED", "INCOMPLETE", "UNPAID"}

Limits == {Quota[p] : p \in Plans}

(* features names the plan whose feature flags the document carries.       *)
Tenant == [exists: BOOLEAN, status: {"ACTIVE", "SUSPENDED"}, plan: Plans,
           limit: Limits, features: Plans, billing: BillingStatuses, customer: Nat]

Config == [status: {"ACTIVE", "SUSPENDED"}, limit: Limits, features: Plans]

(* An entry is none, or it is fresh until it is older than the TTL.        *)
CacheEntry == [cfg: Config, age: {"none", "fresh", "stale"}]

Labels == {"idle", "store", "limit", "count", "create",
           "apply", "invalidate", "record",
           "adminInvalidate",
           "storeCustomer", "session"}

Locals == [instance: Instances \cup {"none"}, cfg: Config, kind: RequestKinds \cup {"passed"}, event: Nat,
           batch: Nat]

ConfigOf(d) == [status |-> d.status, limit |-> d.limit, features |-> d.features]

NewTenant == [exists |-> TRUE, status |-> "ACTIVE", plan |-> "FREE", limit |-> Quota["FREE"],
              features |-> "FREE", billing |-> "NONE", customer |-> 0]

NoEntry == [cfg |-> ConfigOf(NewTenant), age |-> "none"]

NoLocals == [instance |-> "none", cfg |-> ConfigOf(NewTenant),
             kind |-> "read", event |-> 0, batch |-> 0]

StoreInit ==
    /\ doc = NewTenant
    /\ cache = [i \in Instances |-> NoEntry]
    /\ clean = [i \in Instances |-> TRUE]
    /\ peak = doc.limit
    /\ custom = FALSE
    /\ pc = [w \in Workers |-> "idle"]
    /\ loc = [w \in Workers |-> NoLocals]
    /\ administered = FALSE
    /\ started = 0
    /\ faults = 0

-----------------------------------------------------------------------------
(* Requests.                                                               *)

Goto(w, label, l) ==
    /\ pc' = [pc EXCEPT ![w] = label]
    /\ loc' = [loc EXCEPT ![w] = IF label = "idle" THEN NoLocals ELSE l]

Start(w, label, l) ==
    /\ pc[w] = "idle"
    /\ started < MaxRequests
    /\ started' = started + 1
    /\ Goto(w, label, l)

requests == <<administered, started, faults>>

Finish(w) == Goto(w, "idle", NoLocals)

At(w, label) == pc[w] = label

On(i) == [NoLocals EXCEPT !.instance = i]

(* Every write of the document leaves the processes' copies behind; once    *)
(* the document is deleted a write matches nothing.                        *)
Write(new) ==
    IF doc.exists
    THEN /\ doc' = new
         /\ clean' = [i \in Instances |-> FALSE]
         /\ peak' = Max({peak, new.limit})
    ELSE UNCHANGED <<doc, clean, peak>>

FillsOn(i) == {w \in Workers : pc[w] = "store" /\ loc[w].instance = i}

(* InvalidateTenantCache: the entry of this process only.                  *)
DroppedFault(i) == cache
Dropped(i) == [cache EXCEPT ![i] = NoEntry]

Invalidate(w) ==
    LET i == loc[w].instance IN
    /\ cache' = Dropped(i)
    /\ clean' = [clean EXCEPT ![i] = FillsOn(i) = {}]

-----------------------------------------------------------------------------
(* PlanDefaults: a plan sets its limits and its features together.         *)
WithPlan(d, p) == [d EXCEPT !.plan = p, !.limit = Quota[p], !.features = p]

-----------------------------------------------------------------------------
(* The administrator: Update sets some fields and invalidates; UpdatePlan  *)
(* and Delete leave every cache as it is.  (The look-up before the write   *)
(* carries nothing over to it.)                                            *)

Changes(d) ==
    {[d EXCEPT !.status = s] : s \in {"ACTIVE", "SUSPENDED"}} \cup
    {[d EXCEPT !.limit = n] : n \in Limits} \cup
    {[d EXCEPT !.plan = p] : p \in Plans} \cup
    {[d EXCEPT !.features = p] : p \in Plans}

(* An update that sets only fields among Settable.                         *)
Update(d) == {new \in Changes(d) : \A f \in DOMAIN d \ Settable : new[f] = d[f]}

AdminBegins ==
    /\ doc.exists
    /\ administered' = TRUE
    /\ UNCHANGED <<cache, faults>>

AdminUpdate(w, i) ==
    /\ AdminBegins
    /\ \E new \in Update(doc) :
          /\ Write(new)
          /\ custom' = (custom \/ ConfigOf(new) # ConfigOf(doc) \/ new.plan # doc.plan)
    /\ Start(w, "adminInvalidate", On(i))

AdminInvalidate(w) ==
    /\ At(w, "adminInvalidate")
    /\ Invalidate(w)
    /\ Finish(w)
    /\ UNCHANGED <<doc, peak, custom, requests>>

AdminPlan(w) ==
    /\ AdminBegins
    /\ \E p \in Plans : Write(WithPlan(doc, p))
    /\ custom' = FALSE
    /\ Start(w, "idle", NoLocals)

AdminDelete(w) ==
    /\ AdminBegins
    /\ Write([doc EXCEPT !.exists = FALSE])
    /\ Start(w, "idle", NoLocals)
    /\ UNCHANGED custom

Admin(w) ==
    \/ \E i \in Instances : AdminUpdate(w, i)
    \/ AdminInvalidate(w) \/ AdminPlan(w) \/ AdminDelete(w)

=============================================================================
