--------------------------- MODULE TenancyProofs ---------------------------
(***************************************************************************)
(* Theorems about Tenancy, for every set of goroutines, processes and      *)
(* plans, with or without failures and restarts.                           *)
(*                                                                         *)
(* CleanCacheStaysCurrent: the entry of a process that dropped it after    *)
(* the last change of the tenant, with no older read on its way, is        *)
(* current.                                                                *)
(* TenancyIsWellFormed: the documents keep their type.                     *)
(* EventsAreAppliedAlways: no event is recorded unless a delivery of it    *)
(* was applied, and each is applied by no more deliveries than there are   *)
(* goroutines, once, and once more for every failure.                      *)
(* LimitOvershootIsBounded: the documents of the tenant exceed the largest *)
(* limit it ever had by less than what all goroutines create at once and   *)
(* what was created without a comparison.                                  *)
(* InOrderAlwaysAgrees: deliveries that end one after the other, in order  *)
(* and without a failure leave the tenant as the newest event says.        *)
(***************************************************************************)
EXTENDS Tenancy, Collections

-----------------------------------------------------------------------------
(* Shapes.  That documents, entries and locals are records with the right  *)
(* fields is all that the proof needs of their types.                      *)

HasFields(r, F) == r = [f \in F |-> r[f]]

IsTenant(d) ==
    HasFields(d, {"exists", "status", "plan", "limit", "features", "billing", "customer"})

IsEntry(e) == HasFields(e, {"cfg", "age"})

IsLocal(l) == HasFields(l, {"instance", "cfg", "kind", "event", "batch"})

IsSequence(s) == s \in Seq({s[k] : k \in DOMAIN s})

Shapes ==
    /\ IsTenant(doc)
    /\ cache = [i \in Instances |-> cache[i]]
    /\ \A i \in Instances : IsEntry(cache[i])
    /\ clean \in [Instances -> BOOLEAN]
    /\ pc = [w \in Workers |-> pc[w]]
    /\ loc = [w \in Workers |-> loc[w]]
    /\ \A w \in Workers : IsLocal(loc[w])
    /\ IsSequence(events)
    /\ \A k \in DOMAIN events : events[k].type \in EventTypes
    /\ \A w \in Workers : pc[w] = "apply" => loc[w].event \in DOMAIN events

(* On a clean process nothing that is kept, or about to be, is old.        *)
Current(i) ==
    clean[i] =>
        /\ Fresh(i) => cache[i].cfg = ConfigOf(doc)
        /\ \A w \in FillsOn(i) : loc[w].cfg = ConfigOf(doc)

CacheInv == Shapes /\ \A i \in Instances : Current(i)

-----------------------------------------------------------------------------

LEMMA LocalShapes ==
    /\ IsLocal(NoLocals)
    /\ \A i : IsLocal(On(i))
    /\ \A i, e : IsLocal([On(i) EXCEPT !.event = e]) /\ [On(i) EXCEPT !.event = e].event = e
    /\ \A i, k, n : IsLocal(Arrival(i, k, n))
    /\ \A l, c : IsLocal(l) => /\ IsLocal([l EXCEPT !.cfg = c])
                               /\ [l EXCEPT !.cfg = c].cfg = c
    /\ \A l, k : IsLocal(l) => IsLocal([l EXCEPT !.kind = k])
  <1>1. IsLocal(NoLocals)
    BY DEF IsLocal, HasFields, NoLocals
  <1>2. \A l, v : IsLocal(l) => /\ IsLocal([l EXCEPT !.instance = v])
                               /\ IsLocal([l EXCEPT !.cfg = v])
                               /\ IsLocal([l EXCEPT !.kind = v])
                               /\ IsLocal([l EXCEPT !.event = v])
                               /\ IsLocal([l EXCEPT !.batch = v])
    BY DEF IsLocal, HasFields
  <1>3. \A l, v : IsLocal(l) => /\ [l EXCEPT !.cfg = v].cfg = v
                               /\ [l EXCEPT !.event = v].event = v
    BY DEF IsLocal, HasFields
  <1>4. \A i : IsLocal(On(i))
    BY <1>1, <1>2 DEF On
  <1>5. \A i, k, n : IsLocal(Arrival(i, k, n))
    BY <1>2, <1>4 DEF Arrival
  <1>. QED  BY <1>1, <1>2, <1>3, <1>4, <1>5

LEMMA TenantShapes ==
    ASSUME NEW d, IsTenant(d)
    PROVE  /\ \A v : /\ IsTenant([d EXCEPT !.exists = v])
                     /\ IsTenant([d EXCEPT !.status = v])
                     /\ IsTenant([d EXCEPT !.plan = v])
                     /\ IsTenant([d EXCEPT !.limit = v])
                     /\ IsTenant([d EXCEPT !.features = v])
                     /\ IsTenant([d EXCEPT !.billing = v])
                     /\ IsTenant([d EXCEPT !.customer = v])
           /\ \A p : IsTenant(WithPlan(d, p))
           /\ \A v : ConfigOf([d EXCEPT !.customer = v]) = ConfigOf(d)
  BY DEF IsTenant, HasFields, WithPlan, ConfigOf

LEMMA GotoShape ==
    ASSUME Shapes, NEW w \in Workers, NEW label, NEW l, IsLocal(l), Goto(w, label, l)
    PROVE  /\ pc' = [v \in Workers |-> pc'[v]]
           /\ loc' = [v \in Workers |-> loc'[v]]
           /\ \A v \in Workers : IsLocal(loc'[v])
           /\ pc'[w] = label
           /\ label # "idle" => loc'[w] = l
           /\ \A v \in Workers : v # w => pc'[v] = pc[v] /\ loc'[v] = loc[v]
  BY LocalShapes DEF Shapes, Goto

(* A request goes on, and neither the configuration nor a cache changes.   *)
LEMMA QuietStep ==
    ASSUME CacheInv, NEW w \in Workers, NEW label, label # "store", NEW l, IsLocal(l),
           label = "apply" => l.event \in DOMAIN events,
           Goto(w, label, l), IsTenant(doc'), ConfigOf(doc)' = ConfigOf(doc),
           UNCHANGED <<cache, clean, events>>
    PROVE  CacheInv'
  <1>1. /\ pc' = [v \in Workers |-> pc'[v]]
        /\ loc' = [v \in Workers |-> loc'[v]]
        /\ \A v \in Workers : IsLocal(loc'[v])
        /\ pc'[w] = label
        /\ label # "idle" => loc'[w] = l
        /\ \A v \in Workers : v # w => pc'[v] = pc[v] /\ loc'[v] = loc[v]
    BY GotoShape DEF CacheInv
  <1>2. Shapes'
    BY <1>1 DEF CacheInv, Shapes
  <1>3. ASSUME NEW i \in Instances PROVE Current(i)'
    <2>1. \A v \in Workers : pc'[v] = "store" => pc[v] = "store" /\ loc'[v] = loc[v]
      BY <1>1
    <2>. QED  BY <2>1 DEF CacheInv, Current, Fresh, FillsOn
  <1>. QED  BY <1>2, <1>3 DEF CacheInv

(* A miss reads the document, the entry is stored later.                   *)
LEMMA FillStep ==
    ASSUME CacheInv, NEW w \in Workers, NEW l, IsLocal(l), l.cfg = ConfigOf(doc),
           Goto(w, "store", l), UNCHANGED <<doc, cache, clean, events>>
    PROVE  CacheInv'
  <1>1. /\ pc' = [v \in Workers |-> pc'[v]]
        /\ loc' = [v \in Workers |-> loc'[v]]
        /\ \A v \in Workers : IsLocal(loc'[v])
        /\ pc'[w] = "store" /\ loc'[w] = l
        /\ \A v \in Workers : v # w => pc'[v] = pc[v] /\ loc'[v] = loc[v]
    BY GotoShape DEF CacheInv
  <1>2. Shapes'
    BY <1>1 DEF CacheInv, Shapes
  <1>3. ASSUME NEW i \in Instances PROVE Current(i)'
    BY <1>1 DEF CacheInv, Current, Fresh, FillsOn, ConfigOf
  <1>. QED  BY <1>2, <1>3 DEF CacheInv

(* The document changes, and no process counts as clean.                   *)
LEMMA WriteStep ==
    ASSUME CacheInv, NEW w \in Workers, NEW label, label \notin {"store", "apply"},
           NEW l, IsLocal(l), Goto(w, label, l), NEW new, IsTenant(new), Write(new),
           UNCHANGED <<cache, events>>
    PROVE  CacheInv'
  <1>1. CASE ~doc.exists
    BY <1>1, QuietStep DEF Write, CacheInv, Shapes, ConfigOf
  <1>2. CASE doc.exists
    <2>1. doc' = new /\ clean' = [i \in Instances |-> FALSE]
      BY <1>2 DEF Write
    <2>2. /\ pc' = [v \in Workers |-> pc'[v]]
          /\ loc' = [v \in Workers |-> loc'[v]]
          /\ \A v \in Workers : IsLocal(loc'[v])
          /\ pc'[w] = label
          /\ \A v \in Workers : v # w => pc'[v] = pc[v] /\ loc'[v] = loc[v]
      BY GotoShape DEF CacheInv
    <2>3. Shapes'
      BY <2>1, <2>2 DEF CacheInv, Shapes
    <2>4. \A i \in Instances : Current(i)'
      BY <2>1 DEF Current
    <2>. QED  BY <2>3, <2>4 DEF CacheInv
  <1>. QED  BY <1>1, <1>2

(* The process of the request drops its entry; a fill that is under way    *)
(* there may store an older read yet, and then it is not clean.            *)
LEMMA InvalidateStep ==
    ASSUME CacheInv, NEW w \in Workers, NEW label, label \notin {"store", "apply"},
           NEW l, IsLocal(l), Goto(w, label, l), Invalidate(w), UNCHANGED <<doc, events>>
    PROVE  CacheInv'
  <1>. DEFINE j == loc[w].instance
  <1>1. /\ pc' = [v \in Workers |-> pc'[v]]
        /\ loc' = [v \in Workers |-> loc'[v]]
        /\ \A v \in Workers : IsLocal(loc'[v])
        /\ pc'[w] = label
        /\ label # "idle" => loc'[w] = l
        /\ \A v \in Workers : v # w => pc'[v] = pc[v] /\ loc'[v] = loc[v]
    BY GotoShape DEF CacheInv
  <1>2. /\ cache' = [cache EXCEPT ![j] = NoEntry]
        /\ clean' = [clean EXCEPT ![j] = (FillsOn(j) = {})]
    BY DEF Invalidate, Dropped
  <1>3. IsEntry(NoEntry) /\ NoEntry.age = "none"
    BY DEF IsEntry, HasFields, NoEntry
  <1>4. /\ cache' = [i \in Instances |-> cache'[i]]
        /\ \A i \in Instances : cache'[i] = IF i = j THEN NoEntry ELSE cache[i]
    BY <1>2 DEF CacheInv, Shapes
  <1>5. /\ clean' \in [Instances -> BOOLEAN]
        /\ j \in Instances => (clean'[j] <=> FillsOn(j) = {})
        /\ \A i \in Instances : i # j => (clean'[i] <=> clean[i])
    BY <1>2 DEF CacheInv, Shapes
  <1>6. Shapes'
    BY <1>1, <1>3, <1>4, <1>5 DEF CacheInv, Shapes
  <1>7. \A v \in Workers : pc'[v] = "store" => pc[v] = "store" /\ loc'[v] = loc[v]
    BY <1>1
  <1>8. ASSUME NEW i \in Instances PROVE Current(i)'
    <2>1. CASE i = j
      <3>1. ~Fresh(i)'
        BY <1>3, <1>4, <2>1 DEF Fresh
      <3>2. clean'[i] => FillsOn(i) = {}
        BY <1>5, <2>1
      <3>3. \A v \in Workers : pc'[v] = "store" /\ loc'[v].instance = i => v \in FillsOn(i)
        BY <1>7 DEF FillsOn
      <3>4. clean'[i] => \A v \in Workers : ~(pc'[v] = "store" /\ loc'[v].instance = i)
        BY <3>2, <3>3
      <3>. QED  BY <3>1, <3>4 DEF Current, FillsOn
    <2>2. CASE i # j
      <3>1. cache'[i] = cache[i] /\ (clean'[i] <=> clean[i])
        BY <1>4, <1>5, <2>2
      <3>. QED  BY <1>7, <3>1 DEF CacheInv, Current, Fresh, FillsOn, ConfigOf
    <2>. QED  BY <2>1, <2>2
  <1>. QED  BY <1>6, <1>8 DEF CacheInv

LEMMA DecideMoves ==
    ASSUME NEW w, NEW l, Decide(w, l)
    PROVE  Goto(w, "count", l) \/ Goto(w, "idle", NoLocals)
  BY DEF Decide, Finish

(* What is stored on a clean process was read after its last change.       *)
LEMMA StoreEntryStep ==
    ASSUME CacheInv, NEW w \in Workers, StoreEntry(w), UNCHANGED events
    PROVE  CacheInv'
  <1>. DEFINE j == loc[w].instance
              new == [cfg |-> loc[w].cfg, age |-> "fresh"]
  <1>1. /\ pc[w] = "store" /\ doc' = doc /\ clean' = clean
        /\ cache' = [cache EXCEPT ![j] = new]
    BY DEF StoreEntry, At
  <1>2. IsLocal(loc[w]) /\ IsLocal(NoLocals)
    BY LocalShapes DEF CacheInv, Shapes
  <1>3. PICK label \in {"count", "idle"}, l \in {loc[w], NoLocals} : Goto(w, label, l)
    BY DecideMoves DEF StoreEntry
  <1>4. /\ pc' = [v \in Workers |-> pc'[v]]
        /\ loc' = [v \in Workers |-> loc'[v]]
        /\ \A v \in Workers : IsLocal(loc'[v])
        /\ pc'[w] = label
        /\ label # "idle" => loc'[w] = l
        /\ \A v \in Workers : v # w => pc'[v] = pc[v] /\ loc'[v] = loc[v]
    BY <1>2, <1>3, GotoShape DEF CacheInv
  <1>5. IsEntry(new) /\ new.cfg = loc[w].cfg
    BY DEF IsEntry, HasFields
  <1>6. /\ cache' = [i \in Instances |-> cache'[i]]
        /\ \A i \in Instances : cache'[i] = IF i = j THEN new ELSE cache[i]
    BY <1>1 DEF CacheInv, Shapes
  <1>7. Shapes'
    BY <1>1, <1>4, <1>5, <1>6 DEF CacheInv, Shapes
  <1>8. \A v \in Workers : pc'[v] = "store" => pc[v] = "store" /\ loc'[v] = loc[v]
    BY <1>4
  <1>9. ASSUME NEW i \in Instances, clean[i] PROVE Current(i)'
    <2>1. i = j => loc[w].cfg = ConfigOf(doc)
      BY <1>1, <1>9 DEF CacheInv, Current, FillsOn
    <2>2. Fresh(i)' => cache'[i].cfg = ConfigOf(doc)
      BY <1>5, <1>6, <1>9, <2>1 DEF CacheInv, Current, Fresh
    <2>3. \A v \in Workers : pc'[v] = "store" /\ loc'[v].instance = i => loc'[v].cfg = ConfigOf(doc)
      BY <1>8, <1>9 DEF CacheInv, Current, FillsOn
    <2>. QED  BY <1>1, <2>2, <2>3 DEF Current, FillsOn, ConfigOf
  <1>10. ASSUME NEW i \in Instances, ~clean[i] PROVE Current(i)'
    BY <1>1, <1>10 DEF Current
  <1>. QED  BY <1>7, <1>9, <1>10 DEF CacheInv

-----------------------------------------------------------------------------

LEMMA InitCacheInv == Init => CacheInv
  <1>. SUFFICES ASSUME Init PROVE CacheInv
    OBVIOUS
  <1>1. IsTenant(doc) /\ IsEntry(NoEntry)
    BY DEF Init, StoreInit, IsTenant, IsEntry, HasFields, NewTenant, NoEntry
  <1>2. events = <<>> /\ IsSequence(events)
    BY DEF Init, BillingInit, IsSequence
  <1>3. \A k \in DOMAIN events : events[k].type \in EventTypes
    BY <1>2
  <1>4. Shapes
    BY <1>1, <1>2, <1>3, LocalShapes DEF Init, StoreInit, Shapes
  <1>5. \A i \in Instances : ~Fresh(i) /\ FillsOn(i) = {}
    BY DEF Init, StoreInit, NoEntry, Fresh, FillsOn
  <1>. QED  BY <1>4, <1>5 DEF CacheInv, Current

LEMMA AdminStep ==
    ASSUME CacheInv, NEW w \in Workers, Admin(w), UNCHANGED events
    PROVE  CacheInv'
  <1>0. IsTenant(doc)
    BY DEF CacheInv, Shapes
  <1>1. ASSUME NEW i \in Instances, AdminUpdate(w, i) PROVE CacheInv'
    <2>1. PICK new \in Changes(doc) : Write(new)
      BY <1>1 DEF AdminUpdate, Update
    <2>2. IsTenant(new)
      BY <1>0, <2>1 DEF Changes, IsTenant, HasFields
    <2>. QED  BY <1>1, <2>1, <2>2, WriteStep, LocalShapes DEF AdminUpdate, AdminBegins, Start
  <1>2. CASE AdminInvalidate(w)
    BY <1>2, InvalidateStep, LocalShapes DEF AdminInvalidate, Finish
  <1>3. CASE AdminPlan(w)
    <2>1. PICK p \in Plans : Write(WithPlan(doc, p))
      BY <1>3 DEF AdminPlan
    <2>. QED  BY <1>0, <1>3, <2>1, TenantShapes, WriteStep, LocalShapes DEF AdminPlan, AdminBegins, Start
  <1>4. CASE AdminDelete(w)
    <2>1. IsTenant([doc EXCEPT !.exists = FALSE])
      BY <1>0, TenantShapes
    <2>. QED  BY <1>4, <2>1, WriteStep, LocalShapes DEF AdminDelete, AdminBegins, Start
  <1>. QED  BY <1>1, <1>2, <1>3, <1>4 DEF Admin

LEMMA GuardedStep ==
    ASSUME CacheInv, NEW w \in Workers, Guarded(w), UNCHANGED events
    PROVE  CacheInv'
  <1>0. IsTenant(doc) /\ IsLocal(loc[w]) /\ IsLocal(NoLocals)
    BY LocalShapes DEF CacheInv, Shapes
  <1>1. ASSUME NEW i \in Instances, NEW kind \in Kinds, NEW n \in Batches \cup {0},
               RequestHit(w, i, kind, n)
        PROVE  CacheInv'
    <2>. DEFINE l == [Arrival(i, kind, n) EXCEPT !.cfg = cache[i].cfg]
    <2>1. IsLocal(l)
      BY LocalShapes
    <2>2. Goto(w, "count", l) \/ Goto(w, "idle", NoLocals)
      BY <1>1, DecideMoves DEF RequestHit
    <2>. QED  BY <1>0, <1>1, <2>1, <2>2, QuietStep DEF RequestHit, Arrives, ConfigOf
  <1>2. ASSUME NEW i \in Instances, NEW kind \in Kinds, NEW n \in Batches \cup {0},
               RequestMiss(w, i, kind, n)
        PROVE  CacheInv'
    <2>. DEFINE l == [Arrival(i, kind, n) EXCEPT !.cfg = ConfigOf(doc)]
    <2>1. IsLocal(l) /\ l.cfg = ConfigOf(doc)
      BY LocalShapes
    <2>. QED  BY <1>2, <2>1, FillStep DEF RequestMiss, Arrives
  <1>3. ASSUME NEW i \in Instances, NEW n \in Batches, PassUnguarded(w, i, n)
        PROVE  CacheInv'
    <2>1. IsLocal([Arrival(i, "create", n) EXCEPT !.kind = "passed"])
      BY LocalShapes
    <2>. QED  BY <1>0, <1>3, <2>1, QuietStep DEF PassUnguarded, Arrives, ConfigOf
  <1>4. ASSUME NEW i \in Instances, RegisterRead(w, i) PROVE CacheInv'
    <2>1. /\ IsLocal([Arrival(i, "create", 1) EXCEPT !.cfg = ConfigOf(doc)])
          /\ IsLocal(Arrival(i, "create", 1))
      BY LocalShapes DEF Arrival
    <2>2. CASE Goto(w, "count", [Arrival(i, "create", 1) EXCEPT !.cfg = ConfigOf(doc)])
      BY <1>0, <1>4, <2>1, <2>2, QuietStep DEF RegisterRead, Arrives, ConfigOf
    <2>3. CASE Goto(w, "create", Arrival(i, "create", 1))
      BY <1>0, <1>4, <2>1, <2>3, QuietStep DEF RegisterRead, Arrives, ConfigOf
    <2>. QED  BY <1>4, <2>2, <2>3 DEF RegisterRead
  <1>5. CASE StoreEntry(w)
    BY <1>5, StoreEntryStep
  <1>6. CASE LimitConfig(w)
    <2>. DEFINE hit == [loc[w] EXCEPT !.cfg = cache[loc[w].instance].cfg]
                miss == [loc[w] EXCEPT !.cfg = ConfigOf(doc)]
    <2>1. IsLocal(hit) /\ IsLocal(miss) /\ miss.cfg = ConfigOf(doc)
      BY <1>0, LocalShapes
    <2>2. UNCHANGED <<doc, cache, clean>>
      BY <1>6 DEF LimitConfig
    <2>3. Goto(w, "count", hit) \/ Goto(w, "store", miss) \/ Goto(w, "create", loc[w])
      BY <1>6 DEF LimitConfig
    <2>4. ASSUME Goto(w, "count", hit) PROVE CacheInv'
      BY <1>0, <2>1, <2>2, <2>4, QuietStep DEF ConfigOf
    <2>5. ASSUME Goto(w, "store", miss) PROVE CacheInv'
      BY <2>1, <2>2, <2>5, FillStep
    <2>6. ASSUME Goto(w, "create", loc[w]) PROVE CacheInv'
      BY <1>0, <2>2, <2>6, QuietStep DEF ConfigOf
    <2>. QED  BY <2>3, <2>4, <2>5, <2>6
  <1>7. CASE CheckLimit(w)
    <2>1. Goto(w, "create", loc[w]) \/ Goto(w, "idle", NoLocals)
      BY <1>7 DEF CheckLimit, Finish
    <2>. QED  BY <1>0, <1>7, <2>1, QuietStep DEF CheckLimit, ConfigOf
  <1>8. CASE CountFails(w)
    BY <1>0, <1>8, QuietStep DEF CountFails, ConfigOf
  <1>9. CASE CreateDocuments(w)
    BY <1>0, <1>9, QuietStep DEF CreateDocuments, Finish, ConfigOf
  <1>. QED  BY <1>1, <1>2, <1>3, <1>4, <1>5, <1>6, <1>7, <1>8, <1>9 DEF Guarded

LEMMA WebhookStep ==
    ASSUME CacheInv, NEW w \in Workers, Webhook(w)
    PROVE  CacheInv'
  <1>0. IsTenant(doc) /\ IsLocal(loc[w]) /\ IsLocal(NoLocals)
    BY LocalShapes DEF CacheInv, Shapes
  <1>1. ASSUME NEW i \in Instances, NEW e \in DOMAIN events, Deliver(w, i, e) PROVE CacheInv'
    <2>. DEFINE l == [On(i) EXCEPT !.event = e]
    <2>1. IsLocal(l) /\ l.event = e
      BY LocalShapes
    <2>2. Goto(w, "apply", l) /\ UNCHANGED <<doc, cache, clean, events>>
      BY <1>1 DEF Deliver, Start, FirstStep
    <2>. HIDE DEF l
    <2>. QED  BY <1>0, <2>1, <2>2, QuietStep DEF ConfigOf
  <1>2. CASE Apply(w)
    <2>. DEFINE e == events[loc[w].event]
    <2>1. UNCHANGED <<cache, events>> /\ \E label \in {"record", "invalidate"} : Goto(w, label, loc[w])
      BY <1>2 DEF Apply
    <2>2. CASE e.type = "checkout"
      BY <1>0, <1>2, <2>1, <2>2, QuietStep DEF Apply, ConfigOf
    <2>3. CASE e.type # "checkout"
      <3>1. Write(Handled(e))
        BY <1>2, <2>3 DEF Apply
      <3>2. e.type \in EventTypes
        BY <1>2 DEF CacheInv, Shapes, Apply, At
      <3>3. IsTenant(Upserted(e.sub)) /\ IsTenant(Downgraded)
        BY <1>0, TenantShapes DEF Upserted, Downgraded
      <3>4. IsTenant([doc EXCEPT !.status = "SUSPENDED", !.billing = "PAST_DUE"])
        BY <1>0, TenantShapes
      <3>5. IsTenant([doc EXCEPT !.status = "ACTIVE", !.billing = "ACTIVE"])
        BY <1>0, TenantShapes
      <3>6. IsTenant(Handled(e))
        BY <2>3, <3>2, <3>3, <3>4, <3>5 DEF Handled, EventTypes
      <3>. QED  BY <1>0, <2>1, <3>1, <3>6, WriteStep
    <2>. QED  BY <2>2, <2>3
  <1>3. CASE ApplyNotFound(w)
    BY <1>0, <1>3, QuietStep DEF ApplyNotFound, Finish, ConfigOf, billing
  <1>4. CASE WebhookInvalidate(w)
    BY <1>0, <1>4, InvalidateStep DEF WebhookInvalidate, billing
  <1>5. CASE Record(w)
    BY <1>0, <1>5, QuietStep DEF Record, Finish, ConfigOf
  <1>. QED  BY <1>1, <1>2, <1>3, <1>4, <1>5 DEF Webhook

LEMMA CheckoutStep ==
    ASSUME CacheInv, NEW w \in Workers, Checkout(w)
    PROVE  CacheInv'
  <1>0. IsTenant(doc) /\ IsLocal(loc[w]) /\ IsLocal(NoLocals)
    BY LocalShapes DEF CacheInv, Shapes
  <1>1. ASSUME NEW i \in Instances, CheckoutRead(w, i) PROVE CacheInv'
    <2>1. IsLocal([On(i) EXCEPT !.event = customers']) /\ UNCHANGED <<doc, cache, clean, events>>
      BY <1>1, LocalShapes DEF CheckoutRead
    <2>2. Goto(w, "storeCustomer", [On(i) EXCEPT !.event = customers'])
      BY <1>1 DEF CheckoutRead, Start
    <2>. QED  BY <1>0, <2>1, <2>2, QuietStep DEF ConfigOf
  <1>2. ASSUME NEW i \in Instances, CheckoutReuse(w, i) PROVE CacheInv'
    <2>1. IsLocal([On(i) EXCEPT !.event = doc.customer])
      BY LocalShapes
    <2>. QED  BY <1>0, <1>2, <2>1, QuietStep DEF CheckoutReuse, Start, ConfigOf, billing
  <1>3. CASE CheckoutStore(w)
    <2>1. doc' = doc \/ doc' = StoredCustomer(loc[w].event)
      BY <1>3 DEF CheckoutStore
    <2>2. IsTenant(doc') /\ ConfigOf(doc') = ConfigOf(doc)
      BY <1>0, <2>1 DEF StoredCustomer, IsTenant, HasFields, ConfigOf
    <2>3. Goto(w, "session", loc[w]) /\ UNCHANGED <<cache, clean, events>>
      BY <1>3 DEF CheckoutStore
    <2>. QED  BY <1>0, <2>2, <2>3, QuietStep DEF ConfigOf
  <1>4. CASE CheckoutSession(w)
    BY <1>0, <1>4, QuietStep DEF CheckoutSession, Finish, ConfigOf
  <1>. QED  BY <1>1, <1>2, <1>3, <1>4 DEF Checkout

(* Steps of nobody's request that leave document, caches and locals alone. *)
LEMMA AsideStep ==
    ASSUME CacheInv, UNCHANGED <<doc, cache, clean, pc, loc, events>>
    PROVE  CacheInv'
  BY DEF CacheInv, Shapes, Current, Fresh, FillsOn, ConfigOf

LEMMA EntryAgesStep ==
    ASSUME CacheInv, NEW i \in Instances, EntryAges(i), UNCHANGED events
    PROVE  CacheInv'
  <1>1. cache' = [cache EXCEPT ![i] = [cache[i] EXCEPT !.age = "stale"]]
    BY DEF EntryAges
  <1>2. UNCHANGED <<doc, clean, pc, loc, events>>
    BY DEF EntryAges
  <1>3. IsEntry([cache[i] EXCEPT !.age = "stale"]) /\ [cache[i] EXCEPT !.age = "stale"].age = "stale"
    BY DEF CacheInv, Shapes, IsEntry, HasFields
  <1>4. /\ cache' = [j \in Instances |-> cache'[j]]
        /\ \A j \in Instances : cache'[j] = IF j = i THEN [cache[i] EXCEPT !.age = "stale"] ELSE cache[j]
    BY <1>1 DEF CacheInv, Shapes
  <1>5. Shapes'
    BY <1>2, <1>3, <1>4 DEF CacheInv, Shapes
  <1>6. ASSUME NEW j \in Instances PROVE Current(j)'
    <2>1. Fresh(j)' => cache'[j] = cache[j] /\ Fresh(j)
      BY <1>3, <1>4 DEF Fresh
    <2>. QED  BY <1>2, <2>1 DEF CacheInv, Current, FillsOn, ConfigOf
  <1>. QED  BY <1>5, <1>6 DEF CacheInv

LEMMA RestartStep ==
    ASSUME CacheInv, NEW i \in Instances, Restart(i)
    PROVE  CacheInv'
  <1>1. /\ cache' = [cache EXCEPT ![i] = NoEntry]
        /\ pc' = [w \in Workers |-> IF loc[w].instance = i THEN "idle" ELSE pc[w]]
        /\ loc' = [w \in Workers |-> IF loc[w].instance = i THEN NoLocals ELSE loc[w]]
        /\ UNCHANGED <<doc, clean, events>>
    BY DEF Restart, billing
  <1>2. IsEntry(NoEntry) /\ NoEntry.age = "none"
    BY DEF IsEntry, HasFields, NoEntry
  <1>3. /\ cache' = [j \in Instances |-> cache'[j]]
        /\ \A j \in Instances : cache'[j] = IF j = i THEN NoEntry ELSE cache[j]
    BY <1>1 DEF CacheInv, Shapes
  <1>4. Shapes'
    BY <1>1, <1>2, <1>3, LocalShapes DEF CacheInv, Shapes
  <1>5. \A w \in Workers : pc'[w] = "store" => pc[w] = "store" /\ loc'[w] = loc[w]
    BY <1>1
  <1>6. ASSUME NEW j \in Instances PROVE Current(j)'
    <2>1. Fresh(j)' => cache'[j] = cache[j] /\ Fresh(j)
      BY <1>2, <1>3 DEF Fresh
    <2>. QED  BY <1>1, <1>5, <2>1 DEF CacheInv, Current, FillsOn, ConfigOf
  <1>. QED  BY <1>4, <1>6 DEF CacheInv

(* Stripe generates events of the known types only.                        *)
LEMMA EmitShape ==
    ASSUME CacheInv, NEW sub, NEW n \in Nat, NEW types \in [1..n -> EventTypes], Emit(sub, types)
    PROVE  CacheInv'
  <1>. DEFINE Made(k) == [type |-> types[k], sub |-> IF types[k] = "checkout" THEN NoSubscription ELSE sub]
              made == [k \in 1..n |-> Made(k)]
              S == {events[k] : k \in DOMAIN events} \cup {made[k] : k \in 1..n}
              Old == {events[k] : k \in DOMAIN events}
  <1>1. events' = events \o made /\ UNCHANGED <<doc, cache, clean, pc, loc>>
    BY DEF Emit
  <1>2. made \in Seq(S) /\ Len(made) = n
    OBVIOUS
  <1>3. events \in Seq(S)
    <2>1. events \in Seq(Old)
      BY DEF CacheInv, Shapes, IsSequence
    <2>. QED  BY <2>1
  <1>4. \A k \in 1..n : made[k].type \in EventTypes
    OBVIOUS
  <1>. HIDE DEF made, S
  <1>5. /\ events' \in Seq(S)
        /\ Len(events') = Len(events) + n
        /\ \A k \in 1..(Len(events) + n) :
              events'[k] = IF k <= Len(events) THEN events[k] ELSE made[k - Len(events)]
    BY <1>1, <1>2, <1>3, ConcatProperties
  <1>6. /\ Len(events) \in Nat /\ DOMAIN events = 1..Len(events)
        /\ DOMAIN events' = 1..(Len(events) + n)
    BY <1>3, <1>5, LenProperties
  <1>7. \A k \in DOMAIN events' : events'[k].type \in EventTypes
    <2>. SUFFICES ASSUME NEW k \in DOMAIN events' PROVE events'[k].type \in EventTypes
      OBVIOUS
    <2>1. CASE k <= Len(events)
      BY <1>5, <1>6, <2>1 DEF CacheInv, Shapes
    <2>2. CASE ~(k <= Len(events))
      <3>1. k - Len(events) \in 1..n /\ events'[k] = made[k - Len(events)]
        BY <1>5, <1>6, <2>2
      <3>. QED  BY <1>4, <3>1
    <2>. QED  BY <2>1, <2>2
  <1>8. DOMAIN events \subseteq DOMAIN events'
    BY <1>6
  <1>9. IsSequence(events')
    <2>1. events' \in [1..Len(events') -> {events'[k] : k \in DOMAIN events'}] /\ Len(events') \in Nat
      BY <1>5, <1>6, LenProperties
    <2>2. PICK T : T = {events'[k] : k \in DOMAIN events'}
      OBVIOUS
    <2>3. events' \in Seq(T)
      BY ONLY SMTT(30), <2>1, <2>2
    <2>. QED  BY <2>2, <2>3 DEF IsSequence
  <1>10. Shapes'
    BY <1>1, <1>7, <1>8, <1>9 DEF CacheInv, Shapes
  <1>11. \A i \in Instances : Current(i)'
    BY <1>1 DEF CacheInv, Current, Fresh, FillsOn, ConfigOf
  <1>. QED  BY <1>10, <1>11 DEF CacheInv

LEMMA StripeStep ==
    ASSUME CacheInv, Stripe
    PROVE  CacheInv'
  <1>1. /\ <<"upsert">> \in [1..1 -> EventTypes]
        /\ <<"checkout">> \in [1..1 -> EventTypes]
        /\ <<"deleted">> \in [1..1 -> EventTypes]
        /\ <<"failed", "upsert">> \in [1..2 -> EventTypes]
        /\ <<"succeeded", "upsert">> \in [1..2 -> EventTypes]
    BY DEF EventTypes
  <1>2. \E sub, types : /\ Emit(sub, types)
                        /\ types \in [1..1 -> EventTypes] \/ types \in [1..2 -> EventTypes]
    BY <1>1 DEF Stripe, Subscribe, CheckoutCompletes, ChangePlan, PaymentFails,
       PaymentSucceeds, Lapse, CancelSubscription
  <1>. QED  BY <1>2, EmitShape

LEMMA StepCacheInv == CacheInv /\ [Next]_vars => CacheInv'
  <1>. SUFFICES ASSUME CacheInv, [Next]_vars PROVE CacheInv'
    OBVIOUS
  <1>1. ASSUME NEW w \in Workers, Admin(w), UNCHANGED billing PROVE CacheInv'
    BY <1>1, AdminStep DEF billing
  <1>2. ASSUME NEW w \in Workers, Guarded(w), UNCHANGED billing PROVE CacheInv'
    BY <1>2, GuardedStep DEF billing
  <1>3. ASSUME NEW w \in Workers, Webhook(w) \/ Checkout(w) PROVE CacheInv'
    BY <1>3, WebhookStep, CheckoutStep
  <1>4. ASSUME NEW w \in Workers, Abandon(w) PROVE CacheInv'
    BY <1>4, QuietStep, LocalShapes DEF Abandon, Finish, CacheInv, Shapes, ConfigOf, billing
  <1>5. CASE Stripe
    BY <1>5, StripeStep
  <1>6. CASE DeleteDocument /\ UNCHANGED billing
    BY <1>6, AsideStep DEF DeleteDocument, billing
  <1>7. ASSUME NEW i \in Instances, EntryAges(i), UNCHANGED billing PROVE CacheInv'
    BY <1>7, EntryAgesStep DEF billing
  <1>8. ASSUME NEW i \in Instances, Restart(i) PROVE CacheInv'
    BY <1>8, RestartStep
  <1>9. CASE UNCHANGED vars
    BY <1>9, AsideStep DEF vars, billing
  <1>10. ASSUME NEW n \in Batches, CreateUncounted(n), UNCHANGED billing PROVE CacheInv'
    BY <1>10, AsideStep DEF CreateUncounted, billing
  <1>. QED  BY <1>1, <1>2, <1>3, <1>4, <1>5, <1>6, <1>7, <1>8, <1>9, <1>10 DEF Next

(* An update of the tenant takes effect at once on the process that served *)
(* it, for any number of processes and requests, whatever is restarted,    *)
(* repeated or abandoned, unless a fill of an older read was under way     *)
(* there: that fill is the only way an old entry gets in.                  *)
THEOREM CleanCacheStaysCurrent == Spec => []CleanCacheIsCurrent
  <1>1. CacheInv => CleanCacheIsCurrent
    BY DEF CacheInv, Current, CleanCacheIsCurrent
  <1>. QED  BY <1>1, InitCacheInv, StepCacheInv, PTL DEF Spec

-----------------------------------------------------------------------------
(* Types.  A worker inside a webhook names an event that exists, one       *)
(* inside a checkout a customer that exists, one that passed the status    *)
(* guard unanswered a process.                                             *)

InWebhook == {"apply", "invalidate", "record"}
InCheckout == {"storeCustomer", "session"}

LocsValid ==
    /\ \A w \in Workers : pc[w] \in InWebhook => loc[w].event \in DOMAIN events
    /\ \A w \in Workers : pc[w] \in InCheckout => loc[w].event \in 1..customers
    /\ \A w \in Workers : pc[w] = "limit" => loc[w].instance \in Instances

Typed ==
    /\ TypeOK
    /\ peak \in Nat /\ faults \in Nat /\ started \in Nat
    /\ custom \in BOOLEAN /\ administered \in BOOLEAN
    /\ overtaken \in BOOLEAN /\ overlapped \in BOOLEAN
    /\ doc.customer \in 0..customers
    /\ LocsValid

LEMMA ConstantTypes ==
    /\ "FREE" \in Plans /\ \A p \in Plans : Quota[p] \in Limits /\ Quota[p] \in Nat \ {0}
    /\ Limits \subseteq Nat \ {0}
    /\ NewTenant \in Tenant /\ NoLocals \in Locals /\ NoEntry \in CacheEntry
    /\ \A d \in Tenant : ConfigOf(d) \in Config
    /\ NoSubscription \in Subscription
  <1>1. "FREE" \in Plans /\ \A p \in Plans : Quota[p] \in Limits /\ Quota[p] \in Nat \ {0}
    BY TenantAssumption DEF Limits
  <1>2. Limits \subseteq Nat \ {0}
    BY TenantAssumption DEF Limits
  <1>3. NewTenant \in Tenant
    BY <1>1 DEF NewTenant, Tenant, BillingStatuses
  <1>4. \A d \in Tenant : ConfigOf(d) \in Config
    BY DEF Tenant, Config, ConfigOf
  <1>5. NoLocals \in Locals /\ NoEntry \in CacheEntry
    BY <1>3, <1>4 DEF NoLocals, Locals, NoEntry, CacheEntry, RequestKinds
  <1>6. NoSubscription \in Subscription
    BY BillingAssumption DEF NoSubscription, Subscription
  <1>. QED  BY <1>1, <1>2, <1>3, <1>4, <1>5, <1>6

LEMMA LocalTypes ==
    /\ \A i \in Instances : On(i) \in Locals
    /\ \A i \in Instances, e \in Nat : /\ [On(i) EXCEPT !.event = e] \in Locals
                                        /\ [On(i) EXCEPT !.event = e].event = e
    /\ \A i \in Instances, k \in RequestKinds \cup {"passed"}, n \in Nat :
          /\ Arrival(i, k, n) \in Locals
          /\ Arrival(i, k, n).batch = n /\ Arrival(i, k, n).kind = k
    /\ \A l \in Locals, c \in Config : /\ [l EXCEPT !.cfg = c] \in Locals
                                        /\ [l EXCEPT !.cfg = c].cfg = c
                                        /\ [l EXCEPT !.cfg = c].batch = l.batch
                                        /\ [l EXCEPT !.cfg = c].kind = l.kind
    /\ \A i \in Instances, n \in Nat :
          /\ [Arrival(i, "create", n) EXCEPT !.kind = "passed"] \in Locals
          /\ [Arrival(i, "create", n) EXCEPT !.kind = "passed"].batch = n
          /\ [Arrival(i, "create", n) EXCEPT !.kind = "passed"].kind = "passed"
          /\ [Arrival(i, "create", n) EXCEPT !.kind = "passed"].instance = i
  <1>1. \A i \in Instances : On(i) \in Locals
    BY ConstantTypes DEF On, Locals
  <1>2. \A i \in Instances, e \in Nat : /\ [On(i) EXCEPT !.event = e] \in Locals
                                        /\ [On(i) EXCEPT !.event = e].event = e
    BY <1>1 DEF Locals
  <1>3. \A i \in Instances, k \in RequestKinds \cup {"passed"}, n \in Nat :
          /\ Arrival(i, k, n) \in Locals
          /\ Arrival(i, k, n).batch = n /\ Arrival(i, k, n).kind = k
    BY <1>1 DEF Locals, Arrival
  <1>4. \A l \in Locals, c \in Config : /\ [l EXCEPT !.cfg = c] \in Locals
                                        /\ [l EXCEPT !.cfg = c].cfg = c
                                        /\ [l EXCEPT !.cfg = c].batch = l.batch
                                        /\ [l EXCEPT !.cfg = c].kind = l.kind
    BY DEF Locals
  <1>5. \A i \in Instances, n \in Nat :
          /\ [Arrival(i, "create", n) EXCEPT !.kind = "passed"] \in Locals
          /\ [Arrival(i, "create", n) EXCEPT !.kind = "passed"].batch = n
          /\ [Arrival(i, "create", n) EXCEPT !.kind = "passed"].kind = "passed"
          /\ [Arrival(i, "create", n) EXCEPT !.kind = "passed"].instance = i
    BY <1>3 DEF Locals, RequestKinds, Arrival, On
  <1>. QED  BY <1>1, <1>2, <1>3, <1>4, <1>5

LEMMA TenantTypes ==
    ASSUME NEW d \in Tenant
    PROVE  /\ \A p \in Plans : WithPlan(d, p) \in Tenant
           /\ \A p \in Plans : WithPlan(d, p).customer = d.customer
           /\ \A b \in BOOLEAN : [d EXCEPT !.exists = b] \in Tenant
           /\ \A n \in Nat : /\ [d EXCEPT !.customer = n] \in Tenant
                              /\ [d EXCEPT !.customer = n].customer = n
           /\ Changes(d) \subseteq Tenant
           /\ \A new \in Changes(d) : new.customer = d.customer
  <1>1. \A p \in Plans : WithPlan(d, p) \in Tenant /\ WithPlan(d, p).customer = d.customer
    BY ConstantTypes DEF WithPlan, Tenant
  <1>2. /\ \A b \in BOOLEAN : [d EXCEPT !.exists = b] \in Tenant
        /\ \A n \in Nat : /\ [d EXCEPT !.customer = n] \in Tenant
                           /\ [d EXCEPT !.customer = n].customer = n
    BY DEF Tenant
  <1>3. ASSUME NEW new \in Changes(d) PROVE new \in Tenant /\ new.customer = d.customer
    <2>1. CASE \E s \in {"ACTIVE", "SUSPENDED"} : new = [d EXCEPT !.status = s]
      BY <2>1 DEF Tenant
    <2>2. CASE \E n \in Limits : new = [d EXCEPT !.limit = n]
      BY <2>2 DEF Tenant
    <2>3. CASE \E p \in Plans : new = [d EXCEPT !.plan = p]
      BY <2>3 DEF Tenant
    <2>4. CASE \E p \in Plans : new = [d EXCEPT !.features = p]
      BY <2>4 DEF Tenant
    <2>. QED  BY <2>1, <2>2, <2>3, <2>4 DEF Changes
  <1>. QED  BY <1>1, <1>2, <1>3

LEMMA HandledTypes ==
    ASSUME doc \in Tenant, NEW e \in Event, e.type # "checkout"
    PROVE  Handled(e) \in Tenant /\ Handled(e).customer = doc.customer
  <1>1. e.sub \in Subscription /\ e.type \in EventTypes
    BY DEF Event
  <1>2. Upserted(e.sub) \in Tenant /\ Upserted(e.sub).customer = doc.customer
    <2>1. /\ e.sub.plan \in Plans /\ e.sub.status \in BillingStatuses
          /\ \A t \in BOOLEAN : (IF t THEN "SUSPENDED" ELSE "ACTIVE") \in {"ACTIVE", "SUSPENDED"}
      BY <1>1 DEF Subscription, BillingStatuses
    <2>2. PICK d \in Tenant : d = WithPlan(doc, e.sub.plan) /\ d.customer = doc.customer
      BY <2>1, TenantTypes
    <2>3. PICK st \in {"ACTIVE", "SUSPENDED"} :
              st = IF Suspends(e.sub.status) THEN "SUSPENDED" ELSE "ACTIVE"
      OBVIOUS
    <2>4. Upserted(e.sub) = [d EXCEPT !.billing = e.sub.status, !.status = st]
      BY <2>2, <2>3 DEF Upserted
    <2>. QED  BY <2>1, <2>2, <2>4 DEF Tenant
  <1>3. Downgraded \in Tenant /\ Downgraded.customer = doc.customer
    <2>1. PICK d \in Tenant : d = WithPlan(doc, "FREE") /\ d.customer = doc.customer
      BY ConstantTypes, TenantTypes
    <2>. QED  BY <2>1 DEF Downgraded, Tenant, BillingStatuses
  <1>4. /\ [doc EXCEPT !.status = "SUSPENDED", !.billing = "PAST_DUE"] \in Tenant
        /\ [doc EXCEPT !.status = "ACTIVE", !.billing = "ACTIVE"] \in Tenant
        /\ [doc EXCEPT !.status = "SUSPENDED", !.billing = "PAST_DUE"].customer = doc.customer
        /\ [doc EXCEPT !.status = "ACTIVE", !.billing = "ACTIVE"].customer = doc.customer
    BY DEF Tenant, BillingStatuses
  <1>. QED  BY <1>1, <1>2, <1>3, <1>4 DEF Handled, EventTypes

(* A write, whether or not there is a document.                            *)
LEMMA WriteTypes ==
    ASSUME Typed, NEW new \in Tenant, new.customer = doc.customer, Write(new)
    PROVE  /\ doc' \in Tenant /\ peak' \in Nat /\ doc'.customer = doc.customer
           /\ peak <= peak' /\ (doc.exists => doc'.limit <= peak')
  <1>1. new.limit \in Nat /\ peak \in Nat /\ doc \in Tenant
    BY ConstantTypes DEF Tenant, Typed, TypeOK
  <1>2. /\ {peak, new.limit} \subseteq Nat
        /\ \E m \in {peak, new.limit} : \A y \in {peak, new.limit} : y <= m
    BY <1>1
  <1>3. /\ Max({peak, new.limit}) \in {peak, new.limit}
        /\ \A y \in {peak, new.limit} : y <= Max({peak, new.limit})
    BY <1>2, MaxIsLargest
  <1>. QED  BY <1>1, <1>3 DEF Write

LEMMA GotoTypes ==
    ASSUME Typed, NEW w \in Workers, NEW label \in Labels, NEW l \in Locals,
           Goto(w, label, l)
    PROVE  /\ pc' \in [Workers -> Labels] /\ loc' \in [Workers -> Locals]
           /\ pc'[w] = label
           /\ label # "idle" => loc'[w] = l
           /\ label = "idle" => loc'[w] = NoLocals
           /\ \A v \in Workers : v # w => pc'[v] = pc[v] /\ loc'[v] = loc[v]
  BY ConstantTypes DEF Typed, TypeOK, Goto

LEMMA MoveTypes ==
    ASSUME Typed, NEW w \in Workers, NEW label \in Labels, NEW l \in Locals,
           Goto(w, label, l),
           label \in InWebhook => l.event \in DOMAIN events,
           label \in InCheckout => l.event \in 1..customers',
           label = "limit" => l.instance \in Instances,
           events' = events, customers' \in Nat, customers <= customers'
    PROVE  pc' \in [Workers -> Labels] /\ loc' \in [Workers -> Locals] /\ LocsValid'
  <1>1. /\ pc' \in [Workers -> Labels] /\ loc' \in [Workers -> Locals]
        /\ pc'[w] = label
        /\ label # "idle" => loc'[w] = l
        /\ \A v \in Workers : v # w => pc'[v] = pc[v] /\ loc'[v] = loc[v]
    BY GotoTypes
  <1>2. customers \in Nat
    BY DEF Typed, TypeOK, BillingTypeOK
  <1>3. LocsValid'
    BY <1>1, <1>2 DEF Typed, LocsValid, InWebhook, InCheckout
  <1>. QED  BY <1>1, <1>3

-----------------------------------------------------------------------------

LEMMA InitTyped == Init => Typed
  <1>. SUFFICES ASSUME Init PROVE Typed
    OBVIOUS
  <1>1. doc \in Tenant /\ cache \in [Instances -> CacheEntry]
    BY ConstantTypes DEF Init, StoreInit
  <1>2. pc \in [Workers -> Labels] /\ loc \in [Workers -> Locals]
    BY ConstantTypes DEF Init, StoreInit, Labels
  <1>3. GuardTypeOK
    BY DEF Init, GuardTypeOK
  <1>4. BillingTypeOK
    <2>1. events = <<>> /\ applied = <<>> /\ DOMAIN <<>> = {}
      BY EmptySeq DEF Init, BillingInit
    <2>2. events \in Seq(Event)
      BY <2>1, EmptySeq
    <2>3. applied \in [DOMAIN events -> Nat]
      BY <2>1
    <2>. QED  BY <2>1, <2>2, <2>3, ConstantTypes DEF Init, BillingInit, BillingTypeOK
  <1>5. /\ doc.customer = 0 /\ customers = 0
        /\ peak = Quota["FREE"] /\ faults = 0 /\ started = 0
        /\ custom = FALSE /\ administered = FALSE /\ overtaken = FALSE /\ overlapped = FALSE
    BY DEF Init, StoreInit, NewTenant, BillingInit
  <1>6. LocsValid
    BY DEF Init, StoreInit, LocsValid, InWebhook, InCheckout
  <1>7. peak \in Nat /\ doc.customer \in 0..customers
    BY <1>5, ConstantTypes
  <1>. QED  BY <1>1, <1>2, <1>3, <1>4, <1>5, <1>6, <1>7 DEF Typed, TypeOK

(* Everything but the tenant's collections is typed after a step of a      *)
(* request of the administrator or of a user.                              *)
LEMMA StoreTyped ==
    ASSUME Typed, NEW w \in Workers, NEW label \in Labels, NEW l \in Locals,
           Goto(w, label, l), label \notin InWebhook \cup InCheckout,
           label = "limit" => l.instance \in Instances,
           doc' \in Tenant, doc'.customer = doc.customer, cache' \in [Instances -> CacheEntry],
           peak' \in Nat, count' \in Nat, bypassed' \in Nat, faults' \in Nat, started' \in Nat,
           custom' \in BOOLEAN, administered' \in BOOLEAN, UNCHANGED billing
    PROVE  Typed'
  <1>1. UNCHANGED <<stripe, events, customers, sessions, recorded, applied, overtaken, overlapped>>
    BY DEF billing
  <1>2. customers \in Nat
    BY DEF Typed, TypeOK, BillingTypeOK
  <1>3. pc' \in [Workers -> Labels] /\ loc' \in [Workers -> Locals] /\ LocsValid'
    BY <1>1, <1>2, MoveTypes
  <1>4. BillingTypeOK' /\ GuardTypeOK'
    BY <1>1 DEF Typed, TypeOK, BillingTypeOK, GuardTypeOK
  <1>5. doc'.customer \in 0..customers' /\ overtaken' \in BOOLEAN /\ overlapped' \in BOOLEAN
    BY <1>1 DEF Typed
  <1>. QED  BY <1>3, <1>4, <1>5 DEF Typed, TypeOK

LEMMA InvalidateTypes ==
    ASSUME Typed, NEW w \in Workers, Invalidate(w)
    PROVE  cache' \in [Instances -> CacheEntry]
  BY ConstantTypes DEF Typed, TypeOK, Invalidate, Dropped

LEMMA LocalsOfWorker ==
    ASSUME Typed, NEW w \in Workers
    PROVE  /\ loc[w] \in Locals /\ pc[w] \in Labels /\ loc[w].cfg \in Config
           /\ loc[w].batch \in Nat /\ loc[w].event \in Nat
           /\ doc \in Tenant /\ ConfigOf(doc) \in Config
           /\ cache \in [Instances -> CacheEntry]
           /\ \A i \in Instances : cache[i].cfg \in Config
           /\ count \in Nat /\ peak \in Nat /\ faults \in Nat /\ started \in Nat
           /\ customers \in Nat /\ bypassed \in Nat
           /\ custom \in BOOLEAN /\ administered \in BOOLEAN
  <1>1. loc[w] \in Locals /\ pc[w] \in Labels
    BY DEF Typed, TypeOK
  <1>2. loc[w].cfg \in Config /\ loc[w].batch \in Nat /\ loc[w].event \in Nat
    BY <1>1 DEF Locals
  <1>3. doc \in Tenant /\ ConfigOf(doc) \in Config
    BY ConstantTypes DEF Typed, TypeOK
  <1>4. cache \in [Instances -> CacheEntry] /\ \A i \in Instances : cache[i].cfg \in Config
    BY DEF Typed, TypeOK, CacheEntry
  <1>5. /\ count \in Nat /\ peak \in Nat /\ faults \in Nat /\ started \in Nat /\ customers \in Nat
        /\ bypassed \in Nat /\ custom \in BOOLEAN /\ administered \in BOOLEAN
    BY DEF Typed, TypeOK, GuardTypeOK, BillingTypeOK
  <1>. QED  BY <1>1, <1>2, <1>3, <1>4, <1>5

LEMMA AdminTyped ==
    ASSUME Typed, NEW w \in Workers, Admin(w), UNCHANGED <<creation, billing>>
    PROVE  Typed'
  <1>0. doc \in Tenant /\ NoLocals \in Locals /\ UNCHANGED billing
    BY ConstantTypes DEF Typed, TypeOK
  <1>a. /\ count' \in Nat /\ bypassed' \in Nat /\ peak \in Nat /\ faults \in Nat /\ started \in Nat
        /\ custom \in BOOLEAN /\ administered \in BOOLEAN /\ cache \in [Instances -> CacheEntry]
    BY LocalsOfWorker DEF creation
  <1>b. {"adminInvalidate", "idle"} \subseteq Labels \ (InWebhook \cup InCheckout)
    BY DEF Labels, InWebhook, InCheckout
  <1>1. ASSUME NEW i \in Instances, AdminUpdate(w, i) PROVE Typed'
    <2>1. PICK new \in Changes(doc) :
              /\ Write(new)
              /\ custom' = (custom \/ ConfigOf(new) # ConfigOf(doc) \/ new.plan # doc.plan)
      BY <1>1 DEF AdminUpdate, Update
    <2>2. new \in Tenant /\ new.customer = doc.customer
      BY <1>0, <2>1, TenantTypes
    <2>3. doc' \in Tenant /\ peak' \in Nat /\ doc'.customer = doc.customer
      BY <2>1, <2>2, WriteTypes
    <2>4. /\ UNCHANGED <<cache, faults>> /\ administered' = TRUE /\ started' = started + 1
          /\ Goto(w, "adminInvalidate", On(i)) /\ custom' \in BOOLEAN
      BY <1>1, <2>1 DEF AdminUpdate, AdminBegins, Start
    <2>. QED  BY <1>0, <1>a, <1>b, <2>3, <2>4, LocalTypes, StoreTyped
  <1>2. CASE AdminInvalidate(w)
    <2>1. cache' \in [Instances -> CacheEntry]
      BY <1>2, InvalidateTypes DEF AdminInvalidate
    <2>2. /\ UNCHANGED <<doc, peak, custom, administered, started, faults>>
          /\ Goto(w, "idle", NoLocals)
      BY <1>2 DEF AdminInvalidate, requests, Finish
    <2>. QED  BY <1>0, <1>a, <1>b, <2>1, <2>2, StoreTyped
  <1>3. ASSUME NEW new \in Tenant, new.customer = doc.customer, Write(new),
               AdminBegins, Start(w, "idle", NoLocals), custom' \in BOOLEAN
        PROVE  Typed'
    <2>3. doc' \in Tenant /\ peak' \in Nat /\ doc'.customer = doc.customer
      BY <1>3, WriteTypes
    <2>4. /\ UNCHANGED <<cache, faults>> /\ administered' = TRUE /\ started' = started + 1
          /\ Goto(w, "idle", NoLocals)
      BY <1>3 DEF AdminBegins, Start
    <2>. QED  BY <1>0, <1>3, <1>a, <1>b, <2>3, <2>4, StoreTyped
  <1>4. CASE AdminPlan(w)
    <2>1. PICK p \in Plans : Write(WithPlan(doc, p))
      BY <1>4 DEF AdminPlan
    <2>2. WithPlan(doc, p) \in Tenant /\ WithPlan(doc, p).customer = doc.customer
      BY <1>0, TenantTypes
    <2>. QED  BY <1>3, <1>4, <2>1, <2>2 DEF AdminPlan
  <1>5. CASE AdminDelete(w)
    <2>1. /\ [doc EXCEPT !.exists = FALSE] \in Tenant
          /\ [doc EXCEPT !.exists = FALSE].customer = doc.customer
      BY <1>0 DEF Tenant
    <2>. QED  BY <1>3, <1>5, <1>a, <2>1 DEF AdminDelete
  <1>. QED  BY <1>1, <1>2, <1>4, <1>5 DEF Admin

(* Where a user's request stands after a step.                             *)
LEMMA GuardedMoves ==
    ASSUME Typed, NEW w \in Workers, Guarded(w)
    PROVE  \E label \in {"idle", "store", "limit", "count", "create"}, l \in Locals :
              Goto(w, label, l) /\ (label = "limit" => l.instance \in Instances)
  <1>0. /\ loc[w] \in Locals /\ NoLocals \in Locals /\ doc \in Tenant
        /\ ConfigOf(doc) \in Config /\ \A i \in Instances : cache[i].cfg \in Config
    BY LocalsOfWorker, ConstantTypes
  <1>1. ASSUME NEW i \in Instances, NEW kind \in Kinds, NEW n \in Batches \cup {0},
               RequestHit(w, i, kind, n) \/ RequestMiss(w, i, kind, n)
        PROVE  \E label \in {"idle", "store", "count"}, l \in Locals : Goto(w, label, l)
    <2>1. n \in Nat /\ kind \in RequestKinds
      BY TenantAssumption
    <2>2. Arrival(i, kind, n) \in Locals
      BY <2>1, LocalTypes
    <2>3. /\ [Arrival(i, kind, n) EXCEPT !.cfg = cache[i].cfg] \in Locals
          /\ [Arrival(i, kind, n) EXCEPT !.cfg = ConfigOf(doc)] \in Locals
      BY <1>0, <2>2, LocalTypes
    <2>. QED  BY <1>0, <1>1, <2>3, DecideMoves DEF RequestHit, RequestMiss
  <1>2. ASSUME NEW i \in Instances, NEW n \in Batches, PassUnguarded(w, i, n)
        PROVE  \E l \in Locals : Goto(w, "limit", l) /\ l.instance \in Instances
    <2>1. n \in Nat
      BY TenantAssumption
    <2>. DEFINE l == [Arrival(i, "create", n) EXCEPT !.kind = "passed"]
    <2>2. l \in Locals /\ l.instance = i
      BY <2>1, LocalTypes
    <2>3. Goto(w, "limit", l)
      BY <1>2 DEF PassUnguarded
    <2>. HIDE DEF l
    <2>. QED  BY <2>2, <2>3
  <1>3. ASSUME NEW i \in Instances, RegisterRead(w, i)
        PROVE  \E label \in {"count", "create"}, l \in Locals : Goto(w, label, l)
    <2>1. Arrival(i, "create", 1) \in Locals
      BY LocalTypes DEF RequestKinds
    <2>2. [Arrival(i, "create", 1) EXCEPT !.cfg = ConfigOf(doc)] \in Locals
      BY <1>0, <2>1, LocalTypes
    <2>. QED  BY <1>3, <2>1, <2>2 DEF RegisterRead
  <1>4. CASE StoreEntry(w)
    BY <1>0, <1>4, DecideMoves DEF StoreEntry
  <1>5. CASE LimitConfig(w)
    <2>. DEFINE i == loc[w].instance
    <2>1. i \in Instances
      BY <1>5 DEF LimitConfig, At, Typed, LocsValid
    <2>2. /\ [loc[w] EXCEPT !.cfg = cache[i].cfg] \in Locals
          /\ [loc[w] EXCEPT !.cfg = ConfigOf(doc)] \in Locals
      BY <1>0, <2>1, LocalTypes
    <2>3. \/ Goto(w, "count", [loc[w] EXCEPT !.cfg = cache[i].cfg])
          \/ Goto(w, "store", [loc[w] EXCEPT !.cfg = ConfigOf(doc)])
          \/ Goto(w, "create", loc[w])
      BY <1>5 DEF LimitConfig
    <2>. QED  BY <1>0, <2>2, <2>3
  <1>6. CASE CheckLimit(w) \/ CountFails(w) \/ CreateDocuments(w)
    <2>1. Goto(w, "create", loc[w]) \/ Goto(w, "idle", NoLocals)
      BY <1>6 DEF CheckLimit, CountFails, CreateDocuments, Finish
    <2>. QED  BY <1>0, <2>1
  <1>. QED  BY <1>1, <1>2, <1>3, <1>4, <1>5, <1>6 DEF Guarded

(* What a user's request may write: an entry of a cache, the count of      *)
(* documents, the failures and the requests started.                       *)
LEMMA GuardedWrites ==
    ASSUME Typed, NEW w \in Workers, Guarded(w)
    PROVE  /\ UNCHANGED <<doc, clean, peak, custom, administered>>
           /\ cache' = cache \/ \E i : cache' = [cache EXCEPT ![i] =
                                            [cfg |-> loc[w].cfg, age |-> "fresh"]]
           /\ count' \in Nat /\ bypassed' \in Nat /\ faults' \in Nat /\ started' \in Nat
           /\ faults <= faults'
  <1>1. /\ count \in Nat /\ faults \in Nat /\ started \in Nat /\ loc[w].batch \in Nat
        /\ bypassed \in Nat
    BY LocalsOfWorker
  <1>2. CASE \E i \in Instances, kind \in Kinds, n \in Batches \cup {0} :
                RequestHit(w, i, kind, n) \/ RequestMiss(w, i, kind, n)
    BY <1>1, <1>2 DEF RequestHit, RequestMiss, Arrives
  <1>3. CASE \E i \in Instances, n \in Batches : PassUnguarded(w, i, n)
    BY <1>1, <1>3 DEF PassUnguarded, Arrives, Unanswered
  <1>4. CASE \E i \in Instances : RegisterRead(w, i)
    BY <1>1, <1>4 DEF RegisterRead, Arrives, Unanswered, Bypass
  <1>5. CASE StoreEntry(w)
    <2>1. /\ UNCHANGED <<doc, clean, peak, custom, administered, started, faults, count, bypassed>>
          /\ cache' = [cache EXCEPT ![loc[w].instance] = [cfg |-> loc[w].cfg, age |-> "fresh"]]
      BY <1>5 DEF StoreEntry, requests, creation
    <2>2. \E i : cache' = [cache EXCEPT ![i] = [cfg |-> loc[w].cfg, age |-> "fresh"]]
      BY <2>1
    <2>3. UNCHANGED <<doc, clean, peak, custom, administered>>
      BY <1>5 DEF StoreEntry, requests
    <2>4. /\ count' \in Nat /\ bypassed' \in Nat /\ faults' \in Nat /\ started' \in Nat
          /\ faults <= faults'
      BY <1>1, <2>1
    <2>. QED  BY <2>2, <2>3, <2>4, Zenon
  <1>6. CASE LimitConfig(w)
    BY <1>1, <1>6 DEF LimitConfig, Unanswered, Bypass
  <1>7. CASE CheckLimit(w) \/ CountFails(w)
    BY <1>1, <1>7 DEF CheckLimit, CountFails, requests, creation, Bypass
  <1>8. CASE CreateDocuments(w)
    BY <1>1, <1>8 DEF CreateDocuments, requests
  <1>. QED  BY <1>2, <1>3, <1>4, <1>5, <1>6, <1>7, <1>8 DEF Guarded

LEMMA GuardedTyped ==
    ASSUME Typed, NEW w \in Workers, Guarded(w), UNCHANGED billing
    PROVE  Typed'
  <1>1. PICK label \in {"idle", "store", "limit", "count", "create"}, l \in Locals :
            Goto(w, label, l) /\ (label = "limit" => l.instance \in Instances)
    BY GuardedMoves
  <1>2. label \in Labels /\ label \notin InWebhook \cup InCheckout
    BY DEF Labels, InWebhook, InCheckout
  <1>3. /\ UNCHANGED <<doc, peak, custom, administered>>
        /\ cache' = cache \/ \E i : cache' = [cache EXCEPT ![i] =
                                         [cfg |-> loc[w].cfg, age |-> "fresh"]]
        /\ count' \in Nat /\ bypassed' \in Nat /\ faults' \in Nat /\ started' \in Nat
    BY GuardedWrites
  <1>4. /\ doc \in Tenant /\ peak \in Nat /\ custom \in BOOLEAN /\ administered \in BOOLEAN
        /\ cache \in [Instances -> CacheEntry] /\ loc[w].cfg \in Config
    BY LocalsOfWorker
  <1>5. cache' \in [Instances -> CacheEntry]
    <2>1. [cfg |-> loc[w].cfg, age |-> "fresh"] \in CacheEntry
      BY <1>4 DEF CacheEntry
    <2>. QED  BY <1>3, <1>4, <2>1
  <1>. QED  BY <1>1, <1>2, <1>3, <1>4, <1>5, StoreTyped

LEMMA WebhookTyped ==
    ASSUME Typed, NEW w \in Workers, Webhook(w), UNCHANGED creation
    PROVE  Typed'
  <1>0. /\ loc[w] \in Locals /\ NoLocals \in Locals /\ doc \in Tenant /\ customers \in Nat
        /\ peak \in Nat /\ faults \in Nat /\ started \in Nat /\ custom \in BOOLEAN
        /\ {"apply", "invalidate", "record"} \subseteq Labels \ InCheckout
        /\ "idle" \in Labels \ (InWebhook \cup InCheckout)
    BY LocalsOfWorker, ConstantTypes DEF Labels, InWebhook, InCheckout
  <1>1. /\ events \in Seq(Event) /\ applied \in [DOMAIN events -> Nat]
        /\ DOMAIN events \subseteq Nat \ {0} /\ recorded \subseteq DOMAIN events
    BY Positions DEF Typed, TypeOK, BillingTypeOK
  <1>2. ASSUME NEW i \in Instances, NEW e \in DOMAIN events, Deliver(w, i, e) PROVE Typed'
    <2>. DEFINE l == [On(i) EXCEPT !.event = e]
    <2>1. l \in Locals /\ l.event = e
      BY <1>1, LocalTypes
    <2>2. Goto(w, "apply", l) /\ events' = events /\ customers' = customers
      BY <1>2 DEF Deliver, Start, FirstStep
    <2>. HIDE DEF l
    <2>3. pc' \in [Workers -> Labels] /\ loc' \in [Workers -> Locals] /\ LocsValid'
      BY <1>0, <2>1, <2>2, MoveTypes
    <2>4. started' \in Nat /\ faults' \in Nat
      BY <1>0, <1>2 DEF Deliver, Start
    <2>. QED  BY <1>2, <2>2, <2>3, <2>4
              DEF Deliver, Start, creation, Typed, TypeOK, BillingTypeOK, GuardTypeOK
  <1>3. CASE Apply(w)
    <2>. DEFINE k == loc[w].event
                e == events[k]
    <2>1. k \in DOMAIN events /\ e \in Event
      BY <1>1, <1>3, DocumentAt DEF Apply, At, Typed, LocsValid, InWebhook
    <2>2. /\ events' = events /\ customers' = customers /\ applied' = [applied EXCEPT ![k] = @ + 1]
          /\ UNCHANGED <<cache, administered, started, faults, stripe, sessions, recorded, overlapped>>
          /\ \E label \in {"record", "invalidate"} : Goto(w, label, loc[w])
      BY <1>3 DEF Apply, requests
    <2>3. pc' \in [Workers -> Labels] /\ loc' \in [Workers -> Locals] /\ LocsValid'
      <3>1. PICK label \in {"record", "invalidate"} : Goto(w, label, loc[w])
        BY <2>2
      <3>2. label \in Labels /\ label # "limit" /\ label \notin InCheckout
        BY DEF Labels, InCheckout
      <3>. QED  BY <1>0, <2>1, <2>2, <3>1, <3>2, MoveTypes
    <2>4. doc' \in Tenant /\ peak' \in Nat /\ doc'.customer = doc.customer
      <3>1. CASE e.type = "checkout"
        BY <1>0, <1>3, <3>1 DEF Apply
      <3>2. CASE e.type # "checkout"
        <4>1. Write(Handled(e))
          BY <1>3, <3>2 DEF Apply
        <4>2. Handled(e) \in Tenant /\ Handled(e).customer = doc.customer
          BY <1>0, <2>1, <3>2, HandledTypes
        <4>. QED  BY <4>1, <4>2, WriteTypes
      <3>. QED  BY <3>1, <3>2
    <2>5. custom' \in BOOLEAN /\ overtaken' \in BOOLEAN
      BY <1>0, <1>3 DEF Apply, Typed
    <2>6. applied' \in [DOMAIN events -> Nat]
      BY <1>1, <2>1, <2>2
    <2>. QED  BY <2>2, <2>3, <2>4, <2>5, <2>6 DEF creation, Typed, TypeOK, BillingTypeOK, GuardTypeOK
  <1>4. CASE ApplyNotFound(w) \/ WebhookInvalidate(w) \/ Record(w)
    <2>1. /\ events' = events /\ customers' = customers /\ applied' = applied
          /\ UNCHANGED <<doc, peak, custom, administered, started, faults,
                         stripe, sessions, overtaken, overlapped>>
      BY <1>4 DEF ApplyNotFound, WebhookInvalidate, Record, requests, billing
    <2>2. pc' \in [Workers -> Labels] /\ loc' \in [Workers -> Locals] /\ LocsValid'
      <3>1. CASE Goto(w, "idle", NoLocals)
        BY <1>0, <2>1, <3>1, MoveTypes
      <3>2. CASE WebhookInvalidate(w)
        <4>1. loc[w].event \in DOMAIN events
          BY <3>2 DEF WebhookInvalidate, At, Typed, LocsValid, InWebhook
        <4>2. Goto(w, "record", loc[w])
          BY <3>2 DEF WebhookInvalidate
        <4>. QED  BY <1>0, <2>1, <4>1, <4>2, MoveTypes DEF InCheckout
      <3>. QED  BY <1>4, <3>1, <3>2 DEF ApplyNotFound, Record, Finish
    <2>3. cache' \in [Instances -> CacheEntry]
      BY <1>4, InvalidateTypes DEF ApplyNotFound, WebhookInvalidate, Record, Typed, TypeOK
    <2>4. recorded' \subseteq DOMAIN events
      BY <1>1, <1>4 DEF ApplyNotFound, WebhookInvalidate, Record, billing, At,
                       Typed, LocsValid, InWebhook
    <2>. QED  BY <2>1, <2>2, <2>3, <2>4 DEF creation, Typed, TypeOK, BillingTypeOK, GuardTypeOK
  <1>. QED  BY <1>2, <1>3, <1>4 DEF Webhook

LEMMA CheckoutTyped ==
    ASSUME Typed, NEW w \in Workers, Checkout(w), UNCHANGED creation
    PROVE  Typed'
  <1>0. /\ loc[w] \in Locals /\ NoLocals \in Locals /\ doc \in Tenant /\ customers \in Nat
        /\ peak \in Nat /\ faults \in Nat /\ started \in Nat /\ custom \in BOOLEAN
        /\ {"storeCustomer", "session"} \subseteq Labels \ InWebhook
        /\ "idle" \in Labels \ (InWebhook \cup InCheckout)
        /\ doc.customer \in 0..customers /\ sessions \subseteq 1..customers
        /\ overlapped \in BOOLEAN
    BY LocalsOfWorker, ConstantTypes
       DEF Labels, InWebhook, InCheckout, Typed, TypeOK, BillingTypeOK
  <1>1. ASSUME NEW i \in Instances, CheckoutRead(w, i) PROVE Typed'
    <2>. DEFINE l == [On(i) EXCEPT !.event = customers']
    <2>1. customers' = customers + 1 /\ customers' \in Nat
      BY <1>0, <1>1 DEF CheckoutRead
    <2>2. l \in Locals /\ l.event = customers'
      BY <2>1, LocalTypes
    <2>3. Goto(w, "storeCustomer", l) /\ events' = events
      BY <1>1 DEF CheckoutRead, Start
    <2>. HIDE DEF l
    <2>4. pc' \in [Workers -> Labels] /\ loc' \in [Workers -> Locals] /\ LocsValid'
      BY <1>0, <2>1, <2>2, <2>3, MoveTypes DEF InWebhook
    <2>5. /\ started' \in Nat /\ overlapped' \in BOOLEAN /\ sessions \subseteq 1..customers'
          /\ doc.customer \in 0..customers'
      BY <1>0, <1>1, <2>1 DEF CheckoutRead, Start
    <2>. QED  BY <1>1, <2>1, <2>3, <2>4, <2>5
              DEF CheckoutRead, creation, Typed, TypeOK, BillingTypeOK, GuardTypeOK
  <1>2. ASSUME NEW i \in Instances, CheckoutReuse(w, i) PROVE Typed'
    <2>. DEFINE l == [On(i) EXCEPT !.event = doc.customer]
    <2>1. doc.customer \in 1..customers
      BY <1>0, <1>2 DEF CheckoutReuse
    <2>2. l \in Locals /\ l.event = doc.customer
      BY <2>1, LocalTypes
    <2>3. Goto(w, "session", l) /\ UNCHANGED billing /\ started' = started + 1
      BY <1>2 DEF CheckoutReuse, Start
    <2>. HIDE DEF l
    <2>4. pc' \in [Workers -> Labels] /\ loc' \in [Workers -> Locals] /\ LocsValid'
      BY <1>0, <2>1, <2>2, <2>3, MoveTypes DEF InWebhook, billing
    <2>. QED  BY <1>0, <1>2, <2>3, <2>4
              DEF CheckoutReuse, creation, Typed, TypeOK, BillingTypeOK, GuardTypeOK, billing
  <1>3. CASE CheckoutStore(w)
    <2>1. loc[w].event \in 1..customers /\ Goto(w, "session", loc[w])
      BY <1>3 DEF CheckoutStore, At, Typed, LocsValid, InCheckout
    <2>2. /\ UNCHANGED <<cache, peak, custom, administered, started,
                         stripe, events, customers, sessions, recorded, applied, overtaken>>
          /\ faults' \in Nat /\ overlapped' \in BOOLEAN
      <3>1. faults' = faults \/ faults' = faults + 1
        BY <1>3 DEF CheckoutStore
      <3>2. overlapped' = overlapped \/ overlapped' = TRUE
        BY <1>3 DEF CheckoutStore
      <3>3. faults' \in Nat
        BY <1>0, <3>1
      <3>5. overlapped' \in BOOLEAN
        BY <1>0, <3>2, Zenon
      <3>4. /\ UNCHANGED <<cache, peak, custom, administered, started,
                           stripe, events, customers, sessions, recorded, applied, overtaken>>
        BY <1>3 DEF CheckoutStore
      <3>. QED  BY <3>3, <3>4, <3>5
    <2>3. doc' \in Tenant /\ doc'.customer \in 0..customers
      <3>1. doc' = doc \/ doc' = [doc EXCEPT !.customer = loc[w].event]
        <4>1. doc.customer \in Nat /\ doc = [doc EXCEPT !.customer = doc.customer]
          BY <1>0 DEF Tenant
        <4>. QED  BY <1>3, <4>1 DEF CheckoutStore, StoredCustomer
      <3>2. CASE doc' = doc
        BY <1>0, <3>2
      <3>3. CASE doc' = [doc EXCEPT !.customer = loc[w].event]
        BY <1>0, <2>1, <3>3 DEF Tenant
      <3>. QED  BY <3>1, <3>2, <3>3
    <2>4. pc' \in [Workers -> Labels] /\ loc' \in [Workers -> Locals] /\ LocsValid'
      BY <1>0, <2>1, <2>2, MoveTypes DEF InWebhook
    <2>. QED  BY <2>2, <2>3, <2>4 DEF creation, Typed, TypeOK, BillingTypeOK, GuardTypeOK
  <1>4. CASE CheckoutSession(w)
    <2>1. loc[w].event \in 1..customers /\ Goto(w, "idle", NoLocals)
      BY <1>4 DEF CheckoutSession, Finish, At, Typed, LocsValid, InCheckout
    <2>2. /\ UNCHANGED <<doc, cache, peak, custom, administered, started, faults,
                         stripe, events, customers, recorded, applied, overtaken, overlapped>>
          /\ sessions' \subseteq 1..customers
      BY <1>0, <1>4, <2>1 DEF CheckoutSession, requests
    <2>3. pc' \in [Workers -> Labels] /\ loc' \in [Workers -> Locals] /\ LocsValid'
      BY <1>0, <2>1, <2>2, MoveTypes
    <2>. QED  BY <2>2, <2>3 DEF creation, Typed, TypeOK, BillingTypeOK, GuardTypeOK
  <1>. QED  BY <1>1, <1>2, <1>3, <1>4 DEF Checkout

(* What Stripe generates goes behind the events there are.                 *)
LEMMA EmitFacts ==
    ASSUME Typed, NEW sub \in Subscription, NEW n \in Nat, NEW types \in [1..n -> EventTypes],
           Emit(sub, types)
    PROVE  /\ Len(events) \in Nat /\ DOMAIN events = 1..Len(events)
           /\ events' \in Seq(Event) /\ DOMAIN events' = 1..(Len(events) + n)
           /\ applied' \in [DOMAIN events' -> Nat]
           /\ \A k \in DOMAIN events : events'[k] = events[k] /\ applied'[k] = applied[k]
           /\ \A j \in 1..n : /\ events'[Len(events) + j].type = types[j]
                              /\ types[j] # "checkout" => events'[Len(events) + j].sub = sub
                              /\ applied'[Len(events) + j] = 0
           /\ stripe' = sub
           /\ UNCHANGED <<doc, cache, clean, peak, custom, pc, loc, requests,
                          customers, sessions, recorded, overtaken, overlapped>>
  <1>. DEFINE Made(k) == [type |-> types[k], sub |-> IF types[k] = "checkout" THEN NoSubscription ELSE sub]
              made == [k \in 1..n |-> Made(k)]
              none == [k \in 1..n |-> 0]
  <1>1. /\ events' = events \o made /\ applied' = applied \o none /\ stripe' = sub
        /\ UNCHANGED <<doc, cache, clean, peak, custom, pc, loc, requests,
                       customers, sessions, recorded, overtaken, overlapped>>
    BY DEF Emit
  <1>2. /\ made \in Seq(Event) /\ Len(made) = n
        /\ \A j \in 1..n : made[j].type = types[j] /\ (types[j] # "checkout" => made[j].sub = sub)
    <2>1. \A k \in 1..n : Made(k) \in Event
      BY ConstantTypes DEF Event
    <2>2. made \in [1..n -> Event]
      BY <2>1
    <2>3. made \in Seq(Event) /\ Len(made) = n
      <3>. HIDE DEF made
      <3>. QED  BY <2>2
    <2>. QED  BY <2>3
  <1>3. none \in Seq(Nat) /\ Len(none) = n /\ \A j \in 1..n : none[j] = 0
    OBVIOUS
  <1>4. /\ events \in Seq(Event) /\ Len(events) \in Nat /\ DOMAIN events = 1..Len(events)
        /\ applied \in [DOMAIN events -> Nat]
    BY LenProperties DEF Typed, TypeOK, BillingTypeOK
  <1>5. applied \in Seq(Nat) /\ Len(applied) = Len(events)
    BY <1>4
  <1>. HIDE DEF made, none
  <1>6. /\ events' \in Seq(Event) /\ Len(events') = Len(events) + n
        /\ \A k \in 1..(Len(events) + n) :
              events'[k] = IF k <= Len(events) THEN events[k] ELSE made[k - Len(events)]
    <2>1. /\ events \o made \in Seq(Event) /\ Len(events \o made) = Len(events) + Len(made)
          /\ \A k \in 1..(Len(events) + Len(made)) :
                (events \o made)[k] = IF k <= Len(events) THEN events[k] ELSE made[k - Len(events)]
      BY <1>2, <1>4, ConcatProperties
    <2>. QED  BY <1>1, <1>2, <2>1
  <1>7. /\ applied' \in Seq(Nat) /\ Len(applied') = Len(events) + n
        /\ \A k \in 1..(Len(events) + n) :
              applied'[k] = IF k <= Len(events) THEN applied[k] ELSE none[k - Len(events)]
    <2>. HIDE DEF none
    <2>1. PICK p \in Seq(Nat), q \in Seq(Nat) : p = applied /\ q = none
      BY <1>3, <1>5
    <2>2. /\ p \o q \in Seq(Nat) /\ Len(p \o q) = Len(p) + Len(q)
          /\ \A k \in 1..(Len(p) + Len(q)) :
                (p \o q)[k] = IF k <= Len(p) THEN p[k] ELSE q[k - Len(p)]
      BY ConcatProperties
    <2>3. /\ applied \o none \in Seq(Nat) /\ Len(applied \o none) = Len(applied) + Len(none)
          /\ \A k \in 1..(Len(applied) + Len(none)) :
                (applied \o none)[k] = IF k <= Len(applied) THEN applied[k] ELSE none[k - Len(applied)]
      BY ONLY <2>1, <2>2
    <2>. QED  BY <1>1, <1>3, <1>5, <2>3
  <1>8. DOMAIN events' = 1..(Len(events) + n) /\ DOMAIN applied' = 1..(Len(events) + n)
    BY <1>6, <1>7, LenProperties
  <1>9. applied' \in [DOMAIN events' -> Nat]
    BY <1>7, <1>8, LenProperties
  <1>10. \A k \in DOMAIN events : events'[k] = events[k] /\ applied'[k] = applied[k]
    BY <1>4, <1>6, <1>7
  <1>11. \A j \in 1..n : events'[Len(events) + j] = made[j] /\ applied'[Len(events) + j] = none[j]
    <2>. SUFFICES ASSUME NEW j \in 1..n
                  PROVE  events'[Len(events) + j] = made[j] /\ applied'[Len(events) + j] = none[j]
      OBVIOUS
    <2>1. PICK k \in 1..(Len(events) + n) : k = Len(events) + j /\ ~(k <= Len(events)) /\ k - Len(events) = j
      BY <1>4
    <2>. QED  BY <1>6, <1>7, <2>1
  <1>. QED  BY <1>1, <1>2, <1>3, <1>4, <1>6, <1>8, <1>9, <1>10, <1>11

(* The last thing Stripe says of the subscription is how it stands.        *)
LEMMA StripeEmits ==
    ASSUME Typed, Stripe
    PROVE  \E sub \in Subscription, n \in {1, 2} : \E types \in [1..n -> EventTypes] :
              /\ Emit(sub, types)
              /\ sub.customer \in sessions \/ (Subscribed /\ sub.customer = stripe.customer)
              /\ \/ n = 1 /\ types[1] = "checkout" /\ Subscribed /\ sub = stripe
                 \/ types[n] = "upsert" /\ sub.status # "NONE"
                 \/ types[n] = "deleted" /\ sub.status = "NONE"
  <1>0. /\ stripe \in Subscription /\ sessions \subseteq Nat
        /\ \A c \in Nat, p \in Plans \ {"FREE"}, s \in {"ACTIVE", "INCOMPLETE"} :
              [customer |-> c, plan |-> p, status |-> s] \in Subscription
        /\ \A p \in Plans : [stripe EXCEPT !.plan = p] \in Subscription
        /\ \A s \in {"NONE", "ACTIVE", "PAST_DUE", "UNPAID", "CANCELED"} :
              [stripe EXCEPT !.status = s] \in Subscription
    <2>1. stripe \in Subscription /\ sessions \subseteq Nat
      BY DEF Typed, TypeOK, BillingTypeOK
    <2>. QED  BY <2>1 DEF Subscription
  <1>1. /\ <<"upsert">> \in [1..1 -> EventTypes] /\ <<"upsert">>[1] = "upsert"
        /\ <<"checkout">> \in [1..1 -> EventTypes] /\ <<"checkout">>[1] = "checkout"
        /\ <<"deleted">> \in [1..1 -> EventTypes] /\ <<"deleted">>[1] = "deleted"
        /\ <<"failed", "upsert">> \in [1..2 -> EventTypes] /\ <<"failed", "upsert">>[2] = "upsert"
        /\ <<"succeeded", "upsert">> \in [1..2 -> EventTypes] /\ <<"succeeded", "upsert">>[2] = "upsert"
    BY DEF EventTypes
  <1>2. CASE Subscribe
    <2>1. PICK c \in sessions, p \in Plans \ {"FREE"}, s \in {"ACTIVE", "INCOMPLETE"} :
              Emit([customer |-> c, plan |-> p, status |-> s], <<"upsert">>)
      BY <1>2 DEF Subscribe
    <2>. DEFINE sub == [customer |-> c, plan |-> p, status |-> s]
    <2>2. /\ Emit(sub, <<"upsert">>) /\ sub \in Subscription
          /\ sub.customer \in sessions /\ sub.status # "NONE"
      BY <1>0, <2>1
    <2>. HIDE DEF sub
    <2>. QED  BY <1>1, <2>2
  <1>3. CASE CheckoutCompletes
    BY <1>0, <1>1, <1>3 DEF CheckoutCompletes
  <1>4. CASE ChangePlan
    <2>1. PICK p \in Plans : Emit([stripe EXCEPT !.plan = p], <<"upsert">>)
      BY <1>4 DEF ChangePlan
    <2>. DEFINE sub == [stripe EXCEPT !.plan = p]
    <2>2. /\ Emit(sub, <<"upsert">>) /\ sub \in Subscription /\ Subscribed
          /\ sub.customer = stripe.customer /\ sub.status # "NONE"
      BY <1>0, <1>4, <2>1 DEF ChangePlan, Subscription, Subscribed
    <2>. HIDE DEF sub
    <2>. QED  BY <1>1, <2>2
  <1>5. CASE PaymentFails \/ PaymentSucceeds
    <2>1. PICK s \in {"ACTIVE", "PAST_DUE"}, types \in {<<"failed", "upsert">>, <<"succeeded", "upsert">>} :
              Emit([stripe EXCEPT !.status = s], types) /\ Subscribed
      BY <1>5 DEF PaymentFails, PaymentSucceeds, Subscribed
    <2>. DEFINE sub == [stripe EXCEPT !.status = s]
    <2>2. /\ Emit(sub, types) /\ sub \in Subscription /\ Subscribed
          /\ sub.customer = stripe.customer /\ sub.status # "NONE"
      BY <1>0, <2>1 DEF Subscription
    <2>. HIDE DEF sub
    <2>. QED  BY <1>1, <2>1, <2>2
  <1>6. CASE CancelSubscription
    <2>. DEFINE sub == [stripe EXCEPT !.status = "NONE"]
    <2>2. /\ Emit(sub, <<"deleted">>) /\ sub \in Subscription /\ Subscribed
          /\ sub.customer = stripe.customer /\ sub.status = "NONE"
      BY <1>0, <1>6 DEF CancelSubscription, Subscription
    <2>. HIDE DEF sub
    <2>. QED  BY <1>1, <2>2
  <1>7. CASE Lapse
    <2>1. PICK s \in {"UNPAID", "CANCELED"} : Emit([stripe EXCEPT !.status = s], <<"upsert">>)
      BY <1>7 DEF Lapse
    <2>. DEFINE sub == [stripe EXCEPT !.status = s]
    <2>2. /\ Emit(sub, <<"upsert">>) /\ sub \in Subscription /\ Subscribed
          /\ sub.customer = stripe.customer /\ sub.status # "NONE"
      BY <1>0, <1>7, <2>1 DEF Lapse, Subscription
    <2>. HIDE DEF sub
    <2>. QED  BY <1>1, <2>2
  <1>. QED  BY <1>2, <1>3, <1>4, <1>5, <1>6, <1>7 DEF Stripe

LEMMA StripeTyped ==
    ASSUME Typed, Stripe, UNCHANGED creation
    PROVE  Typed'
  <1>1. PICK sub \in Subscription, n \in {1, 2} : \E types \in [1..n -> EventTypes] : Emit(sub, types)
    BY StripeEmits
  <1>2. PICK types \in [1..n -> EventTypes] : Emit(sub, types)
    BY <1>1
  <1>3. n \in Nat
    OBVIOUS
  <1>4. /\ Len(events) \in Nat /\ DOMAIN events = 1..Len(events)
        /\ events' \in Seq(Event) /\ DOMAIN events' = 1..(Len(events) + n)
        /\ applied' \in [DOMAIN events' -> Nat]
        /\ stripe' = sub
        /\ UNCHANGED <<doc, cache, clean, peak, custom, pc, loc, requests,
                       customers, sessions, recorded, overtaken, overlapped>>
    BY <1>2, <1>3, EmitFacts
  <1>5. DOMAIN events \subseteq DOMAIN events'
    BY <1>3, <1>4
  <1>6. LocsValid'
    BY <1>4, <1>5 DEF Typed, LocsValid
  <1>7. BillingTypeOK' /\ GuardTypeOK'
    BY <1>4, <1>5 DEF Typed, TypeOK, BillingTypeOK, GuardTypeOK, creation
  <1>. QED  BY <1>4, <1>6, <1>7 DEF Typed, TypeOK, requests

(* A failure, a restart and the passing of time.                           *)
LEMMA OthersTyped ==
    ASSUME Typed,
           \/ \E w \in Workers : Abandon(w)
           \/ \E i \in Instances : Restart(i)
           \/ \E n \in Batches : CreateUncounted(n) /\ UNCHANGED billing
           \/ DeleteDocument /\ UNCHANGED billing
           \/ \E i \in Instances : EntryAges(i) /\ UNCHANGED billing
           \/ UNCHANGED vars
    PROVE  Typed'
  <1>1. ASSUME NEW w \in Workers, Abandon(w) PROVE Typed'
    <2>1. /\ NoLocals \in Locals /\ "idle" \in Labels /\ "idle" \notin InWebhook \cup InCheckout
          /\ doc \in Tenant /\ cache \in [Instances -> CacheEntry] /\ peak \in Nat /\ faults \in Nat
          /\ started \in Nat /\ count \in Nat /\ bypassed \in Nat
          /\ custom \in BOOLEAN /\ administered \in BOOLEAN
      BY ConstantTypes, LocalsOfWorker DEF Labels, InWebhook, InCheckout
    <2>2. /\ Goto(w, "idle", NoLocals) /\ faults' = faults + 1 /\ UNCHANGED billing
          /\ UNCHANGED <<doc, cache, peak, custom, administered, started, count, bypassed>>
      BY <1>1 DEF Abandon, Finish, creation
    <2>. QED  BY <2>1, <2>2, StoreTyped
  <1>2. ASSUME NEW i \in Instances, Restart(i) PROVE Typed'
    <2>1. /\ pc' = [w \in Workers |-> IF loc[w].instance = i THEN "idle" ELSE pc[w]]
          /\ loc' = [w \in Workers |-> IF loc[w].instance = i THEN NoLocals ELSE loc[w]]
          /\ cache' = [cache EXCEPT ![i] = NoEntry] /\ faults' = faults + 1
          /\ UNCHANGED <<doc, peak, custom, administered, started, count, bypassed,
                         stripe, events, customers, sessions, recorded, applied, overtaken, overlapped>>
      BY <1>2 DEF Restart, billing, creation
    <2>2. pc' \in [Workers -> Labels] /\ loc' \in [Workers -> Locals] /\ faults' \in Nat
          /\ cache' \in [Instances -> CacheEntry]
      BY <2>1, ConstantTypes DEF Typed, TypeOK, Labels
    <2>3. LocsValid'
      BY <2>1 DEF Typed, LocsValid, InWebhook, InCheckout
    <2>. QED  BY <2>1, <2>2, <2>3 DEF Typed, TypeOK, BillingTypeOK, GuardTypeOK
  <1>3. CASE DeleteDocument /\ UNCHANGED billing
    <2>1. count' \in Nat
      BY <1>3 DEF DeleteDocument, Typed, TypeOK, GuardTypeOK
    <2>. QED  BY <1>3, <2>1 DEF DeleteDocument, billing, requests, Typed, TypeOK, BillingTypeOK,
                                GuardTypeOK, LocsValid
  <1>4. ASSUME NEW i \in Instances, EntryAges(i), UNCHANGED billing PROVE Typed'
    <2>1. cache' \in [Instances -> CacheEntry]
      BY <1>4 DEF EntryAges, Typed, TypeOK, CacheEntry
    <2>. QED  BY <1>4, <2>1 DEF EntryAges, billing, requests, creation, Typed, TypeOK, BillingTypeOK,
                                GuardTypeOK, LocsValid
  <1>5. CASE UNCHANGED vars
    BY <1>5 DEF vars, billing, requests, creation, Typed, TypeOK, BillingTypeOK, GuardTypeOK, LocsValid
  <1>6. ASSUME NEW n \in Batches, CreateUncounted(n), UNCHANGED billing PROVE Typed'
    <2>1. count' \in Nat /\ bypassed' \in Nat /\ started' \in Nat
      BY <1>6, TenantAssumption DEF CreateUncounted, Bypass, Typed, TypeOK, GuardTypeOK
    <2>. QED  BY <1>6, <2>1 DEF CreateUncounted, billing, Typed, TypeOK, BillingTypeOK,
                                GuardTypeOK, LocsValid
  <1>. QED  BY <1>1, <1>2, <1>3, <1>4, <1>5, <1>6

LEMMA StepTyped == Typed /\ [Next]_vars => Typed'
  <1>. SUFFICES ASSUME Typed, [Next]_vars PROVE Typed'
    OBVIOUS
  <1>1. ASSUME NEW w \in Workers, Admin(w), UNCHANGED <<creation, billing>> PROVE Typed'
    BY <1>1, AdminTyped
  <1>2. ASSUME NEW w \in Workers, Guarded(w), UNCHANGED billing PROVE Typed'
    BY <1>2, GuardedTyped
  <1>3. ASSUME NEW w \in Workers, Webhook(w) \/ Checkout(w), UNCHANGED creation PROVE Typed'
    BY <1>3, WebhookTyped, CheckoutTyped
  <1>4. CASE Stripe /\ UNCHANGED creation
    BY <1>4, StripeTyped
  <1>. QED  BY <1>1, <1>2, <1>3, <1>4, OthersTyped DEF Next

LEMMA AlwaysTyped == Spec => []Typed
  BY InitTyped, StepTyped, PTL DEF Spec

-----------------------------------------------------------------------------
(* Stripe's events.  An event that is not recorded was applied by the      *)
(* requests that still have to record it, and by the ones that failures    *)
(* kept from it: one failure may be a restart and end them all.            *)

ApplyingOn(e) == {w \in Workers : pc[w] = "apply" /\ loc[w].event = e}
PastOn(e) == {w \in Workers : pc[w] \in {"invalidate", "record"} /\ loc[w].event = e}

Slack == Cardinality(Workers) * faults

EventAt(e) ==
    /\ (e \in recorded \/ PastOn(e) # {}) => applied[e] > 0
    /\ e \notin recorded => applied[e] <= Cardinality(PastOn(e)) + Slack
    /\ applied[e] + Cardinality(ApplyingOn(e)) <= Cardinality(Workers) + Slack

EventInv == Typed /\ \A e \in DOMAIN events : EventAt(e)

LEMMA SlackGrows ==
    ASSUME Typed, Typed', faults <= faults'
    PROVE  /\ Cardinality(Workers) \in Nat /\ Slack \in Nat /\ Slack' \in Nat /\ Slack <= Slack'
           /\ faults' = faults + 1 => Slack' = Slack + Cardinality(Workers)
           /\ Cardinality(Workers) * (1 + faults) = Cardinality(Workers) + Slack
  <1>1. PICK n \in Nat, f \in Nat, g \in Nat :
            n = Cardinality(Workers) /\ f = faults /\ g = faults' /\ f <= g
    BY TenantAssumption, FS_CardinalityType DEF Typed
  <1>2. PICK k \in Nat : g = f + k
    BY <1>1
  <1>3. n * f \in Nat /\ n * k \in Nat /\ n * g = n * f + n * k
    BY <1>2
  <1>4. n * (f + 1) = n * f + n /\ n * (1 + f) = n + n * f
    OBVIOUS
  <1>. QED  BY <1>1, <1>2, <1>3, <1>4 DEF Slack

(* One request moves: what may happen to an event.                         *)
LEMMA EventMoves ==
    ASSUME Typed, Typed', NEW w \in Workers, NEW e \in DOMAIN events, EventAt(e),
           \A v \in Workers : v # w => pc'[v] = pc[v] /\ loc'[v] = loc[v],
           faults <= faults', events' = events,
           \/ /\ applied'[e] = applied[e] /\ (e \in recorded' <=> e \in recorded)
              /\ w \notin ApplyingOn(e)' /\ (w \in PastOn(e)' <=> w \in PastOn(e))
           \/ /\ applied'[e] = applied[e] /\ (e \in recorded' <=> e \in recorded)
              /\ faults' = faults + 1 /\ w \notin PastOn(e)'
           \/ /\ applied'[e] = applied[e] /\ e \in recorded'
              /\ w \in PastOn(e) /\ w \notin PastOn(e)' /\ w \notin ApplyingOn(e)'
           \/ /\ applied'[e] = applied[e] /\ (e \in recorded' <=> e \in recorded)
              /\ e \notin recorded /\ w \notin PastOn(e) /\ w \notin PastOn(e)'
           \/ /\ applied'[e] = applied[e] + 1 /\ (e \in recorded' <=> e \in recorded)
              /\ w \in ApplyingOn(e) /\ w \notin ApplyingOn(e)' /\ w \in PastOn(e)'
    PROVE  EventAt(e)'
  <1>. DEFINE A == ApplyingOn(e)
              B == ApplyingOn(e)'
              P == PastOn(e)
              Q == PastOn(e)'
  <1>1. /\ A \subseteq Workers /\ B \subseteq Workers /\ P \subseteq Workers /\ Q \subseteq Workers
        /\ A \cap P = {} /\ B \cap Q = {} /\ IsFiniteSet(Workers)
        /\ \A v \in Workers : v # w => (v \in A <=> v \in B) /\ (v \in P <=> v \in Q)
    BY TenantAssumption DEF ApplyingOn, PastOn
  <1>. HIDE DEF A, B, P, Q
  <1>2. /\ Cardinality(A) \in Nat /\ Cardinality(B) \in Nat
        /\ w \in A /\ w \notin B => Cardinality(B) = Cardinality(A) - 1
        /\ w \notin A /\ w \in B => Cardinality(B) = Cardinality(A) + 1
        /\ (w \in A <=> w \in B) => Cardinality(B) = Cardinality(A)
    BY <1>1, OneMoves
  <1>3. /\ Cardinality(P) \in Nat /\ Cardinality(Q) \in Nat
        /\ w \in P /\ w \notin Q => Cardinality(Q) = Cardinality(P) - 1
        /\ w \notin P /\ w \in Q => Cardinality(Q) = Cardinality(P) + 1
        /\ (w \in P <=> w \in Q) => Cardinality(Q) = Cardinality(P)
    BY <1>1, OneMoves
  <1>4. Cardinality(B) + Cardinality(Q) <= Cardinality(Workers)
    BY <1>1, CountApart
  <1>5. /\ Cardinality(Workers) \in Nat /\ Slack \in Nat /\ Slack' \in Nat /\ Slack <= Slack'
        /\ faults' = faults + 1 => Slack' = Slack + Cardinality(Workers)
    BY SlackGrows
  <1>6. Cardinality(Workers) >= 1
    BY <1>1, FS_EmptySet, FS_CardinalityType
  <1>7. applied[e] \in Nat /\ applied'[e] \in Nat
    BY DEF Typed, TypeOK, BillingTypeOK
  <1>8. /\ (e \in recorded \/ P # {}) => applied[e] > 0
        /\ e \notin recorded => applied[e] <= Cardinality(P) + Slack
        /\ applied[e] + Cardinality(A) <= Cardinality(Workers) + Slack
    BY DEF EventAt, A, P
  <1>9. (e \in recorded' \/ Q # {}) => applied'[e] > 0
    <2>1. P = {} /\ w \notin Q => Q = {}
      BY <1>1
    <2>2. w \in P \/ w \in A => P # {} \/ w \in A
      OBVIOUS
    <2>. QED  BY <1>7, <1>8, <2>1, <2>2 DEF A, B, P, Q
  <1>10. /\ e \notin recorded' => applied'[e] <= Cardinality(Q) + Slack'
         /\ applied'[e] + Cardinality(B) <= Cardinality(Workers) + Slack'
    <2>1. CASE /\ applied'[e] = applied[e] /\ (e \in recorded' <=> e \in recorded)
               /\ w \notin B /\ (w \in Q <=> w \in P)
      BY <1>2, <1>3, <1>5, <1>7, <1>8, <2>1
    <2>2. CASE /\ applied'[e] = applied[e] /\ (e \in recorded' <=> e \in recorded)
               /\ faults' = faults + 1 /\ w \notin Q
      BY <1>2, <1>3, <1>5, <1>6, <1>7, <1>8, <2>2
    <2>3. CASE /\ applied'[e] = applied[e] /\ e \in recorded'
               /\ w \in P /\ w \notin Q /\ w \notin B
      BY <1>2, <1>3, <1>5, <1>7, <1>8, <2>3
    <2>4. CASE /\ applied'[e] = applied[e] /\ (e \in recorded' <=> e \in recorded)
               /\ e \notin recorded /\ w \notin P /\ w \notin Q
      BY <1>2, <1>3, <1>4, <1>5, <1>7, <1>8, <2>4
    <2>5. CASE /\ applied'[e] = applied[e] + 1 /\ (e \in recorded' <=> e \in recorded)
               /\ w \in A /\ w \notin B /\ w \in Q
      <3>1. w \notin P
        BY <1>1, <2>5
      <3>. QED  BY <1>2, <1>3, <1>5, <1>7, <1>8, <2>5, <3>1
    <2>. QED  BY <2>1, <2>2, <2>3, <2>4, <2>5 DEF A, B, P, Q
  <1>. QED  BY <1>9, <1>10 DEF EventAt, B, Q

(* A request that is in no webhook before or after.                        *)
LEMMA AsideEvents ==
    ASSUME EventInv, Typed', NEW w \in Workers,
           \A v \in Workers : v # w => pc'[v] = pc[v] /\ loc'[v] = loc[v],
           pc[w] \notin InWebhook, pc'[w] \notin InWebhook,
           faults <= faults', UNCHANGED <<events, applied, recorded>>
    PROVE  EventInv'
  <1>1. ASSUME NEW e \in DOMAIN events PROVE EventAt(e)'
    <2>1. /\ w \notin ApplyingOn(e)' /\ w \notin PastOn(e)' /\ w \notin PastOn(e)
          /\ applied'[e] = applied[e] /\ (e \in recorded' <=> e \in recorded)
      BY DEF ApplyingOn, PastOn, InWebhook
    <2>. QED  BY <2>1, EventMoves DEF EventInv
  <1>. QED  BY <1>1 DEF EventInv

LEMMA WebhookEvents ==
    ASSUME EventInv, Typed', NEW w \in Workers, Webhook(w), UNCHANGED creation
    PROVE  EventInv'
  <1>0. /\ pc \in [Workers -> Labels] /\ loc \in [Workers -> Locals] /\ faults \in Nat
        /\ applied \in [DOMAIN events -> Nat] /\ DOMAIN events \subseteq Nat
        /\ loc[w].event \in Nat
    BY LocalsOfWorker, Positions DEF EventInv, Typed, TypeOK, BillingTypeOK
  <1>1. /\ events' = events
        /\ \A v \in Workers : v # w => pc'[v] = pc[v] /\ loc'[v] = loc[v]
    BY <1>0 DEF Webhook, Deliver, Start, Apply, ApplyNotFound, WebhookInvalidate, Record,
                Finish, Goto, billing
  <1>2. ASSUME NEW i \in Instances, NEW d \in DOMAIN events, Deliver(w, i, d) PROVE EventInv'
    <2>. DEFINE l == [On(i) EXCEPT !.event = d]
    <2>1. l.event = d
      BY <1>0, LocalTypes
    <2>2. /\ pc[w] = "idle" /\ pc'[w] = "apply" /\ loc'[w] = l
          /\ applied' = applied /\ recorded' = recorded
          /\ (d \notin recorded /\ faults' = faults) \/ faults' = faults + 1
      BY <1>0, <1>2 DEF Deliver, Start, Goto, Processed, FirstStep
    <2>. HIDE DEF l
    <2>3. ASSUME NEW e \in DOMAIN events PROVE EventAt(e)'
      <3>1. w \notin PastOn(e) /\ w \notin PastOn(e)' /\ (e # d => w \notin ApplyingOn(e)')
        BY <2>1, <2>2 DEF ApplyingOn, PastOn
      <3>2. applied'[e] = applied[e] /\ (e \in recorded' <=> e \in recorded) /\ faults <= faults'
        BY <1>0, <2>2
      <3>. QED  BY <1>1, <2>2, <3>1, <3>2, EventMoves DEF EventInv
    <2>. QED  BY <1>1, <2>3 DEF EventInv
  <1>3. CASE Apply(w)
    <2>1. /\ pc[w] = "apply" /\ pc'[w] \in {"record", "invalidate"} /\ loc'[w] = loc[w]
          /\ applied' = [applied EXCEPT ![loc[w].event] = @ + 1]
          /\ recorded' = recorded /\ faults' = faults
      BY <1>0, <1>3 DEF Apply, At, Goto, requests
    <2>2. ASSUME NEW e \in DOMAIN events PROVE EventAt(e)'
      <3>1. CASE e = loc[w].event
        <4>1. /\ w \in ApplyingOn(e) /\ w \notin ApplyingOn(e)' /\ w \in PastOn(e)'
              /\ applied'[e] = applied[e] + 1 /\ (e \in recorded' <=> e \in recorded)
              /\ faults <= faults'
          BY <1>0, <2>1, <3>1 DEF ApplyingOn, PastOn
        <4>. QED  BY <1>1, <4>1, EventMoves DEF EventInv
      <3>2. CASE e # loc[w].event
        <4>1. /\ w \notin ApplyingOn(e)' /\ w \notin PastOn(e)' /\ w \notin PastOn(e)
              /\ applied'[e] = applied[e] /\ (e \in recorded' <=> e \in recorded)
              /\ faults <= faults'
          BY <1>0, <2>1, <3>2 DEF ApplyingOn, PastOn
        <4>. QED  BY <1>1, <4>1, EventMoves DEF EventInv
      <3>. QED  BY <3>1, <3>2
    <2>. QED  BY <1>1, <2>2 DEF EventInv
  <1>4. CASE ApplyNotFound(w)
    <2>1. /\ pc[w] = "apply" /\ pc'[w] = "idle" /\ applied' = applied
          /\ recorded' = recorded /\ faults' = faults
      BY <1>0, <1>4 DEF ApplyNotFound, At, Finish, Goto, requests, billing
    <2>2. ASSUME NEW e \in DOMAIN events PROVE EventAt(e)'
      <3>1. /\ w \notin ApplyingOn(e)' /\ w \notin PastOn(e)' /\ w \notin PastOn(e)
            /\ applied'[e] = applied[e] /\ (e \in recorded' <=> e \in recorded)
            /\ faults <= faults'
        BY <1>0, <2>1 DEF ApplyingOn, PastOn
      <3>. QED  BY <1>1, <3>1, EventMoves DEF EventInv
    <2>. QED  BY <1>1, <2>2 DEF EventInv
  <1>5. CASE WebhookInvalidate(w)
    <2>1. /\ pc[w] = "invalidate" /\ pc'[w] = "record" /\ loc'[w] = loc[w] /\ applied' = applied
          /\ recorded' = recorded /\ faults' = faults
      BY <1>0, <1>5 DEF WebhookInvalidate, At, Goto, requests, billing
    <2>2. ASSUME NEW e \in DOMAIN events PROVE EventAt(e)'
      <3>1. /\ w \notin ApplyingOn(e)' /\ (w \in PastOn(e)' <=> w \in PastOn(e))
            /\ applied'[e] = applied[e] /\ (e \in recorded' <=> e \in recorded)
            /\ faults <= faults'
        BY <1>0, <2>1 DEF ApplyingOn, PastOn
      <3>. QED  BY <1>1, <3>1, EventMoves DEF EventInv
    <2>. QED  BY <1>1, <2>2 DEF EventInv
  <1>6. CASE Record(w)
    <2>1. /\ pc[w] = "record" /\ pc'[w] = "idle" /\ applied' = applied
          /\ recorded' = recorded \cup {loc[w].event} /\ faults' = faults
      BY <1>0, <1>6 DEF Record, At, Finish, Goto, requests
    <2>2. ASSUME NEW e \in DOMAIN events PROVE EventAt(e)'
      <3>1. /\ w \notin ApplyingOn(e)' /\ w \notin PastOn(e)' /\ applied'[e] = applied[e]
            /\ faults <= faults'
        BY <1>0, <2>1 DEF ApplyingOn, PastOn
      <3>2. CASE e = loc[w].event
        <4>1. w \in PastOn(e) /\ e \in recorded'
          BY <2>1, <3>2 DEF PastOn
        <4>. QED  BY <1>1, <3>1, <4>1, EventMoves DEF EventInv
      <3>3. CASE e # loc[w].event
        <4>1. w \notin PastOn(e) /\ (e \in recorded' <=> e \in recorded)
          BY <2>1, <3>3 DEF PastOn
        <4>. QED  BY <1>1, <3>1, <4>1, EventMoves DEF EventInv
      <3>. QED  BY <3>2, <3>3
    <2>. QED  BY <1>1, <2>2 DEF EventInv
  <1>. QED  BY <1>2, <1>3, <1>4, <1>5, <1>6 DEF Webhook

LEMMA StripeEvents ==
    ASSUME EventInv, Typed', Stripe, UNCHANGED creation
    PROVE  EventInv'
  <1>1. PICK sub \in Subscription, n \in {1, 2} : \E types \in [1..n -> EventTypes] : Emit(sub, types)
    BY StripeEmits DEF EventInv
  <1>2. PICK types \in [1..n -> EventTypes] : Emit(sub, types)
    BY <1>1
  <1>3. n \in Nat
    OBVIOUS
  <1>4. /\ Len(events) \in Nat /\ DOMAIN events = 1..Len(events)
        /\ DOMAIN events' = 1..(Len(events) + n)
        /\ \A k \in DOMAIN events : applied'[k] = applied[k]
        /\ \A j \in 1..n : applied'[Len(events) + j] = 0
        /\ UNCHANGED <<pc, loc, requests, recorded>>
    BY <1>2, <1>3, EmitFacts DEF EventInv
  <1>5. faults' = faults
    BY <1>4 DEF requests
  <1>6. /\ Cardinality(Workers) \in Nat /\ Slack \in Nat /\ Slack' = Slack
    BY <1>5, SlackGrows DEF EventInv, Typed, Slack
  <1>7. ASSUME NEW e \in DOMAIN events' PROVE EventAt(e)'
    <2>1. ApplyingOn(e)' = ApplyingOn(e) /\ PastOn(e)' = PastOn(e) /\ recorded' = recorded
      BY <1>4 DEF ApplyingOn, PastOn
    <2>2. CASE e \in DOMAIN events
      BY <1>4, <1>6, <2>1, <2>2 DEF EventInv, EventAt
    <2>3. CASE e \notin DOMAIN events
      <3>1. ApplyingOn(e) = {} /\ PastOn(e) = {} /\ e \notin recorded
        <4>1. /\ recorded \subseteq DOMAIN events
              /\ \A v \in Workers : pc[v] \in InWebhook => loc[v].event \in DOMAIN events
          BY DEF EventInv, Typed, TypeOK, BillingTypeOK, LocsValid
        <4>. QED  BY <2>3, <4>1 DEF ApplyingOn, PastOn, InWebhook
      <3>2. applied'[e] = 0
        <4>1. PICK j \in 1..n : e = Len(events) + j
          <5>1. e - Len(events) \in 1..n /\ e = Len(events) + (e - Len(events))
            BY <1>4, <2>3
          <5>. QED  BY <5>1
        <4>. QED  BY <1>4, <4>1
      <3>3. Cardinality({}) = 0
        BY FS_EmptySet
      <3>. QED  BY <1>6, <2>1, <3>1, <3>2, <3>3 DEF EventAt
    <2>. QED  BY <2>2, <2>3
  <1>. QED  BY <1>7 DEF EventInv

LEMMA RestartEvents ==
    ASSUME EventInv, Typed', NEW i \in Instances, Restart(i)
    PROVE  EventInv'
  <1>1. /\ pc' = [w \in Workers |-> IF loc[w].instance = i THEN "idle" ELSE pc[w]]
        /\ loc' = [w \in Workers |-> IF loc[w].instance = i THEN NoLocals ELSE loc[w]]
        /\ faults' = faults + 1 /\ UNCHANGED <<events, applied, recorded>>
    BY DEF Restart, billing
  <1>2. /\ Cardinality(Workers) \in Nat /\ Slack \in Nat /\ Slack' = Slack + Cardinality(Workers)
        /\ IsFiniteSet(Workers)
    BY <1>1, SlackGrows, TenantAssumption DEF EventInv, Typed
  <1>3. ASSUME NEW e \in DOMAIN events PROVE EventAt(e)'
    <2>1. ApplyingOn(e)' \subseteq ApplyingOn(e) /\ PastOn(e)' \subseteq PastOn(e)
      BY <1>1 DEF ApplyingOn, PastOn
    <2>2. IsFiniteSet(ApplyingOn(e)) /\ IsFiniteSet(PastOn(e))
      BY <1>2, FS_Subset DEF ApplyingOn, PastOn
    <2>3. /\ Cardinality(ApplyingOn(e)') <= Cardinality(ApplyingOn(e))
          /\ Cardinality(ApplyingOn(e)') \in Nat /\ Cardinality(ApplyingOn(e)) \in Nat
          /\ Cardinality(PastOn(e)') \in Nat /\ Cardinality(PastOn(e)) \in Nat
          /\ IsFiniteSet(PastOn(e)')
      BY <2>1, <2>2, FS_Subset, FS_CardinalityType
    <2>4. Cardinality(PastOn(e)) <= Cardinality(Workers)
      BY <1>2, FS_Subset DEF PastOn
    <2>5. applied[e] \in Nat
      BY DEF EventInv, Typed, TypeOK, BillingTypeOK
    <2>. QED  BY <1>1, <1>2, <2>1, <2>3, <2>4, <2>5 DEF EventInv, EventAt
  <1>. QED  BY <1>1, <1>3 DEF EventInv

LEMMA InitEventInv == Init => EventInv
  BY InitTyped, EmptySeq DEF Init, BillingInit, EventInv

LEMMA StepEventInv == EventInv /\ [Next]_vars => EventInv'
  <1>. SUFFICES ASSUME EventInv, [Next]_vars PROVE EventInv'
    OBVIOUS
  <1>0. Typed' /\ Typed /\ pc \in [Workers -> Labels] /\ loc \in [Workers -> Locals] /\ faults \in Nat
    BY StepTyped DEF EventInv, Typed, TypeOK
  <1>1. ASSUME NEW w \in Workers, Admin(w), UNCHANGED <<creation, billing>> PROVE EventInv'
    <2>1. \E label \in {"idle", "adminInvalidate"} : \E l : Goto(w, label, l)
      BY <1>1 DEF Admin, AdminUpdate, AdminInvalidate, AdminPlan, AdminDelete, Start, Finish
    <2>2. pc[w] \in {"idle", "adminInvalidate"} /\ faults' = faults
      BY <1>1 DEF Admin, AdminUpdate, AdminInvalidate, AdminPlan, AdminDelete, Start, At,
                  AdminBegins, requests
    <2>3. /\ \A v \in Workers : v # w => pc'[v] = pc[v] /\ loc'[v] = loc[v]
          /\ pc'[w] \in {"idle", "adminInvalidate"}
      BY <1>0, <2>1 DEF Goto
    <2>. QED  BY <1>0, <1>1, <2>2, <2>3, AsideEvents DEF InWebhook, billing
  <1>2. ASSUME NEW w \in Workers, Guarded(w), UNCHANGED billing PROVE EventInv'
    <2>1. PICK label \in {"idle", "store", "limit", "count", "create"}, l \in Locals : Goto(w, label, l)
      BY <1>0, <1>2, GuardedMoves
    <2>2. faults <= faults'
      BY <1>0, <1>2, GuardedWrites
    <2>3. pc[w] \in {"idle", "store", "limit", "count", "create"}
      BY <1>2 DEF Guarded, RequestHit, RequestMiss, Arrives, PassUnguarded, RegisterRead,
                  StoreEntry, LimitConfig, CheckLimit, CountFails, CreateDocuments, At
    <2>4. /\ \A v \in Workers : v # w => pc'[v] = pc[v] /\ loc'[v] = loc[v]
          /\ pc'[w] \in {"idle", "store", "limit", "count", "create"}
      BY <1>0, <2>1 DEF Goto
    <2>. QED  BY <1>0, <1>2, <2>2, <2>3, <2>4, AsideEvents DEF InWebhook, billing
  <1>3. ASSUME NEW w \in Workers, Webhook(w), UNCHANGED creation PROVE EventInv'
    BY <1>0, <1>3, WebhookEvents
  <1>4. ASSUME NEW w \in Workers, Checkout(w), UNCHANGED creation PROVE EventInv'
    <2>1. /\ pc[w] \in {"idle", "storeCustomer", "session"}
          /\ \E label \in {"idle", "storeCustomer", "session"} : \E l : Goto(w, label, l)
          /\ UNCHANGED <<events, applied, recorded>> /\ (faults' = faults \/ faults' = faults + 1)
      BY <1>4 DEF Checkout, CheckoutRead, CheckoutReuse, CheckoutStore, CheckoutSession, Start,
                  At, Finish, requests, billing
    <2>2. /\ \A v \in Workers : v # w => pc'[v] = pc[v] /\ loc'[v] = loc[v]
          /\ pc'[w] \in {"idle", "storeCustomer", "session"}
      BY <1>0, <2>1 DEF Goto
    <2>3. faults <= faults'
      BY <1>0, <2>1
    <2>. QED  BY <1>0, <2>1, <2>2, <2>3, AsideEvents DEF InWebhook
  <1>5. CASE Stripe /\ UNCHANGED creation
    BY <1>0, <1>5, StripeEvents
  <1>6. ASSUME NEW w \in Workers, Abandon(w) PROVE EventInv'
    <2>1. /\ \A v \in Workers : v # w => pc'[v] = pc[v] /\ loc'[v] = loc[v]
          /\ pc'[w] = "idle" /\ faults' = faults + 1 /\ faults <= faults'
          /\ UNCHANGED <<events, applied, recorded>>
      BY <1>0, <1>6 DEF Abandon, Finish, Goto, billing
    <2>2. ASSUME NEW e \in DOMAIN events PROVE EventAt(e)'
      <3>1. /\ w \notin PastOn(e)' /\ applied'[e] = applied[e]
            /\ (e \in recorded' <=> e \in recorded)
        BY <2>1 DEF PastOn
      <3>. QED  BY <1>0, <2>1, <3>1, EventMoves DEF EventInv
    <2>. QED  BY <1>0, <2>1, <2>2 DEF EventInv
  <1>7. ASSUME NEW i \in Instances, Restart(i) PROVE EventInv'
    BY <1>0, <1>7, RestartEvents
  <1>8. CASE \/ DeleteDocument /\ UNCHANGED billing
             \/ \E n \in Batches : CreateUncounted(n) /\ UNCHANGED billing
             \/ \E i \in Instances : EntryAges(i) /\ UNCHANGED billing
             \/ UNCHANGED vars
    <2>1. UNCHANGED <<pc, loc, faults, events, applied, recorded>>
      BY <1>8 DEF DeleteDocument, CreateUncounted, EntryAges, vars, billing, requests
    <2>2. \A e : ApplyingOn(e)' = ApplyingOn(e) /\ PastOn(e)' = PastOn(e)
      BY <2>1 DEF ApplyingOn, PastOn
    <2>. QED  BY <1>0, <2>1, <2>2 DEF EventInv, EventAt, Slack
  <1>. QED  BY <1>1, <1>2, <1>3, <1>4, <1>5, <1>6, <1>7, <1>8 DEF Next

(* No event is dropped: what was recorded had been applied.  And it is     *)
(* applied again only by deliveries that overlap, or after failures, of    *)
(* which each may cost as many deliveries as there are requests at a time. *)
THEOREM EventsAreAppliedAlways == Spec => []EventsAreApplied
  <1>1. EventInv => EventsAreApplied
    <2>. SUFFICES ASSUME EventInv, NEW e \in DOMAIN events
                  PROVE  /\ e \in recorded => applied[e] > 0
                         /\ applied[e] + Cardinality(ApplyingOn(e)) <= Cardinality(Workers) * (1 + faults)
      BY DEF EventsAreApplied, ApplyingOn
    <2>1. PICK n \in Nat, f \in Nat : n = Cardinality(Workers) /\ f = faults
      BY TenantAssumption, FS_CardinalityType DEF EventInv, Typed
    <2>2. n * (1 + f) = n + n * f
      OBVIOUS
    <2>. QED  BY <2>1, <2>2 DEF EventInv, EventAt, Slack
  <1>. QED  BY <1>1, InitEventInv, StepEventInv, PTL DEF Spec

-----------------------------------------------------------------------------
(* How far the limit is exceeded.  No copy of the document has a limit     *)
(* larger than the largest there was, and nobody creates without having    *)
(* found room, or being counted among what bypassed the guard.             *)

Creates == [w \in Workers |-> Creating(w)]

Within(l) == l.cfg.limit <= peak /\ l.batch \in Batches \cup {0}

LimitsKnown ==
    /\ doc.limit <= peak /\ Quota["FREE"] <= peak
    /\ \A w \in Workers : Within(loc[w])
    /\ \A i \in Instances : cache[i].cfg.limit <= peak

Room ==
    /\ Typed
    /\ LimitsKnown
    /\ count + SumFunction(Creates)
          <= peak - 1 + Cardinality(Workers) * Max(Batches) + bypassed

LEMMA LargestBatch ==
    /\ Max(Batches) \in Nat /\ \A n \in Batches \cup {0} : n \in Nat /\ n <= Max(Batches)
    /\ Cardinality(Workers) * Max(Batches) \in Nat
  <1>1. Max(Batches) \in Batches /\ \A n \in Batches : n <= Max(Batches)
    BY TenantAssumption, MaxIsLargest
  <1>2. Max(Batches) \in Nat /\ \A n \in Batches \cup {0} : n \in Nat /\ n <= Max(Batches)
    <2>1. PICK m \in Batches : m = Max(Batches)
      BY <1>1
    <2>2. Batches \subseteq Nat
      BY TenantAssumption
    <2>3. \A n \in Batches : n <= m
      BY <1>1, <2>1
    <2>. QED  BY <2>1, <2>2, <2>3
  <1>3. Cardinality(Workers) \in Nat
    BY TenantAssumption, FS_CardinalityType
  <1>. QED  BY <1>2, <1>3

LEMMA CreatesTypes ==
    /\ Room => Creates \in [Workers -> Nat] /\ \A w \in Workers : Creates[w] <= Max(Batches)
    /\ Room' => Creates' \in [Workers -> Nat]
  <1>1. Room => Creates \in [Workers -> Nat] /\ \A w \in Workers : Creates[w] <= Max(Batches)
    BY LargestBatch DEF Room, LimitsKnown, Within, Creates, Creating
  <1>2. LimitsKnown => \A w \in Workers : Creating(w) \in Nat
    BY LargestBatch DEF LimitsKnown, Within, Creating
  <1>3. LimitsKnown' => (\A w \in Workers : Creating(w) \in Nat)'
    BY <1>2, PTL
  <1>. QED  BY <1>1, <1>3 DEF Room, Creates

LEMMA InitRoom == Init => Room
  <1>. SUFFICES ASSUME Init PROVE Room
    OBVIOUS
  <1>1. /\ doc = NewTenant /\ cache = [i \in Instances |-> NoEntry] /\ peak = doc.limit
        /\ pc = [w \in Workers |-> "idle"] /\ loc = [w \in Workers |-> NoLocals] /\ count = 0
        /\ bypassed = 0
    BY DEF Init, StoreInit
  <1>2. Quota["FREE"] \in Nat /\ Quota["FREE"] >= 1
    BY ConstantTypes
  <1>3. /\ doc.limit = Quota["FREE"] /\ NoEntry.cfg.limit = Quota["FREE"]
        /\ NoLocals.cfg.limit = Quota["FREE"] /\ NoLocals.batch = 0
    BY <1>1 DEF NewTenant, NoEntry, NoLocals, ConfigOf
  <1>4. LimitsKnown
    BY <1>1, <1>2, <1>3 DEF LimitsKnown, Within
  <1>5. SumFunction(Creates) = 0
    <2>1. Creates \in [Workers -> Int] /\ \A w \in Workers : Creates[w] = 0
      BY <1>1 DEF Creates, Creating
    <2>. QED  BY <2>1, TenantAssumption, SumFunctionZero
  <1>. QED  BY <1>1, <1>2, <1>3, <1>4, <1>5, InitTyped, LargestBatch DEF Room

(* A request goes on.                                                      *)
LEMMA MoveRoom ==
    ASSUME Room, Typed', NEW w \in Workers, NEW label \in Labels, NEW l \in Locals,
           Goto(w, label, l), Within(l),
           peak <= peak', doc'.limit <= peak', \A i \in Instances : cache'[i].cfg.limit <= peak',
           \/ /\ label # "create" /\ count' \in {count, count + Creating(w)}
              /\ pc[w] = "create" \/ count' = count
              /\ bypassed' = bypassed
           \/ /\ label = "create" /\ count' = count
              /\ count < peak /\ bypassed' = bypassed
           \/ /\ label = "create" /\ count' = count
              /\ pc[w] # "create" /\ bypassed' = bypassed + l.batch
    PROVE  Room'
  <1>1. /\ pc' \in [Workers -> Labels] /\ loc' \in [Workers -> Locals] /\ pc'[w] = label
        /\ label # "idle" => loc'[w] = l
        /\ label = "idle" => loc'[w] = NoLocals
        /\ \A v \in Workers : v # w => pc'[v] = pc[v] /\ loc'[v] = loc[v]
    BY GotoTypes DEF Room
  <1>2. /\ peak \in Nat /\ peak' \in Nat /\ count \in Nat /\ count' \in Nat
        /\ bypassed \in Nat /\ bypassed' \in Nat /\ Quota["FREE"] \in Nat
        /\ NoLocals.cfg.limit = Quota["FREE"] /\ NoLocals.batch = 0
    BY ConstantTypes DEF Room, Typed, TypeOK, GuardTypeOK, NoLocals, ConfigOf, NewTenant
  <1>3. \A m \in Locals : m.cfg.limit \in Nat
    BY ConstantTypes DEF Locals, Config
  <1>4. LimitsKnown'
    <2>1. ASSUME NEW v \in Workers PROVE loc'[v].cfg.limit <= peak' /\ loc'[v].batch \in Batches \cup {0}
      <3>1. loc[v] \in Locals /\ loc[v].cfg.limit \in Nat /\ l.cfg.limit \in Nat
        BY <1>3 DEF Room, Typed, TypeOK
      <3>2. Within(loc[v]) /\ Quota["FREE"] <= peak
        BY DEF Room, LimitsKnown
      <3>. QED  BY <1>1, <1>2, <3>1, <3>2 DEF Within
    <2>2. Quota["FREE"] <= peak'
      BY <1>2 DEF Room, LimitsKnown
    <2>. QED  BY <2>1, <2>2 DEF LimitsKnown, Within
  <1>5. Creates \in [Workers -> Nat]
    BY CreatesTypes
  <1>6. \A v \in Workers : Creating(v)' \in Nat /\ Creating(v)' <= Max(Batches)
    BY <1>4, LargestBatch DEF LimitsKnown, Within, Creating
  <1>. DEFINE f == Creates
              g == [v \in Workers |-> Creating(v)']
              W == Cardinality(Workers)
              M == Max(Batches)
  <1>7. /\ f \in [Workers -> Int] /\ g \in [Workers -> Int] /\ Creates' = g
        /\ \A v \in Workers : v # w => g[v] = f[v]
        /\ \A v \in Workers : g[v] <= M
        /\ f[w] = Creating(w) /\ g[w] = Creating(w)' /\ f[w] \in Nat
        /\ label # "create" => g[w] = 0
        /\ pc[w] # "create" => f[w] = 0
    BY <1>1, <1>5, <1>6 DEF Creates, Creating
  <1>. HIDE DEF f, g
  <1>8. /\ SumFunction(g) = SumFunction(f) - f[w] + g[w]
        /\ SumFunction(f) \in Int /\ SumFunction(g) \in Int
    BY <1>7, TenantAssumption, SumFunctionChange, SumFunctionType
  <1>9. SumFunction(g) <= W * M /\ W * M \in Nat /\ M \in Nat
    BY <1>7, TenantAssumption, SumFunctionBound, LargestBatch
  <1>10. label = "create" => g[w] = l.batch
    BY <1>1, <1>7 DEF Creating
  <1>11. count + SumFunction(f) <= peak - 1 + W * M + bypassed
    BY DEF Room, f
  <1>12. PICK p \in Nat : p = W * M
    BY <1>9
  <1>13. CASE /\ label # "create" /\ count' \in {count, count + Creating(w)}
              /\ pc[w] = "create" \/ count' = count
              /\ bypassed' = bypassed
    <2>1. count' <= count + f[w] /\ g[w] = 0
      BY <1>2, <1>7, <1>13
    <2>2. count' + SumFunction(g) <= peak' - 1 + p + bypassed'
      BY <1>2, <1>7, <1>8, <1>11, <1>12, <1>13, <2>1
    <2>. QED  BY <1>4, <1>7, <1>12, <2>2 DEF Room
  <1>14. CASE label = "create" /\ count' = count /\ count < peak /\ bypassed' = bypassed
    <2>1. count' + SumFunction(g) <= peak' - 1 + p + bypassed'
      BY <1>2, <1>8, <1>9, <1>12, <1>14
    <2>. QED  BY <1>4, <1>7, <1>12, <2>1 DEF Room
  <1>15. CASE /\ label = "create" /\ count' = count
              /\ pc[w] # "create" /\ bypassed' = bypassed + l.batch
    <2>1. f[w] = 0 /\ g[w] = l.batch /\ g[w] \in Nat
      BY <1>6, <1>7, <1>10, <1>15
    <2>2. count' + SumFunction(g) <= peak' - 1 + p + bypassed'
      BY <1>2, <1>8, <1>11, <1>12, <1>15, <2>1
    <2>. QED  BY <1>4, <1>7, <1>12, <2>2 DEF Room
  <1>. QED  BY <1>13, <1>14, <1>15

(* What a user's request carries on, and when it may create.               *)
LEMMA GuardedRoom ==
    ASSUME Room, Typed', NEW w \in Workers, Guarded(w)
    PROVE  Room'
  <1>0. /\ Typed /\ loc[w] \in Locals /\ NoLocals \in Locals /\ doc \in Tenant
        /\ ConfigOf(doc) \in Config /\ \A i \in Instances : cache[i].cfg \in Config
        /\ peak \in Nat /\ count \in Nat /\ faults \in Nat
        /\ cache \in [Instances -> CacheEntry] /\ {"idle", "store", "limit", "count", "create"} \subseteq Labels
    BY LocalsOfWorker, ConstantTypes DEF Room, Labels
  <1>1. /\ Within(loc[w]) /\ Within(NoLocals) /\ ConfigOf(doc).limit <= peak
        /\ \A i \in Instances : cache[i].cfg.limit <= peak
    BY DEF Room, LimitsKnown, Within, NoLocals, ConfigOf, NewTenant
  <1>2. /\ UNCHANGED <<doc, peak>> /\ faults <= faults'
        /\ cache' = cache \/ \E i : cache' = [cache EXCEPT ![i] = [cfg |-> loc[w].cfg, age |-> "fresh"]]
    BY <1>0, GuardedWrites
  <1>3. /\ peak <= peak' /\ doc'.limit <= peak'
        /\ \A i \in Instances : cache'[i].cfg.limit <= peak'
    <2>1. \A i \in Instances : cache'[i].cfg = cache[i].cfg \/ cache'[i].cfg = loc[w].cfg
      BY <1>0, <1>2
    <2>. QED  BY <1>0, <1>1, <1>2, <2>1 DEF Room, LimitsKnown, Within
  <1>4. ASSUME NEW i \in Instances, NEW k \in RequestKinds, NEW n \in Batches \cup {0},
               NEW c \in Config, c.limit <= peak
        PROVE  [Arrival(i, k, n) EXCEPT !.cfg = c] \in Locals /\ Within([Arrival(i, k, n) EXCEPT !.cfg = c])
    <2>1. n \in Nat
      BY LargestBatch
    <2>2. Arrival(i, k, n) \in Locals /\ Arrival(i, k, n).batch = n
      BY <2>1, LocalTypes
    <2>. QED  BY <1>4, <2>2, LocalTypes DEF Within
  <1>5. ASSUME NEW c \in Config, c.limit <= peak
        PROVE  [loc[w] EXCEPT !.cfg = c] \in Locals /\ Within([loc[w] EXCEPT !.cfg = c])
    BY <1>0, <1>1, <1>5, LocalTypes DEF Within
  <1>6. ASSUME NEW l \in Locals, Within(l), count' = count, bypassed' = bypassed,
               \/ Decide(w, l)
               \/ Goto(w, "store", l)
               \/ Goto(w, "count", l)
               \/ Goto(w, "limit", l)
               \/ Finish(w)
               \/ Goto(w, "create", l) /\ count < peak
        PROVE  Room'
    <2>1. PICK label \in {"idle", "store", "limit", "count", "create"}, m \in {l, NoLocals} :
              /\ Goto(w, label, m)
              /\ label = "create" => count < peak
      BY <1>6, DecideMoves DEF Finish
    <2>2. m \in Locals /\ Within(m) /\ label \in Labels
      BY <1>0, <1>1, <1>6, <2>1
    <2>. QED  BY <1>2, <1>3, <1>6, <2>1, <2>2, MoveRoom
  <1>a. ASSUME NEW l \in Locals, Within(l), count' = count, bypassed' = bypassed + l.batch,
               pc[w] # "create", Goto(w, "create", l)
        PROVE  Room'
    BY <1>0, <1>2, <1>3, <1>a, MoveRoom
  <1>7. ASSUME NEW i \in Instances, NEW kind \in Kinds, NEW n \in Batches \cup {0},
               RequestHit(w, i, kind, n) \/ RequestMiss(w, i, kind, n)
        PROVE  Room'
    <2>1. kind \in RequestKinds /\ count' = count /\ bypassed' = bypassed
      BY <1>7, TenantAssumption DEF RequestHit, RequestMiss, Arrives
    <2>2. PICK c \in {cache[i].cfg, ConfigOf(doc)} :
              \/ Decide(w, [Arrival(i, kind, n) EXCEPT !.cfg = c])
              \/ Goto(w, "store", [Arrival(i, kind, n) EXCEPT !.cfg = c])
      BY <1>7 DEF RequestHit, RequestMiss
    <2>3. c \in Config /\ c.limit <= peak
      BY <1>0, <1>1
    <2>. DEFINE l == [Arrival(i, kind, n) EXCEPT !.cfg = c]
    <2>4. l \in Locals /\ Within(l)
      BY <1>4, <2>1, <2>3
    <2>. HIDE DEF l
    <2>5. Decide(w, l) \/ Goto(w, "store", l)
      BY <2>2 DEF l
    <2>. QED  BY <1>6, <2>1, <2>4, <2>5
  <1>8. ASSUME NEW i \in Instances, NEW n \in Batches, PassUnguarded(w, i, n) PROVE Room'
    <2>. DEFINE l == [Arrival(i, "create", n) EXCEPT !.kind = "passed"]
    <2>1. n \in Nat /\ n \in Batches \cup {0}
      BY LargestBatch
    <2>2. l \in Locals /\ l.batch = n
      BY <2>1, LocalTypes
    <2>3. l.cfg = NoLocals.cfg
      BY DEF Arrival, On, NoLocals
    <2>4. Within(l)
      BY <1>1, <2>1, <2>2, <2>3 DEF Within
    <2>5. Goto(w, "limit", l) /\ count' = count /\ bypassed' = bypassed
      BY <1>8 DEF PassUnguarded, Arrives
    <2>. HIDE DEF l
    <2>. QED  BY <1>6, <2>2, <2>4, <2>5
  <1>9. ASSUME NEW i \in Instances, RegisterRead(w, i) PROVE Room'
    <2>1. 1 \in Batches \cup {0} /\ "create" \in RequestKinds
      BY <1>9 DEF RegisterRead, RequestKinds
    <2>. DEFINE l == [Arrival(i, "create", 1) EXCEPT !.cfg = ConfigOf(doc)]
    <2>2. l \in Locals /\ Within(l)
      BY <1>0, <1>1, <1>4, <2>1
    <2>. DEFINE m == Arrival(i, "create", 1)
    <2>3. m \in Locals /\ m.batch = 1 /\ m.cfg = NoLocals.cfg
      BY <2>1, LocalTypes DEF Arrival, On, NoLocals
    <2>4. Within(m)
      BY <1>1, <2>1, <2>3 DEF Within
    <2>5. /\ count' = count /\ pc[w] = "idle"
          /\ \/ Goto(w, "count", l) /\ bypassed' = bypassed
             \/ Goto(w, "create", m) /\ bypassed' = bypassed + 1
      BY <1>9 DEF RegisterRead, Arrives, At, Bypass
    <2>. HIDE DEF l, m
    <2>6. CASE Goto(w, "count", l) /\ bypassed' = bypassed
      BY <1>6, <2>2, <2>5, <2>6
    <2>7. CASE Goto(w, "create", m) /\ bypassed' = bypassed + 1
      BY <1>a, <2>3, <2>4, <2>5, <2>7
    <2>. QED  BY <2>5, <2>6, <2>7
  <1>10. CASE StoreEntry(w)
    <2>1. Decide(w, loc[w]) /\ count' = count /\ bypassed' = bypassed
      BY <1>10 DEF StoreEntry, creation
    <2>. QED  BY <1>0, <1>1, <1>6, <2>1
  <1>11. CASE LimitConfig(w)
    <2>. DEFINE i == loc[w].instance
    <2>1. i \in Instances /\ pc[w] = "limit"
      BY <1>0, <1>11 DEF LimitConfig, At, Typed, LocsValid
    <2>3. \/ /\ \E c \in {cache[i].cfg, ConfigOf(doc)} :
                    \/ Goto(w, "count", [loc[w] EXCEPT !.cfg = c])
                    \/ Goto(w, "store", [loc[w] EXCEPT !.cfg = c])
             /\ bypassed' = bypassed
          \/ Goto(w, "create", loc[w]) /\ bypassed' = bypassed + loc[w].batch
      BY <1>11 DEF LimitConfig, Bypass
    <2>4. count' = count
      BY <1>11 DEF LimitConfig
    <2>5. CASE Goto(w, "create", loc[w]) /\ bypassed' = bypassed + loc[w].batch
      BY <1>0, <1>1, <1>a, <2>1, <2>4, <2>5
    <2>6. ASSUME NEW c \in {cache[i].cfg, ConfigOf(doc)},
                 bypassed' = bypassed,
                 \/ Goto(w, "count", [loc[w] EXCEPT !.cfg = c])
                 \/ Goto(w, "store", [loc[w] EXCEPT !.cfg = c])
          PROVE  Room'
      <3>1. c \in Config /\ c.limit <= peak
        BY <1>0, <1>1, <2>1
      <3>. DEFINE l == [loc[w] EXCEPT !.cfg = c]
      <3>2. l \in Locals /\ Within(l)
        BY <1>5, <3>1
      <3>3. Goto(w, "count", l) \/ Goto(w, "store", l)
        BY <2>6
      <3>. HIDE DEF l
      <3>. QED  BY <1>6, <2>4, <2>6, <3>2, <3>3
    <2>. QED  BY <2>3, <2>5, <2>6
  <1>12. CASE CheckLimit(w)
    <2>1. /\ count' = count /\ bypassed' = bypassed
          /\ (Goto(w, "create", loc[w]) /\ count < loc[w].cfg.limit) \/ Finish(w)
      BY <1>12 DEF CheckLimit, Below, creation
    <2>2. loc[w].cfg.limit \in Nat /\ loc[w].cfg.limit <= peak
      BY <1>0, <1>1, ConstantTypes DEF Within, Locals, Config
    <2>3. count < loc[w].cfg.limit => count < peak
      BY <1>0, <2>2
    <2>. QED  BY <1>0, <1>1, <1>6, <2>1, <2>3
  <1>13. CASE CountFails(w)
    <2>1. /\ count' = count /\ Goto(w, "create", loc[w])
          /\ bypassed' = bypassed + loc[w].batch /\ pc[w] = "count"
      BY <1>13 DEF CountFails, Bypass, At
    <2>. QED  BY <1>0, <1>1, <1>a, <2>1
  <1>14. CASE CreateDocuments(w)
    <2>1. /\ pc[w] = "create" /\ count' = count + Creating(w) /\ Goto(w, "idle", NoLocals)
          /\ bypassed' = bypassed
      BY <1>14 DEF CreateDocuments, At, Creating, Finish
    <2>. QED  BY <1>0, <1>1, <1>2, <1>3, <2>1, MoveRoom
  <1>. QED  BY <1>7, <1>8, <1>9, <1>10, <1>11, <1>12, <1>13, <1>14 DEF Guarded

(* The largest limit there was covers what a write leaves.                 *)
LEMMA WriteRoom ==
    ASSUME Room, NEW new \in Tenant, new.customer = doc.customer, Write(new)
    PROVE  peak <= peak' /\ doc'.limit <= peak'
  <1>1. doc' \in Tenant /\ peak' \in Nat /\ peak <= peak' /\ (doc.exists => doc'.limit <= peak')
    BY WriteTypes DEF Room
  <1>2. ~doc.exists => doc' = doc /\ peak' = peak
    BY DEF Write
  <1>. QED  BY <1>1, <1>2 DEF Room, LimitsKnown

Plain(l) == l \in Locals /\ l.cfg = NoLocals.cfg /\ l.batch = 0

(* A request that is not about documents goes on, or begins.               *)
LEMMA OtherRoom ==
    ASSUME Room, Typed', NEW w \in Workers, NEW label \in Labels, label # "create",
           NEW l, l = loc[w] \/ Plain(l), Goto(w, label, l),
           peak <= peak', doc'.limit <= peak', cache' = cache \/ Invalidate(w),
           count' = count, bypassed' = bypassed
    PROVE  Room'
  <1>1. /\ loc[w] \in Locals /\ NoLocals \in Locals /\ cache \in [Instances -> CacheEntry]
        /\ peak \in Nat /\ peak' \in Nat /\ Quota["FREE"] \in Nat
    BY LocalsOfWorker, ConstantTypes DEF Room, Typed
  <1>2. Within(NoLocals) /\ NoEntry.cfg.limit = Quota["FREE"] /\ Quota["FREE"] <= peak
    BY DEF Room, LimitsKnown, Within, NoLocals, NoEntry, ConfigOf, NewTenant
  <1>3. l \in Locals /\ Within(l)
    BY <1>1, <1>2 DEF Room, LimitsKnown, Within, Plain
  <1>4. \A i \in Instances : cache'[i].cfg.limit <= peak'
    <2>1. ASSUME NEW i \in Instances PROVE cache'[i] = cache[i] \/ cache'[i] = NoEntry
      BY <1>1 DEF Invalidate, Dropped
    <2>2. ASSUME NEW i \in Instances PROVE cache[i].cfg.limit \in Nat /\ cache[i].cfg.limit <= peak
      BY <1>1, ConstantTypes DEF Room, LimitsKnown, CacheEntry, Config
    <2>. QED  BY <1>1, <1>2, <2>1, <2>2
  <1>. QED  BY <1>3, <1>4, MoveRoom

LEMMA RequestsRoom ==
    ASSUME Room, Typed', NEW w \in Workers,
           \/ Admin(w) /\ UNCHANGED <<creation, billing>>
           \/ (Webhook(w) \/ Checkout(w)) /\ UNCHANGED creation
           \/ Abandon(w)
    PROVE  Room'
  <1>0. /\ Typed /\ doc \in Tenant /\ faults \in Nat /\ peak \in Nat /\ doc.limit <= peak
        /\ events \in Seq(Event) /\ DOMAIN events \subseteq Nat /\ customers \in Nat /\ customers' \in Nat
        /\ {"idle", "apply", "invalidate", "record", "adminInvalidate", "storeCustomer", "session"}
              \subseteq Labels
        /\ Plain(NoLocals)
        /\ UNCHANGED creation => count' = count /\ bypassed' = bypassed
    BY Positions, ConstantTypes
       DEF Room, LimitsKnown, Typed, TypeOK, BillingTypeOK, Labels, Plain, NoLocals, creation
  <1>1. ASSUME NEW i \in Instances
        PROVE  Plain(On(i)) /\ \A e \in Nat : Plain([On(i) EXCEPT !.event = e])
    BY LocalTypes DEF On, NoLocals, Plain
  <1>2. CASE Admin(w) /\ UNCHANGED creation
    <2>1. PICK label, l : label \in {"idle", "adminInvalidate"} /\ Plain(l) /\ Goto(w, label, l)
      BY <1>0, <1>1, <1>2 DEF Admin, AdminUpdate, AdminInvalidate, AdminPlan, AdminDelete, Start, Finish
    <2>2. faults' = faults /\ (cache' = cache \/ Invalidate(w))
      BY <1>2 DEF Admin, AdminUpdate, AdminInvalidate, AdminPlan, AdminDelete, AdminBegins, requests
    <2>3. \/ UNCHANGED <<doc, peak>>
          \/ \E new \in Changes(doc) : Write(new)
          \/ \E p \in Plans : Write(WithPlan(doc, p))
          \/ Write([doc EXCEPT !.exists = FALSE])
      BY <1>2 DEF Admin, AdminUpdate, Update, AdminInvalidate, AdminPlan, AdminDelete
    <2>4. [doc EXCEPT !.exists = FALSE].customer = doc.customer /\ [doc EXCEPT !.exists = FALSE] \in Tenant
      BY <1>0 DEF Tenant
    <2>5. peak <= peak' /\ doc'.limit <= peak'
      <3>1. CASE UNCHANGED <<doc, peak>>
        BY <1>0, <3>1
      <3>2. CASE \E new \in Changes(doc) : Write(new)
        <4>1. Changes(doc) \subseteq Tenant /\ \A new \in Changes(doc) : new.customer = doc.customer
          BY <1>0, TenantTypes
        <4>. QED  BY <3>2, <4>1, WriteRoom
      <3>3. CASE \E p \in Plans : Write(WithPlan(doc, p))
        BY <1>0, <3>3, TenantTypes, WriteRoom
      <3>4. CASE Write([doc EXCEPT !.exists = FALSE])
        BY <2>4, <3>4, WriteRoom
      <3>. QED  BY <2>3, <3>1, <3>2, <3>3, <3>4
    <2>. QED  BY <1>0, <1>2, <2>1, <2>2, <2>5, OtherRoom
  <1>3. CASE Webhook(w) /\ UNCHANGED creation
    <2>1. ASSUME NEW i \in Instances, NEW e \in DOMAIN events, Deliver(w, i, e) PROVE Room'
      <3>1. /\ UNCHANGED <<doc, cache, peak>> /\ (faults' = faults \/ faults' = faults + 1)
            /\ Goto(w, "apply", [On(i) EXCEPT !.event = e])
        BY <2>1 DEF Deliver, Start, FirstStep
      <3>2. Plain([On(i) EXCEPT !.event = e])
        BY <1>0, <1>1
      <3>. QED  BY <1>0, <1>3, <3>1, <3>2, OtherRoom
    <2>2. CASE Apply(w)
      <3>. DEFINE e == events[loc[w].event]
      <3>1. loc[w].event \in DOMAIN events /\ e \in Event
        BY <1>0, <2>2, DocumentAt DEF Apply, At, Typed, LocsValid, InWebhook
      <3>2. IF e.type = "checkout" THEN UNCHANGED <<doc, peak>> ELSE Write(Handled(e))
        BY <2>2 DEF Apply
      <3>3. peak <= peak' /\ doc'.limit <= peak'
        BY <1>0, <3>1, <3>2, HandledTypes, WriteRoom
      <3>4. PICK label \in {"record", "invalidate"} : Goto(w, label, loc[w])
        BY <2>2 DEF Apply
      <3>5. faults' = faults /\ cache' = cache
        BY <2>2 DEF Apply, requests
      <3>. QED  BY <1>0, <1>3, <3>3, <3>4, <3>5, OtherRoom
    <2>3. CASE ApplyNotFound(w) \/ WebhookInvalidate(w) \/ Record(w)
      <3>1. PICK label \in {"idle", "record"}, l \in {loc[w], NoLocals} : Goto(w, label, l)
        BY <2>3 DEF ApplyNotFound, WebhookInvalidate, Record, Finish
      <3>2. UNCHANGED <<doc, peak, faults>> /\ (cache' = cache \/ Invalidate(w))
        BY <2>3 DEF ApplyNotFound, WebhookInvalidate, Record, requests
      <3>. QED  BY <1>0, <1>3, <3>1, <3>2, OtherRoom
    <2>. QED  BY <1>3, <2>1, <2>2, <2>3 DEF Webhook
  <1>4. CASE Checkout(w) /\ UNCHANGED creation
    <2>1. UNCHANGED <<cache, peak>> /\ (faults' = faults \/ faults' = faults + 1)
      BY <1>4 DEF Checkout, CheckoutRead, CheckoutReuse, CheckoutStore, CheckoutSession, requests
    <2>2. doc'.limit = doc.limit /\ (doc'.exists <=> doc.exists)
      BY <1>0, <1>4 DEF Checkout, CheckoutRead, CheckoutReuse, CheckoutStore, CheckoutSession,
                        StoredCustomer, Tenant
    <2>3. PICK label, l :
        /\ label \in {"idle", "storeCustomer", "session"}
        /\ l = loc[w] \/ Plain(l)
        /\ Goto(w, label, l)
      <3>1. ASSUME NEW i \in Instances, CheckoutRead(w, i) \/ CheckoutReuse(w, i)
            PROVE  \E e \in Nat, label \in {"storeCustomer", "session"} :
                      Goto(w, label, [On(i) EXCEPT !.event = e])
        <4>1. doc.customer \in Nat
          BY <1>0 DEF Tenant
        <4>. QED  BY <1>0, <3>1, <4>1 DEF CheckoutRead, CheckoutReuse, Start
      <3>2. ASSUME CheckoutStore(w) \/ CheckoutSession(w)
            PROVE  Goto(w, "session", loc[w]) \/ Goto(w, "idle", NoLocals)
        BY <3>2 DEF CheckoutStore, CheckoutSession, Finish
      <3>3. ASSUME NEW i \in Instances, CheckoutRead(w, i) \/ CheckoutReuse(w, i)
            PROVE  \E label, l : /\ label \in {"idle", "storeCustomer", "session"}
                                 /\ l = loc[w] \/ Plain(l)
                                 /\ Goto(w, label, l)
        <4>1. PICK e \in Nat, label \in {"storeCustomer", "session"} :
                 Goto(w, label, [On(i) EXCEPT !.event = e])
          BY <3>1, <3>3
        <4>2. PICK l : l = [On(i) EXCEPT !.event = e]
          OBVIOUS
        <4>3. Plain(l)
          BY <1>1, <4>2
        <4>4. Goto(w, label, l)
          BY <4>1, <4>2
        <4>. QED  BY <4>3, <4>4
      <3>4. ASSUME CheckoutStore(w) \/ CheckoutSession(w)
            PROVE  \E label, l : /\ label \in {"idle", "storeCustomer", "session"}
                                 /\ l = loc[w] \/ Plain(l)
                                 /\ Goto(w, label, l)
        <4>1. Plain(NoLocals)
          BY <1>0
        <4>. QED  BY <3>2, <3>4, <4>1
      <3>5. \/ \E i \in Instances : CheckoutRead(w, i) \/ CheckoutReuse(w, i)
            \/ CheckoutStore(w) \/ CheckoutSession(w)
        BY <1>4 DEF Checkout
      <3>. QED  BY <3>3, <3>4, <3>5
    <2>. QED  BY <1>0, <1>4, <2>1, <2>2, <2>3, OtherRoom
  <1>5. CASE Abandon(w)
    <2>1. /\ UNCHANGED <<doc, peak, cache, creation>>
          /\ Goto(w, "idle", NoLocals)
      BY <1>5 DEF Abandon, Finish
    <2>. QED  BY <1>0, <2>1, OtherRoom
  <1>. QED  BY <1>2, <1>3, <1>4, <1>5

LEMMA RestRoom ==
    ASSUME Room, Typed',
           \/ Stripe /\ UNCHANGED creation
           \/ \E i \in Instances : Restart(i)
           \/ \E n \in Batches : CreateUncounted(n) /\ UNCHANGED billing
           \/ DeleteDocument /\ UNCHANGED billing
           \/ \E i \in Instances : EntryAges(i) /\ UNCHANGED billing
           \/ UNCHANGED vars
    PROVE  Room'
  <1>1. ASSUME NEW i \in Instances, Restart(i) PROVE Room'
    <2>1. /\ faults \in Nat /\ faults' = faults + 1 /\ UNCHANGED <<doc, peak>>
          /\ loc' = [w \in Workers |-> IF loc[w].instance = i THEN NoLocals ELSE loc[w]]
          /\ cache' = [cache EXCEPT ![i] = NoEntry] /\ cache \in [Instances -> CacheEntry]
      BY <1>1 DEF Restart, Room, Typed, TypeOK
    <2>2. Within(NoLocals) /\ NoEntry.cfg.limit = Quota["FREE"]
      BY DEF Room, LimitsKnown, Within, NoLocals, NoEntry, ConfigOf, NewTenant
    <2>3. \A w \in Workers : Within(loc'[w])
      BY <2>1, <2>2 DEF Room, LimitsKnown
    <2>4. LimitsKnown'
      BY <2>1, <2>2, <2>3 DEF Room, LimitsKnown, Within
    <2>5. SumFunction(Creates') <= SumFunction(Creates)
      <3>. DEFINE f == Creates
                  g == Creates'
      <3>1. f \in [Workers -> Int]
        BY CreatesTypes
      <3>2. \A w \in Workers : Creating(w)' \in {Creating(w), 0}
        BY <1>1 DEF Restart, Creating, Room, Typed, TypeOK
      <3>3. /\ g \in [Workers -> Int] /\ \A w \in Workers : g[w] <= f[w]
        BY <3>2, CreatesTypes DEF Creates
      <3>. HIDE DEF f, g
      <3>4. SumFunction(g) <= SumFunction(f)
        BY <3>1, <3>3, TenantAssumption, SumFunctionMonotone
      <3>. QED  BY <3>4 DEF f, g
    <2>6. SumFunction(Creates') \in Int /\ SumFunction(Creates) \in Int
      <3>1. Creates \in [Workers -> Int]
        BY CreatesTypes
      <3>2. (\A w \in Workers : Creating(w) \in Int)'
        BY <2>4, LargestBatch DEF LimitsKnown, Within, Creating
      <3>3. Creates' \in [Workers -> Int]
        BY <3>2 DEF Creates
      <3>4. PICK f \in [Workers -> Int], g \in [Workers -> Int] : f = Creates /\ g = Creates'
        BY <3>1, <3>3
      <3>5. SumFunction(f) \in Int /\ SumFunction(g) \in Int
        BY TenantAssumption, SumFunctionType
      <3>. QED  BY <3>4, <3>5
    <2>7. PICK p \in Nat : p = Cardinality(Workers) * Max(Batches)
      BY LargestBatch
    <2>8. peak \in Nat /\ bypassed \in Nat /\ count \in Nat /\ count' = count /\ bypassed' = bypassed
      BY <1>1 DEF Restart, creation, Room, Typed, TypeOK, GuardTypeOK
    <2>. QED  BY <2>1, <2>4, <2>5, <2>6, <2>7, <2>8 DEF Room
  <1>2. CASE \/ Stripe /\ UNCHANGED creation
             \/ DeleteDocument /\ UNCHANGED billing
             \/ \E i \in Instances : EntryAges(i) /\ UNCHANGED billing
             \/ UNCHANGED vars
    <2>1. UNCHANGED <<doc, peak, pc, loc, faults>>
      BY <1>2 DEF Stripe, Subscribe, CheckoutCompletes, ChangePlan, PaymentFails, PaymentSucceeds,
                  Lapse, CancelSubscription, Emit, DeleteDocument, EntryAges, vars, requests
    <2>2. /\ count \in Nat /\ count' \in Nat /\ count' <= count
          /\ bypassed \in Nat /\ bypassed' = bypassed
      BY <1>2 DEF Room, Typed, TypeOK, GuardTypeOK, DeleteDocument, EntryAges, creation, vars
    <2>3. \A i \in Instances : cache'[i].cfg = cache[i].cfg
      <3>1. cache \in [Instances -> [cfg : Config, age : {"none", "fresh", "stale"}]]
        BY DEF Room, Typed, TypeOK, CacheEntry
      <3>2. CASE \E i \in Instances : EntryAges(i)
        BY <3>1, <3>2 DEF EntryAges
      <3>3. CASE cache' = cache
        BY <3>3
      <3>. QED  BY <1>2, <3>2, <3>3
                DEF Stripe, Subscribe, CheckoutCompletes, ChangePlan, PaymentFails, PaymentSucceeds,
                    Lapse, CancelSubscription, Emit, DeleteDocument, vars
    <2>4. LimitsKnown'
      BY <2>1, <2>3 DEF Room, LimitsKnown, Within
    <2>5. SumFunction(Creates') = SumFunction(Creates) /\ SumFunction(Creates) \in Int
      <3>1. Creates' = Creates
        BY <2>1 DEF Creates, Creating
      <3>2. Creates \in [Workers -> Int]
        BY CreatesTypes
      <3>. QED  BY <3>1, <3>2, TenantAssumption, SumFunctionType
    <2>6. PICK p \in Nat : p = Cardinality(Workers) * Max(Batches)
      BY LargestBatch
    <2>7. peak \in Nat
      BY DEF Room, Typed
    <2>. QED  BY <2>1, <2>2, <2>4, <2>5, <2>6, <2>7 DEF Room
  <1>3. ASSUME NEW n \in Batches, CreateUncounted(n) PROVE Room'
    <2>1. /\ UNCHANGED <<doc, cache, peak, pc, loc>>
          /\ count' = count + n /\ bypassed' = bypassed + n
      BY <1>3 DEF CreateUncounted, Bypass
    <2>2. LimitsKnown'
      BY <2>1 DEF Room, LimitsKnown, Within
    <2>3. Creates' = Creates /\ SumFunction(Creates) \in Int
      <3>1. Creates' = Creates
        BY <2>1 DEF Creates, Creating
      <3>2. Creates \in [Workers -> Int]
        BY CreatesTypes
      <3>. QED  BY <3>1, <3>2, TenantAssumption, SumFunctionType
    <2>4. PICK p \in Nat : p = Cardinality(Workers) * Max(Batches)
      BY LargestBatch
    <2>5. peak \in Nat /\ count \in Nat /\ bypassed \in Nat /\ n \in Nat
      BY TenantAssumption DEF Room, Typed, TypeOK, GuardTypeOK
    <2>6. count' + SumFunction(Creates) <= peak - 1 + p + bypassed'
      BY <2>1, <2>3, <2>4, <2>5 DEF Room
    <2>. QED  BY <2>1, <2>2, <2>3, <2>4, <2>6 DEF Room
  <1>. QED  BY <1>1, <1>2, <1>3

LEMMA StepRoom == Room /\ [Next]_vars => Room'
  <1>. SUFFICES ASSUME Room, [Next]_vars PROVE Room'
    OBVIOUS
  <1>1. Typed'
    BY StepTyped DEF Room
  <1>2. ASSUME NEW w \in Workers, Guarded(w) PROVE Room'
    BY <1>1, <1>2, GuardedRoom
  <1>3. ASSUME NEW w \in Workers,
               \/ Admin(w) /\ UNCHANGED <<creation, billing>>
               \/ (Webhook(w) \/ Checkout(w)) /\ UNCHANGED creation
               \/ Abandon(w)
        PROVE  Room'
    BY <1>1, <1>3, RequestsRoom
  <1>. QED  BY <1>1, <1>2, <1>3, RestRoom DEF Next

(* However the requests interleave and whatever copies they decide by, the *)
(* documents there are and those about to be created exceed the largest    *)
(* limit the tenant ever had by less than what all requests at a time      *)
(* create, and by what was created with nothing compared: after a failing  *)
(* look-up or count, by a superadmin, on a route without the guard, or by  *)
(* moving an account.                                                      *)
THEOREM LimitOvershootIsBounded == Spec => []LimitOvershootBounded
  <1>1. Room => LimitOvershootBounded
    BY DEF Room, LimitOvershootBounded, Creates
  <1>. QED  BY <1>1, InitRoom, StepRoom, PTL DEF Spec

-----------------------------------------------------------------------------
(* Whose subscription it is.  As long as no two checkouts created a        *)
(* customer each, there is one customer: the checkout that created it is   *)
(* the only one at it until it is stored, the others use what is stored.   *)

Planned == custom \/ (doc.limit = Quota[doc.plan] /\ doc.features = doc.plan)

OneCustomer ==
    /\ sessions \subseteq {doc.customer}
    /\ \A w \in Workers : pc[w] = "session" => loc[w].event = doc.customer
    /\ \A w \in Storing : doc.customer = 0 /\ Storing = {w}

Owned ==
    /\ Typed
    /\ Planned
    /\ Subscribed => stripe.customer \in sessions
    /\ doc.exists => OneCustomer \/ overlapped

LEMMA InitOwned == Init => Owned
  <1>. SUFFICES ASSUME Init PROVE Owned
    OBVIOUS
  <1>1. doc.limit = Quota[doc.plan] /\ doc.features = doc.plan
    BY DEF Init, StoreInit, NewTenant
  <1>2. ~Subscribed /\ OneCustomer
    BY DEF Init, StoreInit, BillingInit, NoSubscription, Subscribed, OneCustomer, Storing
  <1>. QED  BY <1>1, <1>2, InitTyped DEF Owned, Planned

(* What a plan, an event and the administrator do to plan and limits.      *)
LEMMA HandledPlans ==
    ASSUME doc \in Tenant, NEW e \in Event, e.type # "checkout"
    PROVE  /\ Handled(e).exists = doc.exists
           /\ e.type \in {"upsert", "deleted"} =>
                 Handled(e).limit = Quota[Handled(e).plan] /\ Handled(e).features = Handled(e).plan
           /\ e.type \notin {"upsert", "deleted"} =>
                 /\ Handled(e).plan = doc.plan /\ Handled(e).limit = doc.limit
                 /\ Handled(e).features = doc.features
           /\ e.type = "upsert" =>
                 /\ Handled(e).plan = e.sub.plan /\ Handled(e).billing = e.sub.status
                 /\ Handled(e).status = (IF Suspends(e.sub.status) THEN "SUSPENDED" ELSE "ACTIVE")
           /\ e.type = "deleted" => Handled(e).plan = "FREE" /\ Handled(e).status = "ACTIVE"
  <1>1. e.type \in EventTypes
    BY DEF Event
  <1>2. CASE e.type = "upsert"
    <2>1. PICK st : st = (IF Suspends(e.sub.status) THEN "SUSPENDED" ELSE "ACTIVE")
      OBVIOUS
    <2>2. Handled(e) = [WithPlan(doc, e.sub.plan) EXCEPT !.billing = e.sub.status, !.status = st]
      BY <1>2, <2>1 DEF Handled, Upserted
    <2>. QED  BY <1>2, <2>1, <2>2 DEF WithPlan, Tenant
  <1>3. CASE e.type = "deleted"
    <2>1. Handled(e) = Downgraded
      BY <1>3 DEF Handled
    <2>. QED  BY <1>3, <2>1 DEF Downgraded, WithPlan, Tenant
  <1>4. CASE e.type = "failed"
    <2>1. Handled(e) = [doc EXCEPT !.status = "SUSPENDED", !.billing = "PAST_DUE"]
      BY <1>4 DEF Handled
    <2>. QED  BY <1>4, <2>1 DEF Tenant
  <1>5. CASE e.type = "succeeded"
    <2>1. Handled(e) = [doc EXCEPT !.status = "ACTIVE", !.billing = "ACTIVE"]
      BY <1>5 DEF Handled
    <2>. QED  BY <1>5, <2>1 DEF Tenant
  <1>. QED  BY <1>1, <1>2, <1>3, <1>4, <1>5 DEF EventTypes

(* The administrator's requests keep the customer, and plan and limits go  *)
(* together after them unless they are noted as set one by one.            *)
LEMMA AdminOwned ==
    ASSUME Owned, NEW w \in Workers, Admin(w)
    PROVE  /\ Planned' /\ doc'.customer = doc.customer /\ (doc'.exists => doc.exists)
           /\ pc[w] \in {"idle", "adminInvalidate"}
           /\ \E label \in {"idle", "adminInvalidate"} : \E l : Goto(w, label, l)
  <1>0. /\ doc \in Tenant /\ \A p \in Plans : WithPlan(doc, p).limit = Quota[p]
        /\ \A p \in Plans : WithPlan(doc, p).plan = p /\ WithPlan(doc, p).features = p
        /\ \A p \in Plans : WithPlan(doc, p).customer = doc.customer
        /\ \A new \in Changes(doc) : new.customer = doc.customer
    <2>1. doc \in Tenant
      BY DEF Owned, Typed, TypeOK
    <2>2. \A p \in Plans : /\ WithPlan(doc, p).plan = p /\ WithPlan(doc, p).features = p
                           /\ WithPlan(doc, p).limit = Quota[p]
      BY <2>1 DEF WithPlan, Tenant
    <2>. QED  BY <2>1, <2>2, TenantTypes
  <1>1. /\ pc[w] \in {"idle", "adminInvalidate"}
        /\ \E label \in {"idle", "adminInvalidate"} : \E l : Goto(w, label, l)
    BY DEF Admin, AdminUpdate, AdminInvalidate, AdminPlan, AdminDelete, Start, Finish, At
  <1>2. ASSUME NEW i \in Instances, AdminUpdate(w, i)
        PROVE  Planned' /\ doc'.customer = doc.customer /\ (doc'.exists => doc.exists)
    <2>1. PICK new \in Changes(doc) :
              /\ Write(new)
              /\ custom' = (custom \/ ConfigOf(new) # ConfigOf(doc) \/ new.plan # doc.plan)
      BY <1>2 DEF AdminUpdate, Update
    <2>2. doc.exists /\ doc' = new
      BY <1>2, <2>1 DEF AdminUpdate, AdminBegins, Write
    <2>3. ConfigOf(new) = ConfigOf(doc) => new.limit = doc.limit /\ new.features = doc.features
      BY DEF ConfigOf
    <2>4. CASE custom \/ ConfigOf(new) # ConfigOf(doc) \/ new.plan # doc.plan
      <3>1. custom'
        BY <2>1, <2>4
      <3>. QED  BY <1>0, <2>2, <3>1 DEF Planned
    <2>5. CASE ~(custom \/ ConfigOf(new) # ConfigOf(doc) \/ new.plan # doc.plan)
      BY <1>0, <2>2, <2>3, <2>5 DEF Owned, Planned
    <2>. QED  BY <2>4, <2>5
  <1>3. CASE AdminInvalidate(w)
    BY <1>1, <1>3 DEF AdminInvalidate, Owned, Planned
  <1>4. CASE AdminPlan(w)
    <2>1. PICK p \in Plans : doc' = WithPlan(doc, p)
      BY <1>4 DEF AdminPlan, AdminBegins, Write
    <2>. QED  BY <1>0, <1>1, <1>4, <2>1 DEF AdminPlan, AdminBegins, Planned
  <1>5. CASE AdminDelete(w)
    <2>1. doc' = [doc EXCEPT !.exists = FALSE]
      BY <1>5 DEF AdminDelete, AdminBegins, Write
    <2>. QED  BY <1>0, <1>1, <1>5, <2>1 DEF AdminDelete, Owned, Planned, Tenant
  <1>. QED  BY <1>1, <1>2, <1>3, <1>4, <1>5 DEF Admin

(* A request that creates no customer goes on.                             *)
LEMMA OwnedMoves ==
    ASSUME Owned, Typed', NEW w \in Workers,
           \A v \in Workers : v # w => pc'[v] = pc[v] /\ loc'[v] = loc[v],
           pc'[w] # "storeCustomer", pc'[w] = "session" => loc'[w].event = doc.customer,
           Planned', doc'.customer = doc.customer, doc'.exists => doc.exists,
           UNCHANGED <<sessions, stripe, overlapped>>
    PROVE  Owned'
  <1>1. Storing' \subseteq Storing
    BY DEF Storing
  <1>2. OneCustomer => OneCustomer'
    BY <1>1 DEF OneCustomer, Storing
  <1>. QED  BY <1>2 DEF Owned, Subscribed

LEMMA CheckoutOwned ==
    ASSUME Owned, Typed', NEW w \in Workers, Checkout(w)
    PROVE  Owned'
  <1>0. /\ doc \in Tenant /\ pc \in [Workers -> Labels] /\ loc \in [Workers -> Locals]
        /\ sessions \subseteq 1..customers /\ customers \in Nat
        /\ \A v \in Workers : pc[v] = "session" => loc[v].event \in 1..customers
        /\ doc.customer \in Nat
    BY DEF Owned, Typed, TypeOK, BillingTypeOK, LocsValid, InCheckout, Tenant
  <1>1. ASSUME NEW i \in Instances, CheckoutRead(w, i) PROVE Owned'
    <2>1. /\ UNCHANGED <<doc, custom, sessions, stripe>> /\ doc.customer = 0
          /\ overlapped' = (overlapped \/ Storing # {})
          /\ pc' = [pc EXCEPT ![w] = "storeCustomer"]
          /\ \A v \in Workers : v # w => loc'[v] = loc[v]
      BY <1>0, <1>1 DEF CheckoutRead, Start, Goto
    <2>2. Planned' /\ (Subscribed' => stripe'.customer \in sessions')
      BY <2>1 DEF Owned, Planned, Subscribed
    <2>3. CASE Storing # {}
      BY <2>1, <2>2, <2>3 DEF Owned
    <2>4. CASE Storing = {}
      <3>1. Storing' = {w}
        BY <1>0, <2>1, <2>4 DEF Storing
      <3>2. OneCustomer => OneCustomer'
        BY <1>0, <2>1, <3>1 DEF OneCustomer
      <3>. QED  BY <2>1, <2>2, <3>2 DEF Owned
    <2>. QED  BY <2>3, <2>4
  <1>2. ASSUME NEW i \in Instances, CheckoutReuse(w, i) PROVE Owned'
    <2>. DEFINE l == [On(i) EXCEPT !.event = doc.customer]
    <2>1. l.event = doc.customer
      BY <1>0, LocalTypes
    <2>2. Goto(w, "session", l) /\ UNCHANGED <<doc, custom, sessions, stripe, overlapped>>
      BY <1>2 DEF CheckoutReuse, Start, billing
    <2>. HIDE DEF l
    <2>3. /\ \A v \in Workers : v # w => pc'[v] = pc[v] /\ loc'[v] = loc[v]
          /\ pc'[w] = "session" /\ loc'[w] = l
      BY <1>0, <2>2 DEF Goto
    <2>. QED  BY <2>1, <2>2, <2>3, OwnedMoves DEF Owned, Planned
  <1>3. CASE CheckoutStore(w)
    <2>1. /\ pc[w] = "storeCustomer" /\ pc'[w] = "session" /\ loc'[w] = loc[w]
          /\ \A v \in Workers : v # w => pc'[v] = pc[v] /\ loc'[v] = loc[v]
          /\ UNCHANGED <<custom, sessions, stripe>>
      BY <1>0, <1>3 DEF CheckoutStore, At, Goto
    <2>2. \/ doc' = StoredCustomer(loc[w].event) /\ overlapped' = overlapped
          \/ doc' = doc /\ overlapped' = TRUE
      BY <1>3 DEF CheckoutStore
    <2>3. CASE doc' = doc /\ overlapped' = TRUE
      BY <2>1, <2>3 DEF Owned, Planned, Subscribed
    <2>4. CASE doc' = StoredCustomer(loc[w].event) /\ overlapped' = overlapped
      <3>1. /\ doc'.limit = doc.limit /\ doc'.plan = doc.plan /\ doc'.features = doc.features
            /\ (doc'.exists <=> doc.exists)
            /\ doc.exists => doc'.customer = loc[w].event
        BY <1>0, <2>4 DEF StoredCustomer, Tenant
      <3>2. Planned' /\ (Subscribed' => stripe'.customer \in sessions')
        BY <2>1, <3>1 DEF Owned, Planned, Subscribed
      <3>3. ASSUME OneCustomer, doc.exists PROVE OneCustomer'
        <4>1. doc.customer = 0 /\ Storing = {w}
          BY <2>1, <3>3 DEF OneCustomer, Storing
        <4>2. sessions = {} /\ \A v \in Workers : pc[v] # "session"
          BY <1>0, <3>3, <4>1 DEF OneCustomer
        <4>3. Storing' = {}
          BY <2>1, <4>1 DEF Storing
        <4>4. \A v \in Workers : pc'[v] = "session" => v = w
          BY <2>1, <4>2
        <4>. QED  BY <2>1, <3>1, <3>3, <4>2, <4>3, <4>4 DEF OneCustomer
      <3>. QED  BY <2>4, <3>1, <3>2, <3>3 DEF Owned
    <2>. QED  BY <2>2, <2>3, <2>4
  <1>4. CASE CheckoutSession(w)
    <2>1. /\ pc[w] = "session" /\ pc'[w] = "idle"
          /\ \A v \in Workers : v # w => pc'[v] = pc[v] /\ loc'[v] = loc[v]
          /\ UNCHANGED <<doc, custom, stripe, overlapped>> /\ sessions' = sessions \cup {loc[w].event}
      BY <1>0, <1>4 DEF CheckoutSession, At, Finish, Goto
    <2>2. Planned' /\ (Subscribed' => stripe'.customer \in sessions')
      BY <2>1 DEF Owned, Planned, Subscribed
    <2>3. Storing' = Storing
      BY <2>1 DEF Storing
    <2>4. OneCustomer => OneCustomer'
      <3>. SUFFICES ASSUME OneCustomer PROVE OneCustomer'
        OBVIOUS
      <3>1. loc[w].event = doc.customer
        BY <2>1 DEF OneCustomer
      <3>. QED  BY <2>1, <2>3, <3>1 DEF OneCustomer
    <2>. QED  BY <2>1, <2>2, <2>4 DEF Owned
  <1>. QED  BY <1>1, <1>2, <1>3, <1>4 DEF Checkout

LEMMA WebhookOwned ==
    ASSUME Owned, Typed', NEW w \in Workers, Webhook(w)
    PROVE  Owned'
  <1>0. /\ doc \in Tenant /\ pc \in [Workers -> Labels] /\ loc \in [Workers -> Locals]
        /\ events \in Seq(Event)
    BY DEF Owned, Typed, TypeOK, BillingTypeOK
  <1>1. /\ \A v \in Workers : v # w => pc'[v] = pc[v] /\ loc'[v] = loc[v]
        /\ pc'[w] \in {"idle", "apply", "invalidate", "record"}
        /\ UNCHANGED <<sessions, stripe, overlapped>>
    BY <1>0 DEF Webhook, Deliver, Start, FirstStep, Apply, ApplyNotFound, WebhookInvalidate, Record,
                Finish, Goto, billing
  <1>2. Planned' /\ doc'.customer = doc.customer /\ (doc'.exists => doc.exists)
    <2>1. CASE Apply(w)
      <3>. DEFINE e == events[loc[w].event]
      <3>1. loc[w].event \in DOMAIN events /\ e \in Event
        BY <1>0, <2>1, DocumentAt DEF Apply, At, Owned, Typed, LocsValid, InWebhook
      <3>2. CASE e.type = "checkout"
        <4>1. doc' = doc /\ custom' = (custom /\ e.type \notin {"upsert", "deleted"})
          BY <2>1, <3>2 DEF Apply
        <4>2. e.type \notin {"upsert", "deleted"}
          BY <3>2
        <4>. QED  BY <4>1, <4>2 DEF Owned, Planned
      <3>3. CASE e.type # "checkout"
        <4>1. doc.exists /\ doc' = Handled(e) /\ custom' = (custom /\ e.type \notin {"upsert", "deleted"})
          BY <2>1, <3>3 DEF Apply, TenantFound, Write
        <4>2. Planned'
          <5>1. CASE e.type \in {"upsert", "deleted"}
            BY <1>0, <3>1, <3>3, <4>1, <5>1, HandledPlans DEF Planned
          <5>2. CASE e.type \notin {"upsert", "deleted"}
            BY <1>0, <3>1, <3>3, <4>1, <5>2, HandledPlans DEF Owned, Planned
          <5>. QED  BY <5>1, <5>2
        <4>. QED  BY <1>0, <3>1, <3>3, <4>1, <4>2, HandledTypes
      <3>. QED  BY <3>2, <3>3
    <2>2. CASE ~Apply(w)
      <3>1. UNCHANGED <<doc, custom>>
        BY <2>2 DEF Webhook, Deliver, ApplyNotFound, WebhookInvalidate, Record
      <3>. QED  BY <3>1 DEF Owned, Planned
    <2>. QED  BY <2>1, <2>2
  <1>. QED  BY <1>1, <1>2, OwnedMoves

LEMMA StepOwned == Owned /\ [Next]_vars => Owned'
  <1>. SUFFICES ASSUME Owned, [Next]_vars PROVE Owned'
    OBVIOUS
  <1>0. Typed' /\ Typed /\ pc \in [Workers -> Labels] /\ loc \in [Workers -> Locals]
    BY StepTyped DEF Owned, Typed, TypeOK
  <1>1. ASSUME NEW w \in Workers, Admin(w), UNCHANGED billing PROVE Owned'
    <2>1. /\ Planned' /\ doc'.customer = doc.customer /\ (doc'.exists => doc.exists)
          /\ \E label \in {"idle", "adminInvalidate"} : \E l : Goto(w, label, l)
      BY <1>1, AdminOwned
    <2>2. /\ \A v \in Workers : v # w => pc'[v] = pc[v] /\ loc'[v] = loc[v]
          /\ pc'[w] \in {"idle", "adminInvalidate"}
      BY <1>0, <2>1 DEF Goto
    <2>. QED  BY <1>0, <1>1, <2>1, <2>2, OwnedMoves DEF billing
  <1>2. ASSUME NEW w \in Workers, Guarded(w), UNCHANGED billing PROVE Owned'
    <2>1. PICK label \in {"idle", "store", "limit", "count", "create"}, l \in Locals : Goto(w, label, l)
      BY <1>0, <1>2, GuardedMoves
    <2>2. UNCHANGED <<doc, custom>>
      BY <1>0, <1>2, GuardedWrites
    <2>3. /\ \A v \in Workers : v # w => pc'[v] = pc[v] /\ loc'[v] = loc[v]
          /\ pc'[w] \in {"idle", "store", "limit", "count", "create"}
      BY <1>0, <2>1 DEF Goto
    <2>. QED  BY <1>0, <1>2, <2>2, <2>3, OwnedMoves DEF billing, Owned, Planned
  <1>3. ASSUME NEW w \in Workers, Webhook(w) \/ Checkout(w) PROVE Owned'
    BY <1>0, <1>3, WebhookOwned, CheckoutOwned
  <1>4. CASE Stripe
    <2>1. PICK sub \in Subscription, n \in {1, 2} : \E types \in [1..n -> EventTypes] :
              /\ Emit(sub, types)
              /\ sub.customer \in sessions \/ (Subscribed /\ sub.customer = stripe.customer)
      BY <1>0, <1>4, StripeEmits
    <2>2. UNCHANGED <<doc, custom, pc, loc, sessions, overlapped>> /\ stripe' = sub
      BY <2>1 DEF Emit
    <2>. QED  BY <1>0, <2>1, <2>2 DEF Owned, Planned, OneCustomer, Storing, Subscribed
  <1>5. ASSUME NEW w \in Workers, Abandon(w) PROVE Owned'
    <2>1. /\ \A v \in Workers : v # w => pc'[v] = pc[v] /\ loc'[v] = loc[v]
          /\ pc'[w] = "idle" /\ UNCHANGED <<doc, custom, billing>>
      BY <1>0, <1>5 DEF Abandon, Finish, Goto
    <2>. QED  BY <1>0, <2>1, OwnedMoves DEF billing, Owned, Planned
  <1>6. ASSUME NEW i \in Instances, Restart(i) PROVE Owned'
    <2>1. /\ \A v \in Workers : pc'[v] \in {"storeCustomer", "session"} => pc'[v] = pc[v] /\ loc'[v] = loc[v]
          /\ UNCHANGED <<doc, custom, stripe, sessions, overlapped>>
      BY <1>6 DEF Restart, billing
    <2>2. Storing' \subseteq Storing
      BY <2>1 DEF Storing
    <2>3. OneCustomer => OneCustomer'
      BY <2>1, <2>2 DEF OneCustomer, Storing
    <2>. QED  BY <1>0, <2>1, <2>3 DEF Owned, Planned, Subscribed
  <1>7. CASE \/ DeleteDocument /\ UNCHANGED billing
             \/ \E n \in Batches : CreateUncounted(n) /\ UNCHANGED billing
             \/ \E i \in Instances : EntryAges(i) /\ UNCHANGED billing
             \/ UNCHANGED vars
    <2>1. UNCHANGED <<doc, custom, pc, loc, stripe, sessions, overlapped>>
      BY <1>7 DEF DeleteDocument, CreateUncounted, EntryAges, vars, billing
    <2>. QED  BY <1>0, <2>1 DEF Owned, Planned, OneCustomer, Storing, Subscribed
  <1>. QED  BY <1>1, <1>2, <1>3, <1>4, <1>5, <1>6, <1>7 DEF Next

(* Everything has its type; plan, limits and features go together unless   *)
(* they were set one by one; and the subscription belongs to the customer  *)
(* of the document unless two checkouts created a customer each.           *)
THEOREM TenancyIsWellFormed == Spec => []TenancyWellFormed
  <1>1. Owned => TenancyWellFormed
    <2>1. Owned /\ Subscribed /\ doc.exists => doc.customer = stripe.customer \/ overlapped
      BY DEF Owned, OneCustomer
    <2>. QED  BY <2>1 DEF Owned, Planned, TenancyWellFormed, Typed
  <1>. QED  BY <1>1, InitOwned, StepOwned, PTL DEF Spec

-----------------------------------------------------------------------------
(* In order.  The last thing Stripe said other than of a checkout is how   *)
(* the subscription stands; and the document is as the last such event     *)
(* that was applied left it.                                               *)

Decides(e) == e.type \in {"upsert", "deleted"}

Agrees(d, e) ==
    IF e.type = "upsert"
    THEN /\ d.plan = e.sub.plan
         /\ d.billing = e.sub.status
         /\ d.status = (IF Suspends(e.sub.status) THEN "SUSPENDED" ELSE "ACTIVE")
    ELSE d.plan = "FREE" /\ d.status = "ACTIVE"

LastWord(k) ==
    /\ Decides(events[k])
    /\ events[k].type = "upsert" <=> Subscribed
    /\ events[k].type = "upsert" => events[k].sub = stripe
    /\ \A j \in DOMAIN events : j > k => events[j].type = "checkout"

LastApplied(k) ==
    /\ Decides(events[k]) /\ applied[k] > 0
    /\ \A j \in DOMAIN events : j > k /\ applied[j] > 0 => events[j].type = "checkout"

Followed == \A k \in DOMAIN events : LastApplied(k) => Agrees(doc, events[k])

InOrder ==
    /\ Typed
    /\ DOMAIN events = {} => ~Subscribed
    /\ DOMAIN events # {} => \E k \in DOMAIN events : LastWord(k)
    /\ ~administered => doc.exists /\ (overtaken \/ Followed)

LEMMA InitInOrder == Init => InOrder
  <1>. SUFFICES ASSUME Init PROVE InOrder
    OBVIOUS
  <1>1. DOMAIN events = {}
    BY EmptySeq DEF Init, BillingInit
  <1>2. ~Subscribed /\ doc.exists
    BY DEF Init, StoreInit, BillingInit, NoSubscription, Subscribed, NewTenant
  <1>. QED  BY <1>1, <1>2, InitTyped DEF InOrder, Followed

(* What the document says of the subscription stays, or the administrator  *)
(* changed it.                                                             *)
LEMMA QuietInOrder ==
    ASSUME InOrder, Typed', UNCHANGED <<events, applied, stripe, overtaken>>,
           ~administered' => /\ ~administered
                             /\ doc'.plan = doc.plan /\ doc'.billing = doc.billing
                             /\ doc'.status = doc.status /\ (doc.exists => doc'.exists)
    PROVE  InOrder'
  <1>1. ASSUME ~administered' PROVE Followed => Followed'
    BY <1>1 DEF Followed, LastApplied, Agrees
  <1>2. \A k \in DOMAIN events : LastWord(k) => LastWord(k)'
    BY DEF LastWord, Subscribed
  <1>. QED  BY <1>1, <1>2 DEF InOrder, Subscribed

LEMMA ApplyInOrder ==
    ASSUME InOrder, Typed', NEW w \in Workers, Apply(w)
    PROVE  InOrder'
  <1>. DEFINE k == loc[w].event
              e == events[k]
  <1>1. k \in DOMAIN events /\ e \in Event /\ doc \in Tenant /\ events \in Seq(Event)
        /\ applied \in [DOMAIN events -> Nat] /\ DOMAIN events \subseteq Nat
    BY DocumentAt, Positions
       DEF InOrder, Apply, At, Typed, TypeOK, BillingTypeOK, LocsValid, InWebhook
  <1>2. /\ UNCHANGED <<events, stripe, administered>>
        /\ applied' = [applied EXCEPT ![k] = @ + 1]
        /\ overtaken' = (overtaken \/ \E l \in DOMAIN events : l > k /\ applied[l] > 0)
        /\ TenantFound(e)
        /\ IF e.type = "checkout" THEN doc' = doc ELSE Write(Handled(e))
    BY DEF Apply, requests
  <1>. HIDE DEF e
  <1>3. applied'[k] = applied[k] + 1 /\ \A j \in DOMAIN events : j # k => applied'[j] = applied[j]
    BY <1>1, <1>2
  <1>4. (\A j \in DOMAIN events : LastWord(j) => LastWord(j)') /\ Subscribed' = Subscribed
    BY <1>2 DEF LastWord, Subscribed
  <1>5. ~overtaken' => ~overtaken /\ \A l \in DOMAIN events : l > k => ~(applied[l] > 0)
    BY <1>2
  <1>6. ASSUME ~administered', ~overtaken'
        PROVE  doc'.exists /\ Followed'
    <2>1. doc.exists /\ Followed
      BY <1>2, <1>5, <1>6 DEF InOrder
    <2>2. CASE e.type = "checkout"
      <3>1. ASSUME NEW j \in DOMAIN events, LastApplied(j)' PROVE Agrees(doc, events[j])
        <4>1. Decides(events[j]) /\ applied'[j] > 0
          BY <1>2, <3>1 DEF LastApplied
        <4>2. j # k
          BY <2>2, <4>1 DEF Decides, e
        <4>3. applied[j] > 0
          BY <1>3, <4>1, <4>2
        <4>4. ASSUME NEW l \in DOMAIN events, l > j, applied[l] > 0
              PROVE  events[l].type = "checkout"
          <5>1. applied'[l] > 0
            BY <1>1, <1>3, <4>4
          <5>. QED  BY <1>2, <3>1, <4>4, <5>1 DEF LastApplied
        <4>. QED  BY <2>1, <4>1, <4>3, <4>4 DEF Followed, LastApplied
      <3>. QED  BY <1>2, <2>1, <2>2, <3>1 DEF Followed
    <2>3. CASE e.type # "checkout"
      <3>1. doc' = Handled(e) /\ doc'.exists
        BY <1>1, <1>2, <2>1, <2>3, HandledPlans DEF Write
      <3>2. ASSUME NEW j \in DOMAIN events, LastApplied(j)' PROVE Agrees(doc', events[j])
        <4>1. /\ Decides(events[j]) /\ applied'[j] > 0
              /\ \A l \in DOMAIN events : l > j /\ applied'[l] > 0 => events[l].type = "checkout"
          BY <1>2, <3>2 DEF LastApplied
        <4>2. applied'[k] > 0
          BY <1>1, <1>3
        <4>3. ~(k > j)
          BY <1>1, <2>3, <4>1, <4>2 DEF e
        <4>4. j > k => applied[j] > 0
          BY <1>1, <1>3, <4>1
        <4>5. j = k
          BY <1>1, <1>5, <1>6, <4>3, <4>4
        <4>. QED  BY <1>1, <2>3, <3>1, <4>1, <4>5, HandledPlans DEF Agrees, Decides, e
      <3>. QED  BY <1>2, <3>1, <3>2 DEF Followed
    <2>. QED  BY <2>2, <2>3
  <1>7. ASSUME ~administered' PROVE doc'.exists
    <2>1. doc.exists
      BY <1>2, <1>7 DEF InOrder
    <2>. QED  BY <1>1, <1>2, <2>1, HandledPlans DEF Write
  <1>. QED  BY <1>2, <1>4, <1>6, <1>7 DEF InOrder

LEMMA StripeInOrder ==
    ASSUME InOrder, Typed', Stripe
    PROVE  InOrder'
  <1>1. PICK sub \in Subscription, n \in {1, 2} : \E types \in [1..n -> EventTypes] :
              /\ Emit(sub, types)
              /\ \/ n = 1 /\ types[1] = "checkout" /\ Subscribed /\ sub = stripe
                 \/ types[n] = "upsert" /\ sub.status # "NONE"
                 \/ types[n] = "deleted" /\ sub.status = "NONE"
    BY StripeEmits DEF InOrder
  <1>2. PICK types \in [1..n -> EventTypes] :
              /\ Emit(sub, types)
              /\ \/ n = 1 /\ types[1] = "checkout" /\ Subscribed /\ sub = stripe
                 \/ types[n] = "upsert" /\ sub.status # "NONE"
                 \/ types[n] = "deleted" /\ sub.status = "NONE"
    BY <1>1
  <1>3. n \in Nat /\ n >= 1 /\ n \in 1..n
    OBVIOUS
  <1>4. /\ Len(events) \in Nat /\ DOMAIN events = 1..Len(events)
        /\ DOMAIN events' = 1..(Len(events) + n)
        /\ \A k \in DOMAIN events : events'[k] = events[k] /\ applied'[k] = applied[k]
        /\ \A j \in 1..n : /\ events'[Len(events) + j].type = types[j]
                           /\ types[j] # "checkout" => events'[Len(events) + j].sub = sub
                           /\ applied'[Len(events) + j] = 0
        /\ stripe' = sub
        /\ UNCHANGED <<doc, requests, overtaken>>
    BY <1>2, <1>3, EmitFacts DEF InOrder
  <1>5. administered' = administered
    BY <1>4 DEF requests
  <1>6. PICK m \in Nat : m = Len(events)
    BY <1>4
  <1>7. \A k \in DOMAIN events' : k \in DOMAIN events \/ \E j \in 1..n : k = m + j
    <2>. SUFFICES ASSUME NEW k \in DOMAIN events', k \notin DOMAIN events
                  PROVE  \E j \in 1..n : k = m + j
      OBVIOUS
    <2>1. k - m \in 1..n /\ k = m + (k - m)
      BY <1>3, <1>4, <1>6
    <2>. QED  BY <2>1
  <1>8. \E k \in DOMAIN events' : LastWord(k)'
    <2>1. CASE n = 1 /\ types[1] = "checkout" /\ Subscribed /\ sub = stripe
      <3>1. PICK k \in DOMAIN events : LastWord(k)
        BY <2>1 DEF InOrder
      <3>2. Subscribed' = Subscribed /\ events'[k] = events[k] /\ k \in DOMAIN events'
        BY <1>4, <2>1, <3>1 DEF Subscribed
      <3>3. events'[m + 1].type = "checkout" /\ 1 \in 1..n
        BY <1>3, <1>4, <1>6, <2>1
      <3>4. ASSUME NEW j \in DOMAIN events', j > k PROVE events'[j].type = "checkout"
        <4>1. CASE j \in DOMAIN events
          BY <1>4, <3>1, <3>4, <4>1 DEF LastWord
        <4>2. CASE j \notin DOMAIN events
          <5>1. PICK i \in 1..n : j = m + i
            BY <1>7, <4>2
          <5>2. i = 1
            BY <2>1, <5>1
          <5>. QED  BY <3>3, <5>1, <5>2
        <4>. QED  BY <4>1, <4>2
      <3>. QED  BY <1>4, <2>1, <3>1, <3>2, <3>4 DEF LastWord
    <2>2. CASE \/ types[n] = "upsert" /\ sub.status # "NONE"
               \/ types[n] = "deleted" /\ sub.status = "NONE"
      <3>1. m + n \in DOMAIN events' /\ events'[m + n].type = types[n] /\ events'[m + n].sub = sub
        BY <1>3, <1>4, <1>6, <2>2
      <3>2. \A j \in DOMAIN events' : ~(j > m + n)
        BY <1>3, <1>4, <1>6
      <3>. QED  BY <1>4, <2>2, <3>1, <3>2 DEF LastWord, Decides, Subscribed
    <2>. QED  BY <1>2, <2>1, <2>2
  <1>9. Followed => Followed'
    <2>. SUFFICES ASSUME Followed, NEW k \in DOMAIN events', LastApplied(k)'
                  PROVE  Agrees(doc, events'[k])
      BY <1>4 DEF Followed
    <2>1. k \in DOMAIN events
      <3>1. applied'[k] > 0
        BY DEF LastApplied
      <3>. QED  BY <1>4, <1>6, <1>7, <3>1
    <2>2. DOMAIN events \subseteq DOMAIN events'
      BY <1>3, <1>4
    <2>3. Decides(events[k]) /\ applied[k] > 0
      BY <1>4, <2>1 DEF LastApplied
    <2>4. \A j \in DOMAIN events : j > k /\ applied[j] > 0 => events[j].type = "checkout"
      BY <1>4, <2>2 DEF LastApplied
    <2>. QED  BY <1>4, <2>1, <2>3, <2>4 DEF Followed, LastApplied
  <1>10. DOMAIN events' # {}
    BY <1>8
  <1>. QED  BY <1>4, <1>5, <1>8, <1>9, <1>10 DEF InOrder

LEMMA StepInOrder == InOrder /\ [Next]_vars => InOrder'
  <1>. SUFFICES ASSUME InOrder, [Next]_vars PROVE InOrder'
    OBVIOUS
  <1>0. Typed' /\ Typed /\ doc \in Tenant
    BY StepTyped DEF InOrder, Typed, TypeOK
  <1>1. ASSUME NEW w \in Workers, Admin(w), UNCHANGED billing PROVE InOrder'
    <2>1. administered' = TRUE \/ (doc' = doc /\ administered' = administered)
      BY <1>1 DEF Admin, AdminUpdate, AdminInvalidate, AdminPlan, AdminDelete, AdminBegins, requests
    <2>. QED  BY <1>0, <1>1, <2>1, QuietInOrder DEF billing
  <1>2. ASSUME NEW w \in Workers, Guarded(w), UNCHANGED billing PROVE InOrder'
    <2>1. UNCHANGED <<doc, administered>>
      BY <1>0, <1>2, GuardedWrites
    <2>. QED  BY <1>0, <1>2, <2>1, QuietInOrder DEF billing
  <1>3. ASSUME NEW w \in Workers, Webhook(w) PROVE InOrder'
    <2>1. CASE Apply(w)
      BY <1>0, <2>1, ApplyInOrder
    <2>2. CASE ~Apply(w)
      <3>1. UNCHANGED <<doc, administered, events, applied, stripe, overtaken>>
        BY <1>3, <2>2 DEF Webhook, Deliver, ApplyNotFound, WebhookInvalidate, Record, requests, billing
      <3>. QED  BY <1>0, <3>1, QuietInOrder
    <2>. QED  BY <2>1, <2>2
  <1>4. ASSUME NEW w \in Workers, Checkout(w) PROVE InOrder'
    <2>1. UNCHANGED <<administered, events, applied, stripe, overtaken>>
      BY <1>4 DEF Checkout, CheckoutRead, CheckoutReuse, CheckoutStore, CheckoutSession, requests, billing
    <2>2. /\ doc'.plan = doc.plan /\ doc'.billing = doc.billing
          /\ doc'.status = doc.status /\ doc'.exists = doc.exists
      BY <1>0, <1>4 DEF Checkout, CheckoutRead, CheckoutReuse, CheckoutStore, CheckoutSession,
                        StoredCustomer, Tenant
    <2>. QED  BY <1>0, <2>1, <2>2, QuietInOrder
  <1>5. CASE Stripe
    BY <1>0, <1>5, StripeInOrder
  <1>6. CASE \/ \E w \in Workers : Abandon(w)
             \/ \E i \in Instances : Restart(i)
             \/ \E n \in Batches : CreateUncounted(n) /\ UNCHANGED billing
             \/ DeleteDocument /\ UNCHANGED billing
             \/ \E i \in Instances : EntryAges(i) /\ UNCHANGED billing
             \/ UNCHANGED vars
    <2>1. UNCHANGED <<doc, administered, events, applied, stripe, overtaken>>
      BY <1>6 DEF Abandon, Restart, DeleteDocument, CreateUncounted, EntryAges, vars, billing, requests
    <2>. QED  BY <1>0, <2>1, QuietInOrder
  <1>. QED  BY <1>1, <1>2, <1>3, <1>4, <1>5, <1>6 DEF Next

(* When Stripe's events were applied in the order they were generated and  *)
(* the administrator changed nothing, the document has Stripe's view of    *)
(* the subscription once everything was applied.                           *)
THEOREM InOrderAlwaysAgrees == Spec => []InOrderAgrees
  <1>1. InOrder => InOrderAgrees
    <2>. SUFFICES ASSUME InOrder, ~overtaken, ~administered, events # <<>>,
                         \A e \in DOMAIN events : applied[e] > 0
                  PROVE  IF Subscribed
                         THEN /\ doc.plan = stripe.plan
                              /\ doc.billing = stripe.status
                              /\ doc.status = (IF Suspends(stripe.status) THEN "SUSPENDED" ELSE "ACTIVE")
                         ELSE doc.plan = "FREE" /\ doc.status = "ACTIVE"
      BY DEF InOrderAgrees
    <2>1. DOMAIN events # {}
      <3>1. events \in Seq(Event)
        BY DEF InOrder, Typed, TypeOK, BillingTypeOK
      <3>. QED  BY <3>1, EmptySeq, LenProperties
    <2>2. PICK k \in DOMAIN events : LastWord(k)
      BY <2>1 DEF InOrder
    <2>3. LastApplied(k)
      BY <2>2 DEF LastWord, LastApplied
    <2>4. Agrees(doc, events[k])
      BY <2>3 DEF InOrder, Followed
    <2>. QED  BY <2>2, <2>4 DEF LastWord, Agrees, Decides
  <1>. QED  BY <1>1, InitInOrder, StepInOrder, PTL DEF Spec

=============================================================================
