------------------------------ MODULE Tenancy -------------------------------
(***************************************************************************)
(* The tenant document with everything that reads and writes it: the       *)
(* administrator, Stripe's webhooks, and the guards of the users' requests *)
(* with the caches they read.                                              *)
(***************************************************************************)
EXTENDS TenantGuard, Billing, Functions

vars == <<doc, cache, clean, peak, custom, pc, loc, requests, creation, billing>>

TypeOK ==
    /\ doc \in Tenant
    /\ cache \in [Instances -> CacheEntry]
    /\ pc \in [Workers -> Labels]
    /\ loc \in [Workers -> Locals]
    /\ GuardTypeOK
    /\ BillingTypeOK

Init ==
    /\ StoreInit
    /\ count = 0
    /\ bypassed = 0
    /\ BillingInit

-----------------------------------------------------------------------------
(* A call fails and the request ends where it stands.                      *)
Abandon(w) ==
    /\ MayFail
    /\ faults < MaxFaults
    /\ ~At(w, "idle")
    /\ faults' = faults + 1
    /\ Finish(w)
    /\ UNCHANGED <<doc, cache, clean, peak, custom, administered, started, creation, billing>>

(* A process is restarted: its requests end and its cache is empty.        *)
Restart(i) ==
    /\ MayFail
    /\ faults < MaxFaults
    /\ faults' = faults + 1
    /\ pc' = [w \in Workers |-> IF loc[w].instance = i THEN "idle" ELSE pc[w]]
    /\ loc' = [w \in Workers |-> IF loc[w].instance = i THEN NoLocals ELSE loc[w]]
    /\ cache' = [cache EXCEPT ![i] = NoEntry]
    /\ UNCHANGED <<doc, clean, peak, custom, administered, started, creation, billing>>

Next ==
    \/ \E w \in Workers :
          \/ Admin(w) /\ UNCHANGED <<creation, billing>>
          \/ Guarded(w) /\ UNCHANGED billing
          \/ (Webhook(w) \/ Checkout(w)) /\ UNCHANGED creation
          \/ Abandon(w)
    \/ Stripe /\ UNCHANGED creation
    \/ \E n \in Batches : CreateUncounted(n) /\ UNCHANGED billing
    \/ DeleteDocument /\ UNCHANGED billing
    \/ \E i \in Instances : EntryAges(i) /\ UNCHANGED billing
    \/ \E i \in Instances : Restart(i)

(* Requests under way go on, and time passes: an entry gets old.           *)
Fairness ==
    /\ \A w \in Workers : WF_vars(StoreEntry(w) /\ UNCHANGED billing)
    /\ \A i \in Instances : WF_vars(EntryAges(i) /\ UNCHANGED billing)

Spec == Init /\ [][Next]_vars /\ Fairness

-----------------------------------------------------------------------------
(* Properties.                                                             *)

(* "Invalidate tenant cache so status/plan changes take effect             *)
(* immediately": on the process that served the change they do, unless the *)
(* cache was being filled from an older read at that moment, until the     *)
(* document is changed elsewhere.                                          *)
CleanCacheIsCurrent ==
    \A i \in Instances : clean[i] /\ Fresh(i) => cache[i].cfg = ConfigOf(doc)

(* Once the document stops changing every process decides by it sooner or  *)
(* later, also those that were never told and those that stored an older   *)
(* read after being told.                                                  *)
CacheConverges ==
    <>[](\A i \in Instances : Fresh(i) /\ doc.exists => cache[i].cfg = ConfigOf(doc))

Creating(w) == IF pc[w] = "create" THEN loc[w].batch ELSE 0

(* The limit is compared before the documents are created, and with a copy *)
(* of the document: the largest limit there ever was is exceeded by no     *)
(* more than the requests under way create together, and by what was       *)
(* created without a comparison: past a guard that got no answer, by a     *)
(* superadmin, through the other server, or by moving an account.          *)
LimitOvershootBounded ==
    count + SumFunction([w \in Workers |-> Creating(w)])
        <= peak - 1 + Cardinality(Workers) * Max(Batches) + bypassed

(* Everything has its type; plan, limits and features go together unless   *)
(* the administrator sets them one by one; and whoever pays is known: the  *)
(* subscription belongs to the customer of the document, unless two        *)
(* checkouts of the tenant created a customer each.                        *)
TenancyWellFormed ==
    /\ TypeOK
    /\ custom \/ (doc.limit = Quota[doc.plan] /\ doc.features = doc.plan)
    /\ (Subscribed /\ doc.exists) => doc.customer = stripe.customer \/ overlapped

(* When Stripe's events are applied in the order they were generated, and  *)
(* nobody else changes the tenant, the document ends up with Stripe's view *)
(* of the subscription, whatever was repeated or abandoned on the way.     *)
InOrderAgrees ==
    LET settled == /\ \A e \in DOMAIN events : applied[e] > 0
                   /\ \A w \in Workers : pc[w] # "apply"
    IN  (settled /\ ~overtaken /\ ~administered /\ events # <<>>) =>
            IF Subscribed
            THEN /\ doc.plan = stripe.plan
                 /\ doc.billing = stripe.status
                 /\ doc.status = (IF Suspends(stripe.status) THEN "SUSPENDED" ELSE "ACTIVE")
            ELSE doc.plan = "FREE" /\ doc.status = "ACTIVE"

(* An event is recorded only after it was applied, so that a crash in      *)
(* between has it applied again and never dropped; as the look-up and the  *)
(* record are different calls it is applied once, and again only by        *)
(* deliveries that overlap or after a failure.  A restart ends every       *)
(* request of its process between the two, so each failure may cost as     *)
(* many further deliveries as there are requests at a time.                *)
EventsAreApplied ==
    \A e \in DOMAIN events :
        /\ e \in recorded => applied[e] > 0
        /\ applied[e] + Cardinality({w \in Workers : pc[w] = "apply" /\ loc[w].event = e})
              <= Cardinality(Workers) * (1 + faults)

=============================================================================
