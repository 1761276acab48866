------------------------------ MODULE Billing -------------------------------
(***************************************************************************)
(* core/billing: the Stripe customer of a tenant, and the webhooks that    *)
(* bring Stripe's subscription events to the tenant document.  Stripe is   *)
(* external: it delivers every event at least once until it is answered,   *)
(* to any process and in any order.                                        *)
(***************************************************************************)
EXTENDS TenantStore

CONSTANTS
    MaxEvents,      \* bound: events Stripe generates
    MaxCustomers    \* bound: Stripe customers created

ASSUME BillingAssumption ==
    /\ MaxEvents \in Nat
    /\ MaxCustomers \in Nat
    /\ "PRO" \in Plans

VARIABLES
    stripe,         \* Stripe: the subscription [customer, plan, status]
    events,         \* Stripe: events generated so far, in order
    customers,      \* Stripe: customers created
    sessions,       \* Stripe: customers with a checkout session
    recorded,       \* the billing_events collection: positions in events
    applied,        \* history: applied[e]: how often event e was applied
    overtaken,      \* history: an event was applied after a later one
    overlapped      \* history: a checkout began while another was creating a
                    \* customer, or storing one failed

billing == <<stripe, events, customers, sessions, recorded, applied,
             overtaken, overlapped>>

(* The plan is the one planFromPriceID knows the price by, FREE when it    *)
(* knows it by none; the status is the one mapStripeStatus gives, UNPAID   *)
(* standing for those it passes on as they are.                            *)
Subscription == [customer: Nat, plan: Plans,
                 status: {"NONE", "ACTIVE", "PAST_DUE", "INCOMPLETE", "CANCELED", "UNPAID"}]

EventTypes == {"checkout", "upsert", "deleted", "failed", "succeeded"}

Event == [type: EventTypes, sub: Subscription]

NoSubscription == [customer |-> 0, plan |-> "PRO", status |-> "NONE"]

BillingTypeOK ==
    /\ stripe \in Subscription
    /\ events \in Seq(Event)
    /\ customers \in Nat
    /\ sessions \subseteq 1..customers
    /\ recorded \subseteq DOMAIN events
    /\ applied \in [DOMAIN events -> Nat]

BillingInit ==
    /\ stripe = NoSubscription
    /\ events = <<>>
    /\ customers = 0
    /\ sessions = {}
    /\ recorded = {}
    /\ applied = <<>>
    /\ overtaken = FALSE
    /\ overlapped = FALSE

-----------------------------------------------------------------------------
(* CreateCheckoutSession: read the tenant, create a customer unless the    *)
(* document names one, store it (the error is dropped), create a session.  *)
(* The tenant then subscribes on Stripe's pages.                           *)

Storing == {w \in Workers : pc[w] = "storeCustomer"}

CheckoutRead(w, i) ==
    /\ doc.exists
    /\ doc.customer = 0
    /\ customers < MaxCustomers
    /\ customers' = customers + 1
    /\ overlapped' = (overlapped \/ Storing # {})
    /\ Start(w, "storeCustomer", [On(i) EXCEPT !.event = customers'])
    /\ UNCHANGED <<doc, cache, clean, peak, custom, administered, faults,
                   stripe, events, sessions, recorded, applied, overtaken>>

CheckoutReuse(w, i) ==
    /\ doc.exists
    /\ doc.customer # 0
    /\ Start(w, "session", [On(i) EXCEPT !.event = doc.customer])
    /\ UNCHANGED <<doc, cache, clean, peak, custom, administered, faults, billing>>

StoredCustomerFault(c) == doc
StoredCustomer(c) == [doc EXCEPT !.customer = IF doc.exists THEN c ELSE @]

CheckoutStore(w) ==
    /\ At(w, "storeCustomer")
    /\ \/ doc' = StoredCustomer(loc[w].event) /\ UNCHANGED <<overlapped, faults>>
       \/ /\ MayFail /\ faults < MaxFaults
          /\ faults' = faults + 1
          /\ overlapped' = TRUE
          /\ UNCHANGED doc
    /\ Goto(w, "session", loc[w])
    /\ UNCHANGED <<cache, clean, peak, custom, administered, started,
                   stripe, events, customers, sessions, recorded, applied, overtaken>>

CheckoutSession(w) ==
    /\ At(w, "session")
    /\ sessions' = sessions \cup {loc[w].event}
    /\ Finish(w)
    /\ UNCHANGED <<doc, cache, clean, peak, custom, requests,
                   stripe, events, customers, recorded, applied, overtaken, overlapped>>

-----------------------------------------------------------------------------
(* Stripe.                                                                 *)

Emit(sub, types) ==
    /\ Len(events) + Len(types) <= MaxEvents
    /\ stripe' = sub
    /\ events' = events \o [k \in DOMAIN types |-> [type |-> types[k],
                     sub |-> IF types[k] = "checkout" THEN NoSubscription ELSE sub]]
    /\ applied' = applied \o [k \in DOMAIN types |-> 0]
    /\ UNCHANGED <<doc, cache, clean, peak, custom, pc, loc, requests,
                   customers, sessions, recorded, overtaken, overlapped>>

Subscribed == stripe.status # "NONE"

(* The customer of a checkout session is the one it was created with.      *)
Subscribe ==
    /\ ~Subscribed
    /\ \E c \in sessions, p \in Plans \ {"FREE"}, s \in {"ACTIVE", "INCOMPLETE"} :
          Emit([customer |-> c, plan |-> p, status |-> s], <<"upsert">>)

CheckoutCompletes == Subscribed /\ Emit(stripe, <<"checkout">>)

ChangePlan ==
    /\ Subscribed
    /\ \E p \in Plans \ {stripe.plan} : Emit([stripe EXCEPT !.plan = p], <<"upsert">>)

PaymentFails ==
    /\ stripe.status = "ACTIVE"
    /\ Emit([stripe EXCEPT !.status = "PAST_DUE"], <<"failed", "upsert">>)

PaymentSucceeds ==
    /\ stripe.status \notin {"NONE", "CANCELED"}
    /\ Emit([stripe EXCEPT !.status = "ACTIVE"], <<"succeeded", "upsert">>)

(* Payment is given up, the collection paused, or the end announced.       *)
Lapse ==
    /\ Subscribed
    /\ \E s \in {"UNPAID", "CANCELED"} : Emit([stripe EXCEPT !.status = s], <<"upsert">>)

CancelSubscription ==
    /\ Subscribed
    /\ Emit([stripe EXCEPT !.status = "NONE"], <<"deleted">>)

Stripe ==
    \/ Subscribe \/ CheckoutCompletes \/ ChangePlan
    \/ PaymentFails \/ PaymentSucceeds \/ Lapse \/ CancelSubscription

-----------------------------------------------------------------------------
(* HandleWebhookEvent: look the event up, apply it, drop the cache entry,  *)
(* record it.  When the look-up fails the event is taken for a new one.    *)
Processed(e) == e \in recorded

FirstStepFault == "record"
FirstStep == "apply"

Deliver(w, i, e) ==
    /\ \/ ~Processed(e) /\ UNCHANGED faults
       \/ Processed(e) /\ MayFail /\ faults < MaxFaults /\ faults' = faults + 1
    /\ Start(w, FirstStep, [On(i) EXCEPT !.event = e])
    /\ UNCHANGED <<doc, cache, clean, peak, custom, administered,
                   stripe, events, customers, sessions, recorded, applied, overtaken, overlapped>>

Suspends(status) == status \in {"PAST_DUE", "INCOMPLETE"}

UpsertedFault(s) == [WithPlan(doc, s.plan) EXCEPT !.billing = s.status]
Upserted(s) ==
    [WithPlan(doc, s.plan) EXCEPT !.billing = s.status,
        !.status = IF Suspends(s.status) THEN "SUSPENDED" ELSE "ACTIVE"]

Downgraded == [WithPlan(doc, "FREE") EXCEPT !.billing = "CANCELED", !.status = "ACTIVE"]

(* The document after the event.  A checkout only stores Stripe's id of the *)
(* subscription, which nothing here looks at.                              *)
Handled(e) ==
    CASE e.type = "upsert"    -> Upserted(e.sub)
      [] e.type = "deleted"   -> Downgraded
      [] e.type = "failed"    -> [doc EXCEPT !.status = "SUSPENDED", !.billing = "PAST_DUE"]
      [] e.type = "succeeded" -> [doc EXCEPT !.status = "ACTIVE", !.billing = "ACTIVE"]

(* A checkout names the tenant itself, whether there is one or not; the    *)
(* other events name its customer.                                         *)
TenantFound(e) == e.type = "checkout" \/ (doc.exists /\ doc.customer = e.sub.customer)

Apply(w) ==
    LET k == loc[w].event
        e == events[k]
    IN  /\ At(w, "apply")
        /\ TenantFound(e)
        /\ IF e.type = "checkout" THEN UNCHANGED <<doc, clean, peak>> ELSE Write(Handled(e))
        /\ custom' = (custom /\ e.type \notin {"upsert", "deleted"})
        /\ applied' = [applied EXCEPT ![k] = @ + 1]
        /\ overtaken' = (overtaken \/ \E l \in DOMAIN events : l > k /\ applied[l] > 0)
        /\ Goto(w, IF e.type = "checkout" THEN "record" ELSE "invalidate", loc[w])
        /\ UNCHANGED <<cache, requests,
                       stripe, events, customers, sessions, recorded, overlapped>>

(* An unknown customer: 500, and Stripe delivers the event again.          *)
ApplyNotFound(w) ==
    /\ At(w, "apply")
    /\ ~TenantFound(events[loc[w].event])
    /\ Finish(w)
    /\ UNCHANGED <<doc, cache, clean, peak, custom, requests, billing>>

WebhookInvalidate(w) ==
    /\ At(w, "invalidate")
    /\ Invalidate(w)
    /\ Goto(w, "record", loc[w])
    /\ UNCHANGED <<doc, peak, custom, requests, billing>>

Record(w) ==
    /\ At(w, "record")
    /\ recorded' = recorded \cup {loc[w].event}
    /\ Finish(w)
    /\ UNCHANGED <<doc, cache, clean, peak, custom, requests,
                   stripe, events, customers, sessions, applied, overtaken, overlapped>>

Webhook(w) ==
    \/ \E i \in Instances, e \in DOMAIN events : Deliver(w, i, e)
    \/ Apply(w) \/ ApplyNotFound(w) \/ WebhookInvalidate(w) \/ Record(w)

Checkout(w) ==
    \/ \E i \in Instances : CheckoutRead(w, i) \/ CheckoutReuse(w, i)
    \/ CheckoutStore(w) \/ CheckoutSession(w)

=============================================================================
