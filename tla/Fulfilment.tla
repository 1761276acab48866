----------------------------- MODULE Fulfilment -----------------------------
(***************************************************************************)
(* The whole of order fulfilment: the order, reservation and picking services*)
(* on one store, with failing requests and stock movements from elsewhere. *)
(***************************************************************************)
EXTENDS Reserving, Picking, Ordering

-----------------------------------------------------------------------------
(* A stock movement of an inbound, an outbound or an adjustment.           *)

Move(w, s, d) ==
    /\ "move" \in Ops
    /\ stock' = [stock EXCEPT ![s] = @ + d]
    /\ peak' = [p \in Products |-> IF Physical(p)' > peak[p] THEN Physical(p)' ELSE peak[p]]
    /\ Once(w)
    /\ UNCHANGED <<status, items, resv, tasks, shipped, halted>>

-----------------------------------------------------------------------------
(* Failures.  A scan that ends before its event loses it.                  *)

GiveUp(w) ==
    /\ tasks' = IF At(w, "event")
                THEN [tasks EXCEPT ![loc[w].i].lost = @ + loc[w].n] ELSE tasks
    /\ IF pc[w] \in TakeOutLabels THEN Halts(w) ELSE UNCHANGED halted
    /\ Finish(w)
    /\ UNCHANGED <<status, items, stock, resv, shipped, peak>>

(* The process dies.                                                       *)
Crash(w) == MayFail /\ pc[w] # "idle" /\ GiveUp(w)

(* A repository call fails: Confirm rolls back, Cancel and Ship go on, any *)
(* other request ends.                                                     *)
CallFails(w) ==
    /\ MayFail
    /\ \/ /\ pc[w] \in ReserveLabels \cup {"cancelTasks"}
          /\ Goto(w, "release", loc[w])
          /\ UNCHANGED tasks
       \/ /\ At(w, "shipRelease")
          /\ Goto(w, "ship", loc[w])
          /\ UNCHANGED tasks
    /\ UNCHANGED <<status, items, stock, resv, shipped, halted, peak>>

-----------------------------------------------------------------------------
Begin(w) ==
    \/ \E o \in Orders :
          \/ UpdateRead(w, o)
          \/ ConfirmRead(w, o)
          \/ CancelRead(w, o)
          \/ PickRead(w, o)
          \/ ShipRead(w, o)
    \/ \E t \in DOMAIN tasks, q \in ScanQtys : ScanRead(w, t, q)
    \/ \E r \in DOMAIN resv : ReleaseOne(w, r)
    \/ \E s \in Slots, d \in Moves : Move(w, s, d)

Continue(w) ==
    \/ Replace(w)
    \/ ReservePhysical(w) \/ ReserveSum(w) \/ ReserveInsert(w) \/ ConfirmCommit(w)
    \/ ReleaseAll(w)
    \/ CancelCommit(w) \/ CancelTasks(w)
    \/ ShortageCheck(w) \/ PlanItem(w) \/ InsertTask(w) \/ PickCommit(w)
    \/ AddPicked(w) \/ InsertEvent(w)
    \/ CountOpen(w) \/ CountAll(w) \/ ReadEvents(w)
    \/ RemoveCheck(w) \/ TakeOut(w) \/ Outbound(w)
    \/ ShipRelease(w) \/ ShipCommit(w)

(* No request is being served; one that is refused changes nothing.        *)
Idle ==
    /\ \A w \in Workers : pc[w] = "idle"
    /\ UNCHANGED vars

Next ==
    \/ \E o \in Orders, c \in Carts : Create(o, c)
    \/ \E w \in Workers : Begin(w) \/ Continue(w) \/ Crash(w) \/ CallFails(w)
    \/ Idle

Spec == Init /\ [][Next]_vars

(* A goroutine that was started runs, whatever the other requests do.      *)
FairSpec == Spec /\ \A w \in Workers : WF_vars(Continue(w))

-----------------------------------------------------------------------------
(* Properties.                                                             *)

Lines(its) == [k \in DOMAIN its |-> [product |-> its[k].product, req |-> its[k].req]]

Lifecycle == INSTANCE OrderLifecycle WITH lines <- [o \in Orders |-> Lines(items[o])]

(* Orders keep the promise of OrderLifecycle: the compare-and-set of every *)
(* transition lets one of several racing requests through, and the item    *)
(* lists that Confirm and Ship write back from what they read earlier      *)
(* never change the lines of an order that has left DRAFT.                 *)
LifecycleSpec == Lifecycle!Spec

(* What was added to task t by scans whose event is still to be written.   *)
InFlight(t) ==
    SumFunctionOnSet([w \in Workers |-> loc[w].n],
                     {w \in Workers : At(w, "event") /\ loc[w].i = t})

(* Scan: however scans of one task race, fail or lose their event, the     *)
(* task is never overpicked, is DONE exactly when it is full, and its pick *)
(* events account for all of it but what is in flight or was lost; every   *)
(* document keeps its type.                                                *)
PicksAccounted ==
    /\ TypeOK
    /\ \A t \in DOMAIN tasks :
          /\ tasks[t].picked <= tasks[t].planned
          /\ tasks[t].state = "DONE" <=> tasks[t].picked = tasks[t].planned
          /\ tasks[t].picked = tasks[t].events + tasks[t].lost + InFlight(t)

(* Confirm's rollback, Cancel and Ship: a reservation is only held for an  *)
(* order that is CONFIRMED or PICKING, or while a request is running that  *)
(* has yet to confirm the order or to release its reservations.            *)
NoStrandedReservation ==
    \A r \in DOMAIN resv : resv[r].active =>
        \/ status[resv[r].order] \in {"CONFIRMED", "PICKING"}
        \/ \E w \in Workers :
              /\ Me(w) = resv[r].order
              /\ pc[w] \in ReserveLabels \cup {"release", "cancelTasks"}

(* An order that has reached its end holds no reservation from some time   *)
(* on: nothing reserved for it keeps stock from other orders.              *)
ReservationsFreed ==
    \A o \in Orders :
        [](status[o] \in {"SHIPPED", "CANCELLED"} =>
              <>[](\A r \in DOMAIN resv : ~Held(r, o)))

Asked == UNION {{c[k].req : k \in DOMAIN c} : c \in Carts}

(* "Reserve creates a reservation after checking that availableQty >= qty" *)
(* (reservation/service.go), in three calls: the active reservations of a  *)
(* product exceed the most there has ever been of it by less than one      *)
(* item for every other request that was between its check and its insert. *)
OverReserveBounded ==
    \A p \in Products, m \in Asked : (\A n \in Asked : n <= m) =>
        Active(p) <= peak[p] + (Cardinality(Workers) - 1) * m

Quiet(o) == \A w \in Workers : pc[w] = "idle" \/ Me(w) # o

(* "Confirm transitions DRAFT -> CONFIRMED and creates reservations for    *)
(* each item" (order/service.go): unless an operator released some by      *)
(* hand, a confirmed order holds what its items ask for.                   *)
ConfirmedIsReserved ==
    \A o \in Orders :
        /\ status[o] \in {"CONFIRMED", "PICKING"}
        /\ Quiet(o)
        /\ ~ \E r \in DOMAIN resv : resv[r].order = o /\ resv[r].byHand
        => \A p \in Products :
              SumFunctionOnSet(Reserved, {r \in DOMAIN resv : Held(r, o) /\ resv[r].product = p})
              = SumFunctionOnSet([k \in DOMAIN items[o] |-> items[o][k].req],
                                 {k \in DOMAIN items[o] : items[o][k].product = p})

(* "Ship ... Blocks unless ALL pick tasks are DONE" (order/service.go),     *)
(* counted several calls before the order is shipped: in the step that     *)
(* ships it, every task that was there when its picking began is DONE.     *)
(* One that a second StartPick inserts later is not covered by the count.  *)
ShippedIsPicked ==
    [][ \A o \in Orders : status[o] # "SHIPPED" /\ status'[o] = "SHIPPED" =>
          \A t \in TasksOf(o) : tasks[t].timely => tasks[t].state = "DONE" ]_vars

(* "Creates outbound records from actual pick events (qty per product/     *)
(* location)" (order/service.go): a shipped order's outbound records are   *)
(* what was picked for it, row by row; and once, unless a Ship of it had   *)
(* stopped half way, since the next one takes out every row again.         *)
OutboundsMatchPicks ==
    \A o \in Orders : status[o] = "SHIPPED" =>
        \A s \in Slots :
            /\ shipped[o][s] >= EventsAt(o, s)
            /\ halted[o] = 0 => shipped[o][s] = EventsAt(o, s)

(* The same of Ships of one order that race, stop half way and are sent    *)
(* again: each takes out what was picked at most once, so an order is      *)
(* taken out once for every Ship that stopped half way, and once for each  *)
(* of those that can be running when one of them ships it.                 *)
OutboundsBounded ==
    \A o \in Orders, s \in Slots :
        shipped[o][s] <= EventsAt(o, s) * (halted[o] + Cardinality(Workers))

(* "CancelByOrder cancels all pending pick tasks for an order"             *)
(* (picking/service.go), whatever other requests are under way meanwhile:  *)
(* once nobody works on a cancelled order, no task that was there when its *)
(* picking began can be scanned any more.                                  *)
CancelledIsClosed ==
    \A o \in Orders : status[o] = "CANCELLED" /\ Quiet(o) =>
        \A t \in TasksOf(o) : tasks[t].timely => tasks[t].state \in {"DONE", "CANCELLED"}

=============================================================================
