----------------------------- MODULE OrderStore -----------------------------
(***************************************************************************)
(* The collections behind order fulfilment (orders, reservations,          *)
(* pick_tasks with pick_events, stocks, outbounds), the repository calls on*)
(* them, and the requests that make those calls.                           *)
(*                                                                         *)
(* No database transaction is used.  A request is a sequence of repository *)
(* calls; each is one action, and the actions of concurrent requests       *)
(* interleave.  pc[w] names the next repository call of the request that   *)
(* goroutine w serves and loc[w] holds its local variables.                *)
(*                                                                         *)
(* A slot is one row of the stock collection: a (product, location, lot)   *)
(* key.  Documents of the reservation and task collections are known by    *)
(* their position in a sequence.  UpdateMany is taken as one step, a       *)
(* repository call that fails as one without effect.                       *)
(***************************************************************************)
EXTENDS FefoPlan, FiniteSetsExt

CONSTANTS
    Workers,        \* request goroutines
    Orders,         \* order documents
    Slots,          \* stock rows
    Product,        \* Product[s]: the product of row s
    Expiry,         \* Expiry[s]: the expiry of row s's lot
    Opening,        \* Opening[s]: the stock before the first request
    Carts,          \* item lists clients send: sequences of [product, req]
    ScanQtys,       \* quantities a picker scans
    Moves,          \* stock deltas of movements that belong to no order
    Ops,            \* operations clients issue in this configuration
    MayFail,        \* may a request die, or a repository call fail
    MaxRequests     \* bound: requests started in one behaviour

AllOps == {"update", "confirm", "cancel", "pick", "scan", "ship", "release", "move"}

Products == {Product[s] : s \in Slots}

Line == [product: Products, req: Nat \ {0}]

ASSUME StoreAssumption ==
    /\ IsFiniteSet(Workers)
    /\ Workers # {}
    /\ Orders # {}
    /\ IsFiniteSet(Slots)
    /\ Slots # {}
    /\ Product \in [Slots -> Products]
    /\ Expiry \in [Slots -> Nat \cup {NoExpiry}]
    /\ Opening \in [Slots -> Int]
    /\ Carts \subseteq Seq(Line) \ {<<>>}
    /\ ScanQtys \subseteq Nat \ {0}
    /\ Moves \subseteq Int
    /\ Ops \subseteq AllOps
    /\ MayFail \in BOOLEAN
    /\ MaxRequests \in Nat

VARIABLES
    status,         \* status[o]; "NONE" before the order is created
    items,          \* items[o]: the order's item lines
    stock,          \* stock[s]: quantity of row s
    resv,           \* the reservation collection
    tasks,          \* the pick_tasks collection, with the sum of each task's events
    shipped,        \* shipped[o][s]: quantity of the outbound records for o from s
    halted,         \* history: halted[o], the Ships of o that ended early, when
                    \* outbound records had been written
    peak,           \* history: peak[p], the highest stock of product p so far
    pc,             \* pc[w]: next repository call of goroutine w
    loc,            \* loc[w]: locals of goroutine w
    started         \* requests started, capped by MaxRequests

vars == <<status, items, stock, resv, tasks, shipped, halted, peak, pc, loc, started>>

Statuses == {"NONE", "DRAFT", "CONFIRMED", "PICKING", "SHIPPED", "CANCELLED"}

Item == [product: Products, req: Nat \ {0}, reserved: Nat, shipped: Nat]

(* byHand is a history field: the release came from the reservation        *)
(* endpoint, not from the order's own life.                                *)
Reservation == [order: Orders, product: Products, qty: Nat \ {0},
                active: BOOLEAN, byHand: BOOLEAN]

(* events is the sum of the task's pick events; lost is a history field:   *)
(* picked quantities whose event was never written; timely is one too: the *)
(* task was there when its order went to PICKING.                          *)
Task == [order: Orders, slot: Slots, planned: Nat \ {0}, picked: Nat,
         state: {"OPEN", "IN_PROGRESS", "DONE", "CANCELLED"},
         events: Nat, lost: Nat, timely: BOOLEAN]

Planned == [slot: Slots, planned: Nat \ {0}]

Locals == [order: Orders,           \* the order of the request
           from: Statuses,          \* Cancel: the status it read
           items: Seq(Item),        \* the item lines it read
           i: Nat,                  \* loop index; Scan: the task
           n: Int,                  \* the number last read; Scan: the quantity
           plan: Seq(Planned),      \* StartPick: tasks still to insert
           picks: [Slots -> Nat],   \* Ship: quantities still to take out
           slot: Slots]             \* Ship: the row being taken from

NoLocals == [order |-> CHOOSE o \in Orders : TRUE, from |-> "NONE",
             items |-> <<>>, i |-> 0, n |-> 0, plan |-> <<>>, picks |-> [s \in Slots |-> 0],
             slot |-> CHOOSE s \in Slots : TRUE]

ReserveLabels == {"physical", "sumActive", "reserve", "confirm"}

ShipLabels == {"countOpen", "countAll", "events", "removeCheck", "remove", "outbound",
               "shipRelease", "ship"}

TakeOutLabels == ShipLabels \ {"countOpen", "countAll", "events"}

Labels == ReserveLabels \cup ShipLabels \cup
          {"idle", "release", "replace", "cancel", "cancelTasks", "shortage", "plan",
           "insertTasks", "startPick", "addPicked", "event"}

StoreTypeOK ==
    /\ status \in [Orders -> Statuses]
    /\ items \in [Orders -> Seq(Item)]
    /\ resv \in Seq(Reservation)
    /\ started \in 0..MaxRequests

TypeOK ==
    /\ StoreTypeOK
    /\ stock \in [Slots -> Int]
    /\ tasks \in Seq(Task)
    /\ shipped \in [Orders -> [Slots -> Nat]]
    /\ pc \in [Workers -> Labels]
    /\ loc \in [Workers -> Locals]

RowsOf(p) == {s \in Slots : Product[s] = p}

Physical(p) == SumFunctionOnSet(stock, RowsOf(p))

Init ==
    /\ status = [o \in Orders |-> "NONE"]
    /\ items = [o \in Orders |-> <<>>]
    /\ stock = Opening
    /\ resv = <<>>
    /\ tasks = <<>>
    /\ shipped = [o \in Orders |-> [s \in Slots |-> 0]]
    /\ halted = [o \in Orders |-> 0]
    /\ peak = [p \in Products |-> IF Physical(p) > 0 THEN Physical(p) ELSE 0]
    /\ pc = [w \in Workers |-> "idle"]
    /\ loc = [w \in Workers |-> NoLocals]
    /\ started = 0

-----------------------------------------------------------------------------
(* Queries and updates of the repositories.                                *)

Positive(p) == SumFunctionOnSet(stock, Stocked(RowsOf(p), stock))

Reserved == [r \in DOMAIN resv |-> resv[r].qty]

Active(p) ==
    SumFunctionOnSet(Reserved, {r \in DOMAIN resv : resv[r].active /\ resv[r].product = p})

TasksOf(o) == {t \in DOMAIN tasks : tasks[t].order = o}

NotDoneFault(o) == Cardinality({t \in TasksOf(o) : tasks[t].state = "OPEN"})
NotDone(o) == Cardinality({t \in TasksOf(o) : tasks[t].state # "DONE"})

Recorded == [t \in DOMAIN tasks |-> tasks[t].events]

EventsAt(o, s) == SumFunctionOnSet(Recorded, {t \in TasksOf(o) : tasks[t].slot = s})

(* The filter of UpdateStatus.                                             *)
CasMatchesFault(o, from) == status[o] # "NONE"
CasMatches(o, from) == status[o] = from

HeldFault(r, o) == resv[r].active
Held(r, o) == resv[r].order = o /\ resv[r].active

Release(R, hand) ==
    resv' = [r \in DOMAIN resv |->
                IF r \in R THEN [resv[r] EXCEPT !.active = FALSE, !.byHand = hand]
                ELSE resv[r]]

ReleaseByOrder(o) == Release({r \in DOMAIN resv : Held(r, o)}, FALSE)

PickableFault(t) == tasks[t].state = "OPEN"
Pickable(t) == tasks[t].state \in {"OPEN", "IN_PROGRESS"}

Fits(t, q) == tasks[t].picked + q <= tasks[t].planned

(* The filter of AtomicAddPicked.                                          *)
AddMatchesFault(t, q) == Pickable(t)
AddMatches(t, q) == Pickable(t) /\ Fits(t, q)

-----------------------------------------------------------------------------
(* Requests.  At says where a request stands; a request that ends drops         *)
(* its locals.                                                             *)

Start(w, label, l) ==
    /\ pc[w] = "idle"
    /\ started < MaxRequests
    /\ started' = started + 1
    /\ pc' = [pc EXCEPT ![w] = label]
    /\ loc' = [loc EXCEPT ![w] = l]

Goto(w, label, l) ==
    /\ pc' = [pc EXCEPT ![w] = label]
    /\ loc' = [loc EXCEPT ![w] = IF label = "idle" THEN NoLocals ELSE l]
    /\ UNCHANGED started

Finish(w) == Goto(w, "idle", NoLocals)

(* A request that is a single repository call.                             *)
Once(w) ==
    /\ pc[w] = "idle"
    /\ started < MaxRequests
    /\ started' = started + 1
    /\ UNCHANGED <<pc, loc>>

At(w, label) == pc[w] = label

Me(w) == loc[w].order

Halts(w) ==
    halted' = IF \E s \in Slots : shipped[Me(w)][s] > 0
              THEN [halted EXCEPT ![Me(w)] = @ + 1] ELSE halted

(* Confirm gives back what it reserved.                                    *)
RollbackFault(w) == Finish(w)
Rollback(w) == Goto(w, "release", loc[w])

Reading(o) == [NoLocals EXCEPT !.order = o, !.items = items[o], !.i = 1]

LastItem(w) == loc[w].i = Len(loc[w].items)

TheItem(w) == loc[w].items[loc[w].i]

=============================================================================
