-------------------------- MODULE FulfilmentProofs --------------------------
(***************************************************************************)
(* Theorems about Fulfilment, for every value of its constants.            *)
(*                                                                         *)
(* LifecycleIsKept: the orders implement OrderLifecycle (invariant LInv).  *)
(* NothingStranded: without failures, no reservation is left behind on an  *)
(* order that has not been confirmed or is closed (invariant NInv).        *)
(* PicksAreAccounted: every document keeps its type (invariant TInv, which *)
(* rests on LInv), and no picked quantity is lost sight of (Accounts).     *)
(* PlansAreCorrect: a pick plan empties the rows of its product first      *)
(* expired first out, for every stock, expiry and order of equal rows.     *)
(* OnlyPickedIsShipped: an order is shipped only when the tasks its picking*)
(* began with are done (Timely, InTime, Counted).                          *)
(* CancelledStaysClosed: without failures, no such task is left open once  *)
(* its order is cancelled (Closed).                                        *)
(* OverReservationIsBounded: by one item for every other worker beyond the *)
(* most stock there has been (Peaked; Fitting counts what has passed its   *)
(* check and is still to be inserted).                                     *)
(* OutboundsAreBounded: an order is taken out once for every Ship that     *)
(* stopped half way and once for every worker (Rows; Outs counts how far   *)
(* each Ship has got).                                                     *)
(***************************************************************************)
EXTENDS Fulfilment, Collections

-----------------------------------------------------------------------------
(* Shapes.  The life of an order rests on no type: that items and locals   *)
(* are records with the right fields is all it needs.                      *)

IsItem(it) == it = [product |-> it.product, req |-> it.req,
                    reserved |-> it.reserved, shipped |-> it.shipped]

WellFormed(its) ==
    /\ its = [k \in DOMAIN its |-> its[k]]
    /\ \A k \in DOMAIN its : IsItem(its[k])

IsLocal(l) == l = [order |-> l.order, from |-> l.from, items |-> l.items, i |-> l.i,
                   n |-> l.n, plan |-> l.plan, picks |-> l.picks, slot |-> l.slot]

(* The items of a cart become item lines that ask for what the cart does.  *)
LEMMA NewItemsLines ==
    ASSUME NEW c \in Carts
    PROVE  WellFormed(NewItems(c)) /\ Lines(NewItems(c)) = c
<1>1. c \in Seq(Line)
  BY StoreAssumption
<1>2. /\ DOMAIN NewItems(c) = DOMAIN c
      /\ \A k \in DOMAIN c : NewItems(c)[k] = [product |-> c[k].product, req |-> c[k].req,
                                               reserved |-> 0, shipped |-> 0]
  BY DEF NewItems
<1>3. \A k \in DOMAIN c : c[k] = [product |-> c[k].product, req |-> c[k].req]
  <2>1. \A k \in 1..Len(c) : c[k] \in Line
    BY <1>1, ElementOfSeq
  <2>2. DOMAIN c = 1..Len(c)
    BY <1>1
  <2>3. \A x \in Line : x = [product |-> x.product, req |-> x.req]
    BY DEF Line
  <2>. QED  BY <2>1, <2>2, <2>3
<1>4. Lines(NewItems(c)) = c
  <2>1. Lines(NewItems(c)) = [k \in DOMAIN c |-> [product |-> c[k].product, req |-> c[k].req]]
    BY <1>2 DEF Lines
  <2>2. c = [k \in DOMAIN c |-> c[k]]
    BY <1>1
  <2>. QED  BY <2>1, <2>2, <1>3
<1>5. NewItems(c) = [k \in DOMAIN NewItems(c) |-> NewItems(c)[k]]
  BY DEF NewItems
<1>6. \A k \in DOMAIN NewItems(c) : IsItem(NewItems(c)[k])
  BY <1>2 DEF IsItem
<1>. QED  BY <1>4, <1>5, <1>6 DEF WellFormed

(* Ship fills in shipped quantities and leaves the lines alone.            *)
LEMMA WithShippedLines ==
    ASSUME NEW its, NEW picks, WellFormed(its)
    PROVE  WellFormed(WithShipped(its, picks)) /\ Lines(WithShipped(its, picks)) = Lines(its)
<1>. DEFINE new == WithShipped(its, picks)
<1>1. DOMAIN new = DOMAIN its /\ new = [k \in DOMAIN its |-> new[k]]
  BY DEF WithShipped
<1>2. ASSUME NEW k \in DOMAIN its
      PROVE  IsItem(new[k]) /\ new[k].product = its[k].product /\ new[k].req = its[k].req
  <2>1. PICK v : new[k] = its[k] \/ new[k] = [its[k] EXCEPT !.shipped = v]
    BY DEF WithShipped
  <2>2. its[k] = [product |-> its[k].product, req |-> its[k].req,
                  reserved |-> its[k].reserved, shipped |-> its[k].shipped]
    BY DEF WellFormed, IsItem
  <2>3. [its[k] EXCEPT !.shipped = v] = [product |-> its[k].product, req |-> its[k].req,
                  reserved |-> its[k].reserved, shipped |-> v]
    BY <2>2
  <2>. QED  BY <2>1, <2>2, <2>3 DEF IsItem
<1>. HIDE DEF new
<1>3. Lines(new) = Lines(its)
  BY <1>1, <1>2 DEF Lines
<1>. QED  BY <1>1, <1>2, <1>3 DEF WellFormed, new

(* Reserve fills in a reserved quantity and leaves the lines alone.        *)
LEMMA ReservedLines ==
    ASSUME NEW its, NEW i, NEW v, WellFormed(its)
    PROVE  LET new == [its EXCEPT ![i].reserved = v]
           IN  WellFormed(new) /\ Lines(new) = Lines(its) /\ DOMAIN new = DOMAIN its
<1>. DEFINE new == [its EXCEPT ![i].reserved = v]
<1>1. DOMAIN new = DOMAIN its /\ new = [k \in DOMAIN its |-> new[k]]
  BY DEF WellFormed
<1>2. ASSUME NEW k \in DOMAIN its
      PROVE  IsItem(new[k]) /\ new[k].product = its[k].product /\ new[k].req = its[k].req
  <2>1. new[k] = its[k] \/ new[k] = [its[k] EXCEPT !.reserved = v]
    BY DEF WellFormed
  <2>2. its[k] = [product |-> its[k].product, req |-> its[k].req,
                  reserved |-> its[k].reserved, shipped |-> its[k].shipped]
    BY DEF WellFormed, IsItem
  <2>3. [its[k] EXCEPT !.reserved = v] = [product |-> its[k].product, req |-> its[k].req,
                  reserved |-> v, shipped |-> its[k].shipped]
    BY <2>2
  <2>. QED  BY <2>1, <2>2, <2>3 DEF IsItem
<1>. HIDE DEF new
<1>3. Lines(new) = Lines(its)
  BY <1>1, <1>2 DEF Lines
<1>. QED  BY <1>1, <1>2, <1>3 DEF WellFormed, new

-----------------------------------------------------------------------------
(* The inductive invariant.  A request that will write an item list back   *)
(* holds one that was agreed on; a shipping request holds the lines of its *)
(* order, which nobody can change because the order has left CONFIRMED for *)
(* good.                                                                   *)

Agreed(its) == WellFormed(its) /\ Lines(its) \in Carts

Late == {"PICKING", "SHIPPED", "CANCELLED"}

LocalOK(l, a, st, its) ==
    /\ IsLocal(l)
    /\ a \notin {"idle", "addPicked", "event"} => l.order \in Orders
    /\ a \in {"replace"} \cup ReserveLabels => Agreed(l.items)
    /\ a = "cancel" => l.from \in {"DRAFT", "CONFIRMED", "PICKING"}
    /\ a \in ShipLabels =>
          /\ st[l.order] \in Late
          /\ WellFormed(l.items)
          /\ Lines(l.items) = Lines(its[l.order])

LInv ==
    /\ status \in [Orders -> Statuses]
    /\ items = [o \in Orders |-> items[o]]
    /\ pc \in [Workers -> Labels]
    /\ loc = [w \in Workers |-> loc[w]]
    /\ \A o \in Orders : status[o] # "NONE" => Agreed(items[o])
    /\ \A w \in Workers : LocalOK(loc[w], pc[w], status, items)

Kept == LInv' /\ [Lifecycle!Next]_(Lifecycle!vars)

LEMMA NoLocalsOK == \A st, its : LocalOK(NoLocals, "idle", st, its)
BY DEF LocalOK, NoLocals, IsLocal, ReserveLabels, ShipLabels

(* Locals by their fields.                                                 *)
With(o, f, its, i, n, plan, picks, slot) ==
    [order |-> o, from |-> f, items |-> its, i |-> i, n |-> n, plan |-> plan,
     picks |-> picks, slot |-> slot]

(* m is l with these items and maybe another number, index, plan, ...      *)
LocalWith(m, l, its) ==
    IsLocal(m) /\ m.order = l.order /\ m.from = l.from /\ m.items = its

LEMMA WithIsLocal ==
    \A o, f, its, i, n, plan, picks, slot :
        LET m == With(o, f, its, i, n, plan, picks, slot)
        IN  IsLocal(m) /\ m.order = o /\ m.from = f /\ m.items = its
BY DEF With, IsLocal

LEMMA LocalKept ==
    ASSUME NEW l, IsLocal(l), NEW u, NEW v
    PROVE  /\ LocalWith([l EXCEPT !.n = v], l, l.items)
           /\ LocalWith([l EXCEPT !.i = v], l, l.items)
           /\ LocalWith([l EXCEPT !.n = u, !.i = v], l, l.items)
           /\ LocalWith([l EXCEPT !.plan = v], l, l.items)
           /\ LocalWith([l EXCEPT !.picks = v], l, l.items)
           /\ LocalWith([l EXCEPT !.slot = v], l, l.items)
           /\ LocalWith([l EXCEPT !.items = v], l, v)
           /\ LocalWith([l EXCEPT !.picks = u, !.items = v], l, v)
<1>1. [l EXCEPT !.n = v] =
         With(l.order, l.from, l.items, l.i, v, l.plan, l.picks, l.slot)
  BY DEF IsLocal, With
<1>2. [l EXCEPT !.i = v] =
         With(l.order, l.from, l.items, v, l.n, l.plan, l.picks, l.slot)
  BY DEF IsLocal, With
<1>3. [l EXCEPT !.n = u, !.i = v] =
         With(l.order, l.from, l.items, v, u, l.plan, l.picks, l.slot)
  <2>1. [l EXCEPT !.n = u, !.i = v] = [[l EXCEPT !.n = u] EXCEPT !.i = v]
    BY DEF IsLocal
  <2>2. [l EXCEPT !.n = u] = With(l.order, l.from, l.items, l.i, u, l.plan, l.picks, l.slot)
    BY DEF IsLocal, With
  <2>3. [With(l.order, l.from, l.items, l.i, u, l.plan, l.picks, l.slot)
            EXCEPT !.i = v]
        = With(l.order, l.from, l.items, v, u, l.plan, l.picks, l.slot)
    BY DEF With
  <2>. QED  BY <2>1, <2>2, <2>3
<1>4. [l EXCEPT !.plan = v] =
         With(l.order, l.from, l.items, l.i, l.n, v, l.picks, l.slot)
  BY DEF IsLocal, With
<1>5. [l EXCEPT !.picks = v] =
         With(l.order, l.from, l.items, l.i, l.n, l.plan, v, l.slot)
  BY DEF IsLocal, With
<1>6. [l EXCEPT !.slot = v] =
         With(l.order, l.from, l.items, l.i, l.n, l.plan, l.picks, v)
  BY DEF IsLocal, With
<1>7. [l EXCEPT !.items = v] =
         With(l.order, l.from, v, l.i, l.n, l.plan, l.picks, l.slot)
  BY DEF IsLocal, With
<1>8. [l EXCEPT !.picks = u, !.items = v] =
         With(l.order, l.from, v, l.i, l.n, l.plan, u, l.slot)
  <2>1. [l EXCEPT !.picks = u, !.items = v] = [[l EXCEPT !.picks = u] EXCEPT !.items = v]
    BY DEF IsLocal
  <2>2. [l EXCEPT !.picks = u] = With(l.order, l.from, l.items, l.i, l.n, l.plan, u, l.slot)
    BY DEF IsLocal, With
  <2>3. [With(l.order, l.from, l.items, l.i, l.n, l.plan, u, l.slot)
            EXCEPT !.items = v]
        = With(l.order, l.from, v, l.i, l.n, l.plan, u, l.slot)
    BY DEF With
  <2>. QED  BY <2>1, <2>2, <2>3
<1>. QED  BY <1>1, <1>2, <1>3, <1>4, <1>5, <1>6, <1>7, <1>8, WithIsLocal DEF LocalWith

(* A step that leaves the orders alone only has to account for its own     *)
(* locals.                                                                 *)
LEMMA QuietStep ==
    ASSUME LInv, UNCHANGED <<status, items>>, NEW w \in Workers, NEW a \in Labels, NEW l,
           LocalOK(l, a, status, items),
           pc' = [pc EXCEPT ![w] = a], loc' = [loc EXCEPT ![w] = l]
    PROVE  Kept
<1>1. /\ pc' \in [Workers -> Labels]
      /\ loc' = [v \in Workers |-> loc'[v]]
  BY DEF LInv
<1>2. \A v \in Workers : LocalOK(loc'[v], pc'[v], status', items')
  BY DEF LInv
<1>3. UNCHANGED Lifecycle!vars
  BY DEF Lifecycle!vars
<1>. QED  BY <1>1, <1>2, <1>3 DEF LInv, Kept

LEMMA QuietGoto ==
    ASSUME LInv, UNCHANGED <<status, items>>, NEW w \in Workers, NEW a \in Labels, NEW l,
           a # "idle" => LocalOK(l, a, status, items),
           Goto(w, a, l)
    PROVE  Kept
<1>1. CASE a = "idle"
  BY <1>1, QuietStep, NoLocalsOK DEF Goto
<1>2. CASE a # "idle"
  BY <1>2, QuietStep DEF Goto
<1>. QED  BY <1>1, <1>2

LEMMA QuietFinish ==
    ASSUME LInv, UNCHANGED <<status, items>>, NEW w \in Workers, Finish(w)
    PROVE  Kept
BY QuietGoto DEF Finish, Labels, ShipLabels

(* What a request starts with.                                             *)
LEMMA StartLocals ==
    ASSUME NEW o, NEW its, NEW f, NEW t, NEW q
    PROVE  /\ [NoLocals EXCEPT !.order = o, !.items = its, !.i = 1] =
                  With(o, NoLocals.from, its, 1, NoLocals.n, NoLocals.plan, NoLocals.picks,
                       NoLocals.slot)
           /\ [NoLocals EXCEPT !.order = o, !.from = f] =
                  With(o, f, NoLocals.items, NoLocals.i, NoLocals.n, NoLocals.plan,
                       NoLocals.picks, NoLocals.slot)
           /\ [NoLocals EXCEPT !.order = o, !.i = t, !.n = q] =
                  With(o, NoLocals.from, NoLocals.items, t, q, NoLocals.plan,
                       NoLocals.picks, NoLocals.slot)
<1>. DEFINE from == NoLocals.from
            its0 == NoLocals.items
            i0 == NoLocals.i
            n0 == NoLocals.n
            plan == NoLocals.plan
            picks == NoLocals.picks
            slot == NoLocals.slot
<1>0. IsLocal(NoLocals)
  BY DEF NoLocals, IsLocal
<1>1. [NoLocals EXCEPT !.order = o] = With(o, from, its0, i0, n0, plan, picks, slot)
  BY <1>0 DEF IsLocal, With
<1>2. [NoLocals EXCEPT !.order = o, !.items = its, !.i = 1]
        = [[[NoLocals EXCEPT !.order = o] EXCEPT !.items = its] EXCEPT !.i = 1]
  BY <1>0 DEF IsLocal
<1>3. [NoLocals EXCEPT !.order = o, !.from = f]
        = [[NoLocals EXCEPT !.order = o] EXCEPT !.from = f]
  BY <1>0 DEF IsLocal
<1>4. [NoLocals EXCEPT !.order = o, !.i = t, !.n = q]
        = [[[NoLocals EXCEPT !.order = o] EXCEPT !.i = t] EXCEPT !.n = q]
  BY <1>0 DEF IsLocal
<1>5. [With(o, from, its0, i0, n0, plan, picks, slot) EXCEPT !.items = its]
        = With(o, from, its, i0, n0, plan, picks, slot)
  BY DEF With
<1>6. [With(o, from, its, i0, n0, plan, picks, slot) EXCEPT !.i = 1]
        = With(o, from, its, 1, n0, plan, picks, slot)
  BY DEF With
<1>7. [With(o, from, its0, i0, n0, plan, picks, slot) EXCEPT !.from = f]
        = With(o, f, its0, i0, n0, plan, picks, slot)
  BY DEF With
<1>8. [With(o, from, its0, i0, n0, plan, picks, slot) EXCEPT !.i = t]
        = With(o, from, its0, t, n0, plan, picks, slot)
  BY DEF With
<1>9. [With(o, from, its0, t, n0, plan, picks, slot) EXCEPT !.n = q]
        = With(o, from, its0, t, q, plan, picks, slot)
  BY DEF With
<1>10. [NoLocals EXCEPT !.order = o, !.items = its, !.i = 1]
         = With(o, from, its, 1, n0, plan, picks, slot)
  BY <1>1, <1>2, <1>5, <1>6
<1>11. [NoLocals EXCEPT !.order = o, !.from = f]
         = With(o, f, its0, i0, n0, plan, picks, slot)
  BY <1>1, <1>3, <1>7
<1>12. [NoLocals EXCEPT !.order = o, !.i = t, !.n = q]
         = With(o, from, its0, t, q, plan, picks, slot)
  BY <1>1, <1>4, <1>8, <1>9
<1>. QED  BY <1>10, <1>11, <1>12

(* A step that writes order o: one that is late stays late with its lines. *)
OrderWrite(o, s, its) ==
    /\ status' = [status EXCEPT ![o] = s]
    /\ items' = [items EXCEPT ![o] = its]
    /\ Agreed(its)
    /\ status[o] \in Late => s \in Late /\ Lines(its) = Lines(items[o])

LEMMA OrderWritten ==
    ASSUME LInv, NEW o \in Orders, NEW s \in Statuses, NEW its, OrderWrite(o, s, its)
    PROVE  /\ status' \in [Orders -> Statuses]
           /\ items' = [x \in Orders |-> items'[x]]
           /\ \A x \in Orders : status'[x] # "NONE" => Agreed(items'[x])
           /\ \A w \in Workers : LocalOK(loc[w], pc[w], status', items')
           /\ [x \in Orders |-> Lines(items'[x])]
                 = [[x \in Orders |-> Lines(items[x])] EXCEPT ![o] = Lines(its)]
<1>1. /\ status' \in [Orders -> Statuses]
      /\ items' = [x \in Orders |-> items'[x]]
      /\ status'[o] = s /\ items'[o] = its
      /\ \A x \in Orders \ {o} : status'[x] = status[x] /\ items'[x] = items[x]
  BY DEF LInv, OrderWrite
<1>2. \A x \in Orders : status'[x] # "NONE" => Agreed(items'[x])
  BY <1>1 DEF LInv, OrderWrite
<1>3. ASSUME NEW w \in Workers
      PROVE  LocalOK(loc[w], pc[w], status', items')
  <2>1. CASE pc[w] \in ShipLabels
    <3>1. loc[w].order \in Orders
      BY <2>1 DEF LInv, LocalOK, ShipLabels
    <3>. QED  BY <1>1, <2>1, <3>1 DEF LInv, LocalOK, OrderWrite
  <2>2. CASE pc[w] \notin ShipLabels
    BY <2>2 DEF LInv, LocalOK
  <2>. QED  BY <2>1, <2>2
<1>4. [x \in Orders |-> Lines(items'[x])]
        = [[x \in Orders |-> Lines(items[x])] EXCEPT ![o] = Lines(its)]
  <2>. DEFINE old == [x \in Orders |-> Lines(items[x])]
              new == [x \in Orders |-> Lines(items'[x])]
  <2>1. /\ \A x \in Orders \ {o} : new[x] = old[x]
        /\ new[o] = Lines(its)
    BY <1>1
  <2>2. new = [x \in Orders |-> new[x]] /\ old = [x \in Orders |-> old[x]]
    OBVIOUS
  <2>. HIDE DEF old, new
  <2>3. new = [old EXCEPT ![o] = Lines(its)]
    BY <2>1, <2>2
  <2>. QED  BY <2>3 DEF old, new
<1>. QED  BY <1>1, <1>2, <1>3, <1>4

(* The same when the writing request goes on or ends.                      *)
LEMMA OrderGoto ==
    ASSUME LInv, NEW o \in Orders, NEW s \in Statuses, NEW its, OrderWrite(o, s, its),
           NEW w \in Workers, NEW a \in Labels, NEW l,
           a # "idle" => LocalOK(l, a, status', items'),
           Goto(w, a, l)
    PROVE  LInv'
<1>1. PICK m : LocalOK(m, a, status', items') /\ loc' = [loc EXCEPT ![w] = m]
  BY NoLocalsOK DEF Goto
<1>2. pc' = [pc EXCEPT ![w] = a]
  BY DEF Goto
<1>3. /\ pc' \in [Workers -> Labels]
      /\ loc' = [v \in Workers |-> loc'[v]]
      /\ \A v \in Workers : v # w => loc'[v] = loc[v] /\ pc'[v] = pc[v]
      /\ loc'[w] = m /\ pc'[w] = a
  BY <1>1, <1>2 DEF LInv
<1>4. \A v \in Workers : LocalOK(loc'[v], pc'[v], status', items')
  BY <1>1, <1>3, OrderWritten
<1>. QED  BY <1>3, <1>4, OrderWritten DEF LInv

(* A request that leaves the orders, its item list and its order alone.    *)
LEMMA GoesOn ==
    ASSUME LInv, UNCHANGED <<status, items>>, NEW w \in Workers, NEW a \in Labels, NEW l,
           LocalWith(l, loc[w], loc[w].items),
           pc[w] \notin {"idle", "addPicked", "event"}, a # "cancel",
           a \in {"replace"} \cup ReserveLabels => pc[w] \in ReserveLabels,
           a \in ShipLabels => pc[w] \in ShipLabels,
           Goto(w, a, l)
    PROVE  Kept
<1>1. LocalOK(loc[w], pc[w], status, items)
  BY DEF LInv
<1>2. LocalOK(l, a, status, items)
  BY <1>1 DEF LocalOK, LocalWith
<1>. QED  BY <1>2, QuietGoto

LEMMA LocalsKnown ==
    ASSUME LInv, NEW w \in Workers
    PROVE  LocalOK(loc[w], pc[w], status, items) /\ IsLocal(loc[w])
BY DEF LInv, LocalOK

-----------------------------------------------------------------------------
(* One lemma per service: each of its steps keeps the invariant and is a   *)
(* step of OrderLifecycle or leaves the orders alone.                      *)

LEMMA ReservingKeeps ==
    ASSUME LInv, NEW w \in Workers
    PROVE  /\ ReservePhysical(w) => Kept
           /\ ReserveSum(w) => Kept
           /\ ReserveInsert(w) => Kept
           /\ ReleaseAll(w) => Kept
           /\ \A r : ReleaseOne(w, r) => Kept
<1>. USE LocalsKnown
<1>1. ASSUME ReservePhysical(w) PROVE Kept
  <2>. DEFINE v == Physical(TheItem(w).product)
              l == [loc[w] EXCEPT !.n = v]
  <2>1. Goto(w, "sumActive", l) /\ pc[w] = "physical" /\ UNCHANGED <<status, items>>
    BY SMTT(30), <1>1 DEF ReservePhysical, At
  <2>. HIDE DEF v
  <2>2. LocalWith(l, loc[w], loc[w].items)
    BY Zenon, LocalKept
  <2>. HIDE DEF l
  <2>. QED  BY <2>1, <2>2, GoesOn DEF Labels, ReserveLabels, ShipLabels
<1>2. ASSUME ReserveSum(w) PROVE Kept
  <2>1. /\ \E a \in {"release", "reserve"} : Goto(w, a, loc[w])
        /\ pc[w] = "sumActive" /\ UNCHANGED <<status, items>>
    BY <1>2 DEF ReserveSum, At, Rollback
  <2>. QED  BY <2>1, GoesOn DEF Labels, ReserveLabels, ShipLabels, LocalWith
<1>3. ASSUME ReserveInsert(w) PROVE Kept
  <2>. DEFINE new == [loc[w].items EXCEPT ![loc[w].i].reserved = TheItem(w).req]
              l == [loc[w] EXCEPT !.items = new]
              i == l.i + 1
              m == [l EXCEPT !.i = i]
  <2>1. /\ \/ Goto(w, "confirm", l)
           \/ Goto(w, "physical", m)
        /\ pc[w] = "reserve" /\ UNCHANGED <<status, items>>
    BY <1>3 DEF ReserveInsert, At
  <2>2. Agreed(new)
    <3>1. Agreed(loc[w].items)
      BY <2>1 DEF LocalOK, ReserveLabels
    <3>. QED  BY <3>1, ReservedLines DEF Agreed
  <2>. HIDE DEF new
  <2>3. LocalWith(l, loc[w], new)
    BY Zenon, LocalKept
  <2>. HIDE DEF l, i
  <2>4. LocalWith(m, loc[w], new)
    <3>1. IsLocal(l)
      BY SMTT(30), <2>3 DEF LocalWith
    <3>2. LocalWith(m, l, l.items)
      BY <3>1, LocalKept
    <3>. HIDE DEF m
    <3>. QED  BY <3>2, <2>3 DEF LocalWith
  <2>5. loc[w].order \in Orders
    BY <2>1 DEF LocalOK
  <2>. HIDE DEF m
  <2>6. LocalOK(l, "confirm", status, items) /\ LocalOK(m, "physical", status, items)
    BY <2>2, <2>3, <2>4, <2>5 DEF LocalOK, LocalWith, ShipLabels
  <2>. QED  BY <2>1, <2>6, QuietGoto DEF Labels, ShipLabels, ReserveLabels
<1>4. ASSUME ReleaseAll(w) PROVE Kept
  BY <1>4, QuietFinish DEF ReleaseAll
<1>5. ASSUME NEW r, ReleaseOne(w, r) PROVE Kept
  BY <1>5 DEF ReleaseOne, Once, LInv, Kept, Lifecycle!vars
<1>. QED  BY <1>1, <1>2, <1>3, <1>4, <1>5

LEMMA PickingKeeps ==
    ASSUME LInv, NEW w \in Workers
    PROVE  /\ ShortageCheck(w) => Kept
           /\ PlanItem(w) => Kept
           /\ InsertTask(w) => Kept
           /\ CancelTasks(w) => Kept
           /\ CountOpen(w) => Kept
           /\ CountAll(w) => Kept
           /\ \A t, q : ScanRead(w, t, q) => Kept
           /\ AddPicked(w) => Kept
           /\ InsertEvent(w) => Kept
<1>. USE LocalsKnown
<1>1. ASSUME ShortageCheck(w) PROVE Kept
  <2>. DEFINE n == loc[w].n + (IF Positive(TheItem(w).product) < TheItem(w).req
                               THEN 1 ELSE 0)
              i == loc[w].i + 1
              l == [loc[w] EXCEPT !.n = n, !.i = i]
              m == [loc[w] EXCEPT !.i = 1]
  <2>1. /\ Goto(w, "shortage", l) \/ Goto(w, "plan", m) \/ Finish(w)
        /\ pc[w] = "shortage" /\ UNCHANGED <<status, items>>
    BY SMTT(30), <1>1 DEF ShortageCheck, At
  <2>. HIDE DEF n, i
  <2>2. LocalWith(l, loc[w], loc[w].items)
    BY ZenonT(40), LocalKept
  <2>3. LocalWith(m, loc[w], loc[w].items)
    BY LocalKept
  <2>. HIDE DEF l, m
  <2>. QED  BY <2>1, <2>2, <2>3, GoesOn, QuietFinish DEF Labels, ReserveLabels, ShipLabels
<1>2. ASSUME PlanItem(w) PROVE Kept
  <2>1. PICK p \in ItemPlans(TheItem(w)) :
           LET l == [loc[w] EXCEPT !.plan = @ \o p] IN
           CASE ~LastItem(w) -> Goto(w, "plan", [l EXCEPT !.i = @ + 1])
             [] LastItem(w) /\ l.plan # <<>> -> Goto(w, "insertTasks", l)
             [] OTHER -> Finish(w)
    BY <1>2 DEF PlanItem
  <2>. DEFINE plan == loc[w].plan \o p
              l == [loc[w] EXCEPT !.plan = plan]
              i == l.i + 1
              m == [l EXCEPT !.i = i]
  <2>2. /\ Goto(w, "plan", m) \/ Goto(w, "insertTasks", l) \/ Finish(w)
        /\ pc[w] = "plan" /\ UNCHANGED <<status, items>>
    BY SMTT(30), <1>2, <2>1 DEF PlanItem, At
  <2>. HIDE DEF plan
  <2>3. LocalWith(l, loc[w], loc[w].items)
    BY Zenon, LocalKept
  <2>. HIDE DEF l, i
  <2>4. LocalWith(m, loc[w], loc[w].items)
    <3>1. IsLocal(l)
      BY SMTT(30), <2>3 DEF LocalWith
    <3>2. LocalWith(m, l, l.items)
      BY Zenon, <3>1, LocalKept
    <3>. HIDE DEF m
    <3>. QED  BY <3>2, <2>3 DEF LocalWith
  <2>. HIDE DEF m
  <2>. QED  BY SMTT(30), <2>2, <2>3, <2>4, GoesOn, QuietFinish DEF Labels, ReserveLabels, ShipLabels
<1>3. ASSUME InsertTask(w) PROVE Kept
  <2>. DEFINE plan == Tail(loc[w].plan)
              l == [loc[w] EXCEPT !.plan = plan]
  <2>1. /\ \E a \in {"startPick", "insertTasks"} : Goto(w, a, l)
        /\ pc[w] = "insertTasks" /\ UNCHANGED <<status, items>>
    BY SMTT(30), <1>3 DEF InsertTask, At
  <2>. HIDE DEF plan
  <2>2. LocalWith(l, loc[w], loc[w].items)
    BY Zenon, LocalKept
  <2>. HIDE DEF l
  <2>. QED  BY <2>1, <2>2, GoesOn DEF Labels, ReserveLabels, ShipLabels
<1>4. ASSUME CancelTasks(w) PROVE Kept
  <2>1. /\ Goto(w, "release", loc[w])
        /\ pc[w] = "cancelTasks" /\ UNCHANGED <<status, items>>
    BY <1>4 DEF CancelTasks, At
  <2>. QED  BY <2>1, GoesOn DEF Labels, ReserveLabels, ShipLabels, LocalWith
<1>5. ASSUME CountOpen(w) PROVE Kept
  <2>. DEFINE n == NotDone(Me(w))
              l == [loc[w] EXCEPT !.n = n]
  <2>1. /\ Goto(w, "countAll", l)
        /\ pc[w] = "countOpen" /\ UNCHANGED <<status, items>>
    BY <1>5 DEF CountOpen, At
  <2>. HIDE DEF n
  <2>2. LocalWith(l, loc[w], loc[w].items)
    BY LocalKept
  <2>. HIDE DEF l
  <2>. QED  BY <2>1, <2>2, GoesOn DEF Labels, ReserveLabels, ShipLabels
<1>6. ASSUME CountAll(w) PROVE Kept
  <2>1. /\ Goto(w, "events", loc[w]) \/ Finish(w)
        /\ pc[w] = "countAll" /\ UNCHANGED <<status, items>>
    BY <1>6 DEF CountAll, At
  <2>. QED  BY <2>1, GoesOn, QuietFinish DEF Labels, ReserveLabels, ShipLabels, LocalWith
<1>7. ASSUME NEW t, NEW q, ScanRead(w, t, q) PROVE Kept
  <2>. DEFINE o == tasks[t].order
              l == [NoLocals EXCEPT !.order = o, !.i = t, !.n = q]
  <2>1. Start(w, "addPicked", l) /\ UNCHANGED <<status, items>>
    BY <1>7 DEF ScanRead
  <2>. HIDE DEF o
  <2>2. LocalOK(l, "addPicked", status, items)
    <3>1. l = With(o, NoLocals.from, NoLocals.items, t, q, NoLocals.plan, NoLocals.picks,
                   NoLocals.slot)
      BY StartLocals
    <3>. HIDE DEF l
    <3>2. IsLocal(l)
      BY <3>1, WithIsLocal
    <3>. QED  BY SMTT(30), <3>2 DEF LocalOK, ReserveLabels, ShipLabels
  <2>. HIDE DEF l
  <2>. QED  BY Zenon, <2>1, <2>2, QuietStep DEF Start, Labels, ShipLabels
<1>8. ASSUME AddPicked(w) PROVE Kept
  <2>1. /\ Goto(w, "event", loc[w]) \/ Finish(w)
        /\ UNCHANGED <<status, items>>
    BY <1>8 DEF AddPicked
  <2>2. LocalOK(loc[w], "event", status, items)
    BY DEF LocalOK, ReserveLabels, ShipLabels
  <2>. QED  BY <2>1, <2>2, QuietGoto, QuietFinish DEF Labels, ShipLabels
<1>9. ASSUME InsertEvent(w) PROVE Kept
  BY <1>9, QuietFinish DEF InsertEvent
<1>. QED  BY <1>1, <1>2, <1>3, <1>4, <1>5, <1>6, <1>7, <1>8, <1>9

(* A write of an order is a step of OrderLifecycle when it moves along it. *)
Along(o, s, its) ==
    \/ status[o] = "NONE" /\ s = "DRAFT"
    \/ status[o] = "DRAFT" /\ s \in {"DRAFT", "CONFIRMED"}
    \/ /\ Lines(its) = Lines(items[o])
       /\ \/ status[o] = "CONFIRMED" /\ s = "PICKING"
          \/ status[o] = "PICKING" /\ s = "SHIPPED"
          \/ status[o] \in {"DRAFT", "CONFIRMED", "PICKING"} /\ s = "CANCELLED"

LEMMA AlongIsStep ==
    ASSUME LInv, NEW o \in Orders, NEW s \in Statuses, NEW its,
           OrderWrite(o, s, its), Along(o, s, its)
    PROVE  [Lifecycle!Next]_(Lifecycle!vars)
<1>. DEFINE lines == [x \in Orders |-> Lines(items[x])]
            new == [x \in Orders |-> Lines(items'[x])]
<1>1. new = [lines EXCEPT ![o] = Lines(its)] /\ Lines(its) \in Carts
  BY OrderWritten DEF OrderWrite, Agreed
<1>2. lines[o] = Lines(items[o])
  OBVIOUS
<1>3. Lines(its) = Lines(items[o]) => new = lines
  <2>1. lines = [x \in Orders |-> lines[x]]
    OBVIOUS
  <2>. HIDE DEF lines, new
  <2>. QED  BY <1>1, <1>2, <2>1
<1>4. status' = [status EXCEPT ![o] = s]
  BY DEF OrderWrite
<1>5. CASE status[o] = "NONE" /\ s = "DRAFT"
  <2>1. Lifecycle!Create(o)
    BY <1>1, <1>4, <1>5 DEF Lifecycle!Create, Lifecycle!Advance, Lifecycle!Agree
  <2>. QED  BY <2>1 DEF Lifecycle!Next
<1>6. CASE status[o] = "DRAFT" /\ s = "DRAFT"
  <2>1. UNCHANGED status
    BY <1>4, <1>6 DEF LInv
  <2>2. Lifecycle!Edit(o)
    BY <1>1, <1>6, <2>1 DEF Lifecycle!Edit, Lifecycle!Agree
  <2>. QED  BY <2>2 DEF Lifecycle!Next
<1>7. CASE status[o] = "DRAFT" /\ s = "CONFIRMED"
  <2>1. Lifecycle!Confirm(o)
    BY <1>1, <1>4, <1>7 DEF Lifecycle!Confirm, Lifecycle!Advance, Lifecycle!Agree
  <2>. QED  BY <2>1 DEF Lifecycle!Next
<1>8. CASE Lines(its) = Lines(items[o]) /\ status[o] = "CONFIRMED" /\ s = "PICKING"
  <2>1. Lifecycle!StartPick(o)
    BY <1>3, <1>4, <1>8 DEF Lifecycle!StartPick, Lifecycle!Advance
  <2>. QED  BY <2>1 DEF Lifecycle!Next
<1>9. CASE Lines(its) = Lines(items[o]) /\ status[o] = "PICKING" /\ s = "SHIPPED"
  <2>1. Lifecycle!Ship(o)
    BY <1>3, <1>4, <1>9 DEF Lifecycle!Ship, Lifecycle!Advance
  <2>. QED  BY <2>1 DEF Lifecycle!Next
<1>10. CASE /\ Lines(its) = Lines(items[o])
            /\ status[o] \in {"DRAFT", "CONFIRMED", "PICKING"} /\ s = "CANCELLED"
  <2>1. Lifecycle!Cancel(o)
    BY <1>3, <1>4, <1>10 DEF Lifecycle!Cancel, Lifecycle!Advance
  <2>. QED  BY <2>1 DEF Lifecycle!Next
<1>. QED  BY <1>5, <1>6, <1>7, <1>8, <1>9, <1>10 DEF Along

LEMMA SameItems ==
    ASSUME LInv, NEW o \in Orders
    PROVE  /\ items = [items EXCEPT ![o] = items[o]]
           /\ status = [status EXCEPT ![o] = status[o]]
BY DEF LInv

LEMMA ReadingLocals ==
    ASSUME NEW o
    PROVE  /\ IsLocal(Reading(o)) /\ Reading(o).order = o /\ Reading(o).items = items[o]
<1>1. Reading(o) = With(o, NoLocals.from, items[o], 1, NoLocals.n, NoLocals.plan,
                        NoLocals.picks, NoLocals.slot)
  BY StartLocals DEF Reading
<1>. QED  BY SMTT(30), <1>1, WithIsLocal

LEMMA CreatingKeeps ==
    ASSUME LInv, NEW o \in Orders, NEW c \in Carts, Create(o, c)
    PROVE  Kept
<1>1. OrderWrite(o, "DRAFT", NewItems(c)) /\ Along(o, "DRAFT", NewItems(c))
  BY NewItemsLines DEF Create, OrderWrite, Agreed, Along, Late
<1>2. UNCHANGED <<pc, loc>>
  BY DEF Create
<1>3. LInv'
  BY <1>1, <1>2, OrderWritten DEF LInv, Statuses
<1>. QED  BY <1>1, <1>3, AlongIsStep DEF Kept, Statuses

LEMMA OrderReadsKeep ==
    ASSUME LInv, NEW w \in Workers, NEW o \in Orders
    PROVE  /\ UpdateRead(w, o) => Kept
           /\ ConfirmRead(w, o) => Kept
           /\ CancelRead(w, o) => Kept
           /\ PickRead(w, o) => Kept
           /\ ShipRead(w, o) => Kept
<1>. USE ReadingLocals
<1>1. ASSUME UpdateRead(w, o) PROVE Kept
  <2>1. PICK its \in {items[o]} \cup {NewItems(c) : c \in Carts} :
           Start(w, "replace", [Reading(o) EXCEPT !.items = its])
    BY <1>1 DEF UpdateRead
  <2>. DEFINE l == [Reading(o) EXCEPT !.items = its]
  <2>2. Agreed(its)
    BY SMTT(30), <1>1, NewItemsLines DEF UpdateRead, LInv, Agreed
  <2>3. LocalWith(l, Reading(o), its)
    BY LocalKept
  <2>. HIDE DEF l
  <2>4. LocalOK(l, "replace", status, items)
    BY <2>2, <2>3 DEF LocalWith, LocalOK, ShipLabels
  <2>. QED  BY <1>1, <2>1, <2>4, QuietStep DEF l, UpdateRead, Start, Labels, ShipLabels
<1>2. ASSUME ConfirmRead(w, o) PROVE Kept
  <2>1. Agreed(items[o])
    BY <1>2 DEF ConfirmRead, LInv
  <2>2. LocalOK(Reading(o), "physical", status, items)
    BY <2>1 DEF LocalOK, ShipLabels
  <2>. QED  BY <1>2, <2>2, QuietStep DEF ConfirmRead, Start, Labels, ShipLabels, ReserveLabels
<1>3. ASSUME CancelRead(w, o) PROVE Kept
  <2>. DEFINE l == [NoLocals EXCEPT !.order = o, !.from = status[o]]
  <2>1. l = With(o, status[o], NoLocals.items, NoLocals.i, NoLocals.n, NoLocals.plan,
                 NoLocals.picks, NoLocals.slot)
    BY StartLocals
  <2>2. Start(w, "cancel", l) /\ UNCHANGED <<status, items>>
    BY <1>3 DEF CancelRead
  <2>. HIDE DEF l
  <2>3. IsLocal(l) /\ l.order = o /\ l.from = status[o]
    BY <2>1, WithIsLocal
  <2>4. LocalOK(l, "cancel", status, items)
    BY <1>3, <2>3 DEF CancelRead, LocalOK, ReserveLabels, ShipLabels
  <2>. QED  BY Zenon, <2>2, <2>4, QuietStep DEF Start, Labels, ShipLabels
<1>4. ASSUME PickRead(w, o) PROVE Kept
  <2>1. LocalOK(Reading(o), "shortage", status, items)
    BY DEF LocalOK, ReserveLabels, ShipLabels
  <2>. QED  BY <1>4, <2>1, QuietStep DEF PickRead, Start, Labels, ShipLabels
<1>5. ASSUME ShipRead(w, o) PROVE Kept
  <2>1. Agreed(items[o]) /\ status[o] \in Late
    BY <1>5 DEF ShipRead, LInv, Late
  <2>2. LocalOK(Reading(o), "countOpen", status, items)
    BY <2>1 DEF LocalOK, ReserveLabels, Agreed
  <2>. QED  BY <1>5, <2>2, QuietStep DEF ShipRead, Start, Labels, ShipLabels
<1>. QED  BY <1>1, <1>2, <1>3, <1>4, <1>5

(* The compare-and-sets.                                                   *)
LEMMA OrderWritesKeep ==
    ASSUME LInv, NEW w \in Workers
    PROVE  /\ Replace(w) => Kept
           /\ ConfirmCommit(w) => Kept
           /\ CancelCommit(w) => Kept
           /\ PickCommit(w) => Kept
           /\ ShipCommit(w) => Kept
<1>. DEFINE o == Me(w)
            its == loc[w].items
<1>. USE LocalsKnown
<1>0. o = loc[w].order
  BY DEF Me
<1>. HIDE DEF o
<1>1. ASSUME Replace(w) PROVE Kept
  <2>1. o \in Orders /\ Agreed(its) /\ Finish(w) /\ UNCHANGED status
    BY <1>0, <1>1 DEF Replace, At, LocalOK
  <2>2. CASE status[o] = "DRAFT"
    <3>1. OrderWrite(o, "DRAFT", its) /\ Along(o, "DRAFT", its)
      BY <1>1, <2>1, <2>2, SameItems DEF Replace, CasMatches, o, OrderWrite, Along, Late
    <3>2. LInv'
      BY <2>1, <3>1, OrderGoto DEF Finish, Statuses, Labels, ShipLabels
    <3>. QED  BY <2>1, <3>1, <3>2, AlongIsStep DEF Kept, Statuses
  <2>3. CASE status[o] # "DRAFT"
    BY <1>1, <2>1, <2>3, QuietFinish DEF Replace, CasMatches, o
  <2>. QED  BY <2>2, <2>3
<1>2. ASSUME ConfirmCommit(w) PROVE Kept
  <2>1. o \in Orders /\ Agreed(its) /\ pc[w] = "confirm"
    BY <1>0, <1>2 DEF ConfirmCommit, At, LocalOK, ReserveLabels
  <2>2. CASE status[o] = "DRAFT"
    <3>1. /\ OrderWrite(o, "CONFIRMED", its) /\ Along(o, "CONFIRMED", its)
          /\ Finish(w)
      BY <1>2, <2>1, <2>2 DEF ConfirmCommit, CasMatches, o, OrderWrite, Along, Late
    <3>2. LInv'
      BY <2>1, <3>1, OrderGoto DEF Finish, Statuses, Labels, ShipLabels
    <3>. QED  BY <2>1, <3>1, <3>2, AlongIsStep DEF Kept, Statuses
  <2>3. CASE status[o] # "DRAFT"
    <3>1. Goto(w, "release", loc[w]) /\ UNCHANGED <<status, items>>
      BY <1>2, <2>3 DEF ConfirmCommit, CasMatches, Rollback, o
    <3>. QED  BY <2>1, <3>1, GoesOn DEF Labels, ReserveLabels, ShipLabels, LocalWith
  <2>. QED  BY <2>2, <2>3
<1>3. ASSUME CancelCommit(w) PROVE Kept
  <2>1. /\ o \in Orders /\ loc[w].from \in {"DRAFT", "CONFIRMED", "PICKING"}
        /\ pc[w] = "cancel" /\ UNCHANGED items
    BY <1>0, <1>3 DEF CancelCommit, At, LocalOK
  <2>2. CASE status[o] = loc[w].from
    <3>. DEFINE a == AfterCancel(loc[w].from)
    <3>1. /\ status' = [status EXCEPT ![o] = "CANCELLED"]
          /\ Goto(w, a, loc[w])
      BY <1>3, <2>2 DEF CancelCommit, CasMatches, o
    <3>2. Agreed(items[o])
      BY <2>1, <2>2 DEF LInv
    <3>3. /\ OrderWrite(o, "CANCELLED", items[o])
          /\ Along(o, "CANCELLED", items[o])
      BY <2>1, <2>2, <3>1, <3>2, SameItems DEF OrderWrite, Along, Late
    <3>4. a \in {"cancelTasks", "release", "idle"}
      BY DEF AfterCancel
    <3>5. LocalOK(loc[w], "cancelTasks", status', items')
            /\ LocalOK(loc[w], "release", status', items')
      BY <1>0, <2>1 DEF LocalOK, ReserveLabels, ShipLabels
    <3>. HIDE DEF a
    <3>6. LInv'
      BY <2>1, <3>1, <3>3, <3>4, <3>5, OrderGoto DEF Statuses, Labels, ShipLabels
    <3>. QED  BY <2>1, <3>3, <3>6, AlongIsStep DEF Kept, Statuses
  <2>3. CASE status[o] # loc[w].from
    BY <1>3, <2>3, QuietFinish DEF CancelCommit, CasMatches, o
  <2>. QED  BY <2>2, <2>3
<1>4. ASSUME PickCommit(w) PROVE Kept
  <2>1. o \in Orders /\ Finish(w) /\ UNCHANGED items
    BY <1>0, <1>4 DEF PickCommit, At, LocalOK
  <2>2. CASE status[o] = "CONFIRMED"
    <3>1. status' = [status EXCEPT ![o] = "PICKING"]
      BY <1>4, <2>2 DEF PickCommit, CasMatches, o
    <3>2. Agreed(items[o])
      BY <2>1, <2>2 DEF LInv
    <3>3. OrderWrite(o, "PICKING", items[o]) /\ Along(o, "PICKING", items[o])
      BY <2>1, <2>2, <3>1, <3>2, SameItems DEF OrderWrite, Along, Late
    <3>4. LInv'
      BY <2>1, <3>3, OrderGoto DEF Finish, Statuses, Labels, ShipLabels
    <3>. QED  BY <2>1, <3>3, <3>4, AlongIsStep DEF Kept, Statuses
  <2>3. CASE status[o] # "CONFIRMED"
    BY <1>4, <2>1, <2>3, QuietFinish DEF PickCommit, CasMatches, o
  <2>. QED  BY <2>2, <2>3
<1>5. ASSUME ShipCommit(w) PROVE Kept
  <2>1. /\ o \in Orders /\ Finish(w)
        /\ status[o] \in Late /\ WellFormed(its) /\ Lines(its) = Lines(items[o])
    BY <1>0, <1>5 DEF ShipCommit, At, LocalOK, ShipLabels
  <2>2. CASE status[o] = "PICKING"
    <3>1. /\ status' = [status EXCEPT ![o] = "SHIPPED"]
          /\ items' = [items EXCEPT ![o] = its]
      BY <1>5, <2>2 DEF ShipCommit, CasMatches, o
    <3>2. Agreed(its)
      BY <2>1, <2>2 DEF LInv, Agreed
    <3>3. OrderWrite(o, "SHIPPED", its) /\ Along(o, "SHIPPED", its)
      BY <2>1, <2>2, <3>1, <3>2 DEF OrderWrite, Along, Late
    <3>4. LInv'
      BY <2>1, <3>3, OrderGoto DEF Finish, Statuses, Labels, ShipLabels
    <3>. QED  BY <2>1, <3>3, <3>4, AlongIsStep DEF Kept, Statuses
  <2>3. CASE status[o] # "PICKING"
    BY <1>5, <2>1, <2>3, QuietFinish DEF ShipCommit, CasMatches, o
  <2>. QED  BY <2>2, <2>3
<1>. QED  BY <1>1, <1>2, <1>3, <1>4, <1>5

LEMMA ShippingKeeps ==
    ASSUME LInv, NEW w \in Workers
    PROVE  /\ ReadEvents(w) => Kept
           /\ RemoveCheck(w) => Kept
           /\ TakeOut(w) => Kept
           /\ Outbound(w) => Kept
           /\ ShipRelease(w) => Kept
<1>. USE LocalsKnown
<1>1. ASSUME ReadEvents(w) PROVE Kept
  <2>. DEFINE picks == [s \in Slots |-> EventsAt(Me(w), s)]
              its == WithShipped(loc[w].items, picks)
              l == [loc[w] EXCEPT !.picks = picks, !.items = its]
              a == NextRow(picks)
  <2>1. Goto(w, a, l) /\ pc[w] = "events" /\ UNCHANGED <<status, items>>
    BY <1>1 DEF ReadEvents, Aggregated, At
  <2>2. /\ loc[w].order \in Orders
        /\ status[loc[w].order] \in Late
        /\ WellFormed(loc[w].items) /\ Lines(loc[w].items) = Lines(items[loc[w].order])
    BY <2>1 DEF LocalOK, ShipLabels
  <2>. HIDE DEF picks
  <2>3. WellFormed(its) /\ Lines(its) = Lines(items[loc[w].order])
    BY SMTT(30), <2>2, WithShippedLines
  <2>. HIDE DEF its
  <2>4. LocalWith(l, loc[w], its)
    BY LocalKept
  <2>5. a \in {"removeCheck", "shipRelease"}
    BY DEF NextRow
  <2>. HIDE DEF l, a
  <2>6. LocalOK(l, "removeCheck", status, items) /\ LocalOK(l, "shipRelease", status, items)
    BY <2>2, <2>3, <2>4 DEF LocalWith, LocalOK, ReserveLabels
  <2>. QED  BY <2>1, <2>5, <2>6, QuietGoto DEF Labels, ShipLabels
<1>2. ASSUME RemoveCheck(w) PROVE Kept
  <2>1. PICK s \in Slots : \/ Finish(w)
                           \/ Goto(w, "remove", [loc[w] EXCEPT !.slot = s])
    BY SMTT(30), <1>2 DEF RemoveCheck
  <2>. DEFINE l == [loc[w] EXCEPT !.slot = s]
  <2>2. LocalWith(l, loc[w], loc[w].items)
    BY LocalKept
  <2>3. pc[w] = "removeCheck" /\ UNCHANGED <<status, items>>
    BY <1>2 DEF RemoveCheck, At
  <2>. HIDE DEF l
  <2>. QED  BY <2>1, <2>2, <2>3, GoesOn, QuietFinish
            DEF l, Labels, ReserveLabels, ShipLabels
<1>3. ASSUME TakeOut(w) PROVE Kept
  <2>1. Goto(w, "outbound", loc[w]) /\ pc[w] = "remove" /\ UNCHANGED <<status, items>>
    BY <1>3 DEF TakeOut, At
  <2>. QED  BY <2>1, GoesOn DEF Labels, ReserveLabels, ShipLabels, LocalWith
<1>4. ASSUME Outbound(w) PROVE Kept
  <2>. DEFINE picks == [loc[w].picks EXCEPT ![loc[w].slot] = 0]
              l == [loc[w] EXCEPT !.picks = picks]
              a == NextRow(l.picks)
  <2>1. Goto(w, a, l) /\ pc[w] = "outbound" /\ UNCHANGED <<status, items>>
    BY <1>4 DEF Outbound, At
  <2>2. a \in {"removeCheck", "shipRelease"}
    BY SMTT(30) DEF NextRow
  <2>. HIDE DEF picks, a
  <2>3. LocalWith(l, loc[w], loc[w].items)
    BY LocalKept
  <2>. HIDE DEF l
  <2>. QED  BY <2>1, <2>2, <2>3, GoesOn DEF Labels, ReserveLabels, ShipLabels
<1>5. ASSUME ShipRelease(w) PROVE Kept
  <2>1. Goto(w, "ship", loc[w]) /\ pc[w] = "shipRelease" /\ UNCHANGED <<status, items>>
    BY <1>5 DEF ShipRelease, At
  <2>. QED  BY <2>1, GoesOn DEF Labels, ReserveLabels, ShipLabels, LocalWith
<1>. QED  BY <1>1, <1>2, <1>3, <1>4, <1>5

LEMMA ElseKeeps ==
    ASSUME LInv, NEW w \in Workers
    PROVE  /\ \A s, d : Move(w, s, d) => Kept
           /\ Crash(w) => Kept
           /\ CallFails(w) => Kept
<1>1. ASSUME NEW s, NEW d, Move(w, s, d) PROVE Kept
  BY <1>1 DEF Move, Once, LInv, Kept, Lifecycle!vars
<1>2. ASSUME Crash(w) PROVE Kept
  BY <1>2, QuietFinish DEF Crash, GiveUp
<1>3. ASSUME CallFails(w) PROVE Kept
  <2>1. CASE pc[w] \in ReserveLabels \cup {"cancelTasks"} /\ Goto(w, "release", loc[w])
    BY <1>3, <2>1, GoesOn, LocalsKnown
       DEF CallFails, Labels, ReserveLabels, ShipLabels, LocalWith
  <2>2. CASE pc[w] = "shipRelease" /\ Goto(w, "ship", loc[w])
    BY <1>3, <2>2, GoesOn, LocalsKnown
       DEF CallFails, Labels, ReserveLabels, ShipLabels, LocalWith
  <2>. QED  BY <1>3, <2>1, <2>2 DEF CallFails, At
<1>. QED  BY <1>1, <1>2, <1>3

LEMMA LInvInit == Init => LInv /\ Lifecycle!Init
<1>. SUFFICES ASSUME Init PROVE LInv /\ Lifecycle!Init
  OBVIOUS
<1>1. status = [o \in Orders |-> "NONE"] /\ items = [o \in Orders |-> <<>>]
  BY DEF Init
<1>2. LInv
  <2>1. /\ pc = [w \in Workers |-> "idle"] /\ loc = [w \in Workers |-> NoLocals]
    BY DEF Init
  <2>. QED  BY <1>1, <2>1, NoLocalsOK DEF LInv, Statuses, Labels, ShipLabels
<1>3. Lifecycle!Init
  <2>1. Lines(<<>>) = <<>>
    BY DEF Lines
  <2>. QED  BY <1>1, <2>1 DEF Lifecycle!Init
<1>. QED  BY <1>2, <1>3

LEMMA LInvNext == LInv /\ [Next]_vars => Kept
<1>. SUFFICES ASSUME LInv, [Next]_vars PROVE Kept
  OBVIOUS
<1>1. CASE UNCHANGED vars
  BY <1>1 DEF vars, LInv, Kept, Lifecycle!vars
<1>2. ASSUME NEW o \in Orders, NEW c \in Carts, Create(o, c) PROVE Kept
  BY <1>2, CreatingKeeps
<1>3. ASSUME NEW w \in Workers, Begin(w) PROVE Kept
  BY <1>3, OrderReadsKeep, PickingKeeps, ReservingKeeps, ElseKeeps DEF Begin
<1>4. ASSUME NEW w \in Workers, Continue(w) PROVE Kept
  BY <1>4, OrderWritesKeep, ReservingKeeps, PickingKeeps, ShippingKeeps DEF Continue
<1>5. ASSUME NEW w \in Workers, Crash(w) \/ CallFails(w) PROVE Kept
  BY <1>5, ElseKeeps
<1>. QED  BY <1>1, <1>2, <1>3, <1>4, <1>5 DEF Next, Idle

-----------------------------------------------------------------------------
(* Fulfilment implements OrderLifecycle: whatever requests race, fail or   *)
(* die, every order lives the life its readers were promised, because each *)
(* transition is a compare-and-set and the items that Confirm and Ship     *)
(* write back have the lines that were agreed on.                          *)
THEOREM LifecycleIsKept == Spec => LifecycleSpec
<1>1. Init => LInv /\ Lifecycle!Init
  BY LInvInit
<1>2. LInv /\ [Next]_vars => LInv' /\ [Lifecycle!Next]_(Lifecycle!vars)
  BY LInvNext DEF Kept
<1>. QED  BY <1>1, <1>2, PTL DEF Spec, LifecycleSpec, Lifecycle!Spec

-----------------------------------------------------------------------------
(* Reservations of an order that is neither CONFIRMED nor PICKING.  They   *)
(* are covered by a request that will confirm or release; a request that   *)
(* is about to ship has seen them released, and any that came since belong *)
(* to a Confirm that is bound to fail.                                     *)

CoverLabels == ReserveLabels \cup {"release", "cancelTasks"}

ItemLabels == {"physical", "sumActive", "reserve"}

Free(o) == \A r \in DOMAIN resv : ~Held(r, o)

Covered(o) == \E w \in Workers : Me(w) = o /\ pc[w] \in CoverLabels

NInv ==
    /\ resv \in Seq(Reservation)
    /\ \A w \in Workers : pc[w] \in ItemLabels => loc[w].i \in 1..Len(loc[w].items)
    /\ \A o \in Orders : Free(o) \/ Covered(o) \/ status[o] \in {"CONFIRMED", "PICKING"}
    /\ \A w \in Workers : pc[w] = "ship" => Free(Me(w)) \/ Covered(Me(w))

(* An agreed item list is a sequence with a product and a positive quantity*)
(* at each index, and is not empty.                                        *)
LEMMA AgreedSeq ==
    ASSUME NEW its, Agreed(its)
    PROVE  /\ Len(its) \in Nat \ {0}
           /\ DOMAIN its = 1..Len(its)
           /\ \A k \in 1..Len(its) : its[k].product \in Products /\ its[k].req \in Nat \ {0}
<1>. DEFINE c == Lines(its)
<1>1. c \in Seq(Line) /\ c # <<>>
  BY StoreAssumption DEF Agreed
<1>2. DOMAIN its = DOMAIN c /\ \A k \in DOMAIN its : c[k].product = its[k].product /\ c[k].req = its[k].req
  BY DEF Lines
<1>3. its = [k \in DOMAIN its |-> its[k]]
  BY DEF Agreed, WellFormed
<1>. HIDE DEF c
<1>4. /\ Len(c) \in Nat \ {0} /\ DOMAIN c = 1..Len(c)
      /\ \A k \in 1..Len(c) : c[k] \in Line
  BY <1>1, EmptySeq, ElementOfSeq, LenProperties
<1>5. its \in Seq({its[k] : k \in DOMAIN its})
  BY <1>2, <1>3, <1>4
<1>6. DOMAIN its = 1..Len(its) /\ Len(its) \in Nat
  BY <1>5, LenProperties
<1>7. Len(its) = Len(c)
  BY <1>2, <1>4, <1>6
<1>8. \A x \in Line : x.product \in Products /\ x.req \in Nat \ {0}
  BY DEF Line
<1>. QED  BY <1>2, <1>4, <1>6, <1>7, <1>8

(* Releasing frees the order and takes nothing else.                       *)
LEMMA Released ==
    ASSUME resv \in Seq(Reservation), NEW R, NEW hand \in BOOLEAN, Release(R, hand)
    PROVE  /\ resv' \in Seq(Reservation)
           /\ \A o : Free(o) => Free(o)'
           /\ \A o : R = {r \in DOMAIN resv : Held(r, o)} => Free(o)'
<1>1. DOMAIN resv = 1..Len(resv) /\ Len(resv) \in Nat /\ \A r \in DOMAIN resv : resv[r] \in Reservation
  BY ElementOfSeq, LenProperties
<1>2. ASSUME NEW r \in DOMAIN resv
      PROVE  /\ resv'[r] \in Reservation /\ resv'[r].order = resv[r].order
             /\ resv'[r].active <=> resv[r].active /\ r \notin R
  <2>1. resv[r] \in Reservation
    BY <1>1
  <2>2. CASE r \in R
    <3>1. resv'[r] = [[resv[r] EXCEPT !.active = FALSE] EXCEPT !.byHand = hand]
      BY <2>2 DEF Release
    <3>. QED  BY <2>1, <2>2, <3>1 DEF Reservation
  <2>3. CASE r \notin R
    BY <2>1, <2>3 DEF Release
  <2>. QED  BY <2>2, <2>3
<1>3. resv' = [r \in 1..Len(resv) |-> resv'[r]]
  BY <1>1 DEF Release
<1>4. resv' \in Seq(Reservation)
  BY <1>1, <1>2, <1>3
<1>5. DOMAIN resv' = DOMAIN resv
  BY <1>1, <1>3
<1>6. ASSUME NEW o PROVE Free(o) => Free(o)'
  BY <1>2, <1>5 DEF Free, Held
<1>7. ASSUME NEW o, R = {r \in DOMAIN resv : Held(r, o)} PROVE Free(o)'
  BY <1>2, <1>5, <1>7 DEF Free, Held
<1>. QED  BY <1>4, <1>6, <1>7

(* A request that neither covers its order nor comes to, and is not about  *)
(* to ship it.                                                             *)
Aside(w) ==
    /\ UNCHANGED <<status, resv>>
    /\ pc[w] \notin CoverLabels
    /\ pc'[w] \notin CoverLabels \cup {"ship"}
    /\ \A v \in Workers \ {w} : pc'[v] = pc[v] /\ loc'[v] = loc[v]

LEMMA AsideKeeps ==
    ASSUME NInv, NEW w \in Workers, Aside(w)
    PROVE  NInv'
<1>1. /\ resv' = resv /\ status' = status
      /\ \A o : Free(o) => Free(o)'
  BY DEF Aside, Free, Held
<1>2. \A o : Covered(o) => Covered(o)'
  BY DEF Aside, Covered, Me
<1>3. \A v \in Workers : /\ pc'[v] \in ItemLabels \cup {"ship"} => v # w
                         /\ v # w => pc'[v] = pc[v] /\ loc'[v] = loc[v] /\ Me(v)' = Me(v)
  BY DEF Aside, CoverLabels, ReserveLabels, ItemLabels, Me
<1>. QED  BY <1>1, <1>2, <1>3 DEF NInv

LEMMA GotoAside ==
    ASSUME LInv, NEW w \in Workers, NEW a, NEW l, Goto(w, a, l) \/ Start(w, a, l),
           UNCHANGED <<status, resv>>, pc[w] \notin CoverLabels, a \notin CoverLabels \cup {"ship"}
    PROVE  Aside(w)
BY DEF LInv, Goto, Start, Aside

LEMMA AsideReads ==
    ASSUME LInv, NEW w \in Workers
    PROVE  /\ \A o : UpdateRead(w, o) \/ CancelRead(w, o) \/ PickRead(w, o) \/ ShipRead(w, o)
                  => Aside(w)
           /\ \A t, q : ScanRead(w, t, q) => Aside(w)
<1>1. ASSUME NEW a \in {"replace", "cancel", "shortage", "countOpen", "addPicked"}, NEW l,
             Start(w, a, l), UNCHANGED <<status, resv>>
      PROVE  Aside(w)
  BY <1>1, GotoAside DEF Start, CoverLabels, ReserveLabels
<1>2. ASSUME NEW o, UpdateRead(w, o) PROVE Aside(w)
  <2>1. PICK l : Start(w, "replace", l)
    BY <1>2 DEF UpdateRead
  <2>. QED  BY <1>1, <1>2, <2>1 DEF UpdateRead
<1>3. ASSUME NEW o, CancelRead(w, o) PROVE Aside(w)
  <2>1. PICK l : Start(w, "cancel", l)
    BY <1>3 DEF CancelRead
  <2>. QED  BY <1>1, <1>3, <2>1 DEF CancelRead
<1>4. ASSUME NEW o, PickRead(w, o) PROVE Aside(w)
  BY <1>1, <1>4 DEF PickRead
<1>5. ASSUME NEW o, ShipRead(w, o) PROVE Aside(w)
  BY <1>1, <1>5 DEF ShipRead
<1>6. ASSUME NEW t, NEW q, ScanRead(w, t, q) PROVE Aside(w)
  <2>1. PICK l : Start(w, "addPicked", l)
    BY <1>6 DEF ScanRead
  <2>. QED  BY <1>1, <1>6, <2>1 DEF ScanRead
<1>. QED  BY <1>2, <1>3, <1>4, <1>5, <1>6

LEMMA AsideSteps ==
    ASSUME LInv, NEW w \in Workers,
           \/ Replace(w)
           \/ ShortageCheck(w) \/ PlanItem(w) \/ InsertTask(w)
           \/ AddPicked(w) \/ InsertEvent(w)
           \/ CountOpen(w) \/ CountAll(w) \/ ReadEvents(w)
           \/ RemoveCheck(w) \/ TakeOut(w) \/ Outbound(w)
    PROVE  Aside(w)
<1>. DEFINE here == {"replace", "shortage", "plan", "insertTasks", "addPicked", "event",
                     "countOpen", "countAll", "events", "removeCheck", "remove", "outbound"}
            after == {"idle", "shortage", "plan", "insertTasks", "startPick", "event",
                      "countAll", "events", "removeCheck", "remove", "outbound", "shipRelease"}
            goes == \E a \in after : \E l : Goto(w, a, l)
<1>1. ASSUME pc[w] \in here, NEW a \in after, NEW l, Goto(w, a, l), UNCHANGED <<status, resv>>
      PROVE  Aside(w)
  BY SMTT(30), <1>1, GotoAside DEF CoverLabels, ReserveLabels
<1>2. pc[w] \in here /\ UNCHANGED <<status, resv>>
  BY Zenon DEF At, Replace, ShortageCheck, PlanItem, InsertTask, AddPicked, InsertEvent,
         CountOpen, CountAll, ReadEvents, RemoveCheck, TakeOut, Outbound
<1>. HIDE DEF here
<1>3. ASSUME Finish(w) PROVE goes
  BY <1>3 DEF Finish
<1>4. ASSUME Replace(w) PROVE goes
  <2>. HIDE DEF goes
  <2>. QED  BY <1>3, <1>4 DEF Replace
<1>5. ASSUME ShortageCheck(w) PROVE goes
  <2>1. Finish(w) \/ \E a \in {"shortage", "plan"} : \E l : Goto(w, a, l)
    BY <1>5 DEF ShortageCheck
  <2>. QED  BY <1>3, <2>1
<1>6. ASSUME PlanItem(w) PROVE goes
  <2>1. Finish(w) \/ \E a \in {"plan", "insertTasks"} : \E l : Goto(w, a, l)
    BY <1>6 DEF PlanItem
  <2>. QED  BY SMTT(30), <1>3, <2>1
<1>7. ASSUME InsertTask(w) PROVE goes
  <2>1. \E a \in {"startPick", "insertTasks"} : \E l : Goto(w, a, l)
    BY <1>7 DEF InsertTask
  <2>. QED  BY <2>1
<1>8. ASSUME AddPicked(w) \/ InsertEvent(w) PROVE goes
  <2>1. Finish(w) \/ Goto(w, "event", loc[w])
    BY <1>8 DEF AddPicked, InsertEvent
  <2>. QED  BY <1>3, <2>1
<1>9. ASSUME CountOpen(w) \/ CountAll(w) PROVE goes
  <2>1. Finish(w) \/ \E a \in {"countAll", "events"} : \E l : Goto(w, a, l)
    BY <1>9 DEF CountOpen, CountAll
  <2>. QED  BY <1>3, <2>1
<1>10. ASSUME ReadEvents(w) \/ Outbound(w) PROVE goes
  <2>1. \E picks : \E l : Goto(w, NextRow(picks), l)
    BY <1>10 DEF ReadEvents, Outbound
  <2>. QED  BY <2>1 DEF NextRow
<1>11. ASSUME RemoveCheck(w) \/ TakeOut(w) PROVE goes
  <2>1. Finish(w) \/ \E a \in {"remove", "outbound"} : \E l : Goto(w, a, l)
    BY <1>11 DEF RemoveCheck, TakeOut
  <2>. QED  BY <1>3, <2>1
<1>12. goes
  <2>. HIDE DEF goes
  <2>. QED  BY <1>4, <1>5, <1>6, <1>7, <1>8, <1>9, <1>10, <1>11
<1>. QED  BY <1>1, <1>2, <1>12

(* The step of one request, seen by the invariant.                         *)
Steps(w, a, l) ==
    /\ pc'[w] = a /\ loc'[w] = l /\ Me(w)' = l.order
    /\ \A v \in Workers \ {w} : pc'[v] = pc[v] /\ loc'[v] = loc[v] /\ Me(v)' = Me(v)
    /\ \A o : Covered(o) /\ (pc[w] \in CoverLabels /\ Me(w) = o => a \in CoverLabels /\ l.order = o)
                 => Covered(o)'
    /\ \A o : a \in CoverLabels /\ l.order = o => Covered(o)'

LEMMA StepsOf ==
    ASSUME LInv, NEW w \in Workers, NEW a, NEW l,
           pc' = [pc EXCEPT ![w] = a], loc' = [loc EXCEPT ![w] = l]
    PROVE  Steps(w, a, l)
<1>1. /\ pc'[w] = a /\ loc'[w] = l
      /\ \A v \in Workers \ {w} : pc'[v] = pc[v] /\ loc'[v] = loc[v]
  BY DEF LInv
<1>2. Me(w)' = l.order /\ \A v \in Workers \ {w} : Me(v)' = Me(v)
  BY <1>1 DEF Me
<1>. QED  BY <1>1, <1>2 DEF Steps, Covered

LEMMA GotoSteps ==
    ASSUME LInv, NEW w \in Workers, NEW a, NEW l, Goto(w, a, l)
    PROVE  Steps(w, a, IF a = "idle" THEN NoLocals ELSE l)
BY StepsOf DEF Goto

LEMMA SameResv ==
    ASSUME resv' = resv
    PROVE  \A o : Free(o)' <=> Free(o)
BY DEF Free, Held

(* A request that covers its order before and after, or comes to.          *)
LEMMA CoverKeeps ==
    ASSUME LInv, NInv, NEW w \in Workers, NEW a \in CoverLabels, NEW l, Steps(w, a, l),
           UNCHANGED <<status, resv>>, pc[w] \in CoverLabels => l.order = Me(w),
           a \in ItemLabels => l.i \in 1..Len(l.items)
    PROVE  NInv'
<1>1. \A o : Free(o)' <=> Free(o)
  BY SameResv
<1>2. \A o : Covered(o) => Covered(o)'
  BY DEF Steps
<1>3. \A v \in Workers : pc'[v] = "ship" => v # w
  BY DEF Steps, CoverLabels, ReserveLabels
<1>. QED  BY <1>1, <1>2, <1>3 DEF NInv, Steps

LEMMA ReservingCovers ==
    ASSUME LInv, NInv, NEW w \in Workers
    PROVE  /\ \A o \in Orders : ConfirmRead(w, o) => NInv'
           /\ ReservePhysical(w) => NInv'
           /\ ReserveSum(w) => NInv'
           /\ ReserveInsert(w) => NInv'
           /\ ReleaseAll(w) => NInv'
           /\ \A r : ReleaseOne(w, r) => NInv'
<1>1. ASSUME NEW o \in Orders, ConfirmRead(w, o) PROVE NInv'
  <2>1. Agreed(items[o])
    BY SMTT(30), <1>1 DEF ConfirmRead, LInv
  <2>2. Reading(o) = With(o, NoLocals.from, items[o], 1, NoLocals.n, NoLocals.plan,
                          NoLocals.picks, NoLocals.slot)
    BY StartLocals DEF Reading
  <2>3. Reading(o).i = 1 /\ Reading(o).items = items[o]
    BY <2>2 DEF With
  <2>4. Steps(w, "physical", Reading(o)) /\ UNCHANGED <<status, resv>> /\ pc[w] = "idle"
    BY <1>1, StepsOf DEF ConfirmRead, Start
  <2>5. Reading(o).i \in 1..Len(Reading(o).items)
    BY <2>1, <2>3, AgreedSeq
  <2>. QED  BY <2>4, <2>5, CoverKeeps DEF CoverLabels, ReserveLabels
<1>2. ASSUME ReservePhysical(w) PROVE NInv'
  <2>. DEFINE v == Physical(TheItem(w).product)
              l == [loc[w] EXCEPT !.n = v]
  <2>1. Goto(w, "sumActive", l) /\ pc[w] = "physical" /\ UNCHANGED <<status, resv>>
    BY <1>2 DEF ReservePhysical, At
  <2>. HIDE DEF v
  <2>2. l.order = Me(w) /\ l.i = loc[w].i /\ l.items = loc[w].items
    BY LocalsKnown DEF IsLocal, Me
  <2>. HIDE DEF l
  <2>3. Steps(w, "sumActive", l)
    BY <2>1, GotoSteps
  <2>. QED  BY <2>1, <2>2, <2>3, CoverKeeps DEF NInv, CoverLabels, ReserveLabels, ItemLabels
<1>3. ASSUME ReserveSum(w) PROVE NInv'
  <2>1. PICK a \in {"release", "reserve"} : Goto(w, a, loc[w])
    BY <1>3 DEF ReserveSum, Rollback
  <2>2. pc[w] = "sumActive" /\ UNCHANGED <<status, resv>>
    BY <1>3 DEF ReserveSum, At
  <2>3. Steps(w, a, loc[w])
    BY <2>1, GotoSteps
  <2>4. loc[w].order = Me(w) /\ loc[w].i \in 1..Len(loc[w].items)
    BY <2>2 DEF NInv, ItemLabels, Me
  <2>. QED  BY <2>2, <2>3, <2>4, CoverKeeps DEF CoverLabels, ReserveLabels
<1>4. ASSUME ReserveInsert(w) PROVE NInv'
  <2>. DEFINE its == loc[w].items
              new == [its EXCEPT ![loc[w].i].reserved = TheItem(w).req]
              l == [loc[w] EXCEPT !.items = new]
              i == l.i + 1
              m == [l EXCEPT !.i = i]
              r == [order |-> Me(w), product |-> TheItem(w).product,
                    qty |-> TheItem(w).req, active |-> TRUE, byHand |-> FALSE]
  <2>1. /\ \/ Goto(w, "confirm", l)
           \/ loc[w].i # Len(its) /\ Goto(w, "physical", m)
        /\ pc[w] = "reserve" /\ UNCHANGED status
        /\ resv' = Append(resv, r)
    BY <1>4 DEF ReserveInsert, At, LastItem
  <2>2. /\ Me(w) \in Orders /\ Agreed(its) /\ loc[w].i \in 1..Len(its)
    BY <2>1, LocalsKnown DEF LocalOK, Me, NInv, ItemLabels, ReserveLabels
  <2>3. Agreed(new) /\ Len(new) = Len(its)
    <3>1. Agreed(new) /\ DOMAIN new = DOMAIN its
      BY <2>2, ReservedLines DEF Agreed
    <3>. HIDE DEF new
    <3>2. /\ DOMAIN its = 1..Len(its) /\ Len(its) \in Nat
          /\ DOMAIN new = 1..Len(new) /\ Len(new) \in Nat
      BY <2>2, <3>1, AgreedSeq
    <3>. HIDE DEF its
    <3>. QED  BY <3>1, <3>2
  <2>4. r \in Reservation
    BY <2>2, AgreedSeq DEF Reservation, TheItem
  <2>5. /\ resv' \in Seq(Reservation)
        /\ \A o : Free(o) /\ o # Me(w) => Free(o)'
    <3>1. resv \in Seq(Reservation) /\ r.order = Me(w)
      BY DEF NInv
    <3>. HIDE DEF r
    <3>2. /\ resv' \in Seq(Reservation)
          /\ DOMAIN resv' = DOMAIN resv \cup {Len(resv) + 1}
          /\ \A k \in DOMAIN resv : resv'[k] = resv[k]
          /\ resv'[Len(resv) + 1] = r
      BY <2>1, <2>4, <3>1, AppendProperties, LenProperties
    <3>. QED  BY <3>1, <3>2 DEF Free, Held
  <2>. HIDE DEF new
  <2>6. /\ l.order = Me(w) /\ l.i = loc[w].i /\ l.items = new /\ IsLocal(l)
    <3>1. LocalWith(l, loc[w], new)
      BY Zenon, LocalsKnown, LocalKept
    <3>2. l.i = loc[w].i
      BY LocalsKnown DEF IsLocal
    <3>. HIDE DEF l
    <3>. QED  BY SMTT(30), <3>1, <3>2 DEF LocalWith, Me
  <2>. HIDE DEF l
  <2>7. m.order = Me(w) /\ m.i = i /\ m.items = new
    BY <2>6 DEF IsLocal
  <2>8. loc[w].i # Len(its) => i \in 1..Len(new)
    BY <2>2, <2>3, <2>6, AgreedSeq
  <2>. HIDE DEF m, i, its, r
  <2>9. \/ Steps(w, "confirm", l)
        \/ Steps(w, "physical", m) /\ m.i \in 1..Len(m.items)
    BY <2>1, <2>7, <2>8, GotoSteps
  <2>10. \A o : Covered(o) => Covered(o)'
    BY <2>6, <2>7, <2>9 DEF Steps, CoverLabels, ReserveLabels
  <2>11. \A o : o = Me(w) => Covered(o)'
    BY <2>6, <2>7, <2>9 DEF Steps, CoverLabels, ReserveLabels
  <2>12. \A v \in Workers : pc'[v] = "ship" => v # w /\ pc[v] = "ship" /\ Me(v)' = Me(v)
    BY <2>9 DEF Steps
  <2>13. \A v \in Workers : pc'[v] \in ItemLabels => loc'[v].i \in 1..Len(loc'[v].items)
    BY <2>9 DEF Steps, NInv, ItemLabels
  <2>14. Me(w) = Me(w)'
    BY <2>6, <2>7, <2>9 DEF Steps
  <2>. QED  BY <2>1, <2>5, <2>10, <2>11, <2>12, <2>13, <2>14 DEF NInv
<1>5. ASSUME ReleaseAll(w) PROVE NInv'
  <2>1. /\ pc[w] = "release" /\ UNCHANGED status
        /\ Release({r \in DOMAIN resv : Held(r, Me(w))}, FALSE) /\ Goto(w, "idle", NoLocals)
    BY <1>5 DEF ReleaseAll, At, ReleaseByOrder, Finish
  <2>. DEFINE R == {r \in DOMAIN resv : Held(r, Me(w))}
  <2>2. /\ resv' \in Seq(Reservation)
        /\ \A o : Free(o) => Free(o)'
        /\ \A o : o = Me(w) => Free(o)'
    <3>1. resv \in Seq(Reservation) /\ Release(R, FALSE)
      BY <2>1 DEF NInv
    <3>2. R = {r \in DOMAIN resv : Held(r, Me(w))}
      OBVIOUS
    <3>. HIDE DEF R
    <3>. QED  BY <3>1, <3>2, Released
  <2>3. Steps(w, "idle", NoLocals)
    BY <2>1, GotoSteps
  <2>. QED  BY <2>1, <2>2, <2>3 DEF NInv, Steps, ItemLabels
<1>6. ASSUME NEW r, ReleaseOne(w, r) PROVE NInv'
  <2>1. Release({r}, TRUE) /\ UNCHANGED <<status, pc, loc>>
    BY <1>6 DEF ReleaseOne, Once
  <2>2. resv' \in Seq(Reservation) /\ \A o : Free(o) => Free(o)'
    BY <2>1, Released DEF NInv
  <2>3. (\A o : Covered(o)' <=> Covered(o)) /\ \A v \in Workers : Me(v)' = Me(v)
    BY <2>1 DEF Covered, Me
  <2>. QED  BY <2>1, <2>2, <2>3 DEF NInv
<1>. QED  BY <1>1, <1>2, <1>3, <1>4, <1>5, <1>6

(* A compare-and-set that moves an order: it may leave CONFIRMED or PICKING*)
(* only when the order is free or will be freed, and a request stops       *)
(* covering an order only when it confirms it.                             *)
LEMMA StatusWrite ==
    ASSUME LInv, NInv, NEW w \in Workers, NEW a \in {"idle", "release", "cancelTasks"}, NEW l,
           Steps(w, a, l), NEW o \in Orders, Me(w) = o, l.order = o \/ a = "idle",
           NEW s \in Statuses, status' = [status EXCEPT ![o] = s], UNCHANGED resv,
           \/ s \in {"CONFIRMED", "PICKING"} /\ status[o] \notin Late
           \/ pc[w] \notin CoverLabels /\ (a # "idle" \/ Free(o) \/ Covered(o))
    PROVE  NInv'
<1>1. /\ status'[o] = s
      /\ \A x \in Orders \ {o} : status'[x] = status[x]
  BY DEF LInv
<1>2. \A x : Free(x)' <=> Free(x)
  BY SameResv
<1>3. \A x : Covered(x) /\ x # o => Covered(x)'
  BY DEF Steps
<1>4. pc[w] \notin CoverLabels => \A x : Covered(x) => Covered(x)'
  BY DEF Steps
<1>5. a # "idle" => \A x : x = o => Covered(x)'
  BY DEF Steps, CoverLabels
<1>6. /\ pc'[w] = a
      /\ \A v \in Workers \ {w} : pc'[v] = pc[v] /\ loc'[v] = loc[v] /\ Me(v)' = Me(v)
  BY DEF Steps
<1>7. \A v \in Workers : pc'[v] \in ItemLabels => loc'[v].i \in 1..Len(loc'[v].items)
  BY <1>6 DEF NInv, ItemLabels
<1>8. \A x \in Orders : \/ Free(x)' \/ Covered(x)'
                         \/ status'[x] \in {"CONFIRMED", "PICKING"}
  BY <1>1, <1>2, <1>3, <1>4, <1>5 DEF NInv
<1>9. ASSUME NEW v \in Workers, pc'[v] = "ship"
      PROVE  \A x : x = Me(v)' => Free(x)' \/ Covered(x)'
  <2>1. v # w /\ pc[v] = "ship" /\ Me(v)' = Me(v)
    BY <1>6, <1>9
  <2>2. status[Me(v)] \in Late
    BY <2>1 DEF LInv, LocalOK, ShipLabels, Me
  <2>3. Free(Me(v)) \/ Covered(Me(v))
    BY <2>1 DEF NInv
  <2>. QED  BY <1>2, <1>3, <1>4, <2>1, <2>2, <2>3
<1>. QED  BY <1>2, <1>7, <1>8, <1>9 DEF NInv

LEMMA CommitsCover ==
    ASSUME LInv, NInv, NEW w \in Workers
    PROVE  /\ ConfirmCommit(w) => NInv'
           /\ CancelCommit(w) => NInv'
           /\ CancelTasks(w) => NInv'
           /\ PickCommit(w) => NInv'
           /\ ShipRelease(w) => NInv'
           /\ ShipCommit(w) => NInv'
<1>. DEFINE o == Me(w)
<1>0. pc[w] \notin {"idle", "addPicked", "event"} => o \in Orders
  BY LocalsKnown DEF LocalOK, Me
<1>1. ASSUME ConfirmCommit(w) PROVE NInv'
  <2>1. pc[w] = "confirm" /\ UNCHANGED resv
    BY <1>1 DEF ConfirmCommit, At
  <2>2. CASE status[o] = "DRAFT"
    <3>1. Goto(w, "idle", NoLocals) /\ status' = [status EXCEPT ![o] = "CONFIRMED"]
      BY <1>1, <2>2 DEF ConfirmCommit, CasMatches, Finish
    <3>2. Steps(w, "idle", NoLocals)
      BY <3>1, GotoSteps
    <3>. QED  BY <1>0, <2>1, <2>2, <3>1, <3>2, StatusWrite DEF Statuses, Late
  <2>3. CASE status[o] # "DRAFT"
    <3>1. Goto(w, "release", loc[w]) /\ UNCHANGED status
      BY <1>1, <2>3 DEF ConfirmCommit, CasMatches, Rollback
    <3>2. Steps(w, "release", loc[w])
      BY <3>1, GotoSteps
    <3>3. loc[w].order = Me(w)
      BY DEF Me
    <3>. QED  BY <2>1, <3>1, <3>2, <3>3, CoverKeeps DEF CoverLabels, ItemLabels
  <2>. QED  BY <2>2, <2>3
<1>2. ASSUME CancelCommit(w) PROVE NInv'
  <2>1. /\ pc[w] = "cancel" /\ UNCHANGED resv
        /\ loc[w].from \in {"DRAFT", "CONFIRMED", "PICKING"}
    BY <1>2, LocalsKnown DEF CancelCommit, At, LocalOK
  <2>2. CASE status[o] = loc[w].from
    <3>. DEFINE a == AfterCancel(loc[w].from)
    <3>1. Goto(w, a, loc[w]) /\ status' = [status EXCEPT ![o] = "CANCELLED"]
      BY <1>2, <2>2 DEF CancelCommit, CasMatches
    <3>2. a \in {"idle", "release", "cancelTasks"} /\ (a = "idle" => status[o] = "DRAFT")
      BY <2>1, <2>2 DEF AfterCancel
    <3>3. a # "idle" \/ Free(o) \/ Covered(o)
      BY <1>0, <2>1, <3>2 DEF NInv
    <3>4. pc[w] \notin CoverLabels /\ loc[w].order = o
      BY <2>1 DEF CoverLabels, ReserveLabels, Me
    <3>. HIDE DEF a
    <3>5. \E l : Steps(w, a, l) /\ (l.order = o \/ a = "idle")
      BY <3>1, <3>4, GotoSteps
    <3>. QED  BY <1>0, <2>1, <3>1, <3>2, <3>3, <3>4, <3>5, StatusWrite DEF Statuses
  <2>3. CASE status[o] # loc[w].from
    <3>1. Goto(w, "idle", NoLocals) /\ UNCHANGED status
      BY <1>2, <2>3 DEF CancelCommit, CasMatches, Finish
    <3>. QED  BY <2>1, <3>1, GotoAside, AsideKeeps DEF CoverLabels, ReserveLabels
  <2>. QED  BY <2>2, <2>3
<1>3. ASSUME CancelTasks(w) PROVE NInv'
  <2>1. Goto(w, "release", loc[w]) /\ UNCHANGED <<status, resv>>
    BY <1>3 DEF CancelTasks
  <2>2. Steps(w, "release", loc[w]) /\ loc[w].order = Me(w)
    <3>1. Steps(w, "release", loc[w])
      BY <2>1, GotoSteps
    <3>. QED  BY <3>1 DEF Me
  <2>. QED  BY <2>1, <2>2, CoverKeeps DEF CoverLabels, ItemLabels
<1>4. ASSUME PickCommit(w) PROVE NInv'
  <2>1. pc[w] = "startPick" /\ Goto(w, "idle", NoLocals) /\ UNCHANGED resv
    BY <1>4 DEF PickCommit, At, Finish
  <2>2. CASE status[o] = "CONFIRMED"
    <3>1. status' = [status EXCEPT ![o] = "PICKING"]
      BY <1>4, <2>2 DEF PickCommit, CasMatches
    <3>2. Steps(w, "idle", NoLocals)
      BY <2>1, GotoSteps
    <3>. QED  BY <1>0, <2>1, <2>2, <3>1, <3>2, StatusWrite DEF Statuses, Late
  <2>3. CASE status[o] # "CONFIRMED"
    <3>1. UNCHANGED status
      BY <1>4, <2>3 DEF PickCommit, CasMatches
    <3>. QED  BY <2>1, <3>1, GotoAside, AsideKeeps DEF CoverLabels, ReserveLabels
  <2>. QED  BY <2>2, <2>3
<1>5. ASSUME ShipRelease(w) PROVE NInv'
  <2>. DEFINE R == {r \in DOMAIN resv : Held(r, o)}
  <2>1. /\ pc[w] = "shipRelease" /\ UNCHANGED status
        /\ Release(R, FALSE) /\ Goto(w, "ship", loc[w])
    BY <1>5 DEF ShipRelease, At, ReleaseByOrder
  <2>2. /\ resv' \in Seq(Reservation)
        /\ \A x : Free(x) => Free(x)'
        /\ \A x : x = Me(w) => Free(x)'
    <3>1. resv \in Seq(Reservation)
      BY DEF NInv
    <3>2. R = {r \in DOMAIN resv : Held(r, Me(w))}
      OBVIOUS
    <3>. HIDE DEF R
    <3>. QED  BY <2>1, <3>1, <3>2, Released
  <2>3. Steps(w, "ship", loc[w]) /\ loc[w].order = Me(w)
    <3>1. Steps(w, "ship", loc[w])
      BY <2>1, GotoSteps
    <3>. QED  BY <3>1 DEF Me
  <2>4. /\ pc'[w] = "ship" /\ Me(w)' = Me(w)
        /\ \A v \in Workers \ {w} : pc'[v] = pc[v] /\ loc'[v] = loc[v] /\ Me(v)' = Me(v)
    BY <2>3 DEF Steps
  <2>5. \A x : Covered(x) => Covered(x)'
    BY <2>1, <2>3 DEF Steps, CoverLabels, ReserveLabels
  <2>6. ASSUME NEW v \in Workers, pc'[v] = "ship"
        PROVE  \A x : x = Me(v)' => Free(x)' \/ Covered(x)'
    BY <2>2, <2>4, <2>5, <2>6 DEF NInv
  <2>7. \A v \in Workers : pc'[v] \in ItemLabels => loc'[v].i \in 1..Len(loc'[v].items)
    BY <2>4 DEF NInv, ItemLabels
  <2>. QED  BY <2>1, <2>2, <2>5, <2>6, <2>7 DEF NInv
<1>6. ASSUME ShipCommit(w) PROVE NInv'
  <2>1. pc[w] = "ship" /\ Goto(w, "idle", NoLocals) /\ UNCHANGED resv
    BY <1>6 DEF ShipCommit, At, Finish
  <2>2. CASE status[o] = "PICKING"
    <3>1. status' = [status EXCEPT ![o] = "SHIPPED"]
      BY <1>6, <2>2 DEF ShipCommit, CasMatches
    <3>2. Steps(w, "idle", NoLocals)
      BY <2>1, GotoSteps
    <3>3. Free(o) \/ Covered(o)
      BY <2>1 DEF NInv
    <3>. QED  BY <1>0, <2>1, <3>1, <3>2, <3>3, StatusWrite DEF Statuses, CoverLabels, ReserveLabels
  <2>3. CASE status[o] # "PICKING"
    <3>1. UNCHANGED status
      BY <1>6, <2>3 DEF ShipCommit, CasMatches
    <3>. QED  BY <2>1, <3>1, GotoAside, AsideKeeps DEF CoverLabels, ReserveLabels
  <2>. QED  BY <2>2, <2>3
<1>. QED  BY <1>1, <1>2, <1>3, <1>4, <1>5, <1>6

LEMMA NInvNext ==
    ASSUME MayFail = FALSE
    PROVE  LInv /\ NInv /\ [Next]_vars => NInv'
<1>. SUFFICES ASSUME LInv, NInv, [Next]_vars PROVE NInv'
  OBVIOUS
<1>0. ASSUME UNCHANGED <<status, resv, pc, loc>> PROVE NInv'
  <2>1. \A o : (Free(o)' <=> Free(o)) /\ (Covered(o)' <=> Covered(o))
    BY <1>0, SameResv DEF Covered, Me
  <2>2. \A v \in Workers : Me(v)' = Me(v)
    BY <1>0 DEF Me
  <2>. QED  BY <1>0, <2>1, <2>2 DEF NInv
<1>1. CASE UNCHANGED vars
  BY <1>0, <1>1 DEF vars
<1>2. ASSUME NEW o \in Orders, NEW c \in Carts, Create(o, c) PROVE NInv'
  <2>1. /\ UNCHANGED <<resv, pc, loc>>
        /\ status[o] = "NONE"
        /\ \A x \in Orders : status'[x] \in {"CONFIRMED", "PICKING"} \/ x = o \/ status'[x] = status[x]
    BY <1>2 DEF Create, LInv
  <2>2. \A x : (Free(x)' <=> Free(x)) /\ (Covered(x)' <=> Covered(x))
    BY <2>1, SameResv DEF Covered, Me
  <2>3. \A v \in Workers : Me(v)' = Me(v)
    BY <2>1 DEF Me
  <2>. QED  BY <2>1, <2>2, <2>3 DEF NInv
<1>3. ASSUME NEW w \in Workers, Begin(w) PROVE NInv'
  <2>1. ASSUME NEW s, NEW d, Move(w, s, d) PROVE NInv'
    BY <1>0, <2>1 DEF Move, Once
  <2>. QED  BY <1>3, <2>1, AsideReads, AsideKeeps, ReservingCovers DEF Begin
<1>4. ASSUME NEW w \in Workers, Continue(w) PROVE NInv'
  BY <1>4, AsideSteps, AsideKeeps, ReservingCovers, CommitsCover DEF Continue
<1>5. ASSUME NEW w \in Workers, Crash(w) \/ CallFails(w) PROVE NInv'
  BY <1>5 DEF Crash, CallFails
<1>. QED  BY <1>1, <1>2, <1>3, <1>4, <1>5 DEF Next, Idle

(* As long as no request dies and no repository call fails, no race of     *)
(* Confirm, Cancel, Ship and their rollbacks leaves a reservation behind   *)
(* on an order that nobody will release any more.                          *)
THEOREM NothingStranded ==
    ASSUME MayFail = FALSE
    PROVE  Spec => []NoStrandedReservation
<1>1. Init => LInv /\ NInv
  <2>1. Init => NInv
    BY EmptySeq DEF Init, NInv, Free, ItemLabels
  <2>. QED  BY <2>1, LInvInit
<1>2. LInv /\ NInv /\ [Next]_vars => LInv' /\ NInv'
  BY LInvNext, NInvNext DEF Kept
<1>3. LInv /\ NInv => NoStrandedReservation
  <2>. SUFFICES ASSUME NInv, NEW r \in DOMAIN resv, resv[r].active
                PROVE  \/ status[resv[r].order] \in {"CONFIRMED", "PICKING"}
                       \/ Covered(resv[r].order)
    BY DEF NoStrandedReservation, Covered, CoverLabels
  <2>1. resv[r].order \in Orders
    <3>1. resv[r] \in Reservation
      BY ElementOfSeq, LenProperties DEF NInv
    <3>. QED  BY <3>1 DEF Reservation
  <2>. QED  BY <2>1 DEF NInv, Free, Held
<1>. QED  BY <1>1, <1>2, <1>3, PTL DEF Spec

-----------------------------------------------------------------------------
(* The pick plan.  Rest says that r is what the loop still has to find     *)
(* after each of the first n rows of p.                                    *)

Rest(r, n, p, want, qty) ==
    r = [i \in 0..n |->
            IF i = 0 THEN want
            ELSE r[i-1] - (IF r[i-1] > qty[p[i]] THEN qty[p[i]] ELSE r[i-1])]

LEMMA RestExists ==
    ASSUME NEW p, NEW want, NEW qty, NEW n \in Nat
    PROVE  \E r : Rest(r, n, p, want, qty)
<1>. DEFINE Bad == {m \in Nat : ~ \E r : Rest(r, m, p, want, qty)}
<1>. SUFFICES ASSUME Bad # {} PROVE FALSE
  OBVIOUS
<1>1. PICK m \in Bad : \A k \in Bad : m <= k
  BY LeastOfNat
<1>2. CASE m = 0
  <2>. DEFINE r == [i \in 0..0 |-> want]
  <2>1. Rest(r, 0, p, want, qty)
    BY DEF Rest
  <2>. QED  BY <1>2, <2>1
<1>3. CASE m # 0
  <2>1. m \in Nat /\ m - 1 \in Nat /\ m - 1 \notin Bad
    BY <1>1, <1>3
  <2>2. PICK h : Rest(h, m - 1, p, want, qty)
    BY <2>1
  <2>. DEFINE step(x, i) == x - (IF x > qty[p[i]] THEN qty[p[i]] ELSE x)
              r == [i \in 0..m |-> IF i = 0 THEN want ELSE step(h[i-1], i)]
  <2>3. \A i \in 0..m : i # 0 => i - 1 \in 0..(m - 1) /\ i - 1 \in 0..m
    BY <2>1
  <2>4. ASSUME NEW i \in 0..(m - 1) PROVE i \in 0..m /\ r[i] = h[i]
    <3>1. i \in 0..m
      BY <2>1
    <3>2. h[i] = IF i = 0 THEN want ELSE step(h[i-1], i)
      BY <2>2 DEF Rest
    <3>. QED  BY <3>1, <3>2
  <2>5. \A i \in 0..m : i # 0 => r[i-1] = h[i-1]
    BY <2>3, <2>4
  <2>6. r = [i \in 0..m |-> IF i = 0 THEN want ELSE step(r[i-1], i)]
    BY <2>5
  <2>7. Rest(r, m, p, want, qty)
    <3>. HIDE DEF r
    <3>. QED  BY <2>6 DEF Rest
  <2>. QED  BY <2>1, <2>7, <1>1
<1>. QED  BY <1>2, <1>3

LEMMA RemainingIsRest ==
    ASSUME NEW p, Len(p) \in Nat, NEW want, NEW qty
    PROVE  Rest(Remaining(p, want, qty), Len(p), p, want, qty)
<1>1. Remaining(p, want, qty) = CHOOSE r : Rest(r, Len(p), p, want, qty)
  BY DEF Remaining, Rest
<1>. QED  BY <1>1, RestExists

(* What remains never grows, shrinks as long as something remains, and by  *)
(* no more than the row holds.                                             *)
Shrinks(r, p, want, qty) ==
    /\ r \in [0..Len(p) -> Nat]
    /\ r[0] = want
    /\ \A i \in DOMAIN p :
          /\ i - 1 \in 0..Len(p) /\ i \in 0..Len(p)
          /\ r[i-1] \in Nat /\ r[i] \in Nat
          /\ r[i] <= r[i-1] /\ r[i-1] - r[i] <= qty[p[i]]
          /\ r[i-1] > 0 => r[i] < r[i-1]
          /\ r[i] > 0 => r[i-1] - r[i] = qty[p[i]]

LEMMA RemainingShrinks ==
    ASSUME NEW S, NEW p \in Seq(S), NEW qty, \A i \in DOMAIN p : qty[p[i]] \in Nat \ {0},
           NEW want \in Nat
    PROVE  Shrinks(Remaining(p, want, qty), p, want, qty)
<1>. DEFINE r == Remaining(p, want, qty)
<1>0. Len(p) \in Nat /\ DOMAIN p = 1..Len(p)
  BY LenProperties
<1>1. Rest(r, Len(p), p, want, qty)
  BY <1>0, RemainingIsRest
<1>. HIDE DEF r
<1>2. /\ r = [i \in 0..Len(p) |-> r[i]]
      /\ r[0] = want
      /\ \A i \in DOMAIN p :
            r[i] = r[i-1] - (IF r[i-1] > qty[p[i]] THEN qty[p[i]] ELSE r[i-1])
  <2>. DEFINE f(i) == IF i = 0 THEN want
                      ELSE r[i-1] - (IF r[i-1] > qty[p[i]] THEN qty[p[i]] ELSE r[i-1])
  <2>1. r = [i \in 0..Len(p) |-> f(i)]
    BY <1>1 DEF Rest
  <2>. HIDE DEF f
  <2>2. r = [i \in 0..Len(p) |-> r[i]] /\ \A i \in 0..Len(p) : r[i] = f(i)
    BY <2>1
  <2>3. 0 \in 0..Len(p) /\ \A i \in DOMAIN p : i \in 0..Len(p) /\ i # 0
    BY <1>0
  <2>. QED  BY <2>2, <2>3 DEF f
<1>3. ASSUME NEW i \in DOMAIN p, r[i-1] \in Nat
      PROVE  /\ r[i] \in Nat
             /\ r[i] <= r[i-1] /\ r[i-1] - r[i] <= qty[p[i]]
             /\ r[i-1] > 0 => r[i] < r[i-1]
             /\ r[i] > 0 => r[i-1] - r[i] = qty[p[i]]
  <2>1. PICK x \in Nat, q \in Nat \ {0} : x = r[i-1] /\ q = qty[p[i]]
    BY <1>3
  <2>2. PICK y : y = r[i] /\ y = x - (IF x > q THEN q ELSE x)
    BY <1>2, <2>1
  <2>3. y \in Nat /\ y <= x /\ x - y <= q /\ (x > 0 => y < x) /\ (y > 0 => x - y = q)
    BY <2>2
  <2>. QED  BY ONLY <2>1, <2>2, <2>3
<1>4. \A i \in 0..Len(p) : r[i] \in Nat
  <2>. DEFINE Bad == {k \in 0..Len(p) : r[k] \notin Nat}
  <2>. SUFFICES ASSUME Bad # {} PROVE FALSE
    OBVIOUS
  <2>1. PICK k \in Bad : \A j \in Bad : k <= j
    <3>1. Bad \subseteq Nat
      BY <1>0
    <3>. QED  BY <3>1, LeastOfNat
  <2>2. k # 0
    BY <1>2
  <2>3. k - 1 \in 0..Len(p) /\ k - 1 \notin Bad /\ k \in DOMAIN p
    BY <1>0, <2>1, <2>2
  <2>. QED  BY <1>3, <2>3, <2>1
<1>5. r \in [0..Len(p) -> Nat]
  BY <1>2, <1>4
<1>6. \A i \in DOMAIN p : i - 1 \in 0..Len(p) /\ i \in 0..Len(p)
  BY <1>0
<1>7. Shrinks(r, p, want, qty)
  BY <1>2, <1>3, <1>4, <1>5, <1>6 DEF Shrinks
<1>. QED  BY <1>7 DEF r

(* A set of the first naturals with no gaps.                               *)
LEMMA InitialPart ==
    ASSUME NEW n \in Nat, NEW V, V \subseteq 1..n, \A i \in V : i > 1 => i - 1 \in V
    PROVE  \E k \in 0..n : V = 1..k
<1>. DEFINE Out == {i \in 1..(n + 1) : i \notin V}
<1>1. n + 1 \in Out /\ Out \subseteq Nat
  OBVIOUS
<1>2. PICK m \in Out : \A i \in Out : m <= i
  BY <1>1, LeastOfNat
<1>3. m \in 1..(n + 1) /\ m \notin V /\ \A i \in 1..(m - 1) : i \in V
  BY <1>2
<1>4. \A i \in V : i < m
  <2>. DEFINE Above == {i \in V : m < i}
  <2>1. ASSUME Above # {} PROVE FALSE
    <3>1. V \subseteq Nat
      OBVIOUS
    <3>2. PICK a \in Above : \A i \in Above : a <= i
      BY <2>1, <3>1, LeastOfNat
    <3>3. a \in V /\ a \in Nat /\ m < a /\ a > 1
      BY <1>3, <3>2
    <3>4. a - 1 \in V /\ m <= a - 1
      BY <1>3, <3>3
    <3>. QED  BY <1>3, <3>2, <3>3, <3>4
  <2>. QED  BY <1>3, <2>1
<1>5. \A i \in V : i \in Nat /\ i >= 1
  OBVIOUS
<1>6. m - 1 \in 0..n
  BY <1>3
<1>7. \A i \in V : i \in 1..(m - 1)
  <2>1. m \in Nat
    BY <1>3
  <2>. QED  BY ONLY <2>1, <1>4, <1>5
<1>8. V = 1..(m - 1)
  BY <1>3, <1>7
<1>. QED  BY <1>6, <1>8

(* A plan is a sequence of tasks, one per row visited.                     *)
Empties(g, r, p, S) ==
    /\ g \in Seq([slot : S, planned : Nat \ {0}])
    /\ Len(g) <= Len(p) /\ Len(g) \in Nat
    /\ DOMAIN g = {i \in DOMAIN p : r[i-1] > 0}
    /\ DOMAIN g = 1..Len(g)
    /\ \A i \in DOMAIN g : i \in DOMAIN p /\ g[i] = [slot |-> p[i], planned |-> r[i-1] - r[i]]

LEMMA GreedyIsPlan ==
    ASSUME NEW S, NEW p \in Seq(S), NEW qty, \A i \in DOMAIN p : qty[p[i]] \in Nat \ {0},
           NEW want \in Nat
    PROVE  Empties(Greedy(p, want, qty), Remaining(p, want, qty), p, S)
<1>. DEFINE r == Remaining(p, want, qty)
            g == Greedy(p, want, qty)
            V == {i \in DOMAIN p : r[i-1] > 0}
<1>1. Len(p) \in Nat /\ DOMAIN p = 1..Len(p)
  BY LenProperties
<1>2. g = [i \in V |-> [slot |-> p[i], planned |-> r[i-1] - r[i]]]
  BY DEF Greedy
<1>3. /\ r[0] = want
      /\ \A i \in DOMAIN p :
            /\ r[i-1] \in Nat /\ r[i] \in Nat
            /\ r[i] <= r[i-1]
            /\ r[i-1] > 0 => r[i] < r[i-1]
  <2>1. Shrinks(r, p, want, qty)
    BY RemainingShrinks
  <2>. HIDE DEF r
  <2>. QED  BY <2>1 DEF Shrinks
<1>. HIDE DEF r, g
<1>4. \A i \in V : i > 1 => i - 1 \in V
  <2>. SUFFICES ASSUME NEW i \in V, i > 1 PROVE i - 1 \in V
    OBVIOUS
  <2>1. i - 1 \in DOMAIN p /\ i \in DOMAIN p /\ r[i-1] > 0
    BY <1>1
  <2>2. PICK j \in DOMAIN p : j = i - 1
    BY <2>1
  <2>3. r[j] <= r[j-1] /\ r[j] \in Nat /\ r[j-1] \in Nat /\ r[j] > 0
    BY <1>3, <2>1, <2>2
  <2>4. r[j-1] > 0
    BY ONLY <2>3
  <2>. QED  BY <2>2, <2>4
<1>5. PICK k \in 0..Len(p) : V = 1..k
  <2>1. V \subseteq 1..Len(p)
    BY <1>1
  <2>. HIDE DEF V
  <2>. QED  BY <1>1, <1>4, <2>1, InitialPart
<1>6. ASSUME NEW i \in V
      PROVE  [slot |-> p[i], planned |-> r[i-1] - r[i]] \in [slot : S, planned : Nat \ {0}]
  <2>1. p[i] \in S
    BY <1>1, ElementOfSeq
  <2>2. PICK x \in Nat, y \in Nat : x = r[i-1] /\ y = r[i] /\ y < x
    BY <1>3, <1>6
  <2>3. x - y \in Nat \ {0}
    BY <2>2
  <2>. QED  BY <2>1, <2>2, <2>3
<1>7. k \in Nat /\ \A i \in V : i \in DOMAIN p
  BY <1>1
<1>. HIDE DEF V
<1>8. /\ g \in [1..k -> [slot : S, planned : Nat \ {0}]]
      /\ DOMAIN g = V
      /\ \A i \in V : g[i] = [slot |-> p[i], planned |-> r[i-1] - r[i]]
  BY <1>2, <1>5, <1>6
<1>9. g \in Seq([slot : S, planned : Nat \ {0}]) /\ Len(g) = k
  <2>. DEFINE T == [slot : S, planned : Nat \ {0}]
  <2>. HIDE DEF T
  <2>1. g \in [1..k -> T] /\ k \in Nat
    BY <1>7, <1>8 DEF T
  <2>2. g \in Seq(T)
    BY <2>1, SeqDef
  <2>. QED  BY <2>1, <2>2, LenProperties DEF T
<1>10. V = {i \in DOMAIN p : r[i-1] > 0}
  BY DEF V
<1>11. Empties(g, r, p, S)
  BY <1>1, <1>5, <1>7, <1>8, <1>9, <1>10 DEF Empties
<1>. QED  BY <1>11 DEF r, g

(* The rows of a sorted sequence: all the stocked ones, each once.         *)
LEMMA SortedRows ==
    ASSUME NEW S, IsFiniteSet(S), NEW qty, NEW exp, NEW p \in Sorted(S, qty, exp)
    PROVE  /\ p \in Seq(S)
           /\ Len(p) = Cardinality(S) /\ DOMAIN p = 1..Len(p) /\ Len(p) \in Nat
           /\ \A i, j \in DOMAIN p : i # j => p[i] # p[j]
           /\ \A i, j \in DOMAIN p : i < j => ~ComesFirst(p[j], p[i], qty, exp)
<1>1. Cardinality(S) \in Nat
  BY FS_CardinalityType
<1>2. /\ p \in [1..Cardinality(S) -> S]
      /\ \A i, j \in 1..Cardinality(S) : i # j => p[i] # p[j]
      /\ \A i, j \in DOMAIN p : i < j => ~ComesFirst(p[j], p[i], qty, exp)
  BY DEF Sorted, SetToSeqs
<1>3. p \in Seq(S)
  BY <1>1, <1>2, SeqDef
<1>4. Len(p) = Cardinality(S)
  BY <1>1, <1>2, <1>3, LenProperties
<1>. QED  BY <1>1, <1>2, <1>3, <1>4

LEMMA ItemPlansType ==
    ASSUME stock \in [Slots -> Int], NEW it, it.req \in Nat, NEW p \in ItemPlans(it)
    PROVE  p \in Seq(Planned)
<1>. DEFINE R == Stocked(RowsOf(it.product), stock)
<1>1. CASE p = <<>>
  BY <1>1, EmptySeq
<1>2. CASE p # <<>>
  <2>1. PICK e : p \in Plans(RowsOf(it.product), it.req, stock, e)
    <3>. DEFINE plans(e) == Plans(RowsOf(it.product), it.req, stock, e)
            all == UNION {plans(e) : e \in SeenExpiry}
    <3>1. p \in all
      <4>1. p \in all \cup (IF MayFail THEN {<<>>} ELSE {})
        BY DEF ItemPlans
      <4>2. p \notin (IF MayFail THEN {<<>>} ELSE {})
        BY <1>2
      <4>. HIDE DEF all
      <4>. QED  BY <4>1, <4>2
    <3>. HIDE DEF plans
    <3>2. \E e \in SeenExpiry : p \in plans(e)
      BY <3>1
    <3>. QED  BY <3>2 DEF plans
  <2>2. PICK rows \in Sorted(R, stock, e) : p = Greedy(rows, it.req, stock)
    BY <2>1 DEF Plans
  <2>3. R \subseteq Slots /\ \A s \in R : stock[s] \in Nat \ {0}
    BY DEF Stocked, RowsOf
  <2>4. IsFiniteSet(R)
    BY <2>3, StoreAssumption, FS_Subset
  <2>. HIDE DEF R
  <2>5. rows \in Seq(R)
    BY <2>2, <2>4, SortedRows
  <2>6. \A i \in DOMAIN rows : stock[rows[i]] \in Nat \ {0}
    BY <2>3, <2>5, ElementOfSeq, LenProperties
  <2>7. p \in Seq([slot : R, planned : Nat \ {0}])
    BY <2>2, <2>5, <2>6, GreedyIsPlan DEF Empties
  <2>8. [slot : R, planned : Nat \ {0}] \subseteq Planned
    BY <2>3 DEF Planned
  <2>. QED  BY <2>7, <2>8, SeqMonotonic
<1>. QED  BY <1>1, <1>2

(* GeneratePlan, for every stock situation: whatever order the unstable    *)
(* sort leaves equal rows in, the plan is a first-expired-first-out plan.  *)
THEOREM PlansAreCorrect ==
    ASSUME NEW S, IsFiniteSet(S), NEW qty, \A s \in S : qty[s] \in Int,
           NEW exp, \A s \in S : exp[s] \in Nat \cup {NoExpiry},
           NEW want \in Nat, NEW plan \in Plans(S, want, qty, exp)
    PROVE  IsCorrect(plan, S, want, qty, exp)
<1>. DEFINE R == Stocked(S, qty)
<1>1. R \subseteq S /\ IsFiniteSet(R) /\ \A s \in R : qty[s] \in Nat \ {0}
  <2>1. R \subseteq S /\ \A s \in R : qty[s] \in Nat \ {0}
    BY DEF Stocked
  <2>. QED  BY <2>1, FS_Subset
<1>2. PICK p \in Sorted(R, qty, exp) : plan = Greedy(p, want, qty)
  BY DEF Plans
<1>r. \A s : s \in R <=> s \in S /\ qty[s] > 0
  BY DEF Stocked
<1>. HIDE DEF R
<1>3. /\ p \in Seq(R)
      /\ Len(p) = Cardinality(R) /\ DOMAIN p = 1..Len(p) /\ Len(p) \in Nat
      /\ \A i, j \in DOMAIN p : i # j => p[i] # p[j]
      /\ \A i, j \in DOMAIN p : i < j => ~ComesFirst(p[j], p[i], qty, exp)
  BY <1>1, <1>2, SortedRows
<1>4. PICK n \in Nat : n = Len(p) /\ DOMAIN p = 1..n
  BY <1>3
<1>5. \A i \in 1..n : p[i] \in R /\ qty[p[i]] \in Nat \ {0}
  BY <1>1, <1>3, <1>4, ElementOfSeq
<1>6. PICK r : r = Remaining(p, want, qty)
  OBVIOUS
<1>7. Shrinks(r, p, want, qty)
  <2>1. \A i \in DOMAIN p : qty[p[i]] \in Nat \ {0}
    BY <1>4, <1>5
  <2>. QED  BY <1>3, <1>6, <2>1, RemainingShrinks
<1>8. /\ r \in [0..n -> Nat] /\ r[0] = want
      /\ \A i \in 1..n : /\ i - 1 \in 0..n /\ i \in 0..n
                         /\ r[i-1] \in Nat /\ r[i] \in Nat
                         /\ r[i] <= r[i-1] /\ r[i-1] - r[i] <= qty[p[i]]
                         /\ r[i-1] > 0 => r[i] < r[i-1]
                         /\ r[i] > 0 => r[i-1] - r[i] = qty[p[i]]
  BY <1>4, <1>7 DEF Shrinks
<1>9. /\ Len(plan) <= n /\ Len(plan) \in Nat /\ DOMAIN plan = 1..Len(plan)
      /\ DOMAIN plan = {i \in 1..n : r[i-1] > 0}
      /\ \A i \in DOMAIN plan : plan[i] = [slot |-> p[i], planned |-> r[i-1] - r[i]]
  <2>1. \A i \in DOMAIN p : qty[p[i]] \in Nat \ {0}
    BY <1>4, <1>5
  <2>2. Empties(plan, r, p, R)
    BY SMTT(30), <1>2, <1>3, <1>6, <2>1, GreedyIsPlan
  <2>. QED  BY ONLY <1>4, <2>2 DEF Empties
<1>10. PICK k \in 0..n : k = Len(plan) /\ DOMAIN plan = 1..k
  <2>1. Len(plan) \in 0..n
    BY <1>9
  <2>. QED  BY Zenon, <1>9, <2>1
<1>11. \A i \in 1..n : i <= k <=> r[i-1] > 0
  <2>. TAKE i \in 1..n
  <2>1. i \in 1..k <=> r[i-1] > 0
    BY <1>9, <1>10
  <2>2. i \in 1..k <=> i <= k
    OBVIOUS
  <2>. QED  BY <2>1, <2>2
<1>12. \A i \in 1..k : /\ i \in 1..n
                       /\ plan[i].slot = p[i] /\ plan[i].planned = r[i-1] - r[i]
  BY <1>9, <1>10
<1>13. \A i \in 1..n : i < k => r[i] > 0
  <2>. SUFFICES ASSUME NEW i \in 1..n, i < k PROVE r[i] > 0
    OBVIOUS
  <2>1. PICK j \in 1..n : j = i + 1 /\ j <= k /\ j - 1 = i
    BY <1>10
  <2>. QED  BY <1>11, <2>1
(* What a task takes.                                                      *)
<1>a. \A i \in DOMAIN plan : plan[i].slot \in S /\ plan[i].planned \in 1..qty[plan[i].slot]
  <2>. SUFFICES ASSUME NEW i \in 1..k
                PROVE  plan[i].slot \in S /\ plan[i].planned \in 1..qty[plan[i].slot]
    BY <1>10
  <2>1. i \in 1..n /\ plan[i].slot = p[i] /\ plan[i].planned = r[i-1] - r[i] /\ i <= k
    BY <1>12
  <2>2. PICK x \in Nat, y \in Nat, q \in Nat \ {0} : x = r[i-1] /\ y = r[i] /\ q = qty[p[i]]
    BY <1>5, <1>8, <2>1
  <2>3. x > 0 /\ y < x /\ x - y <= q
    BY <1>8, <1>11, <2>1, <2>2
  <2>4. x - y \in 1..q
    BY ONLY <2>2, <2>3
  <2>5. p[i] \in S
    BY <1>1, <1>5, <2>1
  <2>. QED  BY <2>1, <2>2, <2>4, <2>5
<1>b. \A i, j \in DOMAIN plan : i # j => plan[i].slot # plan[j].slot
  BY <1>3, <1>4, <1>10, <1>12
(* What they take together.                                                *)
<1>. DEFINE d == [i \in 1..n |-> r[i-1] - r[i]]
            g == [i \in 1..n |-> qty[p[i]]]
            avail == SumFunctionOnSet(qty, R)
            total == SumFunction(Amounts(plan))
<1>14. \A i \in 1..n : d[i] = r[i-1] - r[i] /\ d[i] \in Int /\ g[i] = qty[p[i]] /\ g[i] \in Int
                       /\ d[i] <= g[i] /\ (r[i] > 0 => d[i] = g[i])
  <2>. TAKE i \in 1..n
  <2>1. PICK x \in Nat, y \in Nat, q \in Nat \ {0} : x = r[i-1] /\ y = r[i] /\ q = qty[p[i]]
    BY <1>5, <1>8
  <2>2. x - y <= q /\ (y > 0 => x - y = q) /\ x - y \in Int
    BY <1>8, <2>1
  <2>. QED  BY <2>1, <2>2
<1>. HIDE DEF d, g
<1>15. /\ SumFunctionOnSet(d, 1..k) = want - r[k] /\ SumFunctionOnSet(d, 1..n) = want - r[n]
       /\ r[k] \in Nat /\ r[n] \in Nat
  <2>1. \A i \in 0..n : SumFunctionOnSet(d, 1..i) = r[0] - r[i]
    <3>1. r \in [0..n -> Int] /\ \A i \in 1..n : d[i] = r[i-1] - r[i]
      BY <1>8, <1>14
    <3>. QED  BY <3>1, SumOfFalls
  <2>2. n \in 0..n /\ r[k] \in Nat /\ r[n] \in Nat
    BY <1>8
  <2>. QED  BY <1>8, <2>1, <2>2
<1>16. total = SumFunctionOnSet(d, 1..k)
  <2>. DEFINE m == Amounts(plan)
  <2>1. DOMAIN m = 1..k /\ \A i \in 1..k : m[i] = d[i]
    BY <1>10, <1>12, <1>14 DEF Amounts
  <2>2. total = SumFunctionOnSet(m, 1..k)
    BY <2>1 DEF SumFunction
  <2>3. IsFiniteSet(1..k)
    BY UpTo
  <2>. HIDE DEF m, total
  <2>. QED  BY <2>1, <2>2, <2>3, SumAgrees
<1>17. R = {p[i] : i \in 1..n}
  <2>1. p \in [1..n -> R] /\ Cardinality(1..n) = Cardinality(R) /\ IsFiniteSet(1..n)
    <3>1. Cardinality(1..n) = n
      <4>1. 1 \in Int /\ n \in Int
        OBVIOUS
      <4>2. Cardinality(1..n) = IF 1 > n THEN 0 ELSE n - 1 + 1
        BY ONLY <4>1, FS_Interval
      <4>. QED  BY <4>2
    <3>2. p \in [1..n -> R]
      BY <1>3, <1>4, <1>5, LenProperties
    <3>. QED  BY <1>3, <1>4, <3>1, <3>2, UpTo
  <2>2. p \in Injection(1..n, R)
    BY <1>3, <1>4, <2>1 DEF Injection, IsInjective
  <2>3. p \in Surjection(1..n, R)
    BY <1>1, <2>1, <2>2, FS_Injection
  <2>4. \A s \in R : \E i \in 1..n : p[i] = s
    BY <2>3 DEF Surjection
  <2>. QED  BY <1>5, <2>4
<1>18. avail = SumFunctionOnSet(g, 1..n)
  <2>1. \A i, j \in 1..n : i # j => p[i] # p[j]
    BY <1>3, <1>4
  <2>2. \A i \in 1..n : qty[p[i]] \in Int /\ g[i] = qty[p[i]]
    BY <1>5, <1>14
  <2>3. n \in 0..n
    OBVIOUS
  <2>4. \A j \in 0..n : SumFunctionOnSet(qty, Visited(p, j)) = SumFunctionOnSet(g, 1..j)
    <3>1. Enumerates(p, n, qty, g)
      BY <2>1, <2>2 DEF Enumerates
    <3>. QED  BY <3>1, SumEnumerated
  <2>5. SumFunctionOnSet(qty, {p[i] : i \in 1..n}) = SumFunctionOnSet(g, 1..n)
    BY <2>3, <2>4 DEF Visited
  <2>. QED  BY <1>17, <2>5
<1>. HIDE DEF total, avail
<1>19. ASSUME r[k] = 0 PROVE total = Least(want, avail)
  <2>1. r[n] = 0
    <3>1. CASE k = n
      BY <1>19, <3>1
    <3>2. CASE k # n
      <4>1. n \in 1..n /\ ~(n <= k)
        BY <1>10, <3>2
      <4>2. ~(r[n-1] > 0) /\ r[n-1] \in Nat /\ r[n] \in Nat /\ r[n] <= r[n-1]
        BY <1>8, <1>11, <4>1
      <4>. QED  BY ONLY <4>2
    <3>. QED  BY <3>1, <3>2
  <2>2. SumFunctionOnSet(d, 1..n) <= SumFunctionOnSet(g, 1..n)
    BY <1>14, SumMonotone, UpTo
  <2>3. total = want /\ want <= avail
    BY <1>15, <1>16, <1>18, <1>19, <2>1, <2>2
  <2>4. avail \in Int
    BY <1>14, <1>18, SumType, UpTo
  <2>. QED  BY <2>3, <2>4 DEF Least
<1>20. ASSUME r[k] # 0 PROVE total = Least(want, avail)
  <2>1. k = n
    <3>. SUFFICES ASSUME k # n PROVE FALSE
      OBVIOUS
    <3>1. PICK j \in 1..n : j = k + 1 /\ j - 1 = k /\ ~(j <= k)
      BY <1>10
    <3>2. ~(r[k] > 0)
      BY <1>11, <3>1
    <3>. QED  BY <1>15, <1>20, <3>2
  <2>2. \A i \in 1..n : r[i] > 0
    <3>. TAKE i \in 1..n
    <3>1. CASE i = n
      BY <1>15, <1>20, <2>1, <3>1
    <3>2. CASE i # n
      <4>1. i < k
        BY <2>1, <3>2
      <4>. QED  BY <1>13, <4>1
    <3>. QED  BY <3>1, <3>2
  <2>3. SumFunctionOnSet(d, 1..n) = SumFunctionOnSet(g, 1..n)
    BY <1>14, <2>2, SumAgrees, UpTo
  <2>4. total = avail /\ avail = want - r[n] /\ r[n] \in Nat \ {0}
    BY <1>15, <1>16, <1>18, <1>20, <2>1, <2>3
  <2>5. ~(want < avail)
    BY <2>4
  <2>. QED  BY <2>4, <2>5 DEF Least
<1>c. total = Least(want, avail)
  BY <1>19, <1>20
(* In which order they take.                                               *)
<1>d. ASSUME NEW a \in S, NEW b \in S, qty[a] > 0, Precedes(a, b, qty, exp), Taken(plan, b) > 0
      PROVE  Taken(plan, a) = qty[a]
  <2>1. PICK i \in 1..k : p[i] = b
    <3>. SUFFICES ASSUME \A i \in 1..k : p[i] # b PROVE FALSE
      OBVIOUS
    <3>1. {i \in DOMAIN plan : plan[i].slot = b} = {}
      BY <1>10, <1>12
    <3>2. Taken(plan, b) = 0
      BY <3>1, SumOfNothing DEF Taken
    <3>. QED  BY <1>d, <3>2
  <2>2. PICK j \in 1..n : p[j] = a
    BY <1>d, <1>r, <1>17
  <2>3. i \in 1..n
    BY <1>12
  <2>4. ComesFirst(a, b, qty, exp)
    BY <1>d, NoExpiryAssumption DEF Precedes, ComesFirst
  <2>5. a # b
    <3>. SUFFICES ASSUME a = b PROVE FALSE
      OBVIOUS
    <3>1. ~(qty[a] > qty[a])
      <4>1. qty[a] \in Int
        OBVIOUS
      <4>. QED  BY <4>1
    <3>2. exp[a] \in Nat => ~(exp[a] < exp[a])
      OBVIOUS
    <3>. QED  BY <1>d, <3>1, <3>2 DEF Precedes
  <2>6. ~(i < j)
    BY <1>3, <1>4, <2>1, <2>2, <2>3, <2>4
  <2>7. j < i /\ j < k /\ j \in 1..k
    BY <1>10, <2>1, <2>2, <2>3, <2>5, <2>6
  <2>8. d[j] = qty[a] /\ qty[a] \in Int
    BY <1>13, <1>14, <2>2, <2>7
  <2>9. {x \in DOMAIN plan : plan[x].slot = a} = {j}
    <3>1. \A x \in 1..k : plan[x].slot = a <=> x = j
      <4>. TAKE x \in 1..k
      <4>1. plan[x].slot = p[x] /\ x \in 1..n
        BY <1>12
      <4>2. p[x] = p[j] <=> x = j
        BY <1>3, <1>4, <2>2, <4>1
      <4>. QED  BY <2>2, <4>1, <4>2
    <3>. QED  BY <1>10, <2>7, <3>1
  <2>10. Amounts(plan)[j] = d[j]
    BY <1>10, <1>12, <1>14, <2>2, <2>7 DEF Amounts
  <2>11. SumFunctionOnSet(Amounts(plan), {j}) = Amounts(plan)[j]
    <3>. DEFINE m == Amounts(plan)
    <3>1. IsFiniteSet({j}) /\ \A x \in {j} : m[x] \in Int
      BY <2>8, <2>10, FS_Singleton
    <3>2. m[j] \in Int
      BY <2>8, <2>10
    <3>. HIDE DEF m
    <3>3. SumFunctionOnSet(m, {j}) = m[j] + SumFunctionOnSet(m, {j} \ {j})
      BY <3>1, SumRemove
    <3>4. {j} \ {j} = {}
      OBVIOUS
    <3>5. SumFunctionOnSet(m, {j}) = m[j]
      BY <3>2, <3>3, <3>4, SumOfNothing
    <3>. QED  BY <3>5 DEF m
  <2>. QED  BY <2>8, <2>9, <2>10, <2>11 DEF Taken
<1>. QED  BY <1>a, <1>b, <1>c, <1>d DEF IsCorrect, total, avail, R

-----------------------------------------------------------------------------
(* Sums over documents and rows.                                           *)

LEMMA SumOnNat ==
    ASSUME NEW S, IsFiniteSet(S), NEW f, \A x \in S : f[x] \in Nat
    PROVE  SumFunctionOnSet(f, S) \in Nat
<1>. DEFINE g == [x \in S |-> f[x]]
<1>1. g \in [S -> Nat] /\ DOMAIN g = S /\ \A x \in S : f[x] = g[x]
  OBVIOUS
<1>. HIDE DEF g
<1>2. SumFunction(g) = SumFunctionOnSet(g, S)
  BY <1>1 DEF SumFunction
<1>. QED  BY <1>1, <1>2, SumFunctionNat, SumAgrees

LEMMA RowsFinite == \A p : IsFiniteSet(RowsOf(p)) /\ RowsOf(p) \subseteq Slots
BY StoreAssumption, FS_Subset DEF RowsOf

LEMMA StockSums ==
    ASSUME stock \in [Slots -> Int], NEW p
    PROVE  Physical(p) \in Int /\ Positive(p) \in Int
<1>1. IsFiniteSet(Stocked(RowsOf(p), stock)) /\ Stocked(RowsOf(p), stock) \subseteq Slots
  <2>1. Stocked(RowsOf(p), stock) \subseteq RowsOf(p)
    BY DEF Stocked
  <2>. QED  BY <2>1, RowsFinite, FS_Subset
<1>. QED  BY <1>1, RowsFinite, SumType DEF Physical, Positive

LEMMA EventSums ==
    ASSUME tasks \in Seq(Task), NEW o, NEW s
    PROVE  EventsAt(o, s) \in Nat
<1>. DEFINE T == {t \in TasksOf(o) : tasks[t].slot = s}
<1>1. T \subseteq DOMAIN tasks
  BY DEF TasksOf
<1>2. IsFiniteSet(T)
  BY <1>1, Positions, FS_Subset
<1>3. \A t \in T : Recorded[t] \in Nat
  <2>1. \A t \in DOMAIN tasks : tasks[t] \in Task
    BY DocumentAt
  <2>. QED  BY <1>1, <2>1 DEF Recorded, Task
<1>. HIDE DEF T
<1>4. SumFunctionOnSet(Recorded, T) \in Nat
  BY <1>2, <1>3, SumOnNat
<1>. QED  BY <1>4 DEF EventsAt, T

-----------------------------------------------------------------------------
(* Types.  What makes them inductive: where a request stands tells that    *)
(* its index, plan and quantity are good for what it does next.            *)

LineLabels == ItemLabels \cup {"shortage", "plan"}

ScanLabels == {"addPicked", "event"}

Stands(l, a, n) ==
    /\ l \in Locals
    /\ a \in LineLabels => l.i \in 1..Len(l.items)
    /\ a = "insertTasks" => l.plan # <<>>
    /\ a \in ScanLabels => l.i \in 1..n /\ l.n \in Nat \ {0}

TInv ==
    /\ TypeOK
    /\ \A w \in Workers : Stands(loc[w], pc[w], Len(tasks))

LEMMA NoLocalsStands == \A n : Stands(NoLocals, "idle", n)
<1>1. (CHOOSE o \in Orders : TRUE) \in Orders /\ (CHOOSE s \in Slots : TRUE) \in Slots
  BY StoreAssumption
<1>2. <<>> \in Seq(Item) /\ <<>> \in Seq(Planned)
  BY EmptySeq
<1>3. NoLocals \in Locals
  BY <1>1, <1>2 DEF NoLocals, Locals, Statuses
<1>. QED  BY <1>3 DEF Stands, LineLabels, ItemLabels, ScanLabels

(* Locals with one field written.                                          *)
LEMMA SlotWritten ==
    ASSUME NEW l, IsLocal(l), NEW v
    PROVE  [l EXCEPT !.slot = v] =
              With(l.order, l.from, l.items, l.i, l.n, l.plan, l.picks, v)
BY DEF IsLocal, With

LEMMA FieldWritten ==
    ASSUME NEW l, IsLocal(l), NEW v
    PROVE  /\ [l EXCEPT !.order = v] =
                 With(v, l.from, l.items, l.i, l.n, l.plan, l.picks, l.slot)
           /\ [l EXCEPT !.from = v] =
                 With(l.order, v, l.items, l.i, l.n, l.plan, l.picks, l.slot)
           /\ [l EXCEPT !.items = v] =
                 With(l.order, l.from, v, l.i, l.n, l.plan, l.picks, l.slot)
           /\ [l EXCEPT !.i = v] =
                 With(l.order, l.from, l.items, v, l.n, l.plan, l.picks, l.slot)
           /\ [l EXCEPT !.n = v] =
                 With(l.order, l.from, l.items, l.i, v, l.plan, l.picks, l.slot)
           /\ [l EXCEPT !.plan = v] =
                 With(l.order, l.from, l.items, l.i, l.n, v, l.picks, l.slot)
           /\ [l EXCEPT !.picks = v] =
                 With(l.order, l.from, l.items, l.i, l.n, l.plan, v, l.slot)
           /\ [l EXCEPT !.slot = v] =
                 With(l.order, l.from, l.items, l.i, l.n, l.plan, l.picks, v)
<1>1. [l EXCEPT !.order = v] =
         With(v, l.from, l.items, l.i, l.n, l.plan, l.picks, l.slot)
  BY DEF IsLocal, With
<1>2. [l EXCEPT !.from = v] =
         With(l.order, v, l.items, l.i, l.n, l.plan, l.picks, l.slot)
  BY DEF IsLocal, With
<1>3. [l EXCEPT !.items = v] =
         With(l.order, l.from, v, l.i, l.n, l.plan, l.picks, l.slot)
  BY DEF IsLocal, With
<1>4. [l EXCEPT !.i = v] =
         With(l.order, l.from, l.items, v, l.n, l.plan, l.picks, l.slot)
  BY DEF IsLocal, With
<1>5. [l EXCEPT !.n = v] =
         With(l.order, l.from, l.items, l.i, v, l.plan, l.picks, l.slot)
  BY DEF IsLocal, With
<1>6. [l EXCEPT !.plan = v] =
         With(l.order, l.from, l.items, l.i, l.n, v, l.picks, l.slot)
  BY DEF IsLocal, With
<1>7. [l EXCEPT !.picks = v] =
         With(l.order, l.from, l.items, l.i, l.n, l.plan, v, l.slot)
  BY DEF IsLocal, With
<1>8. [l EXCEPT !.slot = v] =
         With(l.order, l.from, l.items, l.i, l.n, l.plan, l.picks, v)
  BY DEF IsLocal, With
<1>. QED  BY <1>1, <1>2, <1>3, <1>4, <1>5, <1>6, <1>7, <1>8

LEMMA WithTyped ==
    ASSUME NEW l \in Locals
    PROVE  /\ IsLocal(l)
           /\ l = With(l.order, l.from, l.items, l.i, l.n, l.plan, l.picks, l.slot)
           /\ l.order \in Orders /\ l.from \in Statuses /\ l.items \in Seq(Item) /\ l.i \in Nat
           /\ l.n \in Int /\ l.plan \in Seq(Planned) /\ l.picks \in [Slots -> Nat] /\ l.slot \in Slots
BY DEF Locals, With, IsLocal

(* m are locals of the right types with these fields.                      *)
Are(m, o, f, its, i, n, plan, picks, slot) ==
    /\ m \in Locals
    /\ m.order = o /\ m.from = f /\ m.items = its /\ m.i = i /\ m.n = n
    /\ m.plan = plan /\ m.picks = picks /\ m.slot = slot

LEMMA WithInLocals ==
    \A o \in Orders, f \in Statuses, its \in Seq(Item), i \in Nat, n \in Int,
       plan \in Seq(Planned), picks \in [Slots -> Nat], slot \in Slots :
        Are(With(o, f, its, i, n, plan, picks, slot), o, f, its, i, n, plan, picks, slot)
BY DEF Locals, With, Are

LEMMA LocalSet ==
    ASSUME NEW l \in Locals
    PROVE  /\ \A v \in Orders :
                 Are([l EXCEPT !.order = v], v, l.from, l.items, l.i, l.n, l.plan, l.picks, l.slot)
           /\ \A v \in Statuses :
                 Are([l EXCEPT !.from = v], l.order, v, l.items, l.i, l.n, l.plan, l.picks, l.slot)
           /\ \A v \in Seq(Item) :
                 Are([l EXCEPT !.items = v], l.order, l.from, v, l.i, l.n, l.plan, l.picks, l.slot)
           /\ \A v \in Nat :
                 Are([l EXCEPT !.i = v], l.order, l.from, l.items, v, l.n, l.plan, l.picks, l.slot)
           /\ \A v \in Int :
                 Are([l EXCEPT !.n = v], l.order, l.from, l.items, l.i, v, l.plan, l.picks, l.slot)
           /\ \A v \in Seq(Planned) :
                 Are([l EXCEPT !.plan = v], l.order, l.from, l.items, l.i, l.n, v, l.picks, l.slot)
           /\ \A v \in [Slots -> Nat] :
                 Are([l EXCEPT !.picks = v], l.order, l.from, l.items, l.i, l.n, l.plan, v, l.slot)
           /\ \A v \in Slots :
                 Are([l EXCEPT !.slot = v], l.order, l.from, l.items, l.i, l.n, l.plan, l.picks, v)
<1>1. IsLocal(l)
  BY WithTyped
<1>2. ASSUME NEW v \in Orders
      PROVE  Are([l EXCEPT !.order = v], v, l.from, l.items, l.i, l.n, l.plan, l.picks, l.slot)
  <2>1. [l EXCEPT !.order = v] = With(v, l.from, l.items, l.i, l.n, l.plan, l.picks, l.slot)
    BY <1>1, FieldWritten
  <2>. QED  BY SMTT(30), <2>1, WithTyped, WithInLocals
<1>3. ASSUME NEW v \in Statuses
      PROVE  Are([l EXCEPT !.from = v], l.order, v, l.items, l.i, l.n, l.plan, l.picks, l.slot)
  <2>1. [l EXCEPT !.from = v] = With(l.order, v, l.items, l.i, l.n, l.plan, l.picks, l.slot)
    BY <1>1, FieldWritten
  <2>. QED  BY SMTT(30), <2>1, WithTyped, WithInLocals
<1>4. ASSUME NEW v \in Seq(Item)
      PROVE  Are([l EXCEPT !.items = v], l.order, l.from, v, l.i, l.n, l.plan, l.picks, l.slot)
  <2>1. [l EXCEPT !.items = v] = With(l.order, l.from, v, l.i, l.n, l.plan, l.picks, l.slot)
    BY <1>1, FieldWritten
  <2>. QED  BY SMTT(30), <2>1, WithTyped, WithInLocals
<1>5. ASSUME NEW v \in Nat
      PROVE  Are([l EXCEPT !.i = v], l.order, l.from, l.items, v, l.n, l.plan, l.picks, l.slot)
  <2>1. [l EXCEPT !.i = v] = With(l.order, l.from, l.items, v, l.n, l.plan, l.picks, l.slot)
    BY <1>1, FieldWritten
  <2>. QED  BY SMTT(30), <2>1, WithTyped, WithInLocals
<1>6. ASSUME NEW v \in Int
      PROVE  Are([l EXCEPT !.n = v], l.order, l.from, l.items, l.i, v, l.plan, l.picks, l.slot)
  <2>1. [l EXCEPT !.n = v] = With(l.order, l.from, l.items, l.i, v, l.plan, l.picks, l.slot)
    BY <1>1, FieldWritten
  <2>. QED  BY SMTT(30), <2>1, WithTyped, WithInLocals
<1>7. ASSUME NEW v \in Seq(Planned)
      PROVE  Are([l EXCEPT !.plan = v], l.order, l.from, l.items, l.i, l.n, v, l.picks, l.slot)
  <2>1. [l EXCEPT !.plan = v] = With(l.order, l.from, l.items, l.i, l.n, v, l.picks, l.slot)
    BY <1>1, FieldWritten
  <2>. QED  BY SMTT(30), <2>1, WithTyped, WithInLocals
<1>8. ASSUME NEW v \in [Slots -> Nat]
      PROVE  Are([l EXCEPT !.picks = v], l.order, l.from, l.items, l.i, l.n, l.plan, v, l.slot)
  <2>1. [l EXCEPT !.picks = v] = With(l.order, l.from, l.items, l.i, l.n, l.plan, v, l.slot)
    BY <1>1, FieldWritten
  <2>. QED  BY SMTT(30), <2>1, WithTyped, WithInLocals
<1>9. ASSUME NEW v \in Slots
      PROVE  Are([l EXCEPT !.slot = v], l.order, l.from, l.items, l.i, l.n, l.plan, l.picks, v)
  <2>1. [l EXCEPT !.slot = v] = With(l.order, l.from, l.items, l.i, l.n, l.plan, l.picks, v)
    BY <1>1, SlotWritten
  <2>. QED  BY SMTT(30), <2>1, WithTyped, WithInLocals
<1>. QED  BY <1>2, <1>3, <1>4, <1>5, <1>6, <1>7, <1>8, <1>9
(* The requests after a step of one of them.                               *)
Requests ==
    /\ started' \in 0..MaxRequests
    /\ pc' \in [Workers -> Labels]
    /\ loc' \in [Workers -> Locals]
    /\ \A v \in Workers : Stands(loc'[v], pc'[v], Len(tasks'))

LEMMA Waiting ==
    ASSUME NEW l, NEW a, NEW m \in Nat, NEW n \in Nat, m <= n, Stands(l, a, m)
    PROVE  Stands(l, a, n)
<1>1. a \in ScanLabels => l.i \in 1..n
  BY DEF Stands
<1>. QED  BY <1>1 DEF Stands

LEMMA RequestsTyped ==
    ASSUME TInv, NEW w \in Workers, NEW a \in Labels, NEW l,
           Goto(w, a, l) \/ (Start(w, a, l) /\ a # "idle"),
           a # "idle" => Stands(l, a, Len(tasks')),
           tasks' \in Seq(Task), Len(tasks) <= Len(tasks')
    PROVE  Requests
<1>1. Len(tasks) \in Nat /\ Len(tasks') \in Nat
  BY LenProperties DEF TInv, TypeOK
<1>2. PICK m : Stands(m, a, Len(tasks')) /\ loc' = [loc EXCEPT ![w] = m]
  BY NoLocalsStands DEF Goto, Start
<1>3. pc' = [pc EXCEPT ![w] = a]
  BY DEF Goto, Start
<1>4. m \in Locals
  BY <1>2 DEF Stands
<1>5. /\ pc' \in [Workers -> Labels] /\ loc' \in [Workers -> Locals]
      /\ pc'[w] = a /\ loc'[w] = m
      /\ \A v \in Workers \ {w} : pc'[v] = pc[v] /\ loc'[v] = loc[v]
  BY <1>2, <1>3, <1>4 DEF TInv, TypeOK
<1>6. \A v \in Workers : Stands(loc'[v], pc'[v], Len(tasks'))
  BY <1>1, <1>2, <1>5, Waiting DEF TInv
<1>7. started' \in 0..MaxRequests
  <2>1. started \in 0..MaxRequests /\ MaxRequests \in Nat
    BY StoreAssumption DEF TInv, TypeOK, StoreTypeOK
  <2>. QED  BY <2>1 DEF Goto, Start
<1>. QED  BY <1>5, <1>6, <1>7 DEF Requests

(* A step that touches no collection.                                      *)
LEMMA OnlyGoes ==
    ASSUME TInv, UNCHANGED <<status, items, stock, resv, tasks, shipped>>,
           NEW w \in Workers, NEW a \in Labels, NEW l,
           Goto(w, a, l) \/ (Start(w, a, l) /\ a # "idle"),
           a # "idle" => Stands(l, a, Len(tasks))
    PROVE  TInv'
<1>1. tasks' \in Seq(Task) /\ Len(tasks) <= Len(tasks') /\ tasks' = tasks
  BY LenProperties DEF TInv, TypeOK
<1>2. Requests
  BY <1>1, RequestsTyped
<1>. QED  BY <1>2 DEF TInv, TypeOK, StoreTypeOK, Requests

LEMMA Knows ==
    ASSUME TInv, NEW w \in Workers
    PROVE  /\ Stands(loc[w], pc[w], Len(tasks)) /\ loc[w] \in Locals
           /\ Me(w) = loc[w].order /\ Me(w) \in Orders
           /\ pc[w] \in Labels
<1>1. Stands(loc[w], pc[w], Len(tasks)) /\ loc[w] \in Locals /\ pc[w] \in Labels
  BY DEF TInv, TypeOK
<1>. QED  BY <1>1, WithTyped DEF Me

LEMMA LineTyped ==
    ASSUME TInv, NEW w \in Workers, pc[w] \in LineLabels
    PROVE  /\ loc[w].i \in 1..Len(loc[w].items) /\ Len(loc[w].items) \in Nat
           /\ TheItem(w) \in Item
           /\ TheItem(w).product \in Products /\ TheItem(w).req \in Nat \ {0}
<1>1. loc[w].i \in 1..Len(loc[w].items) /\ loc[w].items \in Seq(Item)
  BY Knows, WithTyped DEF Stands
<1>2. TheItem(w) \in Item /\ Len(loc[w].items) \in Nat
  BY <1>1, ElementOfSeq, LenProperties DEF TheItem
<1>. QED  BY <1>1, <1>2 DEF Item

LEMMA NewItemsTyped ==
    ASSUME NEW c \in Carts
    PROVE  NewItems(c) \in Seq(Item)
<1>1. c \in Seq(Line) /\ DOMAIN c = 1..Len(c) /\ Len(c) \in Nat
  BY StoreAssumption, LenProperties
<1>2. \A k \in 1..Len(c) : c[k] \in Line
  BY <1>1, ElementOfSeq
<1>3. \A k \in 1..Len(c) :
         [product |-> c[k].product, req |-> c[k].req, reserved |-> 0, shipped |-> 0] \in Item
  BY <1>2 DEF Line, Item
<1>4. NewItems(c) \in [1..Len(c) -> Item]
  BY <1>1, <1>3 DEF NewItems
<1>. QED  BY <1>1, <1>4, SeqDef

LEMMA ReadsTyped ==
    ASSUME LInv, TInv, NEW w \in Workers
    PROVE  /\ \A o \in Orders : \/ UpdateRead(w, o) \/ ConfirmRead(w, o) \/ CancelRead(w, o)
                                \/ PickRead(w, o) \/ ShipRead(w, o)
                  => TInv'
           /\ \A t \in DOMAIN tasks, q \in ScanQtys : ScanRead(w, t, q) => TInv'
<1>. DEFINE N == NoLocals
<1>0. N \in Locals
  BY NoLocalsStands DEF Stands
<1>00. Len(tasks) \in Nat /\ DOMAIN tasks = 1..Len(tasks) /\ ScanQtys \subseteq Nat \ {0}
  BY LenProperties, StoreAssumption DEF TInv, TypeOK
<1>. HIDE DEF N
<1>1. ASSUME NEW o \in Orders, NEW its \in Seq(Item)
      PROVE  Are([NoLocals EXCEPT !.order = o, !.items = its, !.i = 1],
                 o, N.from, its, 1, N.n, N.plan, N.picks, N.slot)
  <2>1. [NoLocals EXCEPT !.order = o, !.items = its, !.i = 1]
          = With(o, N.from, its, 1, N.n, N.plan, N.picks, N.slot)
    BY StartLocals DEF N
  <2>2. /\ N.from \in Statuses /\ 1 \in Nat /\ N.n \in Int /\ N.plan \in Seq(Planned)
        /\ N.picks \in [Slots -> Nat] /\ N.slot \in Slots
    BY <1>0, WithTyped
  <2>3. Are(With(o, N.from, its, 1, N.n, N.plan, N.picks, N.slot),
            o, N.from, its, 1, N.n, N.plan, N.picks, N.slot)
    BY <2>2, WithInLocals
  <2>. QED  BY SMTT(30), <2>1, <2>3
<1>2. ASSUME NEW o \in Orders, status[o] # "NONE"
      PROVE  Len(items[o]) \in Nat \ {0}
  BY <1>2, AgreedSeq DEF LInv
<1>3. \A o \in Orders : items[o] \in Seq(Item)
  BY DEF TInv, TypeOK, StoreTypeOK
<1>4. \A o \in Orders : Are(Reading(o), o, N.from, items[o], 1, N.n, N.plan, N.picks, N.slot)
  BY <1>1, <1>3 DEF Reading
<1>5. ASSUME NEW o \in Orders, UpdateRead(w, o) PROVE TInv'
  <2>1. PICK its \in {items[o]} \cup {NewItems(c) : c \in Carts} :
           Start(w, "replace", [Reading(o) EXCEPT !.items = its])
    BY <1>5 DEF UpdateRead
  <2>2. its \in Seq(Item)
    BY <1>3, NewItemsTyped
  <2>3. Stands([Reading(o) EXCEPT !.items = its], "replace", Len(tasks))
    BY <1>4, <2>2, LocalSet DEF Are, Stands, LineLabels, ItemLabels, ScanLabels
  <2>. QED  BY <1>5, <2>1, <2>3, OnlyGoes DEF UpdateRead, Labels, ShipLabels
<1>6. ASSUME NEW o \in Orders, ConfirmRead(w, o) PROVE TInv'
  <2>1. Stands(Reading(o), "physical", Len(tasks))
    BY <1>2, <1>4, <1>6 DEF ConfirmRead, Are, Stands, LineLabels, ItemLabels, ScanLabels
  <2>. QED  BY <1>6, <2>1, OnlyGoes DEF ConfirmRead, Labels, ShipLabels, ReserveLabels
<1>7. ASSUME NEW o \in Orders, CancelRead(w, o) PROVE TInv'
  <2>1. [NoLocals EXCEPT !.order = o, !.from = status[o]]
          = With(o, status[o], N.items, N.i, N.n, N.plan, N.picks, N.slot)
    BY Zenon, StartLocals DEF N
  <2>2. status[o] \in Statuses
    BY DEF TInv, TypeOK, StoreTypeOK
  <2>3. Are([NoLocals EXCEPT !.order = o, !.from = status[o]],
            o, status[o], N.items, N.i, N.n, N.plan, N.picks, N.slot)
    BY <1>0, <2>1, <2>2, WithInLocals, WithTyped
  <2>4. Stands([NoLocals EXCEPT !.order = o, !.from = status[o]], "cancel", Len(tasks))
    BY <2>3 DEF Are, Stands, LineLabels, ItemLabels, ScanLabels
  <2>. QED  BY Zenon, <1>7, <2>4, OnlyGoes DEF CancelRead, Labels, ShipLabels
<1>8. ASSUME NEW o \in Orders, PickRead(w, o) PROVE TInv'
  <2>1. Stands(Reading(o), "shortage", Len(tasks))
    BY <1>2, <1>4, <1>8 DEF PickRead, Are, Stands, LineLabels, ItemLabels, ScanLabels
  <2>. QED  BY <1>8, <2>1, OnlyGoes DEF PickRead, Labels, ShipLabels
<1>9. ASSUME NEW o \in Orders, ShipRead(w, o) PROVE TInv'
  <2>1. Stands(Reading(o), "countOpen", Len(tasks))
    BY <1>4 DEF Are, Stands, LineLabels, ItemLabels, ScanLabels
  <2>. QED  BY <1>9, <2>1, OnlyGoes DEF ShipRead, Labels, ShipLabels
<1>10. ASSUME NEW t \in DOMAIN tasks, NEW q \in ScanQtys, ScanRead(w, t, q) PROVE TInv'
  <2>. DEFINE o == tasks[t].order
              l == [NoLocals EXCEPT !.order = o, !.i = t, !.n = q]
  <2>1. o \in Orders
    <3>1. tasks[t] \in Task
      BY DocumentAt DEF TInv, TypeOK
    <3>. QED  BY <3>1 DEF Task
  <2>2. l = With(o, N.from, N.items, t, q, N.plan, N.picks, N.slot)
    BY Zenon, StartLocals DEF N
  <2>3. Start(w, "addPicked", l) /\ UNCHANGED <<status, items, stock, resv, tasks, shipped>>
    BY <1>10 DEF ScanRead
  <2>. HIDE DEF l, o
  <2>4. Are(l, o, N.from, N.items, t, q, N.plan, N.picks, N.slot)
    BY <1>0, <1>00, <2>1, <2>2, WithInLocals, WithTyped
  <2>5. Stands(l, "addPicked", Len(tasks))
    BY <1>00, <2>4 DEF Are, Stands, LineLabels, ItemLabels, ScanLabels
  <2>. QED  BY <2>3, <2>5, OnlyGoes DEF Labels, ShipLabels
<1>. QED  BY <1>5, <1>6, <1>7, <1>8, <1>9, <1>10
(* Confirm, Cancel and Ship leave the counts of tasks alone.               *)
LEMMA ReservingTyped ==
    ASSUME TInv, NEW w \in Workers
    PROVE  /\ ReservePhysical(w) => TInv'
           /\ ReserveSum(w) => TInv'
           /\ ReserveInsert(w) => TInv'
           /\ ReleaseAll(w) => TInv'
           /\ \A r : ReleaseOne(w, r) => TInv'
<1>0. /\ tasks \in Seq(Task) /\ resv \in Seq(Reservation) /\ stock \in [Slots -> Int]
      /\ Len(tasks) \in Nat
  BY LenProperties DEF TInv, TypeOK, StoreTypeOK
<1>. DEFINE l == loc[w]
<1>k. l \in Locals /\ Stands(l, pc[w], Len(tasks)) /\ Me(w) = l.order /\ Me(w) \in Orders
  BY Knows
<1>. HIDE DEF l
<1>1. ASSUME ReservePhysical(w) PROVE TInv'
  <2>. DEFINE v == Physical(TheItem(w).product)
  <2>1. /\ Goto(w, "sumActive", [l EXCEPT !.n = v])
        /\ pc[w] = "physical" /\ UNCHANGED <<status, items, stock, resv, tasks, shipped>>
    BY <1>1 DEF ReservePhysical, At, l
  <2>2. v \in Int
    BY <1>0, StockSums
  <2>. HIDE DEF v
  <2>3. Stands([l EXCEPT !.n = v], "sumActive", Len(tasks))
    BY <1>k, <2>1, <2>2, LocalSet DEF Are, Stands, LineLabels, ItemLabels, ScanLabels
  <2>. QED  BY <2>1, <2>3, OnlyGoes DEF Labels, ShipLabels, ReserveLabels
<1>2. ASSUME ReserveSum(w) PROVE TInv'
  <2>1. /\ Goto(w, "release", l) \/ Goto(w, "reserve", l)
        /\ pc[w] = "sumActive" /\ UNCHANGED <<status, items, stock, resv, tasks, shipped>>
    BY <1>2 DEF ReserveSum, At, Rollback, l
  <2>2. Stands(l, "release", Len(tasks)) /\ Stands(l, "reserve", Len(tasks))
    BY <1>k, <2>1 DEF Stands, LineLabels, ItemLabels, ScanLabels
  <2>. QED  BY <2>1, <2>2, OnlyGoes DEF Labels, ShipLabels, ReserveLabels
<1>3. ASSUME ReserveInsert(w) PROVE TInv'
  <2>. DEFINE its == l.items
              new == [its EXCEPT ![l.i].reserved = TheItem(w).req]
              m == [l EXCEPT !.items = new]
              i == m.i + 1
              r == [order |-> Me(w), product |-> TheItem(w).product,
                    qty |-> TheItem(w).req, active |-> TRUE, byHand |-> FALSE]
  <2>1. /\ \/ Goto(w, "confirm", m)
           \/ l.i # Len(its) /\ Goto(w, "physical", [m EXCEPT !.i = i])
        /\ pc[w] = "reserve" /\ UNCHANGED <<status, items, stock, tasks, shipped>>
        /\ resv' = Append(resv, r)
    BY SMTT(30), <1>3 DEF ReserveInsert, At, LastItem, l
  <2>2. /\ l.i \in 1..Len(its) /\ Len(its) \in Nat
        /\ TheItem(w) \in Item /\ TheItem(w) = its[l.i]
        /\ TheItem(w).product \in Products /\ TheItem(w).req \in Nat \ {0}
    BY <2>1, LineTyped DEF LineLabels, ItemLabels, l, TheItem
  <2>3. r \in Reservation
    BY <1>k, <2>2 DEF Reservation
  <2>. HIDE DEF r
  <2>4. resv' \in Seq(Reservation)
    BY <1>0, <2>1, <2>3, AppendDocument
  <2>5. new \in Seq(Item) /\ Len(new) = Len(its)
    <3>1. its \in Seq(Item)
      BY <1>k, WithTyped
    <3>2. [its[l.i] EXCEPT !.reserved = TheItem(w).req] \in Item
      BY <2>2 DEF Item
    <3>3. new = [its EXCEPT ![l.i] = [its[l.i] EXCEPT !.reserved = TheItem(w).req]]
      OBVIOUS
    <3>. HIDE DEF its, new
    <3>. QED  BY <2>2, <3>1, <3>2, <3>3, ExceptSeq
  <2>. HIDE DEF new
  <2>6. Are(m, l.order, l.from, new, l.i, l.n, l.plan, l.picks, l.slot)
    BY <1>k, <2>5, LocalSet
  <2>. HIDE DEF m
  <2>7. i = l.i + 1 /\ m \in Locals
    BY <2>6 DEF Are
  <2>. HIDE DEF i
  <2>8. i \in Nat
    BY <2>2, <2>7
  <2>9. Are([m EXCEPT !.i = i], m.order, m.from, m.items, i, m.n, m.plan, m.picks, m.slot)
    BY <2>7, <2>8, LocalSet
  <2>10. Stands(m, "confirm", Len(tasks))
    BY <2>7 DEF Stands, LineLabels, ItemLabels, ScanLabels
  <2>11. l.i # Len(its) => i \in 1..Len(new)
    BY <2>2, <2>5, <2>7
  <2>12. l.i # Len(its) => Stands([m EXCEPT !.i = i], "physical", Len(tasks))
    BY <2>6, <2>9, <2>11 DEF Are, Stands, ScanLabels
  <2>13. \E a \in Labels : \E x : a # "idle" /\ Goto(w, a, x) /\ Stands(x, a, Len(tasks))
    <3>. HIDE DEF its
    <3>. QED  BY <2>1, <2>10, <2>12 DEF Labels, ShipLabels, ReserveLabels
  <2>14. Requests
    <3>1. tasks' \in Seq(Task) /\ Len(tasks) <= Len(tasks') /\ tasks' = tasks
      BY <1>0, <2>1
    <3>. QED  BY <2>13, <3>1, RequestsTyped
  <2>. QED  BY <2>1, <2>4, <2>14 DEF TInv, TypeOK, StoreTypeOK, Requests
<1>4. ASSUME ReleaseAll(w) PROVE TInv'
  <2>1. resv' \in Seq(Reservation) /\ Goto(w, "idle", NoLocals)
    BY <1>0, <1>4, Released DEF ReleaseAll, ReleaseByOrder, Finish
  <2>2. tasks' \in Seq(Task) /\ Len(tasks) <= Len(tasks') /\ UNCHANGED <<status, items, stock, tasks, shipped>>
    BY <1>0, <1>4 DEF ReleaseAll
  <2>3. Requests
    BY <2>1, <2>2, RequestsTyped DEF Labels, ShipLabels
  <2>. QED  BY <2>1, <2>2, <2>3 DEF TInv, TypeOK, StoreTypeOK, Requests
<1>5. ASSUME NEW r, ReleaseOne(w, r) PROVE TInv'
  <2>1. resv' \in Seq(Reservation)
    BY <1>0, <1>5, Released DEF ReleaseOne
  <2>2. started' \in 0..MaxRequests
    <3>1. started \in 0..MaxRequests /\ MaxRequests \in Nat
      BY StoreAssumption DEF TInv, TypeOK, StoreTypeOK
    <3>. QED  BY <1>5, <3>1 DEF ReleaseOne, Once
  <2>3. UNCHANGED <<status, items, stock, tasks, shipped, pc, loc>>
    BY <1>5 DEF ReleaseOne, Once
  <2>. QED  BY <2>1, <2>2, <2>3 DEF TInv, TypeOK, StoreTypeOK
<1>. QED  BY <1>1, <1>2, <1>3, <1>4, <1>5

LEMMA CreatingTyped ==
    ASSUME TInv, NEW x \in Orders, NEW c \in Carts, Create(x, c)
    PROVE  TInv'
<1>1. /\ status' = [status EXCEPT ![x] = "DRAFT"]
      /\ items' = [items EXCEPT ![x] = NewItems(c)]
      /\ UNCHANGED <<stock, resv, tasks, shipped, pc, loc, started>>
  BY DEF Create
<1>2. status' \in [Orders -> Statuses]
  BY <1>1 DEF TInv, TypeOK, StoreTypeOK, Statuses
<1>3. items' \in [Orders -> Seq(Item)]
  BY <1>1, NewItemsTyped DEF TInv, TypeOK, StoreTypeOK
<1>. QED  BY <1>1, <1>2, <1>3 DEF TInv, TypeOK, StoreTypeOK

(* StartPick marks the tasks that are there when picking begins.           *)
IsMarked(y, x) ==
    /\ y \in Task /\ y.timely
    /\ y.picked = x.picked /\ y.state = x.state /\ y.planned = x.planned
    /\ y.events = x.events /\ y.lost = x.lost /\ y.order = x.order /\ y.slot = x.slot

LEMMA TasksMarked ==
    ASSUME TInv, NEW w \in Workers, PickCommit(w)
    PROVE  /\ tasks' \in Seq(Task) /\ Len(tasks') = Len(tasks) /\ DOMAIN tasks' = DOMAIN tasks
           /\ ~CasMatches(Me(w), "CONFIRMED") => tasks' = tasks
           /\ CasMatches(Me(w), "CONFIRMED") => \A t \in DOMAIN tasks :
                 IF tasks[t].order = Me(w) THEN IsMarked(tasks'[t], tasks[t])
                 ELSE tasks'[t] = tasks[t]
<1>1. /\ tasks \in Seq(Task) /\ DOMAIN tasks = 1..Len(tasks) /\ Len(tasks) \in Nat
      /\ \A t \in DOMAIN tasks : tasks[t] \in Task
  BY LenProperties, ElementOfSeq DEF TInv, TypeOK
<1>2. CASE ~CasMatches(Me(w), "CONFIRMED")
  <2>1. tasks' = tasks
    BY <1>2 DEF PickCommit
  <2>. QED  BY <1>1, <1>2, <2>1
<1>3. CASE CasMatches(Me(w), "CONFIRMED")
  <2>. DEFINE c(t) == [tasks[t] EXCEPT !.timely = TRUE]
              mine(t) == tasks[t].order = Me(w)
  <2>1. tasks' = [t \in DOMAIN tasks |-> IF mine(t) THEN c(t) ELSE tasks[t]]
    BY <1>3 DEF PickCommit
  <2>2. ASSUME NEW t \in DOMAIN tasks PROVE c(t) \in Task /\ IsMarked(c(t), tasks[t])
    <3>1. PICK x \in Task : x = tasks[t]
      BY <1>1
    <3>2. LET y == [x EXCEPT !.timely = TRUE] IN
               /\ y \in Task /\ y.timely /\ y.state = x.state
               /\ y.picked = x.picked /\ y.events = x.events
               /\ y.lost = x.lost /\ y.planned = x.planned
               /\ y.order = x.order /\ y.slot = x.slot
      BY DEF Task
    <3>. QED  BY <3>1, <3>2 DEF IsMarked
  <2>. HIDE DEF c
  <2>3. /\ DOMAIN tasks' = DOMAIN tasks
        /\ \A t \in DOMAIN tasks : tasks'[t] = IF mine(t) THEN c(t) ELSE tasks[t]
    BY <2>1
  <2>4. tasks' \in [1..Len(tasks) -> Task]
    <3>1. \A t \in DOMAIN tasks : (IF mine(t) THEN c(t) ELSE tasks[t]) \in Task
      BY <1>1, <2>2
    <3>. QED  BY <1>1, <2>1, <3>1
  <2>5. tasks' \in Seq(Task)
    BY <1>1, <2>4, SeqDef
  <2>6. Len(tasks') = Len(tasks)
    BY <1>1, <2>4, <2>5, LenProperties
  <2>. QED  BY <1>3, <2>2, <2>3, <2>5, <2>6
<1>. QED  BY <1>2, <1>3

(* The order and its compare-and-sets.                                     *)
LEMMA OrderingTyped ==
    ASSUME TInv, NEW w \in Workers
    PROVE  /\ Replace(w) => TInv'
           /\ ConfirmCommit(w) => TInv'
           /\ CancelCommit(w) => TInv'
           /\ PickCommit(w) => TInv'
           /\ ShipCommit(w) => TInv'
<1>. DEFINE l == loc[w]
            o == Me(w)
<1>0. /\ tasks \in Seq(Task) /\ Len(tasks) \in Nat
      /\ status \in [Orders -> Statuses] /\ items \in [Orders -> Seq(Item)]
  BY LenProperties DEF TInv, TypeOK, StoreTypeOK
<1>k. l \in Locals /\ Stands(l, pc[w], Len(tasks)) /\ o = l.order /\ o \in Orders
      /\ l.items \in Seq(Item)
  BY Knows, WithTyped
<1>. HIDE DEF l, o
<1>r. \A a \in {"release", "cancelTasks"} : Stands(l, a, Len(tasks))
  BY <1>k DEF Stands, LineLabels, ItemLabels, ScanLabels
<1>g. ASSUME NEW a \in {"idle", "release", "cancelTasks"}, Goto(w, a, l) \/ Finish(w), UNCHANGED tasks
      PROVE  Requests
  <2>1. tasks' \in Seq(Task) /\ Len(tasks) <= Len(tasks') /\ tasks' = tasks
    BY <1>0, <1>g
  <2>. QED  BY <1>r, <1>g, <2>1, RequestsTyped DEF Finish, Labels, ShipLabels
<1>w. ASSUME NEW s \in Statuses
      PROVE  /\ [status EXCEPT ![o] = s] \in [Orders -> Statuses]
             /\ [items EXCEPT ![o] = l.items] \in [Orders -> Seq(Item)]
  BY <1>0, <1>k
<1>t. ASSUME Requests, UNCHANGED <<stock, resv, tasks, shipped>>,
             status' \in [Orders -> Statuses], items' \in [Orders -> Seq(Item)]
      PROVE  TInv'
  BY <1>t DEF TInv, TypeOK, StoreTypeOK, Requests
<1>1. ASSUME Replace(w) PROVE TInv'
  <2>1. Finish(w) /\ UNCHANGED <<status, stock, resv, tasks, shipped>>
        /\ (items' = items \/ items' = [items EXCEPT ![o] = l.items])
    BY <1>1 DEF Replace, l, o
  <2>. QED  BY <1>0, <1>g, <1>w, <1>t, <2>1 DEF Statuses
<1>2. ASSUME ConfirmCommit(w) PROVE TInv'
  <2>1. /\ UNCHANGED <<stock, resv, tasks, shipped>>
        /\ \/ /\ status' = [status EXCEPT ![o] = "CONFIRMED"]
              /\ items' = [items EXCEPT ![o] = l.items]
              /\ Finish(w)
           \/ Goto(w, "release", l) /\ UNCHANGED <<status, items>>
    BY <1>2 DEF ConfirmCommit, Rollback, l, o
  <2>. QED  BY <1>0, <1>g, <1>w, <1>t, <2>1 DEF Statuses
<1>3. ASSUME CancelCommit(w) PROVE TInv'
  <2>1. /\ UNCHANGED <<items, stock, resv, tasks, shipped>>
        /\ \/ /\ status' = [status EXCEPT ![o] = "CANCELLED"]
              /\ \E a \in {"idle", "release", "cancelTasks"} : Goto(w, a, l)
           \/ Finish(w) /\ UNCHANGED status
    BY <1>3 DEF CancelCommit, AfterCancel, l, o
  <2>. QED  BY <1>0, <1>g, <1>w, <1>t, <2>1 DEF Statuses
<1>4. ASSUME PickCommit(w) PROVE TInv'
  <2>1. /\ UNCHANGED <<items, stock, resv, shipped>>
        /\ Finish(w)
        /\ (status' = status \/ status' = [status EXCEPT ![o] = "PICKING"])
    BY <1>4 DEF PickCommit, o
  <2>2. tasks' \in Seq(Task) /\ Len(tasks') = Len(tasks)
    BY <1>4, TasksMarked
  <2>3. Len(tasks) <= Len(tasks')
    BY <1>0, <2>2
  <2>4. Requests
    <3>1. Goto(w, "idle", NoLocals) /\ "idle" \in Labels
      BY <2>1 DEF Finish, Labels, ShipLabels
    <3>. QED  BY <2>2, <2>3, <3>1, RequestsTyped
  <2>5. status' \in [Orders -> Statuses]
    BY <1>0, <1>w, <2>1 DEF Statuses
  <2>. QED  BY <2>1, <2>2, <2>4, <2>5 DEF TInv, TypeOK, StoreTypeOK, Requests
<1>5. ASSUME ShipCommit(w) PROVE TInv'
  <2>1. /\ UNCHANGED <<stock, resv, tasks, shipped>>
        /\ Finish(w)
        /\ \/ /\ status' = [status EXCEPT ![o] = "SHIPPED"]
              /\ items' = [items EXCEPT ![o] = l.items]
           \/ UNCHANGED <<status, items>>
    BY <1>5 DEF ShipCommit, l, o
  <2>. QED  BY <1>0, <1>g, <1>w, <1>t, <2>1 DEF Statuses
<1>. QED  BY <1>1, <1>2, <1>3, <1>4, <1>5

LEMMA TwoWritten ==
    ASSUME NEW l, IsLocal(l), NEW u, NEW v
    PROVE  /\ [l EXCEPT !.n = u, !.i = v] = [[l EXCEPT !.n = u] EXCEPT !.i = v]
           /\ [l EXCEPT !.picks = u, !.items = v] = [[l EXCEPT !.picks = u] EXCEPT !.items = v]
BY DEF IsLocal

(* A task after a scan has added to it.                                    *)
Scanned(x, p, s) == [x EXCEPT !.picked = p, !.state = s]

IsScanned(y, x, p, s) ==
    /\ y \in Task
    /\ y.picked = p /\ y.state = s
    /\ y.planned = x.planned /\ y.events = x.events /\ y.lost = x.lost
    /\ y.order = x.order /\ y.slot = x.slot /\ y.timely = x.timely

LEMMA TaskFields ==
    ASSUME NEW x \in Task, NEW p \in Nat, NEW s \in {"OPEN", "IN_PROGRESS", "DONE", "CANCELLED"}
    PROVE  IsScanned(Scanned(x, p, s), x, p, s)
<1>. DEFINE y == [x EXCEPT !.picked = p, !.state = s]
<1>1. x = [order |-> x.order, slot |-> x.slot, planned |-> x.planned, picked |-> x.picked,
           state |-> x.state, events |-> x.events, lost |-> x.lost,
           timely |-> x.timely]
  BY DEF Task
<1>2. y = [order |-> x.order, slot |-> x.slot, planned |-> x.planned, picked |-> p,
           state |-> s, events |-> x.events, lost |-> x.lost,
           timely |-> x.timely]
  <2>. DEFINE r(a, b) == [order |-> x.order, slot |-> x.slot, planned |-> x.planned,
                          picked |-> a, state |-> b, events |-> x.events, lost |-> x.lost,
                          timely |-> x.timely]
  <2>1. [x EXCEPT !.picked = p] = r(p, x.state)
    BY <1>1
  <2>2. y = [[x EXCEPT !.picked = p] EXCEPT !.state = s]
    BY <1>1
  <2>3. [r(p, x.state) EXCEPT !.state = s] = r(p, s)
    OBVIOUS
  <2>. HIDE DEF y, r
  <2>4. y = r(p, s)
    BY <2>1, <2>2, <2>3
  <2>. QED  BY <2>4 DEF r
<1>3. x.order \in Orders /\ x.slot \in Slots /\ x.planned \in Nat \ {0} /\ x.events \in Nat /\ x.lost \in Nat
      /\ x.timely \in BOOLEAN
  BY DEF Task
<1>. HIDE DEF y
<1>4. y \in Task
  BY <1>2, <1>3 DEF Task
<1>5. /\ y.picked = p /\ y.state = s /\ y.planned = x.planned /\ y.events = x.events
      /\ y.lost = x.lost /\ y.order = x.order /\ y.slot = x.slot /\ y.timely = x.timely
  BY <1>2
<1>. QED  BY <1>4, <1>5 DEF y, Scanned, IsScanned

(* What the actions do to the tasks.                                       *)
TaskAt(t, e) ==
    /\ tasks' \in Seq(Task) /\ Len(tasks') = Len(tasks) /\ DOMAIN tasks' = DOMAIN tasks
    /\ tasks'[t] = e
    /\ \A u \in DOMAIN tasks : u # t => tasks'[u] = tasks[u]

LEMMA TaskWritten ==
    ASSUME tasks \in Seq(Task), NEW t \in DOMAIN tasks, NEW e \in Task,
           tasks' = [tasks EXCEPT ![t] = e]
    PROVE  TaskAt(t, e)
<1>1. /\ tasks' \in Seq(Task) /\ DOMAIN tasks' = DOMAIN tasks
      /\ \A u \in DOMAIN tasks : tasks'[u] = IF u = t THEN e ELSE tasks[u]
  BY ReplaceDocument
<1>2. DOMAIN tasks = 1..Len(tasks) /\ DOMAIN tasks' = 1..Len(tasks') /\ Len(tasks) \in Nat /\ Len(tasks') \in Nat
  BY <1>1, LenProperties
<1>3. Len(tasks') = Len(tasks)
  BY <1>1, <1>2
<1>. QED  BY <1>1, <1>3 DEF TaskAt

LEMMA PickedAdded ==
    ASSUME TInv, NEW w \in Workers, AddPicked(w), AddMatches(loc[w].i, loc[w].n)
    PROVE  LET t == loc[w].i
               sum == tasks[t].picked + loc[w].n
               e == [tasks[t] EXCEPT !.picked = sum,
                         !.state = IF sum = tasks[t].planned THEN "DONE" ELSE "IN_PROGRESS"]
           IN  /\ pc[w] = "addPicked" /\ t \in DOMAIN tasks /\ tasks[t] \in Task
               /\ loc[w].n \in Nat \ {0} /\ sum \in Nat /\ sum <= tasks[t].planned
               /\ TaskAt(t, e) /\ IsScanned(e, tasks[t], sum, e.state)
               /\ e.state \in {"DONE", "IN_PROGRESS"}
               /\ Goto(w, "event", loc[w])
<1>. DEFINE t == loc[w].i
            n == loc[w].n
            sum == tasks[t].picked + n
            s == IF sum = tasks[t].planned THEN "DONE" ELSE "IN_PROGRESS"
            e == [tasks[t] EXCEPT !.picked = sum, !.state = s]
<1>1. /\ pc[w] = "addPicked" /\ Goto(w, "event", loc[w])
      /\ tasks' = [tasks EXCEPT ![t].picked = sum, ![t].state = s]
  BY DEF AddPicked, At
<1>2. /\ tasks \in Seq(Task) /\ t \in DOMAIN tasks /\ n \in Nat \ {0} /\ tasks[t] \in Task
  <2>1. tasks \in Seq(Task) /\ Stands(loc[w], pc[w], Len(tasks))
    BY Knows DEF TInv, TypeOK
  <2>2. t \in 1..Len(tasks) /\ n \in Nat \ {0}
    BY <1>1, <2>1 DEF Stands, ScanLabels
  <2>. QED  BY <2>1, <2>2, LenProperties, ElementOfSeq
<1>3. tasks[t].picked \in Nat /\ sum \in Nat
  <2>1. tasks[t].picked \in Nat
    BY <1>2 DEF Task
  <2>. HIDE DEF t, n
  <2>. QED  BY <1>2, <2>1
<1>4. sum <= tasks[t].planned
  BY DEF AddMatches, Fits
<1>5. tasks' = [tasks EXCEPT ![t] = e]
  BY <1>1
<1>6. s \in {"OPEN", "IN_PROGRESS", "DONE", "CANCELLED"} /\ s \in {"DONE", "IN_PROGRESS"}
  OBVIOUS
<1>. HIDE DEF t, n, s, sum
<1>7. IsScanned(e, tasks[t], sum, s) /\ e \in Task /\ e.state = s
  <2>1. e = Scanned(tasks[t], sum, s)
    BY DEF Scanned
  <2>2. IsScanned(Scanned(tasks[t], sum, s), tasks[t], sum, s)
    BY <1>2, <1>3, <1>6, TaskFields
  <2>. HIDE DEF e
  <2>. QED  BY <2>1, <2>2 DEF IsScanned
<1>. HIDE DEF e
<1>8. TaskAt(t, e)
  BY <1>2, <1>5, <1>7, TaskWritten
<1>. QED  BY <1>1, <1>2, <1>3, <1>4, <1>6, <1>7, <1>8 DEF t, n, s, sum, e

(* A field that only grows: the events of a task, or what was lost.        *)
LEMMA EventAdded ==
    ASSUME TInv, NEW w \in Workers, pc[w] = "event"
    PROVE  LET t == loc[w].i
               e == [tasks[t] EXCEPT !.events = @ + loc[w].n]
               f == [tasks[t] EXCEPT !.lost = @ + loc[w].n]
           IN  /\ t \in DOMAIN tasks /\ tasks[t] \in Task /\ loc[w].n \in Nat \ {0}
               /\ e \in Task /\ f \in Task
               /\ e.events = tasks[t].events + loc[w].n /\ f.lost = tasks[t].lost + loc[w].n
               /\ f.events = tasks[t].events /\ e.lost = tasks[t].lost
               /\ \A x \in {e, f} : /\ x.picked = tasks[t].picked /\ x.state = tasks[t].state
                                    /\ x.planned = tasks[t].planned /\ x.order = tasks[t].order
                                    /\ x.slot = tasks[t].slot /\ x.timely = tasks[t].timely
               /\ tasks' = [tasks EXCEPT ![t].events = @ + loc[w].n] => TaskAt(t, e)
               /\ tasks' = [tasks EXCEPT ![t].lost = @ + loc[w].n] => TaskAt(t, f)
<1>. DEFINE t == loc[w].i
            n == loc[w].n
            x == tasks[t]
            e == [x EXCEPT !.events = @ + n]
            f == [x EXCEPT !.lost = @ + n]
<1>2. /\ tasks \in Seq(Task) /\ t \in DOMAIN tasks /\ n \in Nat \ {0} /\ x \in Task
  <2>1. tasks \in Seq(Task) /\ Stands(loc[w], pc[w], Len(tasks))
    BY Knows DEF TInv, TypeOK
  <2>2. t \in 1..Len(tasks) /\ n \in Nat \ {0}
    BY <2>1 DEF Stands, ScanLabels
  <2>. QED  BY <2>1, <2>2, LenProperties, ElementOfSeq
<1>3. /\ tasks' = [tasks EXCEPT ![t].events = @ + n] => tasks' = [tasks EXCEPT ![t] = e]
      /\ tasks' = [tasks EXCEPT ![t].lost = @ + n] => tasks' = [tasks EXCEPT ![t] = f]
  BY <1>2
<1>. HIDE DEF t, n, x
<1>4. x = [order |-> x.order, slot |-> x.slot, planned |-> x.planned, picked |-> x.picked,
           state |-> x.state, events |-> x.events, lost |-> x.lost,
           timely |-> x.timely]
  BY <1>2 DEF Task
<1>5. /\ x.order \in Orders /\ x.slot \in Slots /\ x.planned \in Nat \ {0} /\ x.events \in Nat
      /\ x.lost \in Nat /\ x.picked \in Nat /\ x.timely \in BOOLEAN
      /\ x.state \in {"OPEN", "IN_PROGRESS", "DONE", "CANCELLED"}
  BY <1>2 DEF Task
<1>6. x.events + n \in Nat /\ x.lost + n \in Nat
  BY <1>2, <1>5
<1>7. e = [order |-> x.order, slot |-> x.slot, planned |-> x.planned, picked |-> x.picked,
           state |-> x.state, events |-> x.events + n, lost |-> x.lost,
           timely |-> x.timely]
  BY <1>4
<1>8. f = [order |-> x.order, slot |-> x.slot, planned |-> x.planned, picked |-> x.picked,
           state |-> x.state, events |-> x.events, lost |-> x.lost + n,
           timely |-> x.timely]
  BY <1>4
<1>. HIDE DEF e, f
<1>9. e \in Task /\ f \in Task
  BY <1>5, <1>6, <1>7, <1>8 DEF Task
<1>10. /\ e.events = x.events + n /\ f.lost = x.lost + n
       /\ f.events = x.events /\ e.lost = x.lost
       /\ \A y \in {e, f} : /\ y.picked = x.picked /\ y.state = x.state
                            /\ y.planned = x.planned /\ y.order = x.order /\ y.slot = x.slot
                            /\ y.timely = x.timely
  BY <1>7, <1>8
<1>11. /\ tasks' = [tasks EXCEPT ![t] = e] => TaskAt(t, e)
       /\ tasks' = [tasks EXCEPT ![t] = f] => TaskAt(t, f)
  BY <1>2, <1>9, TaskWritten
<1>12. /\ tasks' = [tasks EXCEPT ![t].events = @ + n] => TaskAt(t, e)
       /\ tasks' = [tasks EXCEPT ![t].lost = @ + n] => TaskAt(t, f)
  BY <1>3, <1>11 DEF e, f
<1>. QED  BY <1>2, <1>9, <1>10, <1>12 DEF t, n, x, e, f

LEMMA TasksCancelled ==
    ASSUME TInv, NEW w \in Workers, CancelTasks(w)
    PROVE  /\ tasks' \in Seq(Task) /\ Len(tasks') = Len(tasks) /\ DOMAIN tasks' = DOMAIN tasks
           /\ \A t \in DOMAIN tasks :
                 \/ tasks'[t] = tasks[t] /\ ~(tasks[t].order = Me(w) /\ Pickable(t))
                 \/ /\ tasks[t].order = Me(w) /\ Pickable(t)
                    /\ tasks'[t].state = "CANCELLED"
                    /\ tasks'[t].picked = tasks[t].picked /\ tasks'[t].events = tasks[t].events
                    /\ tasks'[t].lost = tasks[t].lost /\ tasks'[t].planned = tasks[t].planned
                    /\ tasks'[t].order = tasks[t].order /\ tasks'[t].slot = tasks[t].slot
                    /\ tasks'[t].timely = tasks[t].timely
<1>. DEFINE c(t) == [tasks[t] EXCEPT !.state = "CANCELLED"]
            mine(t) == tasks[t].order = Me(w) /\ Pickable(t)
<1>1. tasks' = [t \in DOMAIN tasks |-> IF mine(t) THEN c(t) ELSE tasks[t]]
  BY DEF CancelTasks
<1>2. /\ tasks \in Seq(Task) /\ DOMAIN tasks = 1..Len(tasks) /\ Len(tasks) \in Nat
      /\ \A t \in DOMAIN tasks : tasks[t] \in Task
  BY LenProperties, ElementOfSeq DEF TInv, TypeOK
<1>3. ASSUME NEW t \in DOMAIN tasks
      PROVE  /\ c(t) \in Task /\ c(t).state = "CANCELLED"
             /\ c(t).picked = tasks[t].picked /\ c(t).events = tasks[t].events
             /\ c(t).lost = tasks[t].lost /\ c(t).planned = tasks[t].planned
             /\ c(t).order = tasks[t].order /\ c(t).slot = tasks[t].slot
             /\ c(t).timely = tasks[t].timely
  <2>1. PICK x \in Task : x = tasks[t]
    BY <1>2
  <2>2. LET y == [x EXCEPT !.state = "CANCELLED"] IN
             /\ y \in Task /\ y.state = "CANCELLED"
             /\ y.picked = x.picked /\ y.events = x.events
             /\ y.lost = x.lost /\ y.planned = x.planned
             /\ y.order = x.order /\ y.slot = x.slot /\ y.timely = x.timely
    BY DEF Task
  <2>. QED  BY <2>1, <2>2
<1>. HIDE DEF c, mine
<1>4. /\ DOMAIN tasks' = DOMAIN tasks
      /\ \A t \in DOMAIN tasks : tasks'[t] = IF mine(t) THEN c(t) ELSE tasks[t]
  BY <1>1
<1>5. tasks' \in [1..Len(tasks) -> Task]
  <2>1. \A t \in DOMAIN tasks : (IF mine(t) THEN c(t) ELSE tasks[t]) \in Task
    BY <1>2, <1>3
  <2>. QED  BY <1>1, <1>2, <2>1
<1>6. tasks' \in Seq(Task)
  BY <1>2, <1>5, SeqDef
<1>7. Len(tasks') = Len(tasks)
  BY <1>2, <1>5, <1>6, LenProperties
<1>. QED  BY <1>3, <1>4, <1>6, <1>7 DEF mine

LEMMA TaskInserted ==
    ASSUME TInv, NEW w \in Workers, InsertTask(w)
    PROVE  LET e == NewTask(Me(w), Head(loc[w].plan)) IN
           /\ e \in Task /\ e.picked = 0 /\ e.events = 0 /\ e.lost = 0 /\ e.state = "OPEN"
           /\ e.planned \in Nat \ {0} /\ e.order = Me(w) /\ ~e.timely
           /\ tasks' \in Seq(Task) /\ Len(tasks') = Len(tasks) + 1
           /\ DOMAIN tasks = 1..Len(tasks) /\ DOMAIN tasks' = 1..(Len(tasks) + 1) /\ Len(tasks) \in Nat
           /\ \A u \in DOMAIN tasks : tasks'[u] = tasks[u]
           /\ tasks'[Len(tasks) + 1] = e
           /\ Tail(loc[w].plan) \in Seq(Planned)
           /\ Len(loc[w].plan) # 1 => Tail(loc[w].plan) # <<>>
<1>. DEFINE h == Head(loc[w].plan)
            e == NewTask(Me(w), h)
<1>1. loc[w].plan \in Seq(Planned) /\ loc[w].plan # <<>> /\ Me(w) \in Orders /\ pc[w] = "insertTasks"
  BY Knows, WithTyped DEF InsertTask, At, Stands
<1>2. h \in Planned /\ Tail(loc[w].plan) \in Seq(Planned)
      /\ Len(Tail(loc[w].plan)) = Len(loc[w].plan) - 1 /\ Len(loc[w].plan) \in Nat
  BY <1>1, HeadTailProperties, LenProperties
<1>. HIDE DEF h
<1>3. /\ e \in Task /\ e.picked = 0 /\ e.events = 0 /\ e.lost = 0 /\ e.state = "OPEN"
      /\ e.planned \in Nat \ {0} /\ e.order = Me(w) /\ ~e.timely
  BY <1>1, <1>2 DEF NewTask, Task, Planned
<1>4. tasks \in Seq(Task) /\ tasks' = Append(tasks, e)
  BY DEF TInv, TypeOK, InsertTask, h
<1>. HIDE DEF e
<1>5. /\ tasks' \in Seq(Task) /\ DOMAIN tasks' = 1..(Len(tasks) + 1)
      /\ DOMAIN tasks = 1..Len(tasks) /\ Len(tasks) \in Nat
      /\ \A u \in DOMAIN tasks : tasks'[u] = tasks[u]
      /\ tasks'[Len(tasks) + 1] = e
      /\ Len(tasks') = Len(tasks) + 1
  BY <1>3, <1>4, AppendDocument, AppendProperties
<1>6. Len(loc[w].plan) # 1 => Tail(loc[w].plan) # <<>>
  <2>1. Tail(loc[w].plan) = <<>> => Len(Tail(loc[w].plan)) = 0
    BY ONLY <1>2, EmptySeq
  <2>2. PICK k \in Nat : k = Len(loc[w].plan) /\ Len(Tail(loc[w].plan)) = k - 1
    BY <1>2
  <2>. QED  BY ONLY <2>1, <2>2
<1>. QED  BY <1>2, <1>3, <1>5, <1>6 DEF e, h

LEMMA PickingTyped ==
    ASSUME TInv, NEW w \in Workers
    PROVE  /\ ShortageCheck(w) => TInv'
           /\ PlanItem(w) => TInv'
           /\ InsertTask(w) => TInv'
           /\ CancelTasks(w) => TInv'
           /\ CountOpen(w) => TInv'
           /\ CountAll(w) => TInv'
           /\ AddPicked(w) => TInv'
           /\ InsertEvent(w) => TInv'
           /\ GiveUp(w) => TInv'
<1>0. /\ tasks \in Seq(Task) /\ stock \in [Slots -> Int] /\ Len(tasks) \in Nat
  BY LenProperties DEF TInv, TypeOK
<1>. DEFINE l == loc[w]
<1>k. /\ l \in Locals /\ Stands(l, pc[w], Len(tasks)) /\ Me(w) = l.order /\ Me(w) \in Orders
      /\ l.n \in Int /\ l.i \in Nat /\ l.plan \in Seq(Planned) /\ IsLocal(l)
  BY Knows, WithTyped
<1>. HIDE DEF l
<1>i. NoLocals = NoLocals /\ "idle" \in Labels
  BY DEF Labels, ShipLabels
<1>t. ASSUME Requests, tasks' \in Seq(Task), UNCHANGED <<status, items, stock, resv, shipped>>
      PROVE  TInv'
  BY <1>t DEF TInv, TypeOK, StoreTypeOK, Requests
<1>1. ASSUME ShortageCheck(w) PROVE TInv'
  <2>. DEFINE n == l.n + (IF Positive(TheItem(w).product) < TheItem(w).req THEN 1 ELSE 0)
              i == l.i + 1
  <2>1. /\ \/ ~LastItem(w) /\ Goto(w, "shortage", [l EXCEPT !.n = n, !.i = i])
           \/ Goto(w, "plan", [l EXCEPT !.i = 1])
           \/ Goto(w, "idle", NoLocals)
        /\ pc[w] = "shortage" /\ UNCHANGED <<status, items, stock, resv, tasks, shipped>>
    BY <1>1 DEF ShortageCheck, At, Finish, l
  <2>2. /\ l.i \in 1..Len(l.items) /\ Len(l.items) \in Nat
        /\ ~LastItem(w) => i \in 1..Len(l.items)
        /\ 1 \in 1..Len(l.items)
    <3>1. /\ l.i \in 1..Len(l.items) /\ Len(l.items) \in Nat
      BY <2>1, LineTyped DEF LineLabels, l
    <3>2. LastItem(w) <=> l.i = Len(l.items)
      BY DEF LastItem, l
    <3>. QED  BY <3>1, <3>2
  <2>3. n \in Int /\ i \in Nat
    BY <1>k
  <2>. HIDE DEF n, i
  <2>4. [l EXCEPT !.n = n, !.i = i] = [[l EXCEPT !.n = n] EXCEPT !.i = i]
    BY <1>k, TwoWritten
  <2>5. Are([l EXCEPT !.n = n, !.i = i], l.order, l.from, l.items, i, n, l.plan, l.picks, l.slot)
    <3>. DEFINE m == [l EXCEPT !.n = n]
    <3>1. Are(m, l.order, l.from, l.items, l.i, n, l.plan, l.picks, l.slot)
      BY <1>k, <2>3, LocalSet
    <3>. HIDE DEF m
    <3>2. Are([m EXCEPT !.i = i], m.order, m.from, m.items, i, m.n, m.plan, m.picks, m.slot)
      BY <2>3, <3>1, LocalSet DEF Are
    <3>. QED  BY <2>4, <3>1, <3>2 DEF Are, m
  <2>6. Are([l EXCEPT !.i = 1], l.order, l.from, l.items, 1, l.n, l.plan, l.picks, l.slot)
    BY <1>k, LocalSet
  <2>7. ~LastItem(w) => Stands([l EXCEPT !.n = n, !.i = i], "shortage", Len(tasks))
    BY <2>2, <2>5 DEF Are, Stands, ScanLabels
  <2>8. Stands([l EXCEPT !.i = 1], "plan", Len(tasks))
    BY <2>2, <2>6 DEF Are, Stands, ScanLabels
  <2>. QED  BY <2>1, <2>7, <2>8, OnlyGoes DEF Labels, ShipLabels
<1>2. ASSUME PlanItem(w) PROVE TInv'
  <2>0. pc[w] = "plan" /\ UNCHANGED <<status, items, stock, resv, tasks, shipped>>
    BY <1>2 DEF PlanItem, At
  <2>1. PICK p \in ItemPlans(TheItem(w)) :
           LET m == [l EXCEPT !.plan = @ \o p] IN
           CASE ~LastItem(w) -> Goto(w, "plan", [m EXCEPT !.i = @ + 1])
             [] LastItem(w) /\ m.plan # <<>> -> Goto(w, "insertTasks", m)
             [] OTHER -> Finish(w)
    BY <1>2 DEF PlanItem, l
  <2>. DEFINE plan == l.plan \o p
              m == [l EXCEPT !.plan = plan]
              i == m.i + 1
  <2>2. /\ l.i \in 1..Len(l.items) /\ Len(l.items) \in Nat /\ TheItem(w).req \in Nat
        /\ LastItem(w) <=> l.i = Len(l.items)
    BY <2>0, LineTyped DEF LineLabels, LastItem, l
  <2>3. plan \in Seq(Planned)
    <3>1. p \in Seq(Planned)
      BY <1>0, <2>2, ItemPlansType
    <3>. QED  BY <1>k, <3>1, ConcatProperties
  <2>4. \/ ~LastItem(w) /\ Goto(w, "plan", [m EXCEPT !.i = i])
        \/ m.plan # <<>> /\ Goto(w, "insertTasks", m)
        \/ Goto(w, "idle", NoLocals)
    BY <2>1 DEF Finish
  <2>. HIDE DEF plan
  <2>5. Are(m, l.order, l.from, l.items, l.i, l.n, plan, l.picks, l.slot)
    BY <1>k, <2>3, LocalSet
  <2>. HIDE DEF m
  <2>6. i = l.i + 1 /\ m \in Locals
    BY <2>5 DEF Are
  <2>. HIDE DEF i
  <2>7. i \in Nat /\ (~LastItem(w) => i \in 1..Len(l.items))
    BY <2>2, <2>6
  <2>8. Are([m EXCEPT !.i = i], m.order, m.from, m.items, i, m.n, m.plan, m.picks, m.slot)
    BY <2>6, <2>7, LocalSet
  <2>9. ~LastItem(w) => Stands([m EXCEPT !.i = i], "plan", Len(tasks))
    BY <2>5, <2>7, <2>8 DEF Are, Stands, ScanLabels
  <2>10. m.plan # <<>> => Stands(m, "insertTasks", Len(tasks))
    BY <2>6 DEF Stands, ScanLabels, LineLabels, ItemLabels
  <2>. QED  BY <2>0, <2>4, <2>9, <2>10, OnlyGoes DEF Labels, ShipLabels
<1>3. ASSUME InsertTask(w) PROVE TInv'
  <2>. DEFINE plan == Tail(l.plan)
              m == [l EXCEPT !.plan = plan]
  <2>1. /\ Goto(w, IF Len(l.plan) = 1 THEN "startPick" ELSE "insertTasks", m)
        /\ UNCHANGED <<status, items, stock, resv, shipped>>
    BY <1>3 DEF InsertTask, l
  <2>2. /\ tasks' \in Seq(Task) /\ Len(tasks') = Len(tasks) + 1
        /\ plan \in Seq(Planned) /\ (Len(l.plan) # 1 => plan # <<>>)
    BY <1>3, TaskInserted DEF l
  <2>. HIDE DEF plan
  <2>3. Are(m, l.order, l.from, l.items, l.i, l.n, plan, l.picks, l.slot)
    BY <1>k, <2>2, LocalSet
  <2>. HIDE DEF m
  <2>4. \E a \in {"startPick", "insertTasks"} : Goto(w, a, m) /\ Stands(m, a, Len(tasks'))
    BY <2>1, <2>2, <2>3 DEF Are, Stands, ScanLabels, LineLabels, ItemLabels
  <2>5. Len(tasks) <= Len(tasks')
    BY <1>0, <2>2
  <2>6. Requests
    BY <2>2, <2>4, <2>5, RequestsTyped DEF Labels, ShipLabels
  <2>. QED  BY <1>t, <2>1, <2>2, <2>6
<1>4. ASSUME CancelTasks(w) PROVE TInv'
  <2>1. /\ Goto(w, "release", l) /\ UNCHANGED <<status, items, stock, resv, shipped>>
    BY <1>4 DEF CancelTasks, l
  <2>2. tasks' \in Seq(Task) /\ Len(tasks') = Len(tasks)
    BY <1>4, TasksCancelled
  <2>3. Stands(l, "release", Len(tasks')) /\ Len(tasks) <= Len(tasks')
    BY <1>0, <1>k, <2>2 DEF Stands, ScanLabels, LineLabels, ItemLabels
  <2>4. Requests
    BY <2>1, <2>2, <2>3, RequestsTyped DEF Labels, ShipLabels
  <2>. QED  BY <1>t, <2>1, <2>2, <2>4
<1>5. ASSUME CountOpen(w) PROVE TInv'
  <2>. DEFINE n == NotDone(Me(w))
  <2>1. /\ Goto(w, "countAll", [l EXCEPT !.n = n])
        /\ UNCHANGED <<status, items, stock, resv, tasks, shipped>>
    BY <1>5 DEF CountOpen, l
  <2>2. n \in Int
    <3>1. IsFiniteSet({t \in TasksOf(Me(w)) : tasks[t].state # "DONE"})
      <4>1. {t \in TasksOf(Me(w)) : tasks[t].state # "DONE"} \subseteq DOMAIN tasks
        BY DEF TasksOf
      <4>. QED  BY <1>0, <4>1, Positions, FS_Subset
    <3>2. n \in Nat
      BY <3>1, FS_CardinalityType DEF NotDone
    <3>. QED  BY <3>2
  <2>. HIDE DEF n
  <2>3. Stands([l EXCEPT !.n = n], "countAll", Len(tasks))
    BY <1>k, <2>2, LocalSet DEF Are, Stands, LineLabels, ItemLabels, ScanLabels
  <2>. QED  BY <2>1, <2>3, OnlyGoes DEF Labels, ShipLabels
<1>6. ASSUME CountAll(w) PROVE TInv'
  <2>1. /\ Goto(w, "events", l) \/ Goto(w, "idle", NoLocals)
        /\ UNCHANGED <<status, items, stock, resv, tasks, shipped>>
    BY <1>6 DEF CountAll, Finish, l
  <2>2. Stands(l, "events", Len(tasks))
    BY <1>k DEF Stands, LineLabels, ItemLabels, ScanLabels
  <2>. QED  BY <2>1, <2>2, OnlyGoes DEF Labels, ShipLabels
<1>7. ASSUME AddPicked(w) PROVE TInv'
  <2>1. UNCHANGED <<status, items, stock, resv, shipped>> /\ pc[w] = "addPicked"
    BY <1>7 DEF AddPicked, At
  <2>2. CASE AddMatches(l.i, l.n)
    <3>1. /\ tasks' \in Seq(Task) /\ Len(tasks') = Len(tasks)
          /\ Goto(w, "event", l)
      BY Zenon, <1>7, <2>2, PickedAdded DEF TaskAt, l
    <3>2. Stands(l, "event", Len(tasks')) /\ Len(tasks) <= Len(tasks')
      BY <1>0, <1>k, <2>1, <3>1 DEF Stands, ScanLabels, LineLabels, ItemLabels
    <3>3. Requests
      BY <3>1, <3>2, RequestsTyped DEF Labels, ShipLabels
    <3>. QED  BY SMTT(30), <1>t, <2>1, <3>1, <3>3
  <2>3. CASE ~AddMatches(l.i, l.n)
    <3>1. Goto(w, "idle", NoLocals) /\ UNCHANGED tasks
      BY <1>7, <2>3 DEF AddPicked, Finish, l
    <3>. QED  BY <1>i, <2>1, <3>1, OnlyGoes
  <2>. QED  BY <2>2, <2>3
<1>8. ASSUME InsertEvent(w) PROVE TInv'
  <2>1. /\ UNCHANGED <<status, items, stock, resv, shipped>> /\ pc[w] = "event"
        /\ Goto(w, "idle", NoLocals)
        /\ tasks' = [tasks EXCEPT ![loc[w].i].events = @ + loc[w].n]
    BY <1>8 DEF InsertEvent, At, Finish
  <2>2. tasks' \in Seq(Task) /\ Len(tasks') = Len(tasks)
    BY <2>1, EventAdded DEF TaskAt
  <2>3. Len(tasks) <= Len(tasks')
    BY <1>0, <2>2
  <2>4. Requests
    BY <1>i, <2>1, <2>2, <2>3, RequestsTyped
  <2>. QED  BY <1>t, <2>1, <2>2, <2>4
<1>9. ASSUME GiveUp(w) PROVE TInv'
  <2>1. /\ UNCHANGED <<status, items, stock, resv, shipped>>
        /\ Goto(w, "idle", NoLocals)
        /\ \/ tasks' = tasks
           \/ pc[w] = "event" /\ tasks' = [tasks EXCEPT ![loc[w].i].lost = @ + loc[w].n]
    BY <1>9 DEF GiveUp, At, Finish
  <2>2. tasks' \in Seq(Task) /\ Len(tasks') = Len(tasks)
    BY <1>0, <2>1, EventAdded DEF TaskAt
  <2>3. Len(tasks) <= Len(tasks')
    BY <1>0, <2>2
  <2>4. Requests
    BY <1>i, <2>1, <2>2, <2>3, RequestsTyped
  <2>. QED  BY <1>t, <2>1, <2>2, <2>4
<1>. QED  BY <1>1, <1>2, <1>3, <1>4, <1>5, <1>6, <1>7, <1>8, <1>9
(* Every line gets a natural number of shipped pieces.                     *)
LEMMA WithShippedTyped ==
    ASSUME NEW its \in Seq(Item), NEW picks \in [Slots -> Nat]
    PROVE  WithShipped(its, picks) \in Seq(Item)
<1>. DEFINE total(p) == SumFunctionOnSet(picks, RowsOf(p))
            new == WithShipped(its, picks)
            e(k) == IF total(its[k].product) > 0
                    THEN [its[k] EXCEPT !.shipped = total(its[k].product)] ELSE its[k]
<1>1. \A p : total(p) \in Nat
  BY RowsFinite, SumOnNat
<1>2. new = [k \in DOMAIN its |-> e(k)]
  BY DEF WithShipped
<1>3. DOMAIN its = 1..Len(its) /\ Len(its) \in Nat /\ \A k \in 1..Len(its) : its[k] \in Item
  BY LenProperties, ElementOfSeq
<1>. HIDE DEF total, new
<1>4. ASSUME NEW k \in 1..Len(its) PROVE e(k) \in Item
  <2>1. PICK x \in Item, n \in Nat : x = its[k] /\ n = total(its[k].product)
    BY <1>1, <1>3
  <2>2. [x EXCEPT !.shipped = n] \in Item
    BY DEF Item
  <2>. QED  BY <2>1, <2>2
<1>. HIDE DEF e
<1>5. new \in [1..Len(its) -> Item]
  BY <1>2, <1>3, <1>4
<1>. QED  BY <1>3, <1>5, SeqDef DEF new

LEMMA ShippingTyped ==
    ASSUME TInv, NEW w \in Workers
    PROVE  /\ ReadEvents(w) => TInv'
           /\ RemoveCheck(w) => TInv'
           /\ TakeOut(w) => TInv'
           /\ Outbound(w) => TInv'
           /\ ShipRelease(w) => TInv'
<1>0. /\ tasks \in Seq(Task) /\ stock \in [Slots -> Int] /\ Len(tasks) \in Nat
      /\ resv \in Seq(Reservation) /\ shipped \in [Orders -> [Slots -> Nat]]
  BY LenProperties DEF TInv, TypeOK, StoreTypeOK
<1>. DEFINE l == loc[w]
<1>k. /\ l \in Locals /\ Stands(l, pc[w], Len(tasks)) /\ Me(w) = l.order /\ Me(w) \in Orders
      /\ l.items \in Seq(Item) /\ l.picks \in [Slots -> Nat] /\ l.slot \in Slots /\ IsLocal(l)
  BY Knows, WithTyped
<1>. HIDE DEF l
<1>s. ASSUME NEW m \in Locals, NEW a \in ShipLabels
      PROVE  Stands(m, a, Len(tasks)) /\ a \in Labels /\ a # "idle"
  BY DEF Stands, LineLabels, ItemLabels, ScanLabels, ShipLabels, Labels
<1>n. \A picks : NextRow(picks) \in ShipLabels
  BY DEF NextRow, ShipLabels
<1>g. ASSUME NEW m \in Locals, NEW a \in ShipLabels, Goto(w, a, m), UNCHANGED tasks
      PROVE  Requests
  <2>1. tasks' \in Seq(Task) /\ Len(tasks) <= Len(tasks') /\ tasks' = tasks
    BY <1>0, <1>g
  <2>. QED  BY <1>s, <1>g, <2>1, RequestsTyped
<1>1. ASSUME ReadEvents(w) PROVE TInv'
  <2>. DEFINE picks == [s \in Slots |-> EventsAt(Me(w), s)]
              new == WithShipped(l.items, picks)
              m == [l EXCEPT !.picks = picks, !.items = new]
  <2>1. /\ Goto(w, NextRow(picks), m)
        /\ UNCHANGED <<status, items, stock, resv, tasks, shipped>>
    BY <1>1 DEF ReadEvents, Aggregated, l
  <2>2. picks \in [Slots -> Nat]
    BY <1>0, EventSums
  <2>. HIDE DEF picks
  <2>3. new \in Seq(Item)
    BY <1>k, <2>2, WithShippedTyped
  <2>. HIDE DEF new
  <2>4. m = [[l EXCEPT !.picks = picks] EXCEPT !.items = new]
    BY <1>k, TwoWritten
  <2>. DEFINE k == [l EXCEPT !.picks = picks]
  <2>5. k \in Locals
    BY <1>k, <2>2, LocalSet DEF Are
  <2>. HIDE DEF k
  <2>6. [k EXCEPT !.items = new] \in Locals
    BY <2>3, <2>5, LocalSet DEF Are
  <2>7. m \in Locals
    BY <2>4, <2>6 DEF k
  <2>. HIDE DEF m
  <2>. QED  BY <1>s, <1>n, <2>1, <2>7, OnlyGoes
<1>2. ASSUME RemoveCheck(w) PROVE TInv'
  <2>1. PICK s \in Slots : \/ Goto(w, "idle", NoLocals)
                           \/ Goto(w, "remove", [l EXCEPT !.slot = s])
    BY <1>2 DEF RemoveCheck, Finish, l
  <2>2. UNCHANGED <<status, items, stock, resv, tasks, shipped>>
    BY <1>2 DEF RemoveCheck
  <2>3. [l EXCEPT !.slot = s] \in Locals
    BY <1>k, LocalSet DEF Are
  <2>4. Stands([l EXCEPT !.slot = s], "remove", Len(tasks)) /\ "remove" \in Labels /\ "idle" \in Labels
    BY <1>s, <2>3 DEF ShipLabels, Labels
  <2>. QED  BY <2>1, <2>2, <2>4, OnlyGoes
<1>3. ASSUME TakeOut(w) PROVE TInv'
  <2>. DEFINE v == stock[l.slot] - l.picks[l.slot]
  <2>1. /\ stock' = [stock EXCEPT ![l.slot] = v]
        /\ Goto(w, "outbound", l) /\ UNCHANGED <<status, items, resv, tasks, shipped>>
    BY <1>3 DEF TakeOut, l
  <2>2. v \in Int
    <3>1. stock[l.slot] \in Int /\ l.picks[l.slot] \in Nat
      BY <1>0, <1>k
    <3>. HIDE DEF l
    <3>. QED  BY <3>1
  <2>. HIDE DEF v
  <2>3. stock' \in [Slots -> Int]
    BY <1>0, <2>1, <2>2
  <2>4. Requests
    BY <1>k, <1>g, <2>1 DEF ShipLabels
  <2>. QED  BY <2>1, <2>3, <2>4 DEF TInv, TypeOK, StoreTypeOK, Requests
<1>4. ASSUME Outbound(w) PROVE TInv'
  <2>. DEFINE s == l.slot
              picks == [l.picks EXCEPT ![s] = 0]
              m == [l EXCEPT !.picks = picks]
              v == shipped[Me(w)][s] + l.picks[s]
  <2>1. /\ shipped' = [shipped EXCEPT ![Me(w)][s] = v]
        /\ Goto(w, NextRow(m.picks), m)
        /\ UNCHANGED <<status, items, stock, resv, tasks>>
    <3>1. /\ shipped' = [shipped EXCEPT ![Me(w)][s] = @ + l.picks[s]]
          /\ LET k == [l EXCEPT !.picks[s] = 0] IN Goto(w, NextRow(k.picks), k)
          /\ UNCHANGED <<status, items, stock, resv, tasks>>
      BY <1>4 DEF Outbound, l
    <3>2. [l EXCEPT !.picks[s] = 0] = m
      OBVIOUS
    <3>3. shipped' = [shipped EXCEPT ![Me(w)][s] = v]
      BY <3>1
    <3>. HIDE DEF m, v
    <3>. QED  BY <3>1, <3>2, <3>3
  <2>2. picks \in [Slots -> Nat]
    BY <1>k
  <2>3. m \in Locals
    <3>. HIDE DEF picks
    <3>. QED  BY <1>k, <2>2, LocalSet DEF Are
  <2>4. Requests
    <3>. HIDE DEF m
    <3>. QED  BY <1>n, <1>g, <2>1, <2>3
  <2>5. shipped' \in [Orders -> [Slots -> Nat]]
    <3>1. PICK o \in Orders, t \in Slots, f \in [Slots -> Nat] :
             o = Me(w) /\ t = s /\ f = shipped[Me(w)]
      BY <1>0, <1>k
    <3>2. v \in Nat
      <4>1. f[t] \in Nat /\ l.picks[t] \in Nat
        BY <1>k
      <4>. HIDE DEF s
      <4>. QED  BY <3>1, <4>1
    <3>. HIDE DEF s, v
    <3>3. shipped' = [shipped EXCEPT ![o] = [f EXCEPT ![t] = v]]
      BY <2>1, <3>1
    <3>4. [f EXCEPT ![t] = v] \in [Slots -> Nat]
      BY <3>2
    <3>. QED  BY <1>0, <3>3, <3>4
  <2>. HIDE DEF m
  <2>. QED  BY <2>1, <2>4, <2>5 DEF TInv, TypeOK, StoreTypeOK, Requests
<1>5. ASSUME ShipRelease(w) PROVE TInv'
  <2>1. /\ resv' \in Seq(Reservation)
        /\ Goto(w, "ship", l) /\ UNCHANGED <<status, items, stock, tasks, shipped>>
    BY <1>0, <1>5, Released DEF ShipRelease, ReleaseByOrder, l
  <2>2. Requests
    BY <1>k, <1>g, <2>1 DEF ShipLabels
  <2>. QED  BY <2>1, <2>2 DEF TInv, TypeOK, StoreTypeOK, Requests
<1>. QED  BY <1>1, <1>2, <1>3, <1>4, <1>5

LEMMA ElseTyped ==
    ASSUME TInv, NEW w \in Workers
    PROVE  /\ \A s \in Slots, d \in Moves : Move(w, s, d) => TInv'
           /\ CallFails(w) => TInv'
<1>0. stock \in [Slots -> Int] /\ tasks \in Seq(Task) /\ Len(tasks) \in Nat
  BY LenProperties DEF TInv, TypeOK
<1>1. ASSUME NEW s \in Slots, NEW d \in Moves, Move(w, s, d) PROVE TInv'
  <2>1. stock' \in [Slots -> Int]
    <3>1. d \in Int /\ stock[s] \in Int
      BY <1>0, StoreAssumption
    <3>2. PICK v \in Int : v = stock[s] + d
      BY <3>1
    <3>. QED  BY <1>0, <1>1, <3>2 DEF Move
  <2>2. started' \in 0..MaxRequests
    <3>1. started \in 0..MaxRequests /\ MaxRequests \in Nat
      BY StoreAssumption DEF TInv, TypeOK, StoreTypeOK
    <3>. QED  BY <1>1, <3>1 DEF Move, Once
  <2>3. UNCHANGED <<status, items, resv, tasks, shipped, pc, loc>>
    BY <1>1 DEF Move, Once
  <2>. QED  BY <2>1, <2>2, <2>3 DEF TInv, TypeOK, StoreTypeOK
<1>2. ASSUME CallFails(w) PROVE TInv'
  <2>1. /\ Goto(w, "release", loc[w]) \/ Goto(w, "ship", loc[w])
        /\ UNCHANGED <<status, items, stock, resv, tasks, shipped>>
    BY <1>2 DEF CallFails
  <2>2. loc[w] \in Locals
    BY Knows
  <2>3. Stands(loc[w], "release", Len(tasks)) /\ Stands(loc[w], "ship", Len(tasks))
    BY <2>2 DEF Stands, LineLabels, ItemLabels, ScanLabels
  <2>. QED  BY <2>1, <2>3, OnlyGoes DEF Labels, ShipLabels
<1>. QED  BY <1>1, <1>2

LEMMA TInvInit == Init => TInv
<1>. SUFFICES ASSUME Init PROVE TInv
  OBVIOUS
<1>1. /\ status \in [Orders -> Statuses] /\ items \in [Orders -> Seq(Item)]
      /\ resv \in Seq(Reservation) /\ tasks \in Seq(Task)
  BY EmptySeq DEF Init, Statuses
<1>2. /\ started \in 0..MaxRequests /\ stock \in [Slots -> Int]
      /\ shipped \in [Orders -> [Slots -> Nat]]
  BY StoreAssumption DEF Init
<1>3. pc \in [Workers -> Labels] /\ loc \in [Workers -> Locals]
      /\ \A w \in Workers : pc[w] = "idle" /\ loc[w] = NoLocals
  BY NoLocalsStands DEF Init, Labels, ShipLabels, Stands
<1>. QED  BY <1>1, <1>2, <1>3, NoLocalsStands DEF TInv, TypeOK, StoreTypeOK

LEMMA TInvNext == LInv /\ TInv /\ [Next]_vars => TInv'
<1>. SUFFICES ASSUME LInv, TInv, [Next]_vars PROVE TInv'
  OBVIOUS
<1>1. CASE UNCHANGED vars
  BY <1>1 DEF vars, TInv, TypeOK, StoreTypeOK
<1>2. ASSUME NEW o \in Orders, NEW c \in Carts, Create(o, c) PROVE TInv'
  BY <1>2, CreatingTyped
<1>3. ASSUME NEW w \in Workers, Begin(w) PROVE TInv'
  BY <1>3, ReadsTyped, ReservingTyped, ElseTyped DEF Begin
<1>4. ASSUME NEW w \in Workers, Continue(w) PROVE TInv'
  BY <1>4, OrderingTyped, ReservingTyped, PickingTyped, ShippingTyped DEF Continue
<1>5. ASSUME NEW w \in Workers, Crash(w) \/ CallFails(w) PROVE TInv'
  BY <1>5, PickingTyped, ElseTyped DEF Crash
<1>. QED  BY <1>1, <1>2, <1>3, <1>4, <1>5 DEF Next, Idle
-----------------------------------------------------------------------------
(* What scans have under way.                                              *)

Flying(p, l, t) == {v \in Workers : p[v] = "event" /\ l[v].i = t}

Flight(p, l, t) == SumFunctionOnSet([v \in Workers |-> l[v].n], Flying(p, l, t))

LEMMA FlightType ==
    ASSUME NEW p, NEW l \in [Workers -> Locals], NEW t
    PROVE  Flight(p, l, t) \in Int
<1>. DEFINE f == [v \in Workers |-> l[v].n]
<1>1. IsFiniteSet(Flying(p, l, t))
  BY StoreAssumption, FS_Subset DEF Flying
<1>2. \A v \in Flying(p, l, t) : f[v] \in Int
  <2>1. \A v \in Workers : l[v].n \in Int
    BY WithTyped
  <2>. QED  BY <2>1 DEF Flying
<1>. HIDE DEF f
<1>3. SumFunctionOnSet(f, Flying(p, l, t)) \in Int
  BY <1>1, <1>2, SumType
<1>. QED  BY <1>3 DEF Flight, f

(* One request moves.                                                      *)
FlightTurns(p, l, q, m, w, t) ==
    /\ w \notin Flying(p, l, t) /\ w \notin Flying(q, m, t)
          => Flight(q, m, t) = Flight(p, l, t)
    /\ w \in Flying(p, l, t) /\ w \notin Flying(q, m, t)
          => Flight(q, m, t) = Flight(p, l, t) - l[w].n
    /\ w \notin Flying(p, l, t) /\ w \in Flying(q, m, t)
          => Flight(q, m, t) = Flight(p, l, t) + m[w].n

LEMMA FlightMoves ==
    ASSUME NEW p, NEW l \in [Workers -> Locals], NEW q, NEW m \in [Workers -> Locals],
           NEW w \in Workers, \A v \in Workers \ {w} : q[v] = p[v] /\ m[v] = l[v], NEW t
    PROVE  FlightTurns(p, l, q, m, w, t)
<1>. DEFINE f == [v \in Workers |-> l[v].n]
            g == [v \in Workers |-> m[v].n]
            A == Flying(p, l, t)
            B == Flying(q, m, t)
            R == A \ {w}
<1>1. \A v \in Workers : f[v] \in Int /\ g[v] \in Int
  <2>1. \A v \in Workers : l[v].n \in Int /\ m[v].n \in Int
    BY WithTyped
  <2>. QED  BY <2>1
<1>2. \A v \in Workers \ {w} : f[v] = g[v] /\ (v \in A <=> v \in B)
  BY DEF Flying
<1>3. A \subseteq Workers /\ B \subseteq Workers
  BY DEF Flying
<1>4. f[w] = l[w].n /\ g[w] = m[w].n
  OBVIOUS
<1>5. Flight(p, l, t) = SumFunctionOnSet(f, A) /\ Flight(q, m, t) = SumFunctionOnSet(g, B)
  BY DEF Flight
<1>. HIDE DEF f, g, A, B
<1>6. R = B \ {w} /\ IsFiniteSet(A) /\ IsFiniteSet(B) /\ IsFiniteSet(R) /\ R \subseteq Workers
  <2>1. R = B \ {w} /\ R \subseteq Workers
    BY <1>2, <1>3
  <2>. QED  BY <1>3, <2>1, StoreAssumption, FS_Subset
<1>7. SumFunctionOnSet(f, R) = SumFunctionOnSet(g, R) /\ SumFunctionOnSet(f, R) \in Int
  <2>1. \A v \in R : f[v] = g[v] /\ f[v] \in Int
    BY <1>1, <1>2, <1>6
  <2>. HIDE DEF R
  <2>. QED  BY <1>6, <2>1, SumAgrees, SumType
<1>8. /\ w \in A => SumFunctionOnSet(f, A) = f[w] + SumFunctionOnSet(f, R)
      /\ w \in B => SumFunctionOnSet(g, B) = g[w] + SumFunctionOnSet(g, R)
  <2>1. (\A v \in A : f[v] \in Int) /\ (\A v \in B : g[v] \in Int)
    BY <1>1, <1>3
  <2>. QED  BY <1>6, <2>1, SumRemove
<1>9. /\ w \notin A => R = A
      /\ w \notin B => R = B
  BY <1>6
<1>. HIDE DEF R
<1>10. CASE w \notin A /\ w \notin B
  BY <1>5, <1>7, <1>9, <1>10 DEF A, B, FlightTurns
<1>11. CASE w \in A /\ w \notin B
  BY <1>1, <1>4, <1>5, <1>7, <1>8, <1>9, <1>11 DEF A, B, FlightTurns
<1>12. CASE w \notin A /\ w \in B
  BY <1>1, <1>4, <1>5, <1>7, <1>8, <1>9, <1>12 DEF A, B, FlightTurns
<1>13. CASE w \in A /\ w \in B
  BY <1>13 DEF A, B, FlightTurns
<1>. QED  BY <1>10, <1>11, <1>12, <1>13

LEMMA InFlightIsFlight == \A t : InFlight(t) = Flight(pc, loc, t)
BY DEF InFlight, Flight, Flying, At

-----------------------------------------------------------------------------
(* The account of a task; fly is what scans have under way for it.         *)
Balanced(x, fly) ==
    /\ x.picked <= x.planned
    /\ x.state = "DONE" <=> x.picked = x.planned
    /\ x.picked = x.events + x.lost + fly

Accounts == \A t \in DOMAIN tasks : Balanced(tasks[t], Flight(pc, loc, t))

(* A request that writes no event moves.                                   *)
MovesAside(w) ==
    /\ pc[w] # "event" /\ pc'[w] # "event"
    /\ \A v \in Workers \ {w} : pc'[v] = pc[v] /\ loc'[v] = loc[v]

LEMMA FlightKept ==
    ASSUME TInv, TInv', NEW w \in Workers, MovesAside(w)
    PROVE  \A t : Flight(pc', loc', t) = Flight(pc, loc, t)
<1>1. loc \in [Workers -> Locals] /\ loc' \in [Workers -> Locals]
  BY DEF TInv, TypeOK
<1>2. \A t : w \notin Flying(pc, loc, t) /\ w \notin Flying(pc', loc', t)
  BY DEF Flying, MovesAside
<1>3. PICK p, q, l, m : p = pc /\ q = pc' /\ l = loc /\ m = loc'
  OBVIOUS
<1>4. \A v \in Workers \ {w} : q[v] = p[v] /\ m[v] = l[v]
  BY <1>3 DEF MovesAside
<1>5. ASSUME NEW t PROVE FlightTurns(p, l, q, m, w, t)
  BY ONLY <1>1, <1>3, <1>4, FlightMoves
<1>6. \A t : FlightTurns(pc, loc, pc', loc', w, t)
  BY <1>3, <1>5
<1>. QED  BY <1>2, <1>6 DEF FlightTurns

LEMMA AccountsKept ==
    ASSUME TInv, TInv', Accounts, NEW w \in Workers, MovesAside(w), UNCHANGED tasks
    PROVE  Accounts'
<1>1. \A t : Flight(pc', loc', t) = Flight(pc, loc, t)
  BY FlightKept
<1>. QED  BY <1>1 DEF Accounts

LEMMA GoesAside ==
    ASSUME TInv, NEW w \in Workers, pc[w] # "event", NEW a, a # "event", NEW l,
           Goto(w, a, l) \/ Start(w, a, l)
    PROVE  MovesAside(w)
<1>1. pc' = [pc EXCEPT ![w] = a] /\ \E m : loc' = [loc EXCEPT ![w] = m]
  BY DEF Goto, Start
<1>. QED  BY <1>1 DEF MovesAside, TInv, TypeOK

LEMMA ReadsAside ==
    ASSUME TInv, NEW w \in Workers, Begin(w)
    PROVE  UNCHANGED tasks /\ (MovesAside(w) \/ UNCHANGED <<pc, loc>>)
<1>1. ASSUME NEW a, a # "event", NEW l, Start(w, a, l) PROVE MovesAside(w)
  BY <1>1, GoesAside DEF Start
<1>2. ASSUME NEW o,
             UpdateRead(w, o) \/ ConfirmRead(w, o) \/ CancelRead(w, o) \/ PickRead(w, o) \/ ShipRead(w, o)
      PROVE  UNCHANGED tasks /\ MovesAside(w)
  <2>1. /\ UNCHANGED tasks
        /\ \E a \in {"replace", "physical", "cancel", "shortage", "countOpen"} : \E l : Start(w, a, l)
    BY <1>2 DEF UpdateRead, ConfirmRead, CancelRead, PickRead, ShipRead
  <2>. QED  BY <1>1, <2>1
<1>3. ASSUME NEW t, NEW q, ScanRead(w, t, q) PROVE UNCHANGED tasks /\ MovesAside(w)
  <2>1. UNCHANGED tasks /\ \E l : Start(w, "addPicked", l)
    BY <1>3 DEF ScanRead
  <2>. QED  BY <1>1, <2>1
<1>4. ASSUME NEW r, ReleaseOne(w, r) PROVE UNCHANGED <<tasks, pc, loc>>
  BY <1>4 DEF ReleaseOne, Once
<1>5. ASSUME NEW s, NEW d, Move(w, s, d) PROVE UNCHANGED <<tasks, pc, loc>>
  BY <1>5 DEF Move, Once
<1>. QED  BY <1>2, <1>3, <1>4, <1>5 DEF Begin

(* The steps of a request that leave the tasks alone.                      *)
LEMMA StepsAside ==
    ASSUME TInv, NEW w \in Workers,
           \/ Replace(w)
           \/ ReservePhysical(w) \/ ReserveSum(w) \/ ReserveInsert(w) \/ ConfirmCommit(w)
           \/ ReleaseAll(w) \/ CancelCommit(w)
           \/ ShortageCheck(w) \/ PlanItem(w)
           \/ CountOpen(w) \/ CountAll(w) \/ ReadEvents(w)
           \/ RemoveCheck(w) \/ TakeOut(w) \/ Outbound(w)
           \/ ShipRelease(w) \/ ShipCommit(w)
    PROVE  UNCHANGED tasks /\ MovesAside(w)
<1>. DEFINE after == Labels \ {"event"}
            goes == \E a \in after : \E l : Goto(w, a, l)
<1>1. UNCHANGED tasks /\ pc[w] # "event"
  BY Zenon DEF At, Replace, ReservePhysical, ReserveSum, ReserveInsert, ConfirmCommit, ReleaseAll,
         CancelCommit, ShortageCheck, PlanItem, CountOpen, CountAll, ReadEvents,
         RemoveCheck, TakeOut, Outbound, ShipRelease, ShipCommit
<1>2. ASSUME Finish(w) PROVE goes
  BY <1>2 DEF Finish, Labels, ShipLabels
<1>3. ASSUME Rollback(w) PROVE goes
  BY <1>3 DEF Rollback, Labels, ShipLabels
<1>. HIDE DEF goes
<1>g. ASSUME NEW a \in after, NEW l, Goto(w, a, l) PROVE goes
  BY <1>g DEF goes
<1>l. {"sumActive", "reserve", "confirm", "physical", "cancelTasks", "release", "idle", "shortage",
       "plan", "insertTasks", "countAll", "events", "removeCheck", "remove", "outbound",
       "shipRelease", "ship"} \subseteq after
  BY DEF Labels, ShipLabels, ReserveLabels
<1>. HIDE DEF after
<1>4. ASSUME Replace(w) \/ ReleaseAll(w) \/ ShipCommit(w) PROVE goes
  <2>1. Finish(w)
    BY <1>4 DEF Replace, ReleaseAll, ShipCommit
  <2>. QED  BY <1>2, <2>1
<1>5. ASSUME ReservePhysical(w) \/ ReserveSum(w) \/ ReserveInsert(w) PROVE goes
  <2>1. Rollback(w) \/ \E a \in {"sumActive", "reserve", "confirm", "physical"} : \E l : Goto(w, a, l)
    BY <1>5 DEF ReservePhysical, ReserveSum, ReserveInsert
  <2>. QED  BY <1>3, <1>g, <1>l, <2>1
<1>6. ASSUME ConfirmCommit(w) PROVE goes
  <2>1. Finish(w) \/ Rollback(w)
    BY <1>6 DEF ConfirmCommit
  <2>. QED  BY <1>2, <1>3, <2>1
<1>7. ASSUME CancelCommit(w) PROVE goes
  <2>1. Finish(w) \/ \E a \in {"cancelTasks", "release", "idle"} : \E l : Goto(w, a, l)
    BY <1>7 DEF CancelCommit, AfterCancel
  <2>. QED  BY <1>2, <1>g, <1>l, <2>1
<1>8. ASSUME ShortageCheck(w) PROVE goes
  <2>1. Finish(w) \/ \E a \in {"shortage", "plan"} : \E l : Goto(w, a, l)
    BY <1>8 DEF ShortageCheck
  <2>. QED  BY <1>2, <1>g, <1>l, <2>1
<1>9. ASSUME PlanItem(w) PROVE goes
  <2>1. Finish(w) \/ \E a \in {"plan", "insertTasks"} : \E l : Goto(w, a, l)
    BY <1>9 DEF PlanItem
  <2>. QED  BY SMTT(30), <1>2, <1>g, <1>l, <2>1
<1>10. ASSUME CountOpen(w) \/ CountAll(w) PROVE goes
  <2>1. Finish(w) \/ \E a \in {"countAll", "events"} : \E l : Goto(w, a, l)
    BY <1>10 DEF CountOpen, CountAll
  <2>. QED  BY <1>2, <1>g, <1>l, <2>1
<1>11. ASSUME ReadEvents(w) \/ Outbound(w) PROVE goes
  <2>1. \E picks : \E l : Goto(w, NextRow(picks), l)
    BY <1>11 DEF ReadEvents, Outbound
  <2>2. \A picks : NextRow(picks) \in {"removeCheck", "shipRelease"}
    BY DEF NextRow
  <2>. QED  BY <1>g, <1>l, <2>1, <2>2
<1>12. ASSUME RemoveCheck(w) \/ TakeOut(w) \/ ShipRelease(w) PROVE goes
  <2>1. Finish(w) \/ \E a \in {"remove", "outbound", "ship"} : \E l : Goto(w, a, l)
    BY <1>12 DEF RemoveCheck, TakeOut, ShipRelease
  <2>. QED  BY <1>2, <1>g, <1>l, <2>1
<1>13. goes
  BY <1>4, <1>5, <1>6, <1>7, <1>8, <1>9, <1>10, <1>11, <1>12
<1>. QED  BY SMTT(30), <1>1, <1>13, GoesAside DEF goes, after

-----------------------------------------------------------------------------
(* The steps that write tasks.                                             *)

(* Nobody has a scan under way for a task that is not there yet.           *)
LEMMA InsertAccounts ==
    ASSUME TInv, TInv', Accounts, NEW w \in Workers, InsertTask(w)
    PROVE  Accounts'
<1>. DEFINE k == Len(tasks) + 1
            e == NewTask(Me(w), Head(loc[w].plan))
<1>1. pc[w] = "insertTasks" /\ \E a \in {"startPick", "insertTasks"} : \E l : Goto(w, a, l)
  BY DEF InsertTask, At
<1>2. MovesAside(w)
  BY <1>1, GoesAside
<1>3. \A t : Flight(pc', loc', t) = Flight(pc, loc, t)
  BY <1>2, FlightKept
<1>4. /\ e.picked = 0 /\ e.events = 0 /\ e.lost = 0 /\ e.state = "OPEN" /\ e.planned \in Nat \ {0}
      /\ DOMAIN tasks = 1..Len(tasks) /\ DOMAIN tasks' = 1..k /\ Len(tasks) \in Nat
      /\ \A u \in DOMAIN tasks : tasks'[u] = tasks[u]
      /\ tasks'[k] = e
  BY TaskInserted
<1>. HIDE DEF e
<1>5. Flight(pc, loc, k) = 0
  <2>1. ASSUME NEW v \in Flying(pc, loc, k) PROVE FALSE
    <3>1. v \in Workers /\ pc[v] = "event" /\ loc[v].i = k
      BY <2>1 DEF Flying
    <3>2. Stands(loc[v], pc[v], Len(tasks))
      BY <3>1 DEF TInv
    <3>3. k \in 1..Len(tasks)
      BY <3>1, <3>2 DEF Stands, ScanLabels
    <3>. QED  BY <1>4, <3>3
  <2>2. Flying(pc, loc, k) = {}
    BY <2>1
  <2>. QED  BY <2>2, SumOfNothing DEF Flight
<1>6. Balanced(e, 0)
  BY <1>4 DEF Balanced
<1>7. ASSUME NEW t \in DOMAIN tasks' PROVE Balanced(tasks'[t], Flight(pc, loc, t))
  <2>1. t \in DOMAIN tasks \/ t = k
    BY <1>4
  <2>2. CASE t \in DOMAIN tasks
    BY <1>4, <2>2 DEF Accounts
  <2>3. CASE t = k
    BY <1>4, <1>5, <1>6, <2>3
  <2>. QED  BY <2>1, <2>2, <2>3
<1>. QED  BY <1>3, <1>7 DEF Accounts

LEMMA MarkAccounts ==
    ASSUME TInv, TInv', Accounts, NEW w \in Workers, PickCommit(w)
    PROVE  Accounts'
<1>1. pc[w] = "startPick" /\ Goto(w, "idle", NoLocals)
  BY DEF PickCommit, At, Finish
<1>2. \A t : Flight(pc', loc', t) = Flight(pc, loc, t)
  BY <1>1, GoesAside, FlightKept
<1>3. ASSUME NEW t \in DOMAIN tasks' PROVE Balanced(tasks'[t], Flight(pc, loc, t))
  <2>1. t \in DOMAIN tasks /\ Balanced(tasks[t], Flight(pc, loc, t))
    BY TasksMarked DEF Accounts
  <2>2. CASE tasks'[t] = tasks[t]
    BY <2>1, <2>2
  <2>3. CASE IsMarked(tasks'[t], tasks[t])
    BY <2>1, <2>3 DEF Balanced, IsMarked
  <2>. QED  BY <2>1, <2>2, <2>3, TasksMarked
<1>. QED  BY <1>2, <1>3 DEF Accounts

LEMMA CancelAccounts ==
    ASSUME TInv, TInv', Accounts, NEW w \in Workers, CancelTasks(w)
    PROVE  Accounts'
<1>1. pc[w] = "cancelTasks" /\ Goto(w, "release", loc[w])
  BY DEF CancelTasks, At
<1>2. \A t : Flight(pc', loc', t) = Flight(pc, loc, t)
  BY <1>1, GoesAside, FlightKept
<1>3. ASSUME NEW t \in DOMAIN tasks' PROVE Balanced(tasks'[t], Flight(pc, loc, t))
  <2>1. t \in DOMAIN tasks /\ Balanced(tasks[t], Flight(pc, loc, t))
    BY TasksCancelled DEF Accounts
  <2>2. CASE tasks'[t] = tasks[t]
    BY <2>1, <2>2
  <2>3. CASE Pickable(t) /\ tasks'[t].state = "CANCELLED"
             /\ tasks'[t].picked = tasks[t].picked /\ tasks'[t].events = tasks[t].events
             /\ tasks'[t].lost = tasks[t].lost /\ tasks'[t].planned = tasks[t].planned
    BY <2>1, <2>3 DEF Balanced, Pickable
  <2>. QED  BY <2>1, <2>2, <2>3, TasksCancelled
<1>. QED  BY <1>2, <1>3 DEF Accounts

(* One request comes to or leaves "event" for task t.                      *)
LEMMA OtherFlights ==
    ASSUME TInv, TInv', NEW w \in Workers, NEW a, NEW l, Goto(w, a, l),
           loc[w].i \in DOMAIN tasks,
           \/ pc[w] # "event" /\ a = "event" /\ l = loc[w]
           \/ pc[w] = "event" /\ a = "idle"
    PROVE  /\ \A t : t # loc[w].i => Flight(pc', loc', t) = Flight(pc, loc, t)
           /\ a = "event" => Flight(pc', loc', loc[w].i) = Flight(pc, loc, loc[w].i) + loc[w].n
           /\ a = "idle" => Flight(pc', loc', loc[w].i) = Flight(pc, loc, loc[w].i) - loc[w].n
<1>1. PICK p, q, k, m : p = pc /\ q = pc' /\ k = loc /\ m = loc'
  OBVIOUS
<1>2. k \in [Workers -> Locals] /\ m \in [Workers -> Locals]
  BY <1>1 DEF TInv, TypeOK
<1>3. /\ q[w] = a /\ (a = "event" => m[w] = k[w])
      /\ \A v \in Workers \ {w} : q[v] = p[v] /\ m[v] = k[v]
  BY <1>1 DEF Goto, TInv, TypeOK
<1>4. \A t : /\ w \in Flying(p, k, t) <=> pc[w] = "event" /\ loc[w].i = t
             /\ w \in Flying(q, m, t) <=> a = "event" /\ loc[w].i = t
  BY <1>1, <1>3 DEF Flying
<1>5. ASSUME NEW t PROVE FlightTurns(p, k, q, m, w, t)
  BY ONLY <1>2, <1>3, FlightMoves
<1>6. \A t : FlightTurns(pc, loc, pc', loc', w, t)
  BY <1>1, <1>5
<1>7. \A t : /\ w \in Flying(pc, loc, t) <=> pc[w] = "event" /\ loc[w].i = t
             /\ w \in Flying(pc', loc', t) <=> a = "event" /\ loc[w].i = t
  BY <1>1, <1>4
<1>. QED  BY <1>1, <1>3, <1>6, <1>7 DEF FlightTurns

LEMMA PickedAccounts ==
    ASSUME TInv, TInv', Accounts, NEW w \in Workers, AddPicked(w)
    PROVE  Accounts'
<1>1. CASE ~AddMatches(loc[w].i, loc[w].n)
  <2>1. pc[w] = "addPicked" /\ Goto(w, "idle", NoLocals) /\ UNCHANGED tasks
    BY <1>1 DEF AddPicked, At, Finish
  <2>. QED  BY <2>1, GoesAside, AccountsKept
<1>2. CASE AddMatches(loc[w].i, loc[w].n)
  <2>. DEFINE t == loc[w].i
              n == loc[w].n
              sum == tasks[t].picked + n
              s == IF sum = tasks[t].planned THEN "DONE" ELSE "IN_PROGRESS"
              e == [tasks[t] EXCEPT !.picked = sum, !.state = s]
  <2>1. /\ pc[w] = "addPicked" /\ t \in DOMAIN tasks /\ tasks[t] \in Task /\ n \in Nat \ {0}
        /\ sum \in Nat /\ sum <= tasks[t].planned /\ TaskAt(t, e) /\ Goto(w, "event", loc[w])
    BY Zenon, <1>2, PickedAdded
  <2>2. s \in {"OPEN", "IN_PROGRESS", "DONE", "CANCELLED"} /\ (s = "DONE" <=> sum = tasks[t].planned)
    OBVIOUS
  <2>3. /\ \A u : u # t => Flight(pc', loc', u) = Flight(pc, loc, u)
        /\ Flight(pc', loc', t) = Flight(pc, loc, t) + n
    BY <2>1, OtherFlights
  <2>4. Flight(pc, loc, t) \in Int /\ tasks[t].events \in Nat /\ tasks[t].lost \in Nat
        /\ tasks[t].picked \in Nat
    BY <2>1, FlightType DEF TInv, TypeOK, Task
  <2>5. Balanced(tasks[t], Flight(pc, loc, t))
    BY <2>1 DEF Accounts
  <2>6. sum = tasks[t].picked + n
    OBVIOUS
  <2>. HIDE DEF s, sum
  <2>7. /\ e.picked = sum /\ e.state = s /\ e.planned = tasks[t].planned
        /\ e.events = tasks[t].events /\ e.lost = tasks[t].lost
    <3>1. tasks[t] \in Task /\ sum \in Nat
      BY <2>1
    <3>2. s \in {"OPEN", "IN_PROGRESS", "DONE", "CANCELLED"}
      BY <2>2
    <3>3. PICK x \in Task, p \in Nat, r \in {"OPEN", "IN_PROGRESS", "DONE", "CANCELLED"} :
             x = tasks[t] /\ p = sum /\ r = s
      BY <3>1, <3>2
    <3>4. e = Scanned(x, p, r)
      BY <3>3 DEF Scanned
    <3>5. IsScanned(Scanned(x, p, r), x, p, r)
      BY TaskFields
    <3>. HIDE DEF e
    <3>. QED  BY <3>3, <3>4, <3>5 DEF IsScanned
  <2>. HIDE DEF e, t, n
  <2>8. sum = tasks[t].events + tasks[t].lost + (Flight(pc, loc, t) + n)
    BY <2>1, <2>4, <2>5, <2>6 DEF Balanced
  <2>9. Balanced(e, Flight(pc', loc', t))
    BY <2>1, <2>2, <2>3, <2>7, <2>8 DEF Balanced
  <2>10. ASSUME NEW u \in DOMAIN tasks' PROVE Balanced(tasks'[u], Flight(pc', loc', u))
    <3>1. u \in DOMAIN tasks /\ (u # t => tasks'[u] = tasks[u]) /\ tasks'[t] = e
      BY <2>1 DEF TaskAt
    <3>. QED  BY <2>3, <2>9, <3>1 DEF Accounts
  <2>. QED  BY SMTT(30), <2>10 DEF Accounts
<1>. QED  BY <1>1, <1>2

(* A scan writes its event, or loses it.                                   *)
LEMMA LandingAccounts ==
    ASSUME TInv, TInv', Accounts, NEW w \in Workers, InsertEvent(w) \/ GiveUp(w)
    PROVE  Accounts'
<1>1. CASE pc[w] # "event"
  <2>1. Goto(w, "idle", NoLocals) /\ UNCHANGED tasks
    BY <1>1 DEF InsertEvent, GiveUp, At, Finish
  <2>. QED  BY <1>1, <2>1, GoesAside, AccountsKept
<1>2. CASE pc[w] = "event"
  <2>. DEFINE t == loc[w].i
              n == loc[w].n
              x == tasks[t]
              e == [x EXCEPT !.events = @ + n]
              f == [x EXCEPT !.lost = @ + n]
  <2>1. /\ Goto(w, "idle", NoLocals)
        /\ \/ tasks' = [tasks EXCEPT ![t].events = @ + n]
           \/ tasks' = [tasks EXCEPT ![t].lost = @ + n]
    BY <1>2 DEF InsertEvent, GiveUp, At, Finish
  <2>2. /\ t \in DOMAIN tasks /\ x \in Task /\ n \in Nat \ {0}
        /\ e.events = x.events + n /\ f.lost = x.lost + n
        /\ f.events = x.events /\ e.lost = x.lost
        /\ \A y \in {e, f} : y.picked = x.picked /\ y.state = x.state /\ y.planned = x.planned
        /\ TaskAt(t, e) \/ TaskAt(t, f)
    BY <1>2, <2>1, EventAdded
  <2>3. /\ \A u : u # t => Flight(pc', loc', u) = Flight(pc, loc, u)
        /\ Flight(pc', loc', t) = Flight(pc, loc, t) - n
    BY <1>2, <2>1, <2>2, OtherFlights
  <2>4. Flight(pc, loc, t) \in Int /\ x.events \in Nat /\ x.lost \in Nat /\ x.picked \in Nat
    BY <2>2, FlightType DEF TInv, TypeOK, Task
  <2>5. Balanced(x, Flight(pc, loc, t))
    BY <2>2 DEF Accounts
  <2>. HIDE DEF e, f, x, t, n
  <2>6. x.picked = (x.events + n) + x.lost + (Flight(pc, loc, t) - n)
        /\ x.picked = x.events + (x.lost + n) + (Flight(pc, loc, t) - n)
    BY <2>2, <2>4, <2>5 DEF Balanced
  <2>7. Balanced(e, Flight(pc', loc', t)) /\ Balanced(f, Flight(pc', loc', t))
    BY <2>2, <2>3, <2>5, <2>6 DEF Balanced
  <2>8. ASSUME NEW u \in DOMAIN tasks' PROVE Balanced(tasks'[u], Flight(pc', loc', u))
    <3>1. u \in DOMAIN tasks /\ (u # t => tasks'[u] = tasks[u]) /\ tasks'[t] \in {e, f}
      BY <2>2 DEF TaskAt
    <3>. QED  BY <2>3, <2>7, <3>1 DEF Accounts
  <2>. QED  BY <2>8 DEF Accounts
<1>. QED  BY <1>1, <1>2

LEMMA AccountsNext ==
    ASSUME TInv, TInv', Accounts, [Next]_vars
    PROVE  Accounts'
<1>1. ASSUME UNCHANGED <<tasks, pc, loc>> PROVE Accounts'
  BY <1>1 DEF Accounts
<1>2. ASSUME NEW o \in Orders, NEW c \in Carts, Create(o, c) PROVE Accounts'
  BY <1>1, <1>2 DEF Create
<1>3. ASSUME NEW w \in Workers, Begin(w) PROVE Accounts'
  BY <1>1, <1>3, ReadsAside, AccountsKept
<1>4. ASSUME NEW w \in Workers, Continue(w) PROVE Accounts'
  BY <1>4, StepsAside, AccountsKept, InsertAccounts, CancelAccounts, MarkAccounts, PickedAccounts, LandingAccounts
     DEF Continue
<1>5. ASSUME NEW w \in Workers, CallFails(w) PROVE Accounts'
  <2>1. CASE At(w, "shipRelease") /\ Goto(w, "ship", loc[w]) /\ UNCHANGED tasks
    BY <2>1, GoesAside, AccountsKept DEF At
  <2>2. CASE pc[w] \in ReserveLabels \cup {"cancelTasks"} /\ Goto(w, "release", loc[w]) /\ UNCHANGED tasks
    <3>1. pc[w] # "event"
      BY <2>2 DEF ReserveLabels
    <3>. QED  BY <2>2, <3>1, GoesAside, AccountsKept
  <2>. QED  BY <1>5, <2>1, <2>2 DEF CallFails
<1>6. ASSUME NEW w \in Workers, Crash(w) PROVE Accounts'
  BY <1>6, LandingAccounts DEF Crash
<1>7. CASE UNCHANGED vars
  BY <1>1, <1>7 DEF vars
<1>. QED  BY <1>2, <1>3, <1>4, <1>5, <1>6, <1>7 DEF Next, Idle

(* However scans race, fail or lose their event: no task is ever           *)
(* overpicked, a task is DONE exactly when it is full, its pick events     *)
(* account for everything but what is in flight or was lost, and every     *)
(* document keeps its type.                                                *)
THEOREM PicksAreAccounted == Spec => []PicksAccounted
<1>1. Init => LInv /\ TInv /\ Accounts
  <2>1. Init => DOMAIN tasks = {}
    BY DEF Init
  <2>. QED  BY <2>1, LInvInit, TInvInit DEF Accounts
<1>2. LInv /\ TInv /\ Accounts /\ [Next]_vars => (LInv /\ TInv /\ Accounts)'
  BY LInvNext, TInvNext, AccountsNext DEF Kept
<1>3. TInv /\ Accounts => PicksAccounted
  BY InFlightIsFlight DEF TInv, Accounts, Balanced, PicksAccounted
<1>. QED  BY <1>1, <1>2, <1>3, PTL DEF Spec

-----------------------------------------------------------------------------
(* Where the steps of a request lead, and which of its locals they keep.   *)

LEMMA Gone ==
    ASSUME TInv, NEW w \in Workers, NEW a, NEW l,
           Goto(w, a, l) \/ (Start(w, a, l) /\ a # "idle")
    PROVE  pc'[w] = a /\ (a # "idle" => loc'[w] = l /\ Me(w)' = l.order)
BY DEF TInv, TypeOK, Goto, Start, Me

LEMMA Ended ==
    ASSUME TInv, NEW w \in Workers, Finish(w)
    PROVE  pc'[w] = "idle"
BY Gone DEF Finish

LEMMA Starts ==
    ASSUME NEW o, NEW its, NEW f, NEW t, NEW q
    PROVE  /\ LET l == [Reading(o) EXCEPT !.items = its] IN l.order = o /\ l.items = its
           /\ Reading(o).order = o /\ Reading(o).items = items[o] /\ Reading(o).i = 1
           /\ LET l == [NoLocals EXCEPT !.order = o, !.from = f] IN l.order = o /\ l.from = f
           /\ LET l == [NoLocals EXCEPT !.order = o, !.i = t, !.n = q]
              IN  l.order = o /\ l.i = t /\ l.n = q
<1>1. \A b, c, d, e, g, h, i, j :
         LET m == With(b, c, d, e, g, h, i, j)
         IN  IsLocal(m) /\ m.order = b /\ m.from = c /\ m.items = d /\ m.i = e /\ m.n = g
  BY DEF With, IsLocal
<1>2. Reading(o) = With(o, NoLocals.from, items[o], 1, NoLocals.n, NoLocals.plan,
                        NoLocals.picks, NoLocals.slot)
  BY StartLocals DEF Reading
<1>3. IsLocal(Reading(o)) /\ Reading(o).order = o /\ Reading(o).items = items[o] /\ Reading(o).i = 1
  BY SMTT(30), <1>1, <1>2
<1>4. LocalWith([Reading(o) EXCEPT !.items = its], Reading(o), its)
  BY Zenon, <1>3, LocalKept
<1>. DEFINE c == [NoLocals EXCEPT !.order = o, !.from = f]
            a == [NoLocals EXCEPT !.order = o, !.i = t, !.n = q]
<1>5. c.order = o /\ c.from = f
  <2>1. c = With(o, f, NoLocals.items, NoLocals.i, NoLocals.n, NoLocals.plan,
                 NoLocals.picks, NoLocals.slot)
    BY StartLocals
  <2>. HIDE DEF c
  <2>. QED  BY SMTT(30), <1>1, <2>1
<1>6. a.order = o /\ a.i = t /\ a.n = q
  <2>1. a = With(o, NoLocals.from, NoLocals.items, t, q, NoLocals.plan,
                 NoLocals.picks, NoLocals.slot)
    BY StartLocals
  <2>. HIDE DEF a
  <2>. QED  BY SMTT(30), <1>1, <2>1
<1>. QED  BY <1>3, <1>4, <1>5, <1>6 DEF LocalWith

LEMMA ReadsTrace ==
    ASSUME TInv, NEW w \in Workers
    PROVE  /\ \A o : UpdateRead(w, o) => pc'[w] = "replace" /\ Me(w)' = o
           /\ \A o : ConfirmRead(w, o) =>
                 /\ pc'[w] = "physical" /\ Me(w)' = o
                 /\ loc'[w].items = items[o] /\ loc'[w].i = 1
           /\ \A o : CancelRead(w, o) =>
                 pc'[w] = "cancel" /\ Me(w)' = o /\ loc'[w].from = status[o]
           /\ \A o : PickRead(w, o) => pc'[w] = "shortage" /\ Me(w)' = o
           /\ \A o : ShipRead(w, o) => pc'[w] = "countOpen" /\ Me(w)' = o
           /\ \A t, q : ScanRead(w, t, q) => pc'[w] = "addPicked" /\ loc'[w].i = t
<1>1. ASSUME NEW o, UpdateRead(w, o) PROVE pc'[w] = "replace" /\ Me(w)' = o
  <2>1. PICK its : Start(w, "replace", [Reading(o) EXCEPT !.items = its])
    BY <1>1 DEF UpdateRead
  <2>. DEFINE l == [Reading(o) EXCEPT !.items = its]
  <2>2. l.order = o
    BY Starts
  <2>3. Start(w, "replace", l)
    BY <2>1
  <2>. HIDE DEF l
  <2>. QED  BY <2>2, <2>3, Gone
<1>2. ASSUME NEW o, ConfirmRead(w, o)
      PROVE  /\ pc'[w] = "physical" /\ Me(w)' = o
             /\ loc'[w].items = items[o] /\ loc'[w].i = 1
  BY <1>2, Gone, Starts DEF ConfirmRead
<1>3. ASSUME NEW o, CancelRead(w, o)
      PROVE  pc'[w] = "cancel" /\ Me(w)' = o /\ loc'[w].from = status[o]
  <2>. DEFINE l == [NoLocals EXCEPT !.order = o, !.from = status[o]]
  <2>1. l.order = o /\ l.from = status[o]
    BY Starts
  <2>2. Start(w, "cancel", l)
    BY <1>3 DEF CancelRead
  <2>. HIDE DEF l
  <2>. QED  BY <2>1, <2>2, Gone
<1>4. ASSUME NEW o, PickRead(w, o) PROVE pc'[w] = "shortage" /\ Me(w)' = o
  BY <1>4, Gone, Starts DEF PickRead
<1>5. ASSUME NEW o, ShipRead(w, o) PROVE pc'[w] = "countOpen" /\ Me(w)' = o
  BY <1>5, Gone, Starts DEF ShipRead
<1>6. ASSUME NEW t, NEW q, ScanRead(w, t, q) PROVE pc'[w] = "addPicked" /\ loc'[w].i = t
  <2>. DEFINE l == [NoLocals EXCEPT !.order = tasks[t].order, !.i = t, !.n = q]
  <2>1. l.i = t
    BY Starts
  <2>2. Start(w, "addPicked", l)
    BY <1>6 DEF ScanRead
  <2>. HIDE DEF l
  <2>. QED  BY <2>1, <2>2, Gone
<1>. QED  BY <1>1, <1>2, <1>3, <1>4, <1>5, <1>6

(* Locals with one or two fields written: the other fields are as before.  *)
Fields(m, o, f, its, i, n, plan, picks, slot) ==
    /\ IsLocal(m)
    /\ m.order = o /\ m.from = f /\ m.items = its /\ m.i = i /\ m.n = n
    /\ m.plan = plan /\ m.picks = picks /\ m.slot = slot

LEMMA FieldsOf ==
    \A o, f, its, i, n, plan, picks, slot :
        Fields(With(o, f, its, i, n, plan, picks, slot), o, f, its, i, n, plan, picks, slot)
BY DEF With, IsLocal, Fields

LEMMA FieldSet ==
    ASSUME NEW l, IsLocal(l), NEW v
    PROVE  /\ Fields([l EXCEPT !.items = v], l.order, l.from, v, l.i, l.n, l.plan, l.picks, l.slot)
           /\ Fields([l EXCEPT !.i = v], l.order, l.from, l.items, v, l.n, l.plan, l.picks, l.slot)
           /\ Fields([l EXCEPT !.n = v], l.order, l.from, l.items, l.i, v, l.plan, l.picks, l.slot)
           /\ Fields([l EXCEPT !.plan = v], l.order, l.from, l.items, l.i, l.n, v, l.picks, l.slot)
           /\ Fields([l EXCEPT !.picks = v], l.order, l.from, l.items, l.i, l.n, l.plan, v, l.slot)
           /\ Fields([l EXCEPT !.slot = v], l.order, l.from, l.items, l.i, l.n, l.plan, l.picks, v)
<1>1. Fields([l EXCEPT !.items = v], l.order, l.from, v, l.i, l.n, l.plan, l.picks, l.slot)
  <2>1. PICK m : m = [l EXCEPT !.items = v]
    OBVIOUS
  <2>2. m = With(l.order, l.from, v, l.i, l.n, l.plan, l.picks, l.slot)
    BY <2>1, FieldWritten
  <2>3. Fields(m, l.order, l.from, v, l.i, l.n, l.plan, l.picks, l.slot)
    BY <2>2, FieldsOf
  <2>. QED  BY <2>1, <2>3
<1>2. Fields([l EXCEPT !.i = v], l.order, l.from, l.items, v, l.n, l.plan, l.picks, l.slot)
  <2>1. PICK m : m = [l EXCEPT !.i = v]
    OBVIOUS
  <2>2. m = With(l.order, l.from, l.items, v, l.n, l.plan, l.picks, l.slot)
    BY <2>1, FieldWritten
  <2>3. Fields(m, l.order, l.from, l.items, v, l.n, l.plan, l.picks, l.slot)
    BY <2>2, FieldsOf
  <2>. QED  BY <2>1, <2>3
<1>3. Fields([l EXCEPT !.n = v], l.order, l.from, l.items, l.i, v, l.plan, l.picks, l.slot)
  <2>1. PICK m : m = [l EXCEPT !.n = v]
    OBVIOUS
  <2>2. m = With(l.order, l.from, l.items, l.i, v, l.plan, l.picks, l.slot)
    BY <2>1, FieldWritten
  <2>3. Fields(m, l.order, l.from, l.items, l.i, v, l.plan, l.picks, l.slot)
    BY <2>2, FieldsOf
  <2>. QED  BY <2>1, <2>3
<1>4. Fields([l EXCEPT !.plan = v], l.order, l.from, l.items, l.i, l.n, v, l.picks, l.slot)
  <2>1. PICK m : m = [l EXCEPT !.plan = v]
    OBVIOUS
  <2>2. m = With(l.order, l.from, l.items, l.i, l.n, v, l.picks, l.slot)
    BY <2>1, FieldWritten
  <2>3. Fields(m, l.order, l.from, l.items, l.i, l.n, v, l.picks, l.slot)
    BY <2>2, FieldsOf
  <2>. QED  BY <2>1, <2>3
<1>5. Fields([l EXCEPT !.picks = v], l.order, l.from, l.items, l.i, l.n, l.plan, v, l.slot)
  <2>1. PICK m : m = [l EXCEPT !.picks = v]
    OBVIOUS
  <2>2. m = With(l.order, l.from, l.items, l.i, l.n, l.plan, v, l.slot)
    BY <2>1, FieldWritten
  <2>3. Fields(m, l.order, l.from, l.items, l.i, l.n, l.plan, v, l.slot)
    BY <2>2, FieldsOf
  <2>. QED  BY <2>1, <2>3
<1>6. Fields([l EXCEPT !.slot = v], l.order, l.from, l.items, l.i, l.n, l.plan, l.picks, v)
  <2>1. PICK m : m = [l EXCEPT !.slot = v]
    OBVIOUS
  <2>2. m = With(l.order, l.from, l.items, l.i, l.n, l.plan, l.picks, v)
    BY <2>1, SlotWritten
  <2>3. Fields(m, l.order, l.from, l.items, l.i, l.n, l.plan, l.picks, v)
    BY <2>2, FieldsOf
  <2>. QED  BY <2>1, <2>3
<1>. QED  BY <1>1, <1>2, <1>3, <1>4, <1>5, <1>6

LEMMA FieldsSet ==
    ASSUME NEW l, IsLocal(l), NEW u, NEW v
    PROVE  /\ Fields([l EXCEPT !.n = u, !.i = v],
                     l.order, l.from, l.items, v, u, l.plan, l.picks, l.slot)
           /\ Fields([l EXCEPT !.picks = u, !.items = v],
                     l.order, l.from, v, l.i, l.n, l.plan, u, l.slot)
<1>1. PICK a : a = [l EXCEPT !.n = u]
  OBVIOUS
<1>2. Fields(a, l.order, l.from, l.items, l.i, u, l.plan, l.picks, l.slot)
  BY <1>1, FieldSet
<1>3. IsLocal(a)
  BY <1>2 DEF Fields
<1>4. PICK m : m = [a EXCEPT !.i = v]
  OBVIOUS
<1>5. Fields(m, a.order, a.from, a.items, v, a.n, a.plan, a.picks, a.slot)
  BY <1>3, <1>4, FieldSet
<1>6. Fields(m, l.order, l.from, l.items, v, u, l.plan, l.picks, l.slot)
  BY <1>2, <1>5 DEF Fields
<1>7. m = [l EXCEPT !.n = u, !.i = v]
  BY <1>1, <1>4, TwoWritten
<1>11. PICK b : b = [l EXCEPT !.picks = u]
  OBVIOUS
<1>12. Fields(b, l.order, l.from, l.items, l.i, l.n, l.plan, u, l.slot)
  BY <1>11, FieldSet
<1>13. IsLocal(b)
  BY <1>12 DEF Fields
<1>14. PICK k : k = [b EXCEPT !.items = v]
  OBVIOUS
<1>15. Fields(k, b.order, b.from, v, b.i, b.n, b.plan, b.picks, b.slot)
  BY <1>13, <1>14, FieldSet
<1>16. Fields(k, l.order, l.from, v, l.i, l.n, l.plan, u, l.slot)
  BY <1>12, <1>15 DEF Fields
<1>17. k = [l EXCEPT !.picks = u, !.items = v]
  BY <1>11, <1>14, TwoWritten
<1>. QED  BY <1>6, <1>7, <1>16, <1>17

LEMMA ReservingTrace ==
    ASSUME TInv, NEW w \in Workers
    PROVE  /\ ReservePhysical(w) =>
                 /\ pc[w] = "physical" /\ pc'[w] = "sumActive" /\ Me(w)' = Me(w)
                 /\ loc'[w].items = loc[w].items /\ loc'[w].i = loc[w].i
                 /\ loc'[w].n = Physical(TheItem(w).product)
           /\ ReserveSum(w) => /\ pc[w] = "sumActive" /\ pc'[w] \in {"reserve", "release"}
                               /\ Me(w)' = Me(w) /\ loc'[w] = loc[w]
           /\ ReserveInsert(w) =>
                 LET its == [loc[w].items EXCEPT ![loc[w].i].reserved = TheItem(w).req] IN
                 /\ pc[w] = "reserve" /\ Me(w)' = Me(w) /\ loc'[w].items = its
                 /\ IF LastItem(w) THEN pc'[w] = "confirm"
                    ELSE pc'[w] = "physical" /\ loc'[w].i = loc[w].i + 1
           /\ ConfirmCommit(w) => pc[w] = "confirm" /\ pc'[w] \in {"idle", "release"}
                                  /\ (pc'[w] = "release" => Me(w)' = Me(w))
           /\ ReleaseAll(w) => pc[w] = "release" /\ pc'[w] = "idle"
<1>. DEFINE l == loc[w]
<1>0. l \in Locals /\ IsLocal(l) /\ Me(w) = l.order
  BY Knows, WithTyped
<1>1. ASSUME ReservePhysical(w)
      PROVE  /\ pc[w] = "physical" /\ pc'[w] = "sumActive" /\ Me(w)' = Me(w)
             /\ loc'[w].items = loc[w].items /\ loc'[w].i = loc[w].i
             /\ loc'[w].n = Physical(TheItem(w).product)
  <2>1. PICK n : n = Physical(TheItem(w).product)
    OBVIOUS
  <2>2. Goto(w, "sumActive", [l EXCEPT !.n = n]) /\ pc[w] = "physical"
    BY <1>1, <2>1 DEF ReservePhysical, At
  <2>3. [l EXCEPT !.n = n] = With(l.order, l.from, l.items, l.i, n, l.plan, l.picks, l.slot)
    BY <1>0, FieldWritten
  <2>. QED  BY <1>0, <2>1, <2>2, <2>3, Gone DEF With
<1>2. ASSUME ReserveSum(w)
      PROVE  /\ pc[w] = "sumActive" /\ pc'[w] \in {"reserve", "release"}
             /\ Me(w)' = Me(w) /\ loc'[w] = loc[w]
  BY <1>0, <1>2, Gone DEF ReserveSum, At, Rollback
<1>3. ASSUME ReserveInsert(w)
      PROVE  LET its == [loc[w].items EXCEPT ![loc[w].i].reserved = TheItem(w).req] IN
                 /\ pc[w] = "reserve" /\ Me(w)' = Me(w) /\ loc'[w].items = its
                 /\ IF LastItem(w) THEN pc'[w] = "confirm"
                    ELSE pc'[w] = "physical" /\ loc'[w].i = loc[w].i + 1
  <2>. DEFINE its == [loc[w].items EXCEPT ![loc[w].i].reserved = TheItem(w).req]
              k == [l EXCEPT !.items[l.i].reserved = TheItem(w).req]
  <2>1. k = [l EXCEPT !.items = its]
    BY <1>0 DEF IsLocal
  <2>2. PICK u : u = its
    OBVIOUS
  <2>3. k = With(l.order, l.from, u, l.i, l.n, l.plan, l.picks, l.slot)
    BY Zenon, <1>0, <2>1, <2>2, FieldWritten
  <2>4. /\ k.order = l.order /\ k.from = l.from /\ k.items = u /\ k.i = l.i /\ k.n = l.n
        /\ k.plan = l.plan /\ k.picks = l.picks /\ k.slot = l.slot /\ IsLocal(k)
    BY <2>3 DEF With, IsLocal
  <2>6. /\ pc[w] = "reserve"
        /\ IF LastItem(w) THEN Goto(w, "confirm", k) ELSE Goto(w, "physical", [k EXCEPT !.i = @ + 1])
    BY <1>3 DEF ReserveInsert, At
  <2>. HIDE DEF k
  <2>5. PICK m : /\ m = [k EXCEPT !.i = @ + 1]
                 /\ m.order = l.order /\ m.items = u /\ m.i = l.i + 1
    <3>1. PICK j : j = k.i + 1
      OBVIOUS
    <3>2. PICK m : m = [k EXCEPT !.i = j]
      OBVIOUS
    <3>3. Fields(m, k.order, k.from, k.items, j, k.n, k.plan, k.picks, k.slot)
      BY <2>4, <3>2, FieldSet
    <3>4. m = [k EXCEPT !.i = @ + 1]
      BY <3>1, <3>2
    <3>. QED  BY <2>4, <3>1, <3>3, <3>4 DEF Fields
  <2>7. CASE LastItem(w)
    BY <1>0, <2>2, <2>4, <2>6, <2>7, Gone
  <2>8. CASE ~LastItem(w)
    <3>1. Goto(w, "physical", m) /\ pc[w] = "reserve"
      BY <2>5, <2>6, <2>8
    <3>2. pc'[w] = "physical" /\ loc'[w] = m /\ Me(w)' = m.order
      BY <3>1, Gone
    <3>3. loc'[w].items = its /\ loc'[w].i = loc[w].i + 1 /\ Me(w)' = Me(w)
      BY <1>0, <2>2, <2>5, <3>2
    <3>. QED  BY <2>8, <3>1, <3>2, <3>3
  <2>. QED  BY <2>7, <2>8
<1>4. ASSUME ConfirmCommit(w)
      PROVE  pc[w] = "confirm" /\ pc'[w] \in {"idle", "release"} /\ (pc'[w] = "release" => Me(w)' = Me(w))
  BY <1>0, <1>4, Gone, Ended DEF ConfirmCommit, At, Rollback
<1>5. ASSUME ReleaseAll(w) PROVE pc[w] = "release" /\ pc'[w] = "idle"
  BY <1>5, Ended DEF ReleaseAll, At
<1>. QED  BY <1>1, <1>2, <1>3, <1>4, <1>5

LEMMA OrderingTrace ==
    ASSUME TInv, NEW w \in Workers
    PROVE  /\ Replace(w) => pc[w] = "replace" /\ pc'[w] = "idle"
           /\ CancelCommit(w) =>
                 /\ pc[w] = "cancel" /\ pc'[w] \in {AfterCancel(loc[w].from), "idle"}
                 /\ CasMatches(Me(w), loc[w].from) => pc'[w] = AfterCancel(loc[w].from)
                 /\ pc'[w] # "idle" => Me(w)' = Me(w)
           /\ CancelTasks(w) => pc[w] = "cancelTasks" /\ pc'[w] = "release" /\ Me(w)' = Me(w)
           /\ PickCommit(w) => pc[w] = "startPick" /\ pc'[w] = "idle"
           /\ ShipCommit(w) => pc[w] = "ship" /\ pc'[w] = "idle"
<1>0. Me(w) = loc[w].order
  BY Knows
<1>1. ASSUME CancelCommit(w)
      PROVE  /\ pc[w] = "cancel" /\ pc'[w] \in {AfterCancel(loc[w].from), "idle"}
             /\ CasMatches(Me(w), loc[w].from) => pc'[w] = AfterCancel(loc[w].from)
             /\ pc'[w] # "idle" => Me(w)' = Me(w)
  <2>1. PICK a : a = AfterCancel(loc[w].from)
    OBVIOUS
  <2>2. CASE CasMatches(Me(w), loc[w].from) /\ Goto(w, a, loc[w])
    BY <1>0, <1>1, <2>1, <2>2, Gone DEF CancelCommit, At
  <2>3. CASE ~CasMatches(Me(w), loc[w].from) /\ Finish(w)
    BY <1>0, <1>1, <2>1, <2>3, Ended DEF CancelCommit, At
  <2>. QED  BY <1>1, <2>1, <2>2, <2>3 DEF CancelCommit
<1>. QED  BY <1>0, <1>1, Gone, Ended DEF Replace, CancelTasks, PickCommit, ShipCommit, At

LEMMA PickingTrace ==
    ASSUME TInv, NEW w \in Workers
    PROVE  /\ ShortageCheck(w) =>
                 /\ pc[w] = "shortage" /\ pc'[w] \in {"shortage", "plan", "idle"}
                 /\ pc'[w] # "idle" => Me(w)' = Me(w)
           /\ PlanItem(w) =>
                 /\ pc[w] = "plan" /\ pc'[w] \in {"plan", "insertTasks", "idle"}
                 /\ pc'[w] # "idle" => Me(w)' = Me(w)
           /\ InsertTask(w) =>
                 /\ pc[w] = "insertTasks" /\ pc'[w] \in {"insertTasks", "startPick"}
                 /\ Me(w)' = Me(w)
           /\ AddPicked(w) =>
                 /\ pc[w] = "addPicked" /\ pc'[w] \in {"event", "idle"}
                 /\ pc'[w] = "event" => loc'[w] = loc[w] /\ AddMatches(loc[w].i, loc[w].n)
           /\ InsertEvent(w) => pc[w] = "event" /\ pc'[w] = "idle"
<1>0. PICK l : l = loc[w] /\ IsLocal(l) /\ Me(w) = l.order
  BY Knows, WithTyped
<1>n. ASSUME NEW u, NEW v
      PROVE  /\ [l EXCEPT !.n = u, !.i = v].order = l.order
             /\ [l EXCEPT !.i = u].order = l.order
             /\ [l EXCEPT !.plan = u].order = l.order
             /\ [[l EXCEPT !.plan = u] EXCEPT !.i = v].order = l.order
  <2>1. PICK m : m = [l EXCEPT !.plan = u]
    OBVIOUS
  <2>2. Fields(m, l.order, l.from, l.items, l.i, l.n, u, l.picks, l.slot)
    BY <1>0, <2>1, FieldSet
  <2>3. IsLocal(m) /\ m.order = l.order
    BY <2>2 DEF Fields
  <2>4. PICK k : k = [m EXCEPT !.i = v]
    OBVIOUS
  <2>5. Fields(k, m.order, m.from, m.items, v, m.n, m.plan, m.picks, m.slot)
    BY <2>3, <2>4, FieldSet
  <2>6. PICK x : x = [l EXCEPT !.i = u]
    OBVIOUS
  <2>7. Fields(x, l.order, l.from, l.items, u, l.n, l.plan, l.picks, l.slot)
    BY <1>0, <2>6, FieldSet
  <2>8. PICK y : y = [l EXCEPT !.n = u, !.i = v]
    OBVIOUS
  <2>9. Fields(y, l.order, l.from, l.items, v, u, l.plan, l.picks, l.slot)
    BY <1>0, <2>8, FieldsSet
  <2>10. k.order = m.order /\ x.order = l.order /\ y.order = l.order
    BY <2>5, <2>7, <2>9 DEF Fields
  <2>. QED  BY <2>1, <2>3, <2>4, <2>6, <2>8, <2>10
<1>e. ASSUME NEW a, NEW m, m.order = l.order, Goto(w, a, m)
      PROVE  pc'[w] = a /\ (pc'[w] # "idle" => Me(w)' = Me(w))
  BY <1>0, <1>e, Gone
<1>1. ASSUME ShortageCheck(w)
      PROVE  /\ pc[w] = "shortage" /\ pc'[w] \in {"shortage", "plan", "idle"}
             /\ pc'[w] # "idle" => Me(w)' = Me(w)
  <2>1. /\ pc[w] = "shortage"
        /\ \/ \E u, v : Goto(w, "shortage", [l EXCEPT !.n = u, !.i = v])
           \/ Goto(w, "plan", [l EXCEPT !.i = 1])
           \/ Finish(w)
    BY <1>0, <1>1 DEF ShortageCheck, At
  <2>2. CASE Goto(w, "plan", [l EXCEPT !.i = 1])
    BY <1>n, <1>e, <2>1, <2>2
  <2>3. ASSUME NEW u, NEW v, Goto(w, "shortage", [l EXCEPT !.n = u, !.i = v])
        PROVE  pc'[w] = "shortage" /\ Me(w)' = Me(w)
    <3>1. PICK m : m = [l EXCEPT !.n = u, !.i = v]
      OBVIOUS
    <3>2. m.order = l.order
      BY <1>n, <3>1
    <3>3. Goto(w, "shortage", m)
      BY <2>3, <3>1
    <3>. QED  BY <1>e, <3>2, <3>3
  <2>. QED  BY <2>1, <2>2, <2>3, Ended
<1>2. ASSUME PlanItem(w)
      PROVE  /\ pc[w] = "plan" /\ pc'[w] \in {"plan", "insertTasks", "idle"}
             /\ pc'[w] # "idle" => Me(w)' = Me(w)
  <2>1. PICK p : LET m == [l EXCEPT !.plan = @ \o p] IN
                 \/ Goto(w, "plan", [m EXCEPT !.i = @ + 1])
                 \/ Goto(w, "insertTasks", m)
                 \/ Finish(w)
    BY <1>0, <1>2 DEF PlanItem
  <2>. DEFINE m == [l EXCEPT !.plan = @ \o p]
  <2>2. PICK u, v : m = [l EXCEPT !.plan = u] /\ [m EXCEPT !.i = @ + 1] = [[l EXCEPT !.plan = u] EXCEPT !.i = v]
    OBVIOUS
  <2>3. m.order = l.order /\ [m EXCEPT !.i = @ + 1].order = l.order
    BY <1>n, <2>2
  <2>4. pc[w] = "plan"
    BY <1>2 DEF PlanItem, At
  <2>5. \/ Goto(w, "plan", [m EXCEPT !.i = @ + 1]) \/ Goto(w, "insertTasks", m) \/ Finish(w)
    BY <2>1
  <2>. HIDE DEF m
  <2>. QED  BY <1>e, <2>3, <2>4, <2>5, Ended
<1>3. ASSUME InsertTask(w)
      PROVE  /\ pc[w] = "insertTasks" /\ pc'[w] \in {"insertTasks", "startPick"}
             /\ Me(w)' = Me(w)
  <2>1. PICK u, a : /\ a \in {"insertTasks", "startPick"} /\ Goto(w, a, [l EXCEPT !.plan = u])
                    /\ pc[w] = "insertTasks"
    BY <1>0, <1>3 DEF InsertTask, At
  <2>. QED  BY <1>n, <1>e, <2>1
<1>4. ASSUME AddPicked(w)
      PROVE  /\ pc[w] = "addPicked" /\ pc'[w] \in {"event", "idle"}
             /\ pc'[w] = "event" => loc'[w] = loc[w] /\ AddMatches(loc[w].i, loc[w].n)
  BY <1>4, Gone, Ended DEF AddPicked, At
<1>. QED  BY <1>1, <1>2, <1>3, <1>4, Ended DEF InsertEvent, At

LEMMA ShippingTrace ==
    ASSUME TInv, NEW w \in Workers
    PROVE  /\ CountOpen(w) => /\ pc[w] = "countOpen" /\ pc'[w] = "countAll" /\ Me(w)' = Me(w)
                              /\ loc'[w].n = NotDone(Me(w))
           /\ CountAll(w) =>
                 /\ pc[w] = "countAll" /\ pc'[w] \in {"events", "idle"}
                 /\ pc'[w] = "events" => Me(w)' = Me(w) /\ loc[w].n = 0
           /\ ReadEvents(w) =>
                 LET picks == [s \in Slots |-> EventsAt(Me(w), s)] IN
                 /\ pc[w] = "events" /\ pc'[w] = NextRow(picks) /\ Me(w)' = Me(w)
                 /\ loc'[w].picks = picks
           /\ RemoveCheck(w) =>
                 /\ pc[w] = "removeCheck" /\ pc'[w] \in {"remove", "idle"}
                 /\ pc'[w] = "remove" => Me(w)' = Me(w) /\ loc'[w].picks = loc[w].picks
           /\ TakeOut(w) => pc[w] = "remove" /\ pc'[w] = "outbound" /\ loc'[w] = loc[w] /\ Me(w)' = Me(w)
           /\ Outbound(w) =>
                 LET picks == [loc[w].picks EXCEPT ![loc[w].slot] = 0] IN
                 /\ pc[w] = "outbound" /\ pc'[w] = NextRow(picks) /\ Me(w)' = Me(w)
                 /\ loc'[w].picks = picks
           /\ ShipRelease(w) => /\ pc[w] = "shipRelease" /\ pc'[w] = "ship"
                                /\ loc'[w] = loc[w] /\ Me(w)' = Me(w)
<1>0. PICK l : l = loc[w] /\ IsLocal(l) /\ Me(w) = l.order
  BY Knows, WithTyped
<1>1. ASSUME CountOpen(w)
      PROVE  /\ pc[w] = "countOpen" /\ pc'[w] = "countAll" /\ Me(w)' = Me(w)
             /\ loc'[w].n = NotDone(Me(w))
  <2>1. PICK n : n = NotDone(Me(w))
    OBVIOUS
  <2>2. Goto(w, "countAll", [l EXCEPT !.n = n]) /\ pc[w] = "countOpen"
    BY <1>0, <1>1, <2>1 DEF CountOpen, At
  <2>3. PICK m : m = [l EXCEPT !.n = n]
    OBVIOUS
  <2>4. Fields(m, l.order, l.from, l.items, l.i, n, l.plan, l.picks, l.slot)
    BY <1>0, <2>3, FieldSet
  <2>5. m.order = l.order /\ m.n = n
    BY <2>4 DEF Fields
  <2>6. Goto(w, "countAll", m)
    BY <2>2, <2>3
  <2>. QED  BY <1>0, <2>1, <2>2, <2>5, <2>6, Gone
<1>2. ASSUME CountAll(w)
      PROVE  /\ pc[w] = "countAll" /\ pc'[w] \in {"events", "idle"}
             /\ pc'[w] = "events" => Me(w)' = Me(w) /\ loc[w].n = 0
  BY <1>0, <1>2, Gone, Ended DEF CountAll, At
<1>n. \A picks : NextRow(picks) \in {"removeCheck", "shipRelease"}
  BY DEF NextRow
<1>3. ASSUME ReadEvents(w)
      PROVE  LET picks == [s \in Slots |-> EventsAt(Me(w), s)] IN
                 /\ pc[w] = "events" /\ pc'[w] = NextRow(picks) /\ Me(w)' = Me(w)
                 /\ loc'[w].picks = picks
  <2>1. PICK picks : picks = [s \in Slots |-> EventsAt(Me(w), s)]
    OBVIOUS
  <2>2. PICK its : its = WithShipped(l.items, picks)
    OBVIOUS
  <2>3. pc[w] = "events" /\ Goto(w, NextRow(picks), [l EXCEPT !.picks = picks, !.items = its])
    BY <1>0, <1>3, <2>1, <2>2 DEF ReadEvents, At, Aggregated
  <2>4. PICK m : m = [l EXCEPT !.picks = picks, !.items = its]
    BY SMTT(30)
  <2>5. Fields(m, l.order, l.from, its, l.i, l.n, l.plan, picks, l.slot)
    BY <1>0, <2>4, FieldsSet
  <2>6. m.order = l.order /\ m.picks = picks
    BY <2>5 DEF Fields
  <2>7. Goto(w, NextRow(picks), m)
    BY <2>3, <2>4
  <2>. QED  BY <1>0, <1>n, <2>1, <2>3, <2>6, <2>7, Gone
<1>4. ASSUME RemoveCheck(w)
      PROVE  /\ pc[w] = "removeCheck" /\ pc'[w] \in {"remove", "idle"}
             /\ pc'[w] = "remove" => Me(w)' = Me(w) /\ loc'[w].picks = loc[w].picks
  <2>1. /\ pc[w] = "removeCheck"
        /\ Finish(w) \/ \E s : Goto(w, "remove", [l EXCEPT !.slot = s])
    BY <1>0, <1>4 DEF RemoveCheck, At
  <2>2. ASSUME NEW s, Goto(w, "remove", [l EXCEPT !.slot = s])
        PROVE  pc'[w] = "remove" /\ Me(w)' = Me(w) /\ loc'[w].picks = loc[w].picks
    <3>1. PICK m : m = [l EXCEPT !.slot = s]
      OBVIOUS
    <3>2. Fields(m, l.order, l.from, l.items, l.i, l.n, l.plan, l.picks, s)
      BY <1>0, <3>1, FieldSet
    <3>3. m.order = l.order /\ m.picks = l.picks
      BY <3>2 DEF Fields
    <3>4. Goto(w, "remove", m)
      BY <2>2, <3>1
    <3>. QED  BY <1>0, <3>3, <3>4, Gone
  <2>. QED  BY <2>1, <2>2, Ended
<1>5. ASSUME TakeOut(w)
      PROVE  pc[w] = "remove" /\ pc'[w] = "outbound" /\ loc'[w] = loc[w] /\ Me(w)' = Me(w)
  BY <1>0, <1>5, Gone DEF TakeOut, At
<1>6. ASSUME Outbound(w)
      PROVE  LET picks == [loc[w].picks EXCEPT ![loc[w].slot] = 0] IN
                 /\ pc[w] = "outbound" /\ pc'[w] = NextRow(picks) /\ Me(w)' = Me(w)
                 /\ loc'[w].picks = picks
  <2>. DEFINE k == [l EXCEPT !.picks[l.slot] = 0]
  <2>1. PICK picks : picks = [loc[w].picks EXCEPT ![loc[w].slot] = 0]
    OBVIOUS
  <2>2. k = [l EXCEPT !.picks = picks]
    BY <1>0, <2>1 DEF IsLocal
  <2>3. k.order = l.order /\ k.picks = picks
    <3>1. PICK m : m = [l EXCEPT !.picks = picks]
      OBVIOUS
    <3>2. Fields(m, l.order, l.from, l.items, l.i, l.n, l.plan, picks, l.slot)
      BY <1>0, <3>1, FieldSet
    <3>3. m.order = l.order /\ m.picks = picks
      BY <3>2 DEF Fields
    <3>4. m = k
      BY <2>2, <3>1
    <3>. QED  BY <3>3, <3>4
  <2>4. pc[w] = "outbound" /\ Goto(w, NextRow(k.picks), k)
    BY <1>0, <1>6 DEF Outbound, At
  <2>. HIDE DEF k
  <2>. QED  BY <1>0, <1>n, <2>1, <2>3, <2>4, Gone
<1>7. ASSUME ShipRelease(w)
      PROVE  /\ pc[w] = "shipRelease" /\ pc'[w] = "ship"
             /\ loc'[w] = loc[w] /\ Me(w)' = Me(w)
  BY <1>0, <1>7, Gone DEF ShipRelease, At
<1>. QED  BY <1>1, <1>2, <1>3, <1>4, <1>5, <1>6, <1>7

LEMMA ElseTrace ==
    ASSUME TInv, NEW w \in Workers
    PROVE  /\ \A r : ReleaseOne(w, r) => pc[w] = "idle" /\ UNCHANGED <<pc, loc>>
           /\ \A s, d : Move(w, s, d) => pc[w] = "idle" /\ UNCHANGED <<pc, loc>>
           /\ Crash(w) => MayFail /\ pc'[w] = "idle"
           /\ CallFails(w) =>
                 /\ MayFail /\ loc'[w] = loc[w] /\ Me(w)' = Me(w)
                 /\ \/ pc[w] \in ReserveLabels \cup {"cancelTasks"} /\ pc'[w] = "release"
                    \/ pc[w] = "shipRelease" /\ pc'[w] = "ship"
<1>0. Me(w) = loc[w].order
  BY Knows
<1>1. ASSUME CallFails(w)
      PROVE  /\ MayFail /\ loc'[w] = loc[w] /\ Me(w)' = Me(w)
             /\ \/ pc[w] \in ReserveLabels \cup {"cancelTasks"} /\ pc'[w] = "release"
                \/ pc[w] = "shipRelease" /\ pc'[w] = "ship"
  BY <1>0, <1>1, Gone DEF CallFails, At
<1>. QED  BY <1>1, Ended DEF ReleaseOne, Move, Once, Crash, GiveUp

-----------------------------------------------------------------------------
(* A step of the system: a creation or nothing, or the step of one request *)
(* while the others stay where they are.                                   *)

Acts(w) == Begin(w) \/ Continue(w) \/ Crash(w) \/ CallFails(w)

Still == UNCHANGED <<tasks, shipped, halted, stock, resv, peak, pc, loc>>

LEMMA StepIs ==
    ASSUME [Next]_vars
    PROVE  Still \/ \E w \in Workers : Acts(w)
<1>1. UNCHANGED vars => Still
  BY DEF vars, Still
<1>2. ASSUME NEW o \in Orders, NEW c \in Carts, Create(o, c) PROVE Still
  BY <1>2 DEF Create, Still
<1>. QED  BY <1>1, <1>2 DEF Next, Idle, Acts

LEMMA OthersWait ==
    ASSUME TInv, NEW w \in Workers, Acts(w)
    PROVE  \A v \in Workers \ {w} : pc'[v] = pc[v] /\ loc'[v] = loc[v] /\ Me(v)' = Me(v)
<1>. DEFINE wait == \A v \in Workers \ {w} : pc'[v] = pc[v] /\ loc'[v] = loc[v]
<1>1. ASSUME NEW a, NEW l, Goto(w, a, l) PROVE wait
  BY <1>1 DEF Goto, TInv, TypeOK
<1>2. ASSUME MovesAside(w) \/ UNCHANGED <<pc, loc>> PROVE wait
  BY <1>2 DEF MovesAside
<1>. HIDE DEF wait
<1>3. ASSUME Finish(w) PROVE wait
  BY <1>1, <1>3 DEF Finish
<1>4. ASSUME Begin(w) PROVE wait
  BY <1>2, <1>4, ReadsAside
<1>5. ASSUME InsertTask(w) \/ CancelTasks(w) PROVE wait
  BY <1>1, <1>5 DEF InsertTask, CancelTasks
<1>6. ASSUME PickCommit(w) \/ AddPicked(w) \/ InsertEvent(w) PROVE wait
  BY <1>1, <1>3, <1>6 DEF PickCommit, AddPicked, InsertEvent
<1>7. ASSUME Continue(w) PROVE wait
  BY <1>2, <1>5, <1>6, <1>7, StepsAside DEF Continue
<1>8. ASSUME Crash(w) \/ CallFails(w) PROVE wait
  BY <1>1, <1>3, <1>8 DEF Crash, GiveUp, CallFails
<1>9. wait
  BY <1>4, <1>7, <1>8 DEF Acts
<1>. QED  BY <1>9 DEF wait, Me

(* The step, read backwards: where the request is now tells what it did.   *)
Rests(w) == UNCHANGED <<pc, loc, tasks, shipped, halted>>

Came(w) ==
    /\ pc'[w] = "physical" => (\E o \in Orders : ConfirmRead(w, o)) \/ ReserveInsert(w)
    /\ pc'[w] = "sumActive" => ReservePhysical(w)
    /\ pc'[w] = "reserve" => ReserveSum(w)
    /\ pc'[w] = "confirm" => ReserveInsert(w)
    /\ pc'[w] = "countAll" => CountOpen(w)
    /\ pc'[w] = "events" => CountAll(w)
    /\ pc'[w] = "removeCheck" => ReadEvents(w) \/ Outbound(w)
    /\ pc'[w] = "remove" => RemoveCheck(w)
    /\ pc'[w] = "outbound" => TakeOut(w)
    /\ pc'[w] = "shipRelease" => ReadEvents(w) \/ Outbound(w)
    /\ pc'[w] = "ship" => ShipRelease(w) \/ CallFails(w)

LEMMA ComesFrom ==
    ASSUME TInv, NEW w \in Workers, Acts(w)
    PROVE  Rests(w) \/ Came(w)
<1>1. ASSUME Begin(w) PROVE Rests(w) \/ Came(w)
  <2>1. ASSUME NEW r, ReleaseOne(w, r) PROVE Rests(w)
    BY <2>1 DEF ReleaseOne, Once, Rests
  <2>2. ASSUME NEW s, NEW d, Move(w, s, d) PROVE Rests(w)
    BY <2>2 DEF Move, Once, Rests
  <2>3. ASSUME NEW o \in Orders, UpdateRead(w, o) \/ ConfirmRead(w, o) \/ CancelRead(w, o)
                                   \/ PickRead(w, o) \/ ShipRead(w, o)
        PROVE  Came(w)
    <3>1. \/ ConfirmRead(w, o) /\ pc'[w] = "physical"
          \/ pc'[w] \in {"replace", "cancel", "shortage", "countOpen"}
      BY <2>3, ReadsTrace
    <3>. QED  BY <3>1 DEF Came
  <2>4. ASSUME NEW t, NEW q, ScanRead(w, t, q) PROVE Came(w)
    BY <2>4, ReadsTrace DEF Came
  <2>. QED  BY <1>1, <2>1, <2>2, <2>3, <2>4 DEF Begin
<1>2. ASSUME Continue(w) PROVE Came(w)
  <2>1. ASSUME pc'[w] = "idle" PROVE Came(w)
    BY <2>1 DEF Came
  <2>2. ASSUME Replace(w) \/ ReleaseAll(w) \/ PickCommit(w) \/ ShipCommit(w) \/ InsertEvent(w)
        PROVE  Came(w)
    BY <2>1, <2>2, ReservingTrace, OrderingTrace, PickingTrace
  <2>3. ASSUME ReservePhysical(w) \/ ReserveSum(w) \/ ReserveInsert(w) PROVE Came(w)
    <3>1. \/ ReservePhysical(w) /\ pc'[w] = "sumActive"
          \/ ReserveSum(w) /\ pc'[w] \in {"reserve", "release"}
          \/ ReserveInsert(w) /\ pc'[w] \in {"physical", "confirm"}
      BY <2>3, ReservingTrace
    <3>. QED  BY <3>1 DEF Came
  <2>4. ASSUME ConfirmCommit(w) \/ CancelCommit(w) \/ CancelTasks(w) PROVE Came(w)
    <3>1. \/ ConfirmCommit(w) /\ pc'[w] \in {"idle", "release"}
          \/ CancelCommit(w) /\ pc'[w] \in {AfterCancel(loc[w].from), "idle"}
          \/ CancelTasks(w) /\ pc'[w] = "release"
      BY <2>4, ReservingTrace, OrderingTrace
    <3>2. AfterCancel(loc[w].from) \in {"cancelTasks", "release", "idle"}
      BY DEF AfterCancel
    <3>. QED  BY <3>1, <3>2 DEF Came
  <2>5. ASSUME ShortageCheck(w) \/ PlanItem(w) \/ InsertTask(w) \/ AddPicked(w) PROVE Came(w)
    <3>1. \/ pc'[w] \in {"shortage", "plan", "idle"}
          \/ PlanItem(w) /\ pc'[w] \in {"plan", "insertTasks", "idle"}
          \/ InsertTask(w) /\ pc'[w] \in {"insertTasks", "startPick"}
          \/ AddPicked(w) /\ pc'[w] \in {"event", "idle"}
      BY <2>5, PickingTrace
    <3>. QED  BY <3>1 DEF Came
  <2>6. ASSUME CountOpen(w) \/ CountAll(w) \/ ReadEvents(w) \/ RemoveCheck(w) \/ TakeOut(w)
                 \/ Outbound(w) \/ ShipRelease(w)
        PROVE  Came(w)
    <3>1. \/ CountOpen(w) /\ pc'[w] = "countAll"
          \/ CountAll(w) /\ pc'[w] \in {"events", "idle"}
          \/ RemoveCheck(w) /\ pc'[w] \in {"remove", "idle"}
          \/ TakeOut(w) /\ pc'[w] = "outbound"
          \/ ShipRelease(w) /\ pc'[w] = "ship"
          \/ (ReadEvents(w) \/ Outbound(w)) /\ pc'[w] \in {"removeCheck", "shipRelease"}
      <4>1. \A picks : NextRow(picks) \in {"removeCheck", "shipRelease"}
        BY DEF NextRow
      <4>. QED  BY <2>6, <4>1, ShippingTrace
    <3>. QED  BY <3>1 DEF Came
  <2>. QED  BY <1>2, <2>2, <2>3, <2>4, <2>5, <2>6 DEF Continue
<1>3. ASSUME Crash(w) PROVE Came(w)
  BY <1>3, ElseTrace DEF Came
<1>4. ASSUME CallFails(w) PROVE Came(w)
  <2>1. pc'[w] \in {"release", "ship"}
    BY <1>4, ElseTrace
  <2>. QED  BY <1>4, <2>1 DEF Came
<1>. QED  BY <1>1, <1>2, <1>3, <1>4 DEF Acts

(* What may happen to the status of an order, and by whom.                 *)
StatusMove(w, o) ==
    \/ ConfirmCommit(w) /\ status[o] = "DRAFT" /\ status'[o] = "CONFIRMED"
    \/ CancelCommit(w) /\ status[o] = loc[w].from /\ status'[o] = "CANCELLED"
    \/ PickCommit(w) /\ status[o] = "CONFIRMED" /\ status'[o] = "PICKING"
    \/ ShipCommit(w) /\ status[o] = "PICKING" /\ status'[o] = "SHIPPED"

LEMMA StatusMoves ==
    ASSUME TInv, [Next]_vars, NEW o \in Orders
    PROVE  \/ status'[o] = status[o]
           \/ status[o] = "NONE" /\ status'[o] = "DRAFT"
           \/ \E w \in Workers : Me(w) = o /\ StatusMove(w, o)
<1>0. status \in [Orders -> Statuses] /\ \A w \in Workers : Me(w) \in Orders
  BY Knows DEF TInv, TypeOK, StoreTypeOK
<1>. DEFINE goal(w) == status'[o] = status[o] \/ (Me(w) = o /\ StatusMove(w, o))
<1>1. ASSUME NEW w \in Workers, Begin(w) PROVE UNCHANGED status
  BY <1>1 DEF Begin, UpdateRead, ConfirmRead, CancelRead, PickRead, ShipRead, ScanRead,
              ReleaseOne, Move
<1>2. ASSUME NEW w \in Workers, Continue(w) PROVE goal(w)
  <2>1. UNCHANGED status \/ ConfirmCommit(w) \/ CancelCommit(w) \/ PickCommit(w) \/ ShipCommit(w)
    BY Zenon, <1>2 DEF Continue, Replace, ReservePhysical, ReserveSum, ReserveInsert, ReleaseAll,
                CancelTasks, ShortageCheck, PlanItem, InsertTask, AddPicked, InsertEvent,
                CountOpen, CountAll, ReadEvents, RemoveCheck, TakeOut, Outbound, ShipRelease
  <2>2. CASE UNCHANGED status
    BY <2>2
  <2>3. CASE ConfirmCommit(w)
    BY <1>0, <2>3 DEF ConfirmCommit, CasMatches, StatusMove
  <2>4. CASE CancelCommit(w)
    BY <1>0, <2>4 DEF CancelCommit, CasMatches, StatusMove
  <2>5. CASE PickCommit(w)
    BY <1>0, <2>5 DEF PickCommit, CasMatches, StatusMove
  <2>6. CASE ShipCommit(w)
    BY <1>0, <2>6 DEF ShipCommit, CasMatches, StatusMove
  <2>. QED  BY <2>1, <2>2, <2>3, <2>4, <2>5, <2>6
<1>3. ASSUME NEW w \in Workers, Crash(w) \/ CallFails(w) PROVE UNCHANGED status
  BY <1>3 DEF Crash, GiveUp, CallFails
<1>4. ASSUME NEW x \in Orders, NEW c \in Carts, Create(x, c)
      PROVE  status'[o] = status[o] \/ (status[o] = "NONE" /\ status'[o] = "DRAFT")
  BY <1>0, <1>4 DEF Create
<1>5. UNCHANGED vars => status'[o] = status[o]
  BY DEF vars
<1>. QED  BY <1>1, <1>2, <1>3, <1>4, <1>5 DEF Next, Idle

(* Picking is never left for an earlier status.                            *)
LEMMA LateStays ==
    ASSUME TInv, [Next]_vars, NEW o \in Orders, status[o] \in Late
    PROVE  status'[o] \in Late /\ (status[o] # "PICKING" => status'[o] # "PICKING")
BY StatusMoves DEF StatusMove, Late

LEMMA TaskTyped ==
    ASSUME TInv
    PROVE  /\ tasks \in Seq(Task)
           /\ \A t \in DOMAIN tasks :
                 /\ tasks[t].order \in Orders /\ tasks[t].slot \in Slots /\ tasks[t].events \in Nat
                 /\ tasks[t].state \in {"OPEN", "IN_PROGRESS", "DONE", "CANCELLED"}
<1>1. tasks \in Seq(Task) /\ \A t \in DOMAIN tasks : tasks[t] \in Task
  BY DocumentAt DEF TInv, TypeOK
<1>2. \A x \in Task :
         /\ x.order \in Orders /\ x.slot \in Slots /\ x.events \in Nat
         /\ x.state \in {"OPEN", "IN_PROGRESS", "DONE", "CANCELLED"}
  BY DEF Task
<1>. QED  BY <1>1, <1>2

(* A task at a later time.                                                 *)
Later(x, y) ==
    /\ y.order = x.order /\ y.slot = x.slot
    /\ x.state \in {"DONE", "CANCELLED"} => y.state = x.state
    /\ x.events <= y.events

Marks(w) == PickCommit(w) /\ CasMatches(Me(w), "CONFIRMED")

(* Tasks come from StartPick, which marks those that are there in the end. *)
TasksMove(w) ==
    /\ tasks \in Seq(Task) /\ tasks' \in Seq(Task)
    /\ DOMAIN tasks \subseteq DOMAIN tasks'
    /\ \A t \in DOMAIN tasks :
          /\ Later(tasks[t], tasks'[t])
          /\ \/ tasks'[t].timely = tasks[t].timely
             \/ Marks(w) /\ tasks[t].order = Me(w)
    /\ \A t \in DOMAIN tasks' \ DOMAIN tasks : ~tasks'[t].timely

LEMMA TasksMoved ==
    ASSUME TInv, NEW w \in Workers, Acts(w)
    PROVE  TasksMove(w)
<1>0. tasks \in Seq(Task) /\ \A t \in DOMAIN tasks : tasks[t].events \in Nat
  BY TaskTyped
<1>1. ASSUME UNCHANGED tasks PROVE TasksMove(w)
  BY <1>0, <1>1 DEF TasksMove, Later
<1>2. ASSUME NEW t \in DOMAIN tasks, NEW e, TaskAt(t, e), Later(tasks[t], e),
             e.timely = tasks[t].timely
      PROVE  TasksMove(w)
  BY <1>0, <1>2 DEF TasksMove, TaskAt, Later
<1>3. ASSUME InsertTask(w) PROVE TasksMove(w)
  <2>2. PICK n \in Nat : n = Len(tasks)
    BY <1>0, LenProperties
  <2>3. DOMAIN tasks = 1..n /\ DOMAIN tasks' = 1..(n + 1) /\ tasks' \in Seq(Task)
        /\ (\A u \in DOMAIN tasks : tasks'[u] = tasks[u]) /\ ~tasks'[n + 1].timely
    BY <1>0, <1>3, <2>2, TaskInserted
  <2>4. \A t \in DOMAIN tasks' \ DOMAIN tasks : t = n + 1
    BY <2>3
  <2>5. DOMAIN tasks \subseteq DOMAIN tasks'
    BY <2>3
  <2>. QED  BY <1>0, <2>3, <2>4, <2>5 DEF TasksMove, Later
<1>4. ASSUME CancelTasks(w) PROVE TasksMove(w)
  <2>1. /\ tasks' \in Seq(Task) /\ DOMAIN tasks' = DOMAIN tasks
        /\ \A t \in DOMAIN tasks :
              \/ tasks'[t] = tasks[t]
              \/ /\ Pickable(t) /\ tasks'[t].events = tasks[t].events
                 /\ tasks'[t].order = tasks[t].order /\ tasks'[t].slot = tasks[t].slot
                 /\ tasks'[t].timely = tasks[t].timely
    BY <1>4, TasksCancelled
  <2>. QED  BY <1>0, <2>1 DEF TasksMove, Later, Pickable
<1>5. ASSUME AddPicked(w) PROVE TasksMove(w)
  <2>1. CASE UNCHANGED tasks
    BY <1>1, <2>1
  <2>2. CASE AddMatches(loc[w].i, loc[w].n)
    <3>1. PICK e, t, p, s : /\ t = loc[w].i /\ t \in DOMAIN tasks /\ TaskAt(t, e)
                            /\ IsScanned(e, tasks[t], p, s)
      BY <1>5, <2>2, PickedAdded
    <3>2. Later(tasks[t], e) /\ e.timely = tasks[t].timely
      BY <1>0, <2>2, <3>1 DEF IsScanned, Later, AddMatches, Pickable
    <3>. QED  BY <1>2, <3>1, <3>2
  <2>. QED  BY <1>5, <2>1, <2>2 DEF AddPicked
<1>6. ASSUME InsertEvent(w) \/ GiveUp(w) PROVE TasksMove(w)
  <2>1. CASE UNCHANGED tasks
    BY <1>1, <2>1
  <2>2. CASE pc[w] = "event"
    <3>. DEFINE t == loc[w].i
                n == loc[w].n
    <3>1. PICK e, f : /\ t \in DOMAIN tasks /\ n \in Nat \ {0}
                      /\ e.events = tasks[t].events + n /\ f.events = tasks[t].events
                      /\ \A x \in {e, f} : /\ x.picked = tasks[t].picked /\ x.state = tasks[t].state
                                           /\ x.planned = tasks[t].planned /\ x.order = tasks[t].order
                                           /\ x.slot = tasks[t].slot /\ x.timely = tasks[t].timely
                      /\ tasks' = [tasks EXCEPT ![t].events = @ + n] => TaskAt(t, e)
                      /\ tasks' = [tasks EXCEPT ![t].lost = @ + n] => TaskAt(t, f)
      BY ZenonT(30), <2>2, EventAdded
    <3>2. TaskAt(t, e) \/ TaskAt(t, f) \/ UNCHANGED tasks
      BY <1>6, <3>1 DEF InsertEvent, GiveUp
    <3>. HIDE DEF t, n
    <3>3. Later(tasks[t], e) /\ Later(tasks[t], f)
      BY <1>0, <3>1 DEF Later
    <3>. QED  BY <1>1, <1>2, <3>1, <3>2, <3>3
  <2>. QED  BY <1>6, <2>1, <2>2 DEF InsertEvent, GiveUp, At
<1>7. ASSUME PickCommit(w) PROVE TasksMove(w)
  <2>1. CASE ~Marks(w)
    BY <1>1, <1>7, <2>1, TasksMarked DEF Marks
  <2>2. CASE Marks(w)
    <3>1. /\ tasks' \in Seq(Task) /\ DOMAIN tasks' = DOMAIN tasks
          /\ \A t \in DOMAIN tasks :
                IF tasks[t].order = Me(w) THEN IsMarked(tasks'[t], tasks[t])
                ELSE tasks'[t] = tasks[t]
      BY <1>7, <2>2, TasksMarked DEF Marks
    <3>. QED  BY <1>0, <2>2, <3>1 DEF TasksMove, Later, IsMarked
  <2>. QED  BY <2>1, <2>2
<1>8. ASSUME Begin(w) PROVE TasksMove(w)
  BY <1>1, <1>8, ReadsAside
<1>9. ASSUME Continue(w) PROVE TasksMove(w)
  BY <1>1, <1>3, <1>4, <1>5, <1>6, <1>7, <1>9, StepsAside DEF Continue
<1>10. ASSUME Crash(w) \/ CallFails(w) PROVE TasksMove(w)
  BY <1>1, <1>6, <1>10 DEF Crash, CallFails
<1>. QED  BY <1>8, <1>9, <1>10 DEF Acts

-----------------------------------------------------------------------------
(* Tasks that were there when picking began belong to an order that is     *)
(* being picked, or was.                                                   *)

Timely == \A t \in DOMAIN tasks : tasks[t].timely => status[tasks[t].order] \in Late

LEMMA TimelyNext ==
    ASSUME TInv, Timely, [Next]_vars
    PROVE  Timely'
<1>0. \A t \in DOMAIN tasks : tasks[t].order \in Orders
  BY TaskTyped
<1>1. CASE Still
  <2>1. tasks' = tasks
    BY <1>1 DEF Still
  <2>. QED  BY <1>0, <2>1, LateStays DEF Timely
<1>2. ASSUME NEW w \in Workers, Acts(w) PROVE Timely'
  <2>. SUFFICES ASSUME NEW t \in DOMAIN tasks', tasks'[t].timely
                PROVE  status'[tasks'[t].order] \in Late
    BY DEF Timely
  <2>1. /\ t \in DOMAIN tasks /\ tasks'[t].order = tasks[t].order
        /\ tasks[t].timely \/ (Marks(w) /\ tasks[t].order = Me(w))
    BY <1>2, TasksMoved DEF TasksMove, Later
  <2>2. CASE tasks[t].timely
    BY <1>0, <2>1, <2>2, LateStays DEF Timely
  <2>3. CASE Marks(w) /\ tasks[t].order = Me(w)
    <3>1. status' = [status EXCEPT ![Me(w)] = "PICKING"] /\ status \in [Orders -> Statuses]
      BY <2>3 DEF Marks, PickCommit, TInv, TypeOK, StoreTypeOK
    <3>. QED  BY <1>0, <2>1, <2>3, <3>1 DEF Late
  <2>. QED  BY <2>1, <2>2, <2>3
<1>. QED  BY <1>1, <1>2, StepIs

(* All of the tasks an order's picking began with are in one of S.         *)
InTime(o, S) == \A t \in TasksOf(o) : tasks[t].timely => tasks[t].state \in S

(* No task opens again, and no more are marked.                            *)
LEMMA InTimeStays ==
    ASSUME TInv, [Next]_vars, NEW o \in Orders, status[o] \in Late,
           NEW S \in SUBSET {"DONE", "CANCELLED"}, InTime(o, S)
    PROVE  InTime(o, S)'
<1>1. CASE Still
  BY <1>1 DEF Still, InTime, TasksOf
<1>2. ASSUME NEW w \in Workers, Acts(w) PROVE InTime(o, S)'
  <2>. SUFFICES ASSUME NEW t \in DOMAIN tasks', tasks'[t].order = o, tasks'[t].timely
                PROVE  tasks'[t].state \in S
    BY DEF InTime, TasksOf
  <2>1. ~(Marks(w) /\ o = Me(w))
    BY DEF Marks, CasMatches, Late
  <2>2. t \in DOMAIN tasks /\ tasks[t].timely /\ Later(tasks[t], tasks'[t])
    BY <1>2, <2>1, TasksMoved DEF TasksMove, Later
  <2>3. tasks[t].state \in S
    BY <2>2 DEF InTime, TasksOf, Later
  <2>. QED  BY <2>2, <2>3 DEF Later
<1>. QED  BY <1>1, <1>2, StepIs

-----------------------------------------------------------------------------
(* A Ship that has counted no open task: whatever was open when picking    *)
(* began is DONE, now and later.                                           *)

CountedLabels == {"events"} \cup TakeOutLabels

CountedAt(w) ==
    (pc[w] = "countAll" /\ loc[w].n = 0) \/ pc[w] \in CountedLabels
        => InTime(Me(w), {"DONE"})

Counted == \A w \in Workers : CountedAt(w)

LEMMA NoneLeft ==
    ASSUME tasks \in Seq(Task), NEW o, NotDone(o) = 0
    PROVE  InTime(o, {"DONE"})
<1>. DEFINE T == {t \in TasksOf(o) : tasks[t].state # "DONE"}
<1>1. IsFiniteSet(T)
  BY Positions, FS_Subset DEF TasksOf
<1>2. T = {}
  BY <1>1, FS_EmptySet DEF NotDone
<1>. QED  BY <1>2 DEF InTime

LEMMA CountedNext ==
    ASSUME LInv, TInv, Counted, [Next]_vars
    PROVE  Counted'
<1>0. ASSUME NEW v \in Workers
      PROVE  Me(v) \in Orders /\ (pc[v] \in ShipLabels => status[Me(v)] \in Late)
  BY Knows DEF LInv, LocalOK
<1>1. CountedLabels \cup {"countAll"} \subseteq ShipLabels
  BY DEF CountedLabels, TakeOutLabels, ShipLabels
<1>2. ASSUME NEW v \in Workers, pc'[v] = pc[v], loc'[v] = loc[v] PROVE CountedAt(v)'
  <2>1. Me(v)' = Me(v)
    BY <1>2 DEF Me
  <2>. SUFFICES ASSUME (pc[v] = "countAll" /\ loc[v].n = 0) \/ pc[v] \in CountedLabels
                PROVE  InTime(Me(v), {"DONE"})'
    BY <1>2 DEF CountedAt
  <2>2. PICK o \in Orders : o = Me(v) /\ status[o] \in Late /\ InTime(o, {"DONE"})
    BY <1>0, <1>1 DEF Counted, CountedAt
  <2>3. InTime(o, {"DONE"})'
    BY <2>2, InTimeStays
  <2>. QED  BY <2>1, <2>2, <2>3 DEF InTime, TasksOf
<1>3. ASSUME NEW w \in Workers, Acts(w) PROVE CountedAt(w)'
  <2>1. CASE Rests(w)
    BY <1>2, <2>1 DEF Rests
  <2>2. CASE Came(w)
    <3>. SUFFICES ASSUME (pc'[w] = "countAll" /\ loc'[w].n = 0) \/ pc'[w] \in CountedLabels
                  PROVE  InTime(Me(w), {"DONE"})'
      BY DEF CountedAt
    <3>1. CASE pc'[w] = "countAll"
      <4>1. pc'[w] = "countAll" /\ Me(w)' = Me(w) /\ loc'[w].n = NotDone(Me(w)) /\ UNCHANGED tasks
        BY <2>2, <3>1, ShippingTrace DEF Came, CountOpen
      <4>2. InTime(Me(w), {"DONE"})
        BY <3>1, <4>1, NoneLeft DEF TInv, TypeOK, CountedLabels, TakeOutLabels, ShipLabels
      <4>. QED  BY <4>1, <4>2 DEF InTime, TasksOf
    <3>2. CASE pc'[w] \in CountedLabels
      <4>1. Me(w)' = Me(w) /\ (pc[w] \in CountedLabels \/ (pc[w] = "countAll" /\ loc[w].n = 0))
        <5>1. \/ CountAll(w) /\ pc'[w] = "events"
              \/ ReadEvents(w) \/ Outbound(w) \/ TakeOut(w) \/ ShipRelease(w)
              \/ RemoveCheck(w) /\ pc'[w] = "remove"
              \/ CallFails(w) /\ pc'[w] = "ship"
          BY <2>2, <3>2 DEF Came, CountedLabels, TakeOutLabels, ShipLabels
        <5>2. CASE CallFails(w) /\ pc'[w] = "ship"
          BY <5>2, ElseTrace DEF CountedLabels, TakeOutLabels, ShipLabels
        <5>3. CASE RemoveCheck(w) /\ pc'[w] = "remove"
          BY <5>3, ShippingTrace DEF CountedLabels, TakeOutLabels, ShipLabels
        <5>4. CASE CountAll(w) /\ pc'[w] = "events"
          BY <5>4, ShippingTrace DEF CountedLabels
        <5>5. CASE ReadEvents(w) \/ Outbound(w) \/ TakeOut(w) \/ ShipRelease(w)
          BY <5>5, ShippingTrace DEF CountedLabels, TakeOutLabels, ShipLabels
        <5>. QED  BY <5>1, <5>2, <5>3, <5>4, <5>5
      <4>2. PICK o \in Orders : o = Me(w) /\ status[o] \in Late /\ InTime(o, {"DONE"})
        BY <1>0, <1>1, <4>1 DEF Counted, CountedAt
      <4>3. InTime(o, {"DONE"})'
        BY <4>2, InTimeStays
      <4>. QED  BY <4>1, <4>2, <4>3 DEF InTime, TasksOf
    <3>. QED  BY <3>1, <3>2
  <2>. QED  BY <1>3, <2>1, <2>2, ComesFrom
<1>4. CASE Still
  BY <1>2, <1>4 DEF Still, Counted
<1>5. ASSUME NEW w \in Workers, Acts(w) PROVE Counted'
  BY <1>2, <1>3, <1>5, OthersWait DEF Counted
<1>. QED  BY <1>4, <1>5, StepIs

(* However the requests race, fail or die: an order is shipped only when   *)
(* every task that was there when its picking began is DONE, because no    *)
(* task opens again after Ship has counted.                                *)
THEOREM OnlyPickedIsShipped == Spec => ShippedIsPicked
<1>1. Init => LInv /\ TInv /\ Counted
  <2>1. Init => \A w \in Workers : pc[w] = "idle"
    BY DEF Init
  <2>2. "idle" \notin CountedLabels
    BY DEF CountedLabels, TakeOutLabels, ShipLabels
  <2>. QED  BY <2>1, <2>2, LInvInit, TInvInit DEF Counted, CountedAt
<1>2. LInv /\ TInv /\ Counted /\ [Next]_vars => (LInv /\ TInv /\ Counted)'
  BY LInvNext, TInvNext, CountedNext DEF Kept
<1>3. TInv /\ Counted /\ [Next]_vars
        => [\A o \in Orders : status[o] # "SHIPPED" /\ status'[o] = "SHIPPED" =>
               \A t \in TasksOf(o) : tasks[t].timely => tasks[t].state = "DONE"]_vars
  <2>. SUFFICES ASSUME TInv, Counted, [Next]_vars, NEW o \in Orders,
                       status[o] # "SHIPPED", status'[o] = "SHIPPED"
                PROVE  InTime(o, {"DONE"})
    BY DEF InTime
  <2>1. PICK w \in Workers : o = Me(w) /\ ShipCommit(w)
    BY StatusMoves DEF StatusMove
  <2>2. pc[w] = "ship"
    BY <2>1 DEF ShipCommit, At
  <2>. QED  BY <2>1, <2>2 DEF Counted, CountedAt, CountedLabels, TakeOutLabels, ShipLabels
<1>. QED  BY <1>1, <1>2, <1>3, PTL DEF Spec, ShippedIsPicked

-----------------------------------------------------------------------------
(* Cancel, when nothing fails: it closes the tasks of an order it takes    *)
(* out of PICKING, and of others none has been marked.                     *)

Closing == {"DONE", "CANCELLED"}

Closes(o, v) == pc[v] = "cancelTasks" /\ Me(v) = o

Closed ==
    \A o \in Orders : status[o] = "CANCELLED" =>
        InTime(o, Closing) \/ \E v \in Workers : Closes(o, v)

LEMMA OnlyCancels ==
    ASSUME ~MayFail, NEW w \in Workers, Acts(w), pc[w] = "cancelTasks"
    PROVE  CancelTasks(w)
<1>1. ~Begin(w)
  BY ZenonT(40) DEF Begin, UpdateRead, ConfirmRead, CancelRead, PickRead, ShipRead, ScanRead,
                ReleaseOne, Move, Start, Once
<1>2. Continue(w) => CancelTasks(w)
  BY Zenon DEF Continue, Replace, ReservePhysical, ReserveSum, ReserveInsert, ReleaseAll,
                ConfirmCommit, CancelCommit, PickCommit, At,
                ShortageCheck, PlanItem, InsertTask, AddPicked, InsertEvent,
                CountOpen, CountAll, ReadEvents, RemoveCheck, TakeOut, Outbound, ShipRelease, ShipCommit
<1>. QED  BY <1>1, <1>2 DEF Acts, Crash, CallFails

LEMMA ClosedNext ==
    ASSUME ~MayFail, LInv, TInv, Timely, Closed, [Next]_vars
    PROVE  Closed'
<1>. SUFFICES ASSUME NEW o \in Orders, status'[o] = "CANCELLED"
              PROVE  InTime(o, Closing)' \/ \E v \in Workers : Closes(o, v)'
  BY DEF Closed
<1>1. CASE status[o] = "CANCELLED" /\ InTime(o, Closing)
  BY <1>1, InTimeStays DEF Late, Closing
<1>2. ASSUME NEW v \in Workers, status[o] = "CANCELLED", Closes(o, v)
      PROVE  InTime(o, Closing)' \/ Closes(o, v)'
  <2>1. CASE Still
    BY <1>2, <2>1 DEF Still, Closes, Me
  <2>2. ASSUME NEW w \in Workers, Acts(w), w # v PROVE Closes(o, v)'
    BY <1>2, <2>2, OthersWait DEF Closes
  <2>3. ASSUME Acts(v) PROVE InTime(o, Closing)'
    <3>1. CancelTasks(v)
      BY <1>2, <2>3, OnlyCancels DEF Closes
    <3>2. \A t \in DOMAIN tasks' :
             /\ t \in DOMAIN tasks /\ tasks'[t].order = tasks[t].order
             /\ \/ tasks'[t].state = tasks[t].state /\ ~(tasks[t].order = o /\ Pickable(t))
                \/ tasks'[t].state = "CANCELLED"
      BY <1>2, <3>1, TasksCancelled DEF Closes
    <3>3. \A t \in DOMAIN tasks : tasks[t].state \in {"OPEN", "IN_PROGRESS", "DONE", "CANCELLED"}
      BY TaskTyped
    <3>. QED  BY <3>2, <3>3 DEF InTime, TasksOf, Pickable, Closing
  <2>. QED  BY <2>1, <2>2, <2>3, StepIs
<1>3. CASE status[o] # "CANCELLED"
  <2>1. PICK w \in Workers : Me(w) = o /\ CancelCommit(w) /\ status[o] = loc[w].from
    BY <1>3, StatusMoves DEF StatusMove
  <2>2. /\ pc[w] = "cancel" /\ pc'[w] = AfterCancel(status[o])
        /\ pc'[w] # "idle" => Me(w)' = o
    BY <2>1, OrderingTrace DEF CasMatches
  <2>3. status[o] \in {"DRAFT", "CONFIRMED", "PICKING"}
    BY <2>1, <2>2 DEF LInv, LocalOK
  <2>4. CASE status[o] = "PICKING"
    BY <2>2, <2>4 DEF AfterCancel, Closes
  <2>5. CASE status[o] # "PICKING"
    <3>1. \A t \in TasksOf(o) : ~tasks[t].timely
      BY <2>3, <2>5 DEF Timely, TasksOf, Late
    <3>2. UNCHANGED tasks
      BY <2>1 DEF CancelCommit
    <3>. QED  BY <3>1, <3>2 DEF InTime, TasksOf
  <2>. QED  BY <2>4, <2>5
<1>. QED  BY <1>1, <1>2, <1>3 DEF Closed

(* When no call fails and the process does not die: once nobody works on a *)
(* cancelled order any more, every task that was there when its picking    *)
(* began is closed, however Cancel races with StartPick, scans and Ship.   *)
THEOREM CancelledStaysClosed ==
    ASSUME ~MayFail
    PROVE  Spec => []CancelledIsClosed
<1>1. Init => LInv /\ TInv /\ Timely /\ Closed
  <2>1. Init => DOMAIN tasks = {} /\ \A o \in Orders : status[o] = "NONE"
    BY DEF Init
  <2>. QED  BY <2>1, LInvInit, TInvInit DEF Timely, Closed
<1>2. LInv /\ TInv /\ Timely /\ Closed /\ [Next]_vars => (LInv /\ TInv /\ Timely /\ Closed)'
  BY LInvNext, TInvNext, TimelyNext, ClosedNext DEF Kept
<1>3. Closed => CancelledIsClosed
  BY DEF Closed, Closes, CancelledIsClosed, Quiet, InTime, Closing
<1>. QED  BY <1>1, <1>2, <1>3, PTL DEF Spec

-----------------------------------------------------------------------------
(* Sums over a collection that grows.                                      *)

LEMMA SumGrows ==
    ASSUME NEW S, IsFiniteSet(S), NEW T, T \subseteq S, NEW f, NEW g,
           \A x \in S : g[x] \in Nat, \A x \in T : f[x] \in Nat /\ f[x] <= g[x]
    PROVE  SumFunctionOnSet(f, T) <= SumFunctionOnSet(g, S)
<1>. DEFINE a == [x \in T |-> g[x]]
            b == [x \in S |-> g[x]]
<1>1. /\ a \in [T -> Nat] /\ b \in [S -> Nat] /\ DOMAIN a = T /\ DOMAIN b = S
      /\ \A x \in T : g[x] = a[x] /\ a[x] = b[x]
      /\ \A x \in S : g[x] = b[x]
  OBVIOUS
<1>. HIDE DEF a, b
<1>2. IsFiniteSet(T)
  BY FS_Subset
<1>3. SumFunction(a) <= SumFunction(b)
  BY <1>1, SumFunctionPart
<1>4. SumFunctionOnSet(g, T) = SumFunctionOnSet(a, T) /\ SumFunctionOnSet(g, S) = SumFunctionOnSet(b, S)
  BY <1>1, <1>2, SumAgrees
<1>5. SumFunctionOnSet(g, T) <= SumFunctionOnSet(g, S)
  BY <1>1, <1>3, <1>4 DEF SumFunction
<1>6. SumFunctionOnSet(f, T) <= SumFunctionOnSet(g, T)
  BY <1>2, SumMonotone
<1>7. /\ SumFunctionOnSet(f, T) \in Int /\ SumFunctionOnSet(g, T) \in Int
      /\ SumFunctionOnSet(g, S) \in Int
  BY <1>2, SumType
<1>. QED  BY <1>5, <1>6, <1>7

(* A sum with one more term.                                               *)
LEMMA OneMore ==
    ASSUME NEW T, IsFiniteSet(T), NEW n, n \notin T, NEW f, NEW g,
           \A x \in T : f[x] \in Int /\ g[x] = f[x], g[n] \in Int
    PROVE  SumFunctionOnSet(g, T \cup {n}) = SumFunctionOnSet(f, T) + g[n]
<1>. DEFINE U == T \cup {n}
<1>1. IsFiniteSet(U) /\ n \in U /\ U \ {n} = T /\ \A x \in U : g[x] \in Int
  BY FS_AddElement
<1>. HIDE DEF U
<1>2. SumFunctionOnSet(g, U) = g[n] + SumFunctionOnSet(g, T)
  BY <1>1, SumRemove
<1>3. SumFunctionOnSet(g, T) = SumFunctionOnSet(f, T)
  BY SumAgrees
<1>4. SumFunctionOnSet(f, T) \in Int
  BY SumType
<1>. QED  BY <1>2, <1>3, <1>4 DEF U

(* Reserve adds one reservation, for the line it is at.                    *)
LEMMA Inserted ==
    ASSUME TInv, NEW w \in Workers, ReserveInsert(w)
    PROVE  LET n == Len(resv) + 1 IN
           /\ resv \in Seq(Reservation) /\ resv' \in Seq(Reservation) /\ Len(resv) \in Nat
           /\ DOMAIN resv = 1..Len(resv) /\ DOMAIN resv' = 1..n /\ Len(resv') = n
           /\ \A r \in DOMAIN resv : resv'[r] = resv[r]
           /\ resv'[n].order = Me(w) /\ resv'[n].product = TheItem(w).product
           /\ resv'[n].qty = TheItem(w).req /\ resv'[n].active /\ ~resv'[n].byHand
           /\ TheItem(w).req \in Nat \ {0} /\ pc[w] = "reserve"
<1>. DEFINE e == [order |-> Me(w), product |-> TheItem(w).product,
                  qty |-> TheItem(w).req, active |-> TRUE, byHand |-> FALSE]
<1>1. /\ pc[w] = "reserve" /\ resv' = Append(resv, e) /\ resv \in Seq(Reservation)
  BY DEF ReserveInsert, At, TInv, TypeOK, StoreTypeOK
<1>2. TheItem(w).product \in Products /\ TheItem(w).req \in Nat \ {0} /\ Me(w) \in Orders
  BY <1>1, LineTyped, Knows DEF LineLabels, ItemLabels
<1>3. /\ e \in Reservation /\ e.order = Me(w) /\ e.product = TheItem(w).product
      /\ e.qty = TheItem(w).req /\ e.active /\ ~e.byHand
  BY <1>2 DEF Reservation
<1>. HIDE DEF e
<1>4. /\ resv' \in Seq(Reservation) /\ DOMAIN resv' = 1..(Len(resv) + 1)
      /\ DOMAIN resv = 1..Len(resv) /\ Len(resv) \in Nat /\ Len(resv') = Len(resv) + 1
      /\ \A r \in DOMAIN resv : resv'[r] = resv[r]
      /\ resv'[Len(resv) + 1] = e
  BY <1>1, <1>3, AppendDocument, AppendProperties
<1>. QED  BY <1>1, <1>2, <1>3, <1>4

(* Who writes reservations.                                                *)
LEMMA ResvMoves ==
    ASSUME NEW w \in Workers, Acts(w), ~UNCHANGED resv
    PROVE  ReserveInsert(w) \/ \E R : \E hand \in BOOLEAN : Release(R, hand)
<1>1. ASSUME Begin(w) PROVE \E R : \E hand \in BOOLEAN : Release(R, hand)
  BY <1>1 DEF Begin, UpdateRead, ConfirmRead, CancelRead, PickRead, ShipRead, ScanRead,
              ReleaseOne, Move
<1>2. ASSUME Continue(w) PROVE ReserveInsert(w) \/ \E R : \E hand \in BOOLEAN : Release(R, hand)
  <2>1. ReserveInsert(w) \/ ReleaseAll(w) \/ ShipRelease(w)
    BY Zenon, <1>2 DEF Continue, Replace, ReservePhysical, ReserveSum,
                ConfirmCommit, CancelCommit, PickCommit, ShipCommit,
                CancelTasks, ShortageCheck, PlanItem, InsertTask, AddPicked, InsertEvent,
                CountOpen, CountAll, ReadEvents, RemoveCheck, TakeOut, Outbound
  <2>2. ReleaseAll(w) \/ ShipRelease(w) => Release({r \in DOMAIN resv : Held(r, Me(w))}, FALSE)
    BY DEF ReleaseAll, ShipRelease, ReleaseByOrder
  <2>. QED  BY <2>1, <2>2
<1>3. ~Crash(w) /\ ~CallFails(w)
  BY DEF Crash, GiveUp, CallFails
<1>. QED  BY <1>1, <1>2, <1>3 DEF Acts

LEMMA ActiveGrows ==
    ASSUME TInv, NEW w \in Workers, ReserveInsert(w), NEW p, p = TheItem(w).product
    PROVE  Active(p)' = Active(p) + TheItem(w).req
<1>. DEFINE n == Len(resv) + 1
<1>1. PICK q \in Nat \ {0} : q = TheItem(w).req
  BY Inserted
<1>. DEFINE T == {r \in DOMAIN resv : resv[r].active /\ resv[r].product = p}
<1>2. PICK f, g : f = Reserved /\ g = Reserved'
  OBVIOUS
<1>3. /\ \A r \in DOMAIN resv : f[r] = resv[r].qty /\ f[r] \in Int /\ g[r] = f[r]
      /\ g[n] = q
  <2>1. \A r \in DOMAIN resv : resv[r] \in Reservation /\ resv'[r] = resv[r] /\ r \in DOMAIN resv'
    BY Inserted, DocumentAt
  <2>2. n \in DOMAIN resv' /\ resv'[n].qty = q
    BY <1>1, Inserted
  <2>3. \A r \in DOMAIN resv' : g[r] = resv'[r].qty
    BY <1>2 DEF Reserved
  <2>. QED  BY <1>2, <2>1, <2>2, <2>3 DEF Reserved, Reservation
<1>4. IsFiniteSet(T) /\ T \subseteq DOMAIN resv /\ n \notin T
  BY Inserted, Positions, FS_Subset
<1>5. {r \in DOMAIN resv' : resv'[r].active /\ resv'[r].product = p} = T \cup {n}
  BY <1>1, Inserted
<1>6. Active(p)' = SumFunctionOnSet(g, T \cup {n}) /\ Active(p) = SumFunctionOnSet(f, T)
  BY <1>2, <1>5 DEF Active
<1>. HIDE DEF T, n
<1>7. SumFunctionOnSet(g, T \cup {n}) = SumFunctionOnSet(f, T) + q
  <2>1. \A x \in T : f[x] \in Int /\ g[x] = f[x]
    BY <1>3, <1>4
  <2>2. g[n] \in Int
    BY <1>3
  <2>3. IsFiniteSet(T) /\ n \notin T
    BY <1>4
  <2>4. SumFunctionOnSet(g, T \cup {n}) = SumFunctionOnSet(f, T) + g[n]
    BY ONLY ZenonT(30), <2>1, <2>2, <2>3, OneMore
  <2>. QED  BY <1>3, <2>4
<1>. QED  BY <1>1, <1>6, <1>7

LEMMA ActiveType ==
    ASSUME TInv, NEW p
    PROVE  Active(p) \in Int
<1>1. resv \in Seq(Reservation) /\ \A r \in DOMAIN resv : resv[r] \in Reservation
  BY DocumentAt DEF TInv, TypeOK, StoreTypeOK
<1>2. \A r \in DOMAIN resv : Reserved[r] \in Int
  BY <1>1 DEF Reserved, Reservation
<1>. QED  BY <1>1, <1>2, Positions, FS_Subset, SumType DEF Active

(* Nothing else makes the reservations of a product grow.                  *)
LEMMA ActiveMoves ==
    ASSUME TInv, NEW w \in Workers, Acts(w), NEW p
    PROVE  /\ Active(p) \in Int /\ Active(p)' \in Int
           /\ (ReserveInsert(w) => TheItem(w).product # p) => Active(p)' <= Active(p)
<1>. DEFINE T == {r \in DOMAIN resv : resv[r].active /\ resv[r].product = p}
            U == {r \in DOMAIN resv' : resv'[r].active /\ resv'[r].product = p}
<1>0. resv \in Seq(Reservation) /\ \A r \in DOMAIN resv : resv[r] \in Reservation
  BY DocumentAt DEF TInv, TypeOK, StoreTypeOK
<1>1. resv' \in Seq(Reservation) /\ \A r \in U : r \in T \/ ReserveInsert(w)
  <2>1. CASE UNCHANGED resv
    BY <1>0, <2>1
  <2>2. CASE ReserveInsert(w)
    BY <2>2, Inserted
  <2>3. ASSUME NEW R, NEW hand \in BOOLEAN, Release(R, hand)
        PROVE  resv' \in Seq(Reservation) /\ U \subseteq T
    <3>1. resv' \in Seq(Reservation)
      BY <1>0, <2>3, Released
    <3>2. ASSUME NEW r \in U PROVE r \in T
      <4>1. r \in DOMAIN resv /\ resv[r] \in Reservation
        BY <1>0, <2>3 DEF Release
      <4>2. r \notin R /\ resv'[r] = resv[r]
        <5>1. CASE r \in R
          <6>1. resv'[r] = [[resv[r] EXCEPT !.active = FALSE] EXCEPT !.byHand = hand]
            BY <2>3, <4>1, <5>1 DEF Release
          <6>2. ~resv'[r].active
            BY <4>1, <6>1 DEF Reservation
          <6>. QED  BY <6>2
        <5>2. CASE r \notin R
          BY <2>3, <4>1, <5>2 DEF Release
        <5>. QED  BY <5>1, <5>2
      <4>. QED  BY <4>1, <4>2
    <3>. QED  BY <3>1, <3>2
  <2>. HIDE DEF U, T
  <2>. QED  BY <2>1, <2>2, <2>3, ResvMoves
<1>2. \A r \in DOMAIN resv' : resv'[r] \in Reservation
  BY <1>1, DocumentAt
<1>3. \A x \in Reservation : x.qty \in Nat
  BY DEF Reservation
<1>4. PICK f, g : f = Reserved /\ g = Reserved'
  OBVIOUS
<1>5. /\ \A r \in T : f[r] = resv[r].qty /\ f[r] \in Nat
      /\ \A r \in U : g[r] = resv'[r].qty /\ g[r] \in Nat
  BY <1>0, <1>2, <1>3, <1>4 DEF Reserved
<1>6. IsFiniteSet(T) /\ IsFiniteSet(U)
  BY <1>0, <1>1, Positions, FS_Subset
<1>7. Active(p) = SumFunctionOnSet(f, T) /\ Active(p)' = SumFunctionOnSet(g, U)
  BY <1>4 DEF Active
<1>8. ASSUME ReserveInsert(w) => TheItem(w).product # p
      PROVE  U \subseteq T /\ \A r \in U : g[r] = f[r]
  <2>1. CASE ReserveInsert(w)
    <3>. DEFINE n == Len(resv) + 1
    <3>1. /\ DOMAIN resv = 1..Len(resv) /\ DOMAIN resv' = 1..n /\ Len(resv) \in Nat
          /\ \A r \in DOMAIN resv : resv'[r] = resv[r]
          /\ resv'[n].product # p
      BY <1>8, <2>1, Inserted
    <3>2. \A r \in U : r \in DOMAIN resv /\ resv'[r] = resv[r]
      BY <3>1
    <3>3. U \subseteq T
      BY <3>2
    <3>. QED  BY <1>5, <3>2, <3>3
  <2>2. CASE ~ReserveInsert(w)
    <3>1. U \subseteq T
      BY <1>1, <2>2
    <3>2. ASSUME NEW r \in U PROVE resv'[r].qty = resv[r].qty
      <4>1. r \in DOMAIN resv /\ resv[r] \in Reservation
        BY <1>0, <3>1
      <4>2. ASSUME NEW R, NEW hand \in BOOLEAN, Release(R, hand) PROVE resv'[r].qty = resv[r].qty
        <5>1. resv'[r] = IF r \in R THEN [[resv[r] EXCEPT !.active = FALSE] EXCEPT !.byHand = hand]
                         ELSE resv[r]
          BY <4>1, <4>2 DEF Release
        <5>. QED  BY <4>1, <5>1 DEF Reservation
      <4>. QED  BY <2>2, <4>2, ResvMoves
    <3>. QED  BY <1>5, <3>1, <3>2
  <2>. QED  BY <2>1, <2>2
<1>. HIDE DEF T, U
<1>9. SumFunctionOnSet(f, T) \in Int /\ SumFunctionOnSet(g, U) \in Int
  BY <1>5, <1>6, SumType
<1>10. ASSUME ReserveInsert(w) => TheItem(w).product # p
       PROVE  SumFunctionOnSet(g, U) <= SumFunctionOnSet(f, T)
  <2>1. \A r \in U : g[r] \in Nat /\ g[r] <= f[r]
    BY <1>5, <1>8, <1>10
  <2>. QED  BY <1>5, <1>6, <1>8, <1>10, <2>1, SumGrows
<1>. QED  BY <1>7, <1>9, <1>10

-----------------------------------------------------------------------------
(* The highest stock so far, and what a Confirm has read of it.            *)

Peaked ==
    /\ peak \in [Products -> Int]
    /\ \A p \in Products : 0 <= peak[p] /\ Physical(p) <= peak[p]
    /\ \A w \in Workers : pc[w] = "sumActive" => loc[w].n <= peak[TheItem(w).product]

LEMMA PeakMoves ==
    ASSUME TInv, TInv', Peaked, [Next]_vars
    PROVE  /\ peak' \in [Products -> Int]
           /\ \A p \in Products : peak[p] <= peak'[p] /\ Physical(p)' <= peak'[p]
<1>. DEFINE goal == /\ peak' \in [Products -> Int]
                    /\ \A p \in Products : peak[p] <= peak'[p] /\ Physical(p)' <= peak'[p]
<1>0. /\ stock \in [Slots -> Int] /\ stock' \in [Slots -> Int]
      /\ \A p : Physical(p) \in Int /\ Physical(p)' \in Int
  <2>1. stock \in [Slots -> Int] /\ stock' \in [Slots -> Int]
    BY DEF TInv, TypeOK
  <2>2. \A p : SumFunctionOnSet(stock, RowsOf(p)) \in Int /\ SumFunctionOnSet(stock', RowsOf(p)) \in Int
    BY <2>1, RowsFinite, SumType
  <2>. QED  BY <2>1, <2>2 DEF Physical
<1>1. ASSUME UNCHANGED peak, \A p \in Products : Physical(p)' <= Physical(p) PROVE goal
  BY <1>0, <1>1 DEF Peaked
<1>2. ASSUME UNCHANGED <<stock, peak>> PROVE goal
  BY <1>0, <1>1, <1>2 DEF Physical
<1>3. ASSUME NEW w \in Workers, TakeOut(w) PROVE goal
  <2>1. PICK x \in Slots, k \in Nat : stock' = [stock EXCEPT ![x] = @ - k]
    <3>1. loc[w].picks \in [Slots -> Nat] /\ loc[w].slot \in Slots
      BY Knows, WithTyped
    <3>2. PICK x, k : x = loc[w].slot /\ k = loc[w].picks[loc[w].slot]
      OBVIOUS
    <3>3. x \in Slots /\ k \in Nat
      BY <3>1, <3>2
    <3>4. stock' = [stock EXCEPT ![x] = @ - k]
      BY <1>3, <3>2 DEF TakeOut
    <3>. QED  BY <3>3, <3>4
  <2>2. \A s \in Slots : stock'[s] \in Int /\ stock[s] \in Int /\ stock'[s] <= stock[s]
    BY <1>0, <2>1
  <2>3. \A p : Physical(p)' <= Physical(p)
    BY <2>2, RowsFinite, SumMonotone DEF Physical
  <2>. QED  BY <1>1, <1>3, <2>3 DEF TakeOut
<1>4. ASSUME NEW w, NEW s, NEW d, Move(w, s, d) PROVE goal
  BY <1>0, <1>4 DEF Move, Peaked
<1>. HIDE DEF goal
<1>5. ASSUME NEW w \in Workers, Begin(w) PROVE goal
  <2>1. UNCHANGED <<stock, peak>> \/ \E s, d : Move(w, s, d)
    BY <1>5 DEF Begin, UpdateRead, ConfirmRead, CancelRead, PickRead, ShipRead, ScanRead, ReleaseOne
  <2>. QED  BY <1>2, <1>4, <2>1
<1>6. ASSUME NEW w \in Workers, Continue(w) PROVE goal
  <2>1. UNCHANGED <<stock, peak>> \/ TakeOut(w)
    BY Zenon, <1>6 DEF Continue, Replace, ReservePhysical, ReserveSum, ReserveInsert, ReleaseAll,
                ConfirmCommit, CancelCommit, PickCommit, ShipCommit,
                CancelTasks, ShortageCheck, PlanItem, InsertTask, AddPicked, InsertEvent,
                CountOpen, CountAll, ReadEvents, RemoveCheck, Outbound, ShipRelease
  <2>. QED  BY <1>2, <1>3, <1>6, <2>1
<1>7. ASSUME NEW w \in Workers, Crash(w) \/ CallFails(w) PROVE goal
  BY <1>2, <1>7 DEF Crash, GiveUp, CallFails
<1>8. Still => goal
  BY <1>2 DEF Still
<1>9. goal
  BY <1>5, <1>6, <1>7, <1>8, StepIs DEF Acts
<1>. QED  BY <1>9 DEF goal

LEMMA PeakedNext ==
    ASSUME LInv, TInv, TInv', Peaked, [Next]_vars
    PROVE  Peaked'
<1>0. /\ peak' \in [Products -> Int] /\ peak \in [Products -> Int]
      /\ \A p \in Products : /\ peak[p] <= peak'[p] /\ Physical(p)' <= peak'[p]
                             /\ peak[p] \in Int /\ peak'[p] \in Int /\ 0 <= peak[p]
  BY PeakMoves DEF Peaked
<1>1. ASSUME NEW v \in Workers, pc'[v] = "sumActive" \/ pc[v] = "sumActive"
      PROVE  /\ pc[v] = "sumActive" => TheItem(v).product \in Products /\ loc[v].n \in Int
             /\ pc'[v] = "sumActive" => loc'[v].n \in Int
  BY LineTyped, Knows, WithTyped DEF LineLabels, ItemLabels, TInv, TypeOK, Stands, Locals
<1>2. ASSUME NEW v \in Workers, pc'[v] = "sumActive", pc[v] = pc'[v], loc[v] = loc'[v]
      PROVE  loc'[v].n <= peak'[TheItem(v)'.product]
  <2>1. TheItem(v)' = TheItem(v)
    BY <1>2 DEF TheItem
  <2>2. loc[v].n <= peak[TheItem(v).product]
    BY <1>2 DEF Peaked
  <2>3. PICK p \in Products : p = TheItem(v).product /\ loc[v].n \in Int
    BY <1>1, <1>2
  <2>. QED  BY <1>0, <1>2, <2>1, <2>2, <2>3
<1>3. ASSUME NEW w \in Workers, Acts(w), pc'[w] = "sumActive"
      PROVE  loc'[w].n <= peak'[TheItem(w)'.product]
  <2>1. CASE Rests(w)
    BY <1>2, <1>3, <2>1 DEF Rests
  <2>2. CASE Came(w)
    <3>1. ReservePhysical(w)
      BY <1>3, <2>2 DEF Came
    <3>2. PICK p \in Products : p = TheItem(w).product
      BY <3>1, LineTyped, ReservingTrace DEF LineLabels, ItemLabels
    <3>3. loc'[w].n = Physical(p) /\ TheItem(w)' = TheItem(w)
      BY <3>1, <3>2, ReservingTrace DEF TheItem
    <3>4. Physical(p) <= peak[p] /\ Physical(p) \in Int
      BY StockSums DEF Peaked, TInv, TypeOK
    <3>. QED  BY <1>0, <3>2, <3>3, <3>4
  <2>. QED  BY <1>3, <2>1, <2>2, ComesFrom
<1>4. \A v \in Workers : pc'[v] = "sumActive" => loc'[v].n <= peak'[TheItem(v)'.product]
  <2>1. CASE Still
    BY <1>2, <2>1 DEF Still
  <2>2. ASSUME NEW w \in Workers, Acts(w), NEW v \in Workers, pc'[v] = "sumActive"
        PROVE  loc'[v].n <= peak'[TheItem(v)'.product]
    BY <1>2, <1>3, <2>2, OthersWait
  <2>. QED  BY <2>1, <2>2, StepIs
<1>5. \A p \in Products : 0 <= peak'[p]
  BY <1>0
<1>. QED  BY <1>0, <1>4, <1>5 DEF Peaked

-----------------------------------------------------------------------------
(* Reservations of a product: those there are, and those that have passed  *)
(* their check and are still to be inserted.                               *)

Largest(m) == m \in Asked /\ \A n \in Asked : n <= m

Pending(p) ==
    [v \in Workers |->
        IF pc[v] = "reserve" /\ TheItem(v).product = p THEN TheItem(v).req ELSE 0]

Slack(m) == (Cardinality(Workers) - 1) * m

Fitting ==
    \A p \in Products : \A m : Largest(m) =>
        Active(p) + SumFunction(Pending(p)) <= peak[p] + Slack(m)

LEMMA AskedOf ==
    ASSUME LInv, TInv, NEW w \in Workers, pc[w] \in ItemLabels
    PROVE  TheItem(w).req \in Asked /\ TheItem(w).req \in Nat \ {0}
<1>1. Lines(loc[w].items) \in Carts
  BY DEF LInv, LocalOK, Agreed, ItemLabels, ReserveLabels
<1>2. loc[w].i \in DOMAIN loc[w].items /\ TheItem(w).req \in Nat \ {0}
  BY LineTyped, Knows, WithTyped, LenProperties DEF LineLabels
<1>3. /\ loc[w].i \in DOMAIN Lines(loc[w].items)
      /\ Lines(loc[w].items)[loc[w].i].req = TheItem(w).req
  BY <1>2 DEF Lines, TheItem
<1>. QED  BY <1>1, <1>2, <1>3 DEF Asked

LEMMA SlackType ==
    ASSUME NEW m \in Asked
    PROVE  m \in Nat /\ Slack(m) \in Nat
<1>1. PICK c \in Carts : \E k \in DOMAIN c : m = c[k].req
  BY DEF Asked
<1>2. \A k \in DOMAIN c : c[k] \in Line
  BY <1>1, StoreAssumption, DocumentAt
<1>3. m \in Nat
  BY <1>1, <1>2 DEF Line
<1>4. Cardinality(Workers) - 1 \in Nat
  BY StoreAssumption, FS_EmptySet, FS_CardinalityType
<1>. QED  BY <1>3, <1>4 DEF Slack

LEMMA PendingType ==
    ASSUME LInv, TInv, NEW p
    PROVE  /\ Pending(p) \in [Workers -> Nat]
           /\ \A v \in Workers : Pending(p)[v] = 0 \/ Pending(p)[v] \in Asked
<1>1. \A v \in Workers : pc[v] = "reserve" => TheItem(v).req \in Asked /\ TheItem(v).req \in Nat
  BY AskedOf DEF ItemLabels
<1>. QED  BY <1>1 DEF Pending

PendingOK ==
    \A p : /\ Pending(p) \in [Workers -> Nat]
           /\ \A v \in Workers : Pending(p)[v] = 0 \/ Pending(p)[v] \in Asked

LEMMA PendingNext == LInv' /\ TInv' => PendingOK'
<1>1. LInv /\ TInv => PendingOK
  BY PendingType DEF PendingOK
<1>. QED  BY <1>1, PTL

(* A step of w changes what w has pending, and nothing else.               *)
LEMMA PendingMoves ==
    ASSUME LInv, TInv, NEW w \in Workers, Acts(w), NEW p
    PROVE  /\ \A v \in Workers \ {w} : Pending(p)'[v] = Pending(p)[v]
           /\ \/ Pending(p)'[w] = 0 /\ ~ReserveInsert(w)
              \/ Pending(p)'[w] = Pending(p)[w] /\ ~ReserveInsert(w)
              \/ /\ ReserveInsert(w) /\ Pending(p)'[w] = 0
                 /\ TheItem(w).product = p => Pending(p)[w] = TheItem(w).req
              \/ /\ ReserveSum(w) /\ pc'[w] = "reserve" /\ pc[w] = "sumActive"
                 /\ TheItem(w).product = p /\ Pending(p)'[w] = TheItem(w).req
<1>1. \A v \in Workers \ {w} : Pending(p)'[v] = Pending(p)[v]
  <2>1. ASSUME NEW v \in Workers \ {w} PROVE Pending(p)'[v] = Pending(p)[v]
    <3>1. pc'[v] = pc[v] /\ TheItem(v)' = TheItem(v)
      BY OthersWait DEF TheItem
    <3>. QED  BY <3>1 DEF Pending
  <2>. QED  BY <2>1
<1>2. CASE ReserveInsert(w)
  <2>1. pc[w] = "reserve" /\ pc'[w] # "reserve"
    BY <1>2, ReservingTrace
  <2>. QED  BY <1>1, <1>2, <2>1 DEF Pending
<1>3. CASE ~ReserveInsert(w) /\ pc'[w] # "reserve"
  BY <1>1, <1>3 DEF Pending
<1>4. CASE ~ReserveInsert(w) /\ pc'[w] = "reserve"
  <2>1. CASE Rests(w)
    <3>1. pc'[w] = pc[w] /\ TheItem(w)' = TheItem(w)
      BY <2>1 DEF Rests, TheItem
    <3>2. Pending(p)'[w] = Pending(p)[w]
      BY <3>1 DEF Pending
    <3>. QED  BY <1>1, <1>4, <3>2
  <2>2. CASE Came(w)
    <3>1. ReserveSum(w)
      BY <1>4, <2>2 DEF Came
    <3>2. pc[w] = "sumActive" /\ TheItem(w)' = TheItem(w)
      BY <3>1, ReservingTrace DEF TheItem
    <3>3. CASE TheItem(w).product = p
      <4>1. Pending(p)'[w] = TheItem(w).req
        BY <1>4, <3>2, <3>3 DEF Pending
      <4>. QED  BY <1>1, <1>4, <3>1, <3>2, <3>3, <4>1
    <3>4. CASE TheItem(w).product # p
      <4>1. Pending(p)'[w] = 0
        BY <3>2, <3>4 DEF Pending
      <4>. QED  BY <1>1, <1>4, <4>1
    <3>. QED  BY <3>3, <3>4
  <2>. QED  BY <2>1, <2>2, ComesFrom
<1>. QED  BY <1>2, <1>3, <1>4

LEMMA PassesCheck ==
    ASSUME TInv, NEW w \in Workers, ReserveSum(w), pc'[w] = "reserve", NEW p, p = TheItem(w).product
    PROVE  Active(p)' = Active(p) /\ ~(Available(loc[w].n, Active(p)) < TheItem(w).req)
<1>1. Active(p)' = Active(p)
  BY DEF ReserveSum, Active, Reserved
<1>2. ~Rollback(w)
  <2>1. ASSUME Rollback(w) PROVE FALSE
    BY <2>1, Gone DEF Rollback
  <2>. QED  BY <2>1
<1>. QED  BY <1>1, <1>2 DEF ReserveSum

LEMMA FittingNext ==
    ASSUME LInv, LInv', TInv, TInv', Peaked, Fitting, [Next]_vars
    PROVE  Fitting'
<1>. SUFFICES ASSUME NEW p \in Products, NEW m, Largest(m)
              PROVE  Active(p)' + SumFunction(Pending(p)') <= peak'[p] + Slack(m)
  BY DEF Fitting, Largest, Slack
<1>1. PICK a, b, h, k, s : /\ a = Active(p) /\ b = Active(p)' /\ h = peak[p] /\ k = peak'[p]
                           /\ s = Slack(m)
  OBVIOUS
<1>2. PICK f, g : f = Pending(p) /\ g = Pending(p)'
  OBVIOUS
<1>3. /\ h \in Int /\ k \in Int /\ h <= k /\ s \in Int /\ m \in Int
  BY <1>1, PeakMoves, SlackType DEF Peaked, Largest
<1>4. /\ f \in [Workers -> Int] /\ g \in [Workers -> Int]
      /\ \A v \in Workers : f[v] \in Nat /\ g[v] <= m
  <2>1. f \in [Workers -> Nat]
    BY <1>2, PendingType
  <2>2. g = [v \in Workers |-> g[v]] /\ \A v \in Workers : g[v] \in Nat /\ g[v] <= m
    <3>1. g = [v \in Workers |-> g[v]]
      BY <1>2 DEF Pending
    <3>2. ASSUME NEW v \in Workers PROVE g[v] \in Nat /\ g[v] <= m
      <4>1. g[v] = 0 \/ g[v] \in Asked
        BY <1>2, PendingNext DEF PendingOK
      <4>. QED  BY <4>1, SlackType DEF Largest
    <3>. QED  BY <3>1, <3>2
  <2>. QED  BY <2>1, <2>2
<1>5. SumFunction(f) \in Int /\ SumFunction(g) \in Int /\ a + SumFunction(f) <= h + s
  BY <1>1, <1>2, <1>4, SumFunctionType, StoreAssumption DEF Fitting
<1>6. CASE Still
  <2>1. b = a /\ g = f
    <3>1. \A v \in Workers : TheItem(v)' = TheItem(v) /\ pc'[v] = pc[v]
      BY <1>6 DEF Still, TheItem
    <3>2. Pending(p)' = Pending(p)
      BY <3>1 DEF Pending
    <3>. QED  BY <1>1, <1>2, <1>6, <3>2 DEF Still, Active, Reserved
  <2>2. a \in Int
    BY <1>1, ActiveType
  <2>. QED  BY <1>1, <1>2, <1>3, <1>5, <2>1, <2>2
<1>7. ASSUME NEW w \in Workers, Acts(w) PROVE b + SumFunction(g) <= k + s
  <2>1. /\ \A v \in Workers : v # w => g[v] = f[v]
        /\ \/ g[w] = 0 /\ ~ReserveInsert(w)
           \/ g[w] = f[w] /\ ~ReserveInsert(w)
           \/ /\ ReserveInsert(w) /\ g[w] = 0
              /\ TheItem(w).product = p => f[w] = TheItem(w).req
           \/ /\ ReserveSum(w) /\ pc'[w] = "reserve" /\ pc[w] = "sumActive"
              /\ TheItem(w).product = p /\ g[w] = TheItem(w).req
    BY <1>2, <1>7, PendingMoves
  <2>2. /\ a \in Int /\ b \in Int
        /\ (ReserveInsert(w) => TheItem(w).product # p) => b <= a
    BY <1>1, <1>7, ActiveMoves
  <2>3. SumFunction(g) = SumFunction(f) - f[w] + g[w]
    <3>1. \A v \in Workers : v # w => g[v] = f[v]
      BY <2>1
    <3>2. IsFiniteSet(Workers)
      BY StoreAssumption
    <3>3. f \in [Workers -> Int] /\ g \in [Workers -> Int]
      BY <1>4
    <3>. QED  BY <1>7, <3>1, <3>2, <3>3, SumFunctionChange
  <2>4. f[w] \in Nat /\ g[w] \in Int
    BY <1>4
  <2>5. CASE g[w] <= f[w] /\ b <= a
    BY <1>3, <1>5, <2>2, <2>3, <2>4, <2>5
  <2>6. CASE ReserveInsert(w) /\ TheItem(w).product = p
    <3>1. b = a + TheItem(w).req
      BY <1>1, <2>6, ActiveGrows
    <3>2. g[w] = 0 /\ f[w] = TheItem(w).req
      <4>1. pc[w] = "reserve"
        BY <2>6, ReservingTrace
      <4>. QED  BY <2>1, <2>6, <4>1
    <3>. QED  BY <1>3, <1>5, <2>2, <2>3, <2>4, <3>1, <3>2
  <2>7. CASE ReserveSum(w) /\ pc'[w] = "reserve" /\ pc[w] = "sumActive"
               /\ TheItem(w).product = p /\ g[w] = TheItem(w).req
    <3>1. PICK n, q : n = loc[w].n /\ q = TheItem(w).req
      OBVIOUS
    <3>2. n \in Int /\ q \in Nat
      BY <2>7, <3>1, Knows, WithTyped, LineTyped DEF LineLabels, ItemLabels
    <3>3. b = a /\ ~(n - a < q)
      BY <1>1, <2>7, <3>1, PassesCheck DEF Available
    <3>4. n <= h
      BY <1>1, <2>7, <3>1 DEF Peaked
    <3>5. SumFunction(g) <= g[w] + s
      BY <1>1, <1>3, <1>4, SumFunctionOthers, StoreAssumption DEF Slack
    <3>. QED  BY <1>3, <1>5, <2>2, <2>7, <3>1, <3>2, <3>3, <3>4, <3>5
  <2>8. \/ g[w] <= f[w] /\ b <= a
        \/ ReserveInsert(w) /\ TheItem(w).product = p
        \/ /\ ReserveSum(w) /\ pc'[w] = "reserve" /\ pc[w] = "sumActive"
           /\ TheItem(w).product = p /\ g[w] = TheItem(w).req
    BY <2>1, <2>2, <2>4
  <2>. QED  BY <2>5, <2>6, <2>7, <2>8
<1>. QED  BY <1>1, <1>2, <1>6, <1>7, StepIs

(* However many Confirms race and whatever fails, moves or is released:    *)
(* the active reservations of a product exceed the most there has ever     *)
(* been of it by less than one largest item for every other worker,        *)
(* because each worker passes its check once for each insert.              *)
THEOREM OverReservationIsBounded == Spec => []OverReserveBounded
<1>1. Init => LInv /\ TInv /\ Peaked /\ Fitting
  <2>. SUFFICES ASSUME Init PROVE Peaked /\ Fitting
    BY LInvInit, TInvInit
  <2>1. TInv /\ LInv /\ \A w \in Workers : pc[w] = "idle"
    BY LInvInit, TInvInit DEF Init
  <2>2. \A p : Physical(p) \in Int
    BY <2>1, StockSums DEF TInv, TypeOK
  <2>3. Peaked
    BY <2>1, <2>2 DEF Init, Peaked
  <2>4. ASSUME NEW p \in Products, NEW m, Largest(m)
        PROVE  Active(p) + SumFunction(Pending(p)) <= peak[p] + Slack(m)
    <3>1. Active(p) = 0
      <4>1. {r \in DOMAIN resv : resv[r].active /\ resv[r].product = p} = {}
        BY DEF Init
      <4>. QED  BY <4>1, SumOfNothing DEF Active
    <3>2. PICK f : f = Pending(p)
      OBVIOUS
    <3>3. f \in [Workers -> Int] /\ \A v \in Workers : f[v] = 0
      BY <2>1, <3>2 DEF Pending
    <3>4. SumFunction(f) = 0
      BY <3>3, SumFunctionZero, StoreAssumption
    <3>5. peak[p] \in Int /\ 0 <= peak[p]
      BY <2>3 DEF Peaked
    <3>6. m \in Asked
      BY <2>4 DEF Largest
    <3>7. Slack(m) \in Nat
      BY <3>6, SlackType
    <3>. QED  BY <3>1, <3>2, <3>4, <3>5, <3>7
  <2>. QED  BY <2>3, <2>4 DEF Fitting
<1>2. LInv /\ TInv /\ Peaked /\ Fitting /\ [Next]_vars => (LInv /\ TInv /\ Peaked /\ Fitting)'
  BY LInvNext, TInvNext, PeakedNext, FittingNext DEF Kept
<1>3. LInv /\ TInv /\ Peaked /\ Fitting => OverReserveBounded
  <2>. SUFFICES ASSUME LInv, TInv, Peaked, Fitting, NEW p \in Products, NEW m \in Asked,
                       \A n \in Asked : n <= m
                PROVE  Active(p) <= peak[p] + Slack(m)
    BY DEF OverReserveBounded, Slack
  <2>1. Active(p) + SumFunction(Pending(p)) <= peak[p] + Slack(m)
    BY DEF Fitting, Largest
  <2>2. SumFunction(Pending(p)) \in Nat
    BY PendingType, SumFunctionNat, StoreAssumption
  <2>3. Active(p) \in Int /\ peak[p] \in Int /\ Slack(m) \in Nat
    BY ActiveType, SlackType DEF Peaked
  <2>. QED  BY <2>1, <2>2, <2>3
<1>. QED  BY <1>1, <1>2, <1>3, PTL DEF Spec

-----------------------------------------------------------------------------
(* What a Ship that takes stock out does next.                             *)

Carries(w) ==
    /\ pc'[w] \in TakeOutLabels /\ Me(w)' = Me(w) /\ loc'[w].picks = loc[w].picks
    /\ UNCHANGED <<shipped, halted>>

LEMMA Takes ==
    ASSUME TInv, NEW w \in Workers, Acts(w), pc[w] \in TakeOutLabels
    PROVE  \/ Outbound(w)
           \/ pc'[w] = "idle" /\ Halts(w) /\ UNCHANGED shipped
           \/ ShipCommit(w)
           \/ Carries(w)
<1>0. pc[w] \in {"removeCheck", "remove", "outbound", "shipRelease", "ship"}
  BY DEF TakeOutLabels, ShipLabels
<1>1. ~Begin(w)
  <2>1. Begin(w) => pc[w] = "idle"
    BY ZenonT(40) DEF Begin, UpdateRead, ConfirmRead, CancelRead, PickRead, ShipRead, ScanRead,
                ReleaseOne, Move, Start, Once
  <2>. QED  BY <1>0, <2>1
<1>2. ASSUME Continue(w)
      PROVE  RemoveCheck(w) \/ TakeOut(w) \/ Outbound(w) \/ ShipRelease(w) \/ ShipCommit(w)
  <2>1. /\ pc[w] \notin {"replace", "physical", "sumActive", "reserve", "confirm", "release"}
        /\ pc[w] \notin {"cancel", "cancelTasks", "shortage", "plan", "insertTasks", "startPick"}
        /\ pc[w] \notin {"addPicked", "event", "countOpen", "countAll", "events"}
    BY <1>0
  <2>. QED  BY Zenon, <1>2, <2>1 DEF Continue, Replace, ReservePhysical, ReserveSum, ReserveInsert, ReleaseAll,
                ConfirmCommit, CancelCommit, PickCommit, At,
                CancelTasks, ShortageCheck, PlanItem, InsertTask, AddPicked, InsertEvent,
                CountOpen, CountAll, ReadEvents
<1>3. {"remove", "outbound", "ship"} \subseteq TakeOutLabels
  BY DEF TakeOutLabels, ShipLabels
<1>4. ASSUME RemoveCheck(w)
      PROVE  (pc'[w] = "idle" /\ Halts(w) /\ UNCHANGED shipped) \/ Carries(w)
  <2>1. /\ UNCHANGED shipped
        /\ \/ Finish(w) /\ Halts(w)
           \/ (\E s : Goto(w, "remove", [loc[w] EXCEPT !.slot = s])) /\ UNCHANGED halted
    BY <1>4 DEF RemoveCheck
  <2>2. (\E s : Goto(w, "remove", [loc[w] EXCEPT !.slot = s])) => pc'[w] = "remove"
    BY Gone
  <2>. QED  BY <1>3, <1>4, <2>1, <2>2, Ended, ShippingTrace DEF Carries
<1>5. ASSUME TakeOut(w) PROVE Carries(w)
  <2>1. UNCHANGED <<shipped, halted>>
    BY <1>5 DEF TakeOut
  <2>. QED  BY <1>3, <1>5, <2>1, ShippingTrace DEF Carries
<1>6. ASSUME ShipRelease(w) PROVE Carries(w)
  <2>1. UNCHANGED <<shipped, halted>>
    BY <1>6 DEF ShipRelease
  <2>. QED  BY <1>3, <1>6, <2>1, ShippingTrace DEF Carries
<1>7. ASSUME CallFails(w) PROVE Carries(w)
  <2>1. UNCHANGED <<shipped, halted>>
    BY <1>7 DEF CallFails
  <2>2. pc[w] \notin ReserveLabels \cup {"cancelTasks"}
    BY <1>0 DEF ReserveLabels
  <2>. QED  BY <1>3, <1>7, <2>1, <2>2, ElseTrace DEF Carries
<1>8. ASSUME Crash(w) PROVE pc'[w] = "idle" /\ Halts(w) /\ UNCHANGED shipped
  <2>1. GiveUp(w)
    BY <1>8 DEF Crash
  <2>2. Halts(w) /\ UNCHANGED shipped
    BY <2>1 DEF GiveUp
  <2>. QED  BY <1>8, <2>2, ElseTrace
<1>. QED  BY <1>1, <1>2, <1>4, <1>5, <1>6, <1>7, <1>8 DEF Acts

LEMMA NoneTaken ==
    ASSUME TInv, NEW w \in Workers, Acts(w), pc[w] \notin TakeOutLabels
    PROVE  /\ UNCHANGED <<shipped, halted>>
           /\ pc'[w] \in TakeOutLabels => ReadEvents(w)
<1>1. UNCHANGED <<shipped, halted>>
  <2>1. ASSUME Begin(w) PROVE UNCHANGED <<shipped, halted>>
    BY ZenonT(40), <2>1 DEF Begin, UpdateRead, ConfirmRead, CancelRead, PickRead, ShipRead, ScanRead,
                ReleaseOne, Move
  <2>2. ~RemoveCheck(w) /\ ~Outbound(w)
    <3>1. "removeCheck" \in TakeOutLabels /\ "outbound" \in TakeOutLabels
      BY DEF TakeOutLabels, ShipLabels
    <3>. QED  BY <3>1 DEF RemoveCheck, Outbound, At
  <2>3. ASSUME Continue(w) PROVE UNCHANGED <<shipped, halted>>
    BY Zenon, <2>2, <2>3 DEF Continue, Replace, ReservePhysical, ReserveSum, ReserveInsert, ReleaseAll,
                ConfirmCommit, CancelCommit, PickCommit, ShipCommit,
                CancelTasks, ShortageCheck, PlanItem, InsertTask, AddPicked, InsertEvent,
                CountOpen, CountAll, ReadEvents, TakeOut, ShipRelease
  <2>4. ASSUME Crash(w) \/ CallFails(w) PROVE UNCHANGED <<shipped, halted>>
    BY <2>4 DEF Crash, GiveUp, CallFails
  <2>. QED  BY <2>1, <2>3, <2>4 DEF Acts
<1>2. ASSUME pc'[w] \in TakeOutLabels PROVE ReadEvents(w)
  <2>0. pc'[w] \in {"removeCheck", "remove", "outbound", "shipRelease", "ship"}
    BY <1>2 DEF TakeOutLabels, ShipLabels
  <2>1. CASE Rests(w)
    BY <1>2, <2>1 DEF Rests
  <2>2. CASE Came(w)
    <3>1. ReadEvents(w) \/ Outbound(w) \/ RemoveCheck(w) \/ TakeOut(w) \/ ShipRelease(w)
             \/ (CallFails(w) /\ pc'[w] = "ship")
      BY <2>0, <2>2 DEF Came
    <3>2. pc[w] \notin {"removeCheck", "remove", "outbound", "shipRelease"}
      BY DEF TakeOutLabels, ShipLabels
    <3>. QED  BY <3>1, <3>2, ShippingTrace, ElseTrace
  <2>. QED  BY <2>1, <2>2, ComesFrom
<1>. QED  BY <1>1, <1>2

(* A Ship starts with an order that is being picked.                       *)
LEMMA ShipsPicking ==
    ASSUME TInv, NEW w \in Workers, Acts(w), pc'[w] \in ShipLabels
    PROVE  (pc[w] \in ShipLabels /\ Me(w)' = Me(w)) \/ status[Me(w)'] = "PICKING"
<1>0. /\ {"countOpen", "countAll", "events", "removeCheck", "remove", "outbound", "shipRelease",
          "ship"} = ShipLabels
      /\ "idle" \notin ShipLabels
  BY DEF ShipLabels
<1>1. ASSUME Begin(w) PROVE (pc[w] \in ShipLabels /\ Me(w)' = Me(w)) \/ status[Me(w)'] = "PICKING"
  <2>1. ASSUME NEW o, ShipRead(w, o) PROVE status[Me(w)'] = "PICKING"
    <3>1. status[o] = "PICKING"
      BY <2>1 DEF ShipRead
    <3>. QED  BY <2>1, <3>1, ReadsTrace
  <2>2. ASSUME NEW o, UpdateRead(w, o) \/ ConfirmRead(w, o) \/ CancelRead(w, o) \/ PickRead(w, o)
        PROVE  FALSE
    <3>1. pc'[w] \in {"replace", "physical", "cancel", "shortage"}
      BY <2>2, ReadsTrace
    <3>. QED  BY <1>0, <3>1
  <2>3. ASSUME NEW t, NEW q, ScanRead(w, t, q) PROVE FALSE
    <3>1. pc'[w] = "addPicked"
      BY <2>3, ReadsTrace
    <3>. QED  BY <1>0, <3>1
  <2>4. ASSUME NEW r, NEW s, NEW d, ReleaseOne(w, r) \/ Move(w, s, d) PROVE FALSE
    <3>1. pc[w] = "idle" /\ pc'[w] = pc[w]
      BY <2>4, ElseTrace
    <3>. QED  BY <1>0, <3>1
  <2>. QED  BY <1>1, <2>1, <2>2, <2>3, <2>4 DEF Begin
<1>2. ASSUME ~Begin(w) PROVE pc[w] \in ShipLabels /\ Me(w)' = Me(w)
  <2>1. CASE Crash(w)
    BY <1>0, <2>1, ElseTrace
  <2>2. CASE CallFails(w)
    <3>1. pc[w] = "shipRelease" /\ Me(w)' = Me(w)
      BY <1>0, <2>2, ElseTrace
    <3>. QED  BY <1>0, <3>1
  <2>3. CASE Continue(w)
    <3>1. CASE pc[w] \in ShipLabels
      <4>1. \/ CountOpen(w) \/ CountAll(w) \/ ReadEvents(w) \/ RemoveCheck(w) \/ TakeOut(w)
            \/ Outbound(w) \/ ShipRelease(w) \/ ShipCommit(w)
        <5>1. /\ pc[w] \notin {"replace", "physical", "sumActive", "reserve", "confirm", "release"}
              /\ pc[w] \notin {"cancel", "cancelTasks", "shortage", "plan", "insertTasks", "startPick"}
              /\ pc[w] \notin {"addPicked", "event"}
          BY <1>0, <3>1
        <5>. QED  BY Zenon, <2>3, <5>1 DEF Continue, Replace, ReservePhysical, ReserveSum, ReserveInsert,
                ReleaseAll, ConfirmCommit, CancelCommit, PickCommit, At,
                CancelTasks, ShortageCheck, PlanItem, InsertTask, AddPicked, InsertEvent
      <4>2. ~ShipCommit(w)
        BY <1>0, OrderingTrace
      <4>3. pc'[w] # "idle"
        BY <1>0
      <4>4. Me(w)' = Me(w)
        BY <4>1, <4>2, <4>3, ShippingTrace
      <4>. QED  BY <3>1, <4>4
    <3>2. CASE pc[w] \notin ShipLabels
      <4>1. \/ Replace(w) \/ ReservePhysical(w) \/ ReserveSum(w) \/ ReserveInsert(w) \/ ConfirmCommit(w)
            \/ ReleaseAll(w) \/ CancelCommit(w) \/ CancelTasks(w)
            \/ ShortageCheck(w) \/ PlanItem(w) \/ InsertTask(w) \/ PickCommit(w)
            \/ AddPicked(w) \/ InsertEvent(w)
        <5>1. \A a \in ShipLabels : pc[w] # a
          BY <3>2
        <5>2. /\ pc[w] # "countOpen" /\ pc[w] # "countAll" /\ pc[w] # "events"
              /\ pc[w] # "removeCheck" /\ pc[w] # "remove" /\ pc[w] # "outbound"
              /\ pc[w] # "shipRelease" /\ pc[w] # "ship"
          BY <1>0, <3>2
        <5>. QED  BY Zenon, <2>3, <5>2 DEF Continue, CountOpen, CountAll, ReadEvents, RemoveCheck, TakeOut,
                Outbound, ShipRelease, ShipCommit, At
      <4>2. AfterCancel(loc[w].from) \in {"cancelTasks", "release", "idle"}
        BY DEF AfterCancel
      <4>3. pc'[w] \in {"idle", "sumActive", "reserve", "release", "confirm", "physical", "cancelTasks",
                        "shortage", "plan", "insertTasks", "startPick", "event"}
        <5>1. CASE Replace(w) \/ ReservePhysical(w) \/ ReserveSum(w) \/ ReserveInsert(w)
                      \/ ConfirmCommit(w) \/ ReleaseAll(w)
          BY <5>1, ReservingTrace, OrderingTrace
        <5>2. CASE CancelCommit(w) \/ CancelTasks(w) \/ PickCommit(w)
          BY <4>2, <5>2, OrderingTrace
        <5>3. CASE ShortageCheck(w) \/ PlanItem(w) \/ InsertTask(w) \/ AddPicked(w) \/ InsertEvent(w)
          BY <5>3, PickingTrace
        <5>. QED  BY <4>1, <5>1, <5>2, <5>3
      <4>. QED  BY <1>0, <4>3
    <3>. QED  BY <3>1, <3>2
  <2>. QED  BY <1>2, <2>1, <2>2, <2>3 DEF Acts
<1>. QED  BY <1>1, <1>2

-----------------------------------------------------------------------------
(* How often an order has been taken out: once for every Ship that stopped *)
(* half way; as far as it has got, by every Ship that is doing it; and     *)
(* once, when the order has reached its end, by any other request, which   *)
(* may have been the one that shipped it.                                  *)

Final(o) == status[o] \in {"SHIPPED", "CANCELLED"}

Took(o, s, v) ==
    IF pc[v] \in TakeOutLabels /\ Me(v) = o THEN EventsAt(o, s) - loc[v].picks[s]
    ELSE IF Final(o) /\ ~(pc[v] \in ShipLabels /\ Me(v) = o) THEN EventsAt(o, s)
    ELSE 0

AllTook(o, s) == [v \in Workers |-> Took(o, s, v)]

Rows ==
    /\ halted \in [Orders -> Nat]
    /\ \A v \in Workers : pc[v] \in TakeOutLabels =>
          \A s \in Slots : loc[v].picks[s] <= EventsAt(Me(v), s)

Outs ==
    \A o \in Orders, s \in Slots :
        shipped[o][s] <= EventsAt(o, s) * halted[o] + SumFunction(AllTook(o, s))

LEMMA EventsGrow ==
    ASSUME TInv, NEW w \in Workers, Acts(w), NEW o, NEW s
    PROVE  /\ EventsAt(o, s) \in Nat /\ EventsAt(o, s)' \in Nat
           /\ EventsAt(o, s) <= EventsAt(o, s)'
<1>0. TasksMove(w) /\ tasks \in Seq(Task) /\ tasks' \in Seq(Task)
  BY TasksMoved DEF TasksMove
<1>1. PICK f, g : f = Recorded /\ g = Recorded'
  OBVIOUS
<1>2. PICK T, S : /\ T = {t \in TasksOf(o) : tasks[t].slot = s}
                  /\ S = {t \in TasksOf(o)' : tasks'[t].slot = s}
  OBVIOUS
<1>3. IsFiniteSet(S) /\ S \subseteq DOMAIN tasks' /\ T \subseteq DOMAIN tasks
  <2>1. S \subseteq DOMAIN tasks' /\ T \subseteq DOMAIN tasks
    BY <1>2 DEF TasksOf
  <2>2. IsFiniteSet(DOMAIN tasks')
    BY <1>0, Positions
  <2>. QED  BY <2>1, <2>2, FS_Subset
<1>4. T \subseteq S
  BY <1>0, <1>2 DEF TasksMove, Later, TasksOf
<1>5. \A t \in S : g[t] \in Nat
  <2>1. \A t \in DOMAIN tasks' : tasks'[t] \in Task
    BY <1>0, DocumentAt
  <2>. QED  BY <1>1, <1>3, <2>1 DEF Recorded, Task
<1>6. \A t \in T : f[t] \in Nat /\ f[t] <= g[t]
  <2>1. \A t \in DOMAIN tasks : tasks[t] \in Task
    BY <1>0, DocumentAt
  <2>. QED  BY <1>0, <1>1, <1>3, <1>4, <2>1 DEF Recorded, Task, TasksMove, Later
<1>7. SumFunctionOnSet(f, T) <= SumFunctionOnSet(g, S)
  BY <1>3, <1>4, <1>5, <1>6, SumGrows
<1>8. EventsAt(o, s) = SumFunctionOnSet(f, T) /\ EventsAt(o, s)' = SumFunctionOnSet(g, S)
  BY <1>1, <1>2 DEF EventsAt
<1>9. SumFunctionOnSet(f, T) \in Nat /\ SumFunctionOnSet(g, S) \in Nat
  <2>1. IsFiniteSet(T)
    BY <1>3, <1>4, FS_Subset
  <2>. QED  BY <1>3, <1>5, <1>6, <2>1, SumOnNat
<1>. QED  BY <1>7, <1>8, <1>9

LEMMA TookTyped ==
    ASSUME TInv, Rows, NEW o \in Orders, NEW s \in Slots, NEW v \in Workers
    PROVE  Took(o, s, v) \in Nat /\ Took(o, s, v) <= EventsAt(o, s) /\ EventsAt(o, s) \in Nat
<1>1. EventsAt(o, s) \in Nat
  BY EventSums DEF TInv, TypeOK
<1>2. loc[v].picks[s] \in Nat
  BY Knows, WithTyped
<1>3. pc[v] \in TakeOutLabels /\ Me(v) = o => loc[v].picks[s] <= EventsAt(o, s)
  BY DEF Rows
<1>. QED  BY <1>1, <1>2, <1>3 DEF Took

TookNatural == \A o \in Orders, s \in Slots, v \in Workers :
    Took(o, s, v) \in Nat /\ Took(o, s, v) <= EventsAt(o, s) /\ EventsAt(o, s) \in Nat

LEMMA TookTypedNext == TInv' /\ Rows' => TookNatural'
<1>1. TInv /\ Rows => TookNatural
  BY TookTyped DEF TookNatural
<1>. QED  BY <1>1, PTL

LEMMA RowsNext ==
    ASSUME TInv, TInv', Rows, [Next]_vars
    PROVE  Rows'
<1>1. CASE Still
  <2>1. \A v, s : EventsAt(Me(v), s)' = EventsAt(Me(v), s)
    BY <1>1 DEF Still, EventsAt, TasksOf, Recorded, Me
  <2>. QED  BY <1>1, <2>1 DEF Still, Rows
<1>2. ASSUME NEW w \in Workers, Acts(w) PROVE Rows'
  <2>0. Me(w) \in Orders /\ loc[w].picks \in [Slots -> Nat] /\ "idle" \notin TakeOutLabels
    BY Knows, WithTyped DEF TakeOutLabels, ShipLabels
  <2>1. halted' \in [Orders -> Nat]
    <3>1. UNCHANGED halted \/ Halts(w)
      <4>1. Outbound(w) \/ ShipCommit(w) => UNCHANGED halted
        BY DEF Outbound, ShipCommit
      <4>. QED  BY <1>2, <4>1, Takes, NoneTaken DEF Carries
    <3>2. halted \in [Orders -> Nat]
      BY DEF Rows
    <3>. QED  BY <2>0, <3>1, <3>2 DEF Halts
  <2>2. ASSUME NEW v \in Workers, pc'[v] \in TakeOutLabels, pc[v] \in TakeOutLabels,
               Me(v)' = Me(v), NEW s \in Slots,
               loc'[v].picks[s] = loc[v].picks[s] \/ loc'[v].picks[s] = 0
        PROVE  loc'[v].picks[s] <= EventsAt(Me(v), s)'
    <3>1. PICK o : o = Me(v) /\ o = Me(v)'
      BY <2>2
    <3>2. EventsAt(o, s) \in Nat /\ EventsAt(o, s)' \in Nat /\ EventsAt(o, s) <= EventsAt(o, s)'
      BY <1>2, EventsGrow
    <3>3. loc[v].picks[s] \in Nat /\ loc[v].picks[s] <= EventsAt(o, s)
      BY <2>2, <3>1, Knows, WithTyped DEF Rows
    <3>4. loc'[v].picks[s] <= EventsAt(o, s)'
      BY <2>2, <3>2, <3>3
    <3>5. EventsAt(Me(v), s)' = EventsAt(o, s)'
      BY <3>1 DEF EventsAt, TasksOf
    <3>. QED  BY <3>4, <3>5
  <2>3. ASSUME NEW v \in Workers, v # w, pc'[v] \in TakeOutLabels, NEW s \in Slots
        PROVE  loc'[v].picks[s] <= EventsAt(Me(v), s)'
    <3>1. pc'[v] = pc[v] /\ loc'[v] = loc[v] /\ Me(v)' = Me(v)
      BY <1>2, <2>3, OthersWait
    <3>. QED  BY <2>2, <2>3, <3>1
  <2>4. ASSUME pc'[w] \in TakeOutLabels, NEW s \in Slots
        PROVE  loc'[w].picks[s] <= EventsAt(Me(w), s)'
    <3>1. CASE pc[w] \in TakeOutLabels
      <4>1. Carries(w) \/ Outbound(w)
        BY <1>2, <2>0, <2>4, <3>1, Takes, OrderingTrace
      <4>2. CASE Carries(w)
        <5>1. Me(w)' = Me(w) /\ loc'[w].picks[s] = loc[w].picks[s]
          BY <4>2 DEF Carries
        <5>. QED  BY <2>2, <2>4, <3>1, <5>1
      <4>3. CASE Outbound(w)
        <5>1. Me(w)' = Me(w) /\ loc'[w].picks = [loc[w].picks EXCEPT ![loc[w].slot] = 0]
          BY <4>3, ShippingTrace
        <5>2. loc'[w].picks[s] = loc[w].picks[s] \/ loc'[w].picks[s] = 0
          BY <2>0, <5>1
        <5>. QED  BY <2>2, <2>4, <3>1, <5>1, <5>2
      <4>. QED  BY <4>1, <4>2, <4>3
    <3>2. CASE pc[w] \notin TakeOutLabels
      <4>1. ReadEvents(w)
        BY <1>2, <2>4, <3>2, NoneTaken
      <4>2. Me(w)' = Me(w) /\ loc'[w].picks[s] = EventsAt(Me(w), s) /\ UNCHANGED tasks
        <5>1. PICK picks : /\ picks = [x \in Slots |-> EventsAt(Me(w), x)]
                           /\ Me(w)' = Me(w) /\ loc'[w].picks = picks
          BY <4>1, ShippingTrace
        <5>2. picks[s] = EventsAt(Me(w), s)
          BY <2>4, <5>1
        <5>. QED  BY <4>1, <5>1, <5>2 DEF ReadEvents
      <4>3. EventsAt(Me(w), s)' = EventsAt(Me(w), s)
        BY <4>2 DEF EventsAt, TasksOf, Recorded
      <4>4. EventsAt(Me(w), s) \in Nat
        BY EventSums DEF TInv, TypeOK
      <4>. QED  BY <4>2, <4>3, <4>4
    <3>. QED  BY <3>1, <3>2
  <2>. QED  BY <2>1, <2>3, <2>4 DEF Rows
<1>. QED  BY <1>1, <1>2, StepIs

(* The end of an order is for good.                                        *)
LEMMA FinalStays ==
    ASSUME TInv, [Next]_vars, NEW o \in Orders, Final(o)
    PROVE  Final(o)'
<1>1. status[o] \in Late /\ status[o] # "PICKING"
  BY DEF Final, Late
<1>2. status'[o] \in Late /\ status'[o] # "PICKING"
  BY <1>1, LateStays
<1>. QED  BY <1>2 DEF Final, Late

(* A request that neither takes out a row nor stops gives nothing back.    *)
LEMMA TookKept ==
    ASSUME TInv, Rows, Rows', TInv', [Next]_vars, NEW w \in Workers, Acts(w),
           NEW o \in Orders, NEW s \in Slots, NEW v \in Workers,
           pc'[v] = pc[v] /\ loc'[v] = loc[v]
    PROVE  Took(o, s, v) <= Took(o, s, v)'
<1>1. EventsAt(o, s) \in Nat /\ EventsAt(o, s)' \in Nat /\ EventsAt(o, s) <= EventsAt(o, s)'
  BY EventsGrow
<1>2. Me(v)' = Me(v) /\ loc[v].picks[s] \in Nat
  BY Knows, WithTyped DEF Me
<1>3. Final(o) => Final(o)'
  BY FinalStays
<1>. QED  BY <1>1, <1>2, <1>3 DEF Took

LEMMA TookMoves ==
    ASSUME LInv, LInv', TInv, TInv', Rows, Rows', [Next]_vars, NEW w \in Workers, Acts(w),
           NEW o \in Orders, NEW s \in Slots
    PROVE  \/ /\ Took(o, s, w) <= Took(o, s, w)'
              /\ shipped'[o][s] = shipped[o][s] /\ halted'[o] = halted[o]
           \/ /\ Took(o, s, w)' = Took(o, s, w) + (shipped'[o][s] - shipped[o][s])
              /\ halted'[o] = halted[o]
           \/ /\ shipped'[o][s] = shipped[o][s]
              /\ halted'[o] = halted[o] + 1 \/ shipped[o][s] = 0
<1>0. /\ EventsAt(o, s) \in Nat /\ EventsAt(o, s)' \in Nat /\ EventsAt(o, s) <= EventsAt(o, s)'
      /\ Me(w) \in Orders /\ loc[w].picks \in [Slots -> Nat] /\ loc[w].slot \in Slots
      /\ Final(o) => Final(o)'
      /\ TakeOutLabels \subseteq ShipLabels /\ "idle" \notin ShipLabels
  BY EventsGrow, Knows, WithTyped, FinalStays DEF TakeOutLabels, ShipLabels
<1>1. shipped \in [Orders -> [Slots -> Nat]] /\ halted \in [Orders -> Nat]
  BY DEF TInv, TypeOK, Rows
<1>2. CASE pc[w] \notin TakeOutLabels
  <2>1. UNCHANGED <<shipped, halted>>
    BY <1>2, NoneTaken
  <2>2. CASE pc'[w] \notin TakeOutLabels
    <3>1. pc'[w] \in ShipLabels /\ Me(w)' = o =>
             (pc[w] \in ShipLabels /\ Me(w) = o) \/ ~Final(o)
      BY ShipsPicking DEF Final
    <3>2. Took(o, s, w) <= Took(o, s, w)'
      BY <1>0, <1>2, <2>2, <3>1 DEF Took
    <3>. QED  BY <2>1, <3>2
  <2>3. CASE pc'[w] \in TakeOutLabels
    <3>1. ReadEvents(w)
      BY <1>2, <2>3, NoneTaken
    <3>2. Me(w)' = Me(w) /\ pc[w] \in ShipLabels
      BY <3>1, ShippingTrace DEF ShipLabels
    <3>3. CASE Me(w) = o
      <4>1. Took(o, s, w) = 0
        BY <1>2, <3>2, <3>3 DEF Took
      <4>2. Took(o, s, w)' \in Nat
        BY TookTypedNext DEF TookNatural
      <4>. QED  BY <2>1, <4>1, <4>2
    <3>4. CASE Me(w) # o
      <4>1. Took(o, s, w) <= Took(o, s, w)'
        BY <1>0, <3>2, <3>4 DEF Took
      <4>. QED  BY <2>1, <4>1
    <3>. QED  BY <3>3, <3>4
  <2>. QED  BY <2>2, <2>3
<1>3. CASE pc[w] \in TakeOutLabels
  <2>1. CASE Carries(w)
    <3>1. Took(o, s, w) <= Took(o, s, w)'
      BY <1>0, <1>3, <2>1 DEF Took, Carries
    <3>. QED  BY <2>1, <3>1 DEF Carries
  <2>2. CASE ShipCommit(w)
    <3>1. pc'[w] = "idle" /\ UNCHANGED <<shipped, halted>>
      BY <2>2, OrderingTrace DEF ShipCommit
    <3>2. Me(w) = o => Final(o)'
      <4>1. status[Me(w)] \in Late
        <5>1. Me(w) = loc[w].order /\ pc[w] \in ShipLabels
          BY <1>0, <1>3, Knows
        <5>2. LocalOK(loc[w], pc[w], status, items)
          BY DEF LInv
        <5>. QED  BY <5>1, <5>2 DEF LocalOK
      <4>2. /\ status \in [Orders -> Statuses]
            /\ IF status[Me(w)] = "PICKING" THEN status' = [status EXCEPT ![Me(w)] = "SHIPPED"]
               ELSE UNCHANGED status
        BY <2>2 DEF ShipCommit, CasMatches, TInv, TypeOK, StoreTypeOK
      <4>. QED  BY <4>1, <4>2 DEF Final, Late
    <3>3. Took(o, s, w) <= Took(o, s, w)'
      <4>1. pc'[w] \notin ShipLabels /\ pc'[w] \notin TakeOutLabels
        BY <1>0, <3>1
      <4>. QED  BY <1>0, <1>3, <3>2, <4>1 DEF Took
    <3>. QED  BY <3>1, <3>3
  <2>3. CASE Outbound(w)
    <3>1. /\ Me(w)' = Me(w) /\ loc'[w].picks = [loc[w].picks EXCEPT ![loc[w].slot] = 0]
          /\ pc'[w] \in TakeOutLabels
      <4>1. \A picks : NextRow(picks) \in TakeOutLabels
        BY DEF NextRow, TakeOutLabels, ShipLabels
      <4>2. PICK picks : /\ picks = [loc[w].picks EXCEPT ![loc[w].slot] = 0]
                         /\ Me(w)' = Me(w) /\ loc'[w].picks = picks /\ pc'[w] = NextRow(picks)
        BY <2>3, ShippingTrace
      <4>. QED  BY <4>1, <4>2
    <3>2. /\ shipped' = [shipped EXCEPT ![Me(w)][loc[w].slot] = @ + loc[w].picks[loc[w].slot]]
          /\ UNCHANGED <<halted, tasks, status>>
      BY <2>3 DEF Outbound
    <3>3. EventsAt(o, s)' = EventsAt(o, s) /\ (Final(o)' <=> Final(o))
      BY <3>2 DEF EventsAt, TasksOf, Recorded, Final
    <3>4. CASE Me(w) = o /\ s = loc[w].slot
      <4>1. /\ shipped'[o][s] = shipped[o][s] + loc[w].picks[s]
            /\ loc'[w].picks[s] = 0 /\ loc[w].picks[s] \in Nat /\ shipped[o][s] \in Nat
        BY <1>0, <1>1, <3>1, <3>2, <3>4
      <4>2. /\ Took(o, s, w) = EventsAt(o, s) - loc[w].picks[s]
            /\ Took(o, s, w)' = EventsAt(o, s) - loc'[w].picks[s]
        BY <1>3, <3>1, <3>3, <3>4 DEF Took
      <4>. QED  BY <1>0, <3>2, <4>1, <4>2
    <3>5. CASE ~(Me(w) = o /\ s = loc[w].slot)
      <4>1. shipped'[o][s] = shipped[o][s]
        BY <1>0, <1>1, <3>2, <3>5
      <4>2. Took(o, s, w)' = Took(o, s, w)
        <5>1. CASE Me(w) = o
          <6>1. loc'[w].picks[s] = loc[w].picks[s]
            BY <1>0, <3>1, <3>5, <5>1
          <6>. QED  BY <1>3, <3>1, <3>3, <5>1, <6>1 DEF Took
        <5>2. CASE Me(w) # o
          BY <3>1, <3>3, <5>2 DEF Took
        <5>. QED  BY <5>1, <5>2
      <4>3. Took(o, s, w) \in Nat
        BY TookTyped
      <4>. QED  BY <3>2, <4>1, <4>2, <4>3
    <3>. QED  BY <3>4, <3>5
  <2>4. CASE pc'[w] = "idle" /\ Halts(w) /\ UNCHANGED shipped
    <3>1. CASE Me(w) = o
      <4>1. halted'[o] = halted[o] + 1 \/ shipped[o][s] = 0
        <5>1. CASE \E x \in Slots : shipped[o][x] > 0
          BY <1>1, <2>4, <3>1, <5>1 DEF Halts
        <5>2. CASE ~ \E x \in Slots : shipped[o][x] > 0
          BY <1>1, <5>2
        <5>. QED  BY <5>1, <5>2
      <4>. QED  BY <2>4, <4>1
    <3>2. CASE Me(w) # o
      <4>1. halted'[o] = halted[o]
        BY <1>0, <1>1, <2>4, <3>2 DEF Halts
      <4>2. pc'[w] \notin ShipLabels /\ pc'[w] \notin TakeOutLabels
        BY <1>0, <2>4
      <4>3. Took(o, s, w) <= Took(o, s, w)'
        BY <1>0, <3>2, <4>2 DEF Took
      <4>. QED  BY <2>4, <4>1, <4>3
    <3>. QED  BY <3>1, <3>2
  <2>. QED  BY <1>3, <2>1, <2>2, <2>3, <2>4, Takes
<1>. QED  BY <1>2, <1>3

LEMMA Product2 ==
    ASSUME NEW a \in Nat, NEW b \in Nat, a <= b, NEW n \in Nat
    PROVE  a * n <= b * n /\ a * n \in Nat /\ b * n \in Nat
<1>1. PICK d \in Nat : b = a + d
  BY b - a \in Nat
<1>2. b * n = a * n + d * n /\ d * n \in Nat /\ a * n \in Nat
  BY <1>1
<1>. QED  BY <1>2

LEMMA OutsNext ==
    ASSUME LInv, LInv', TInv, TInv', Rows, Rows', Outs, [Next]_vars
    PROVE  Outs'
<1>. SUFFICES ASSUME NEW o \in Orders, NEW s \in Slots
              PROVE  shipped'[o][s] <= EventsAt(o, s)' * halted'[o] + SumFunction(AllTook(o, s)')
  BY DEF Outs
<1>1. PICK d, e, n, k : /\ d = EventsAt(o, s) /\ e = EventsAt(o, s)'
                        /\ n = halted[o] /\ k = halted'[o]
  OBVIOUS
<1>2. PICK f, g, x, y : /\ f = AllTook(o, s) /\ g = AllTook(o, s)'
                        /\ x = shipped[o][s] /\ y = shipped'[o][s]
  OBVIOUS
<1>3. x \in Nat /\ y \in Nat /\ n \in Nat /\ k \in Nat /\ d \in Nat /\ e \in Nat
  <2>1. d \in Nat /\ e \in Nat
    <3>1. PICK v \in Workers : TRUE
      BY StoreAssumption
    <3>. QED  BY <1>1, <3>1, TookTyped, TookTypedNext DEF TookNatural
  <2>. QED  BY <1>1, <1>2, <2>1 DEF TInv, TypeOK, Rows
<1>4. f \in [Workers -> Nat] /\ g \in [Workers -> Nat] /\ \A v \in Workers : f[v] <= d
  <2>1. f \in [Workers -> Nat] /\ \A v \in Workers : f[v] <= d
    BY <1>1, <1>2, TookTyped DEF AllTook
  <2>2. g = [v \in Workers |-> Took(o, s, v)']
    BY <1>2 DEF AllTook
  <2>3. \A v \in Workers : Took(o, s, v)' \in Nat
    BY TookTypedNext DEF TookNatural
  <2>. QED  BY <2>1, <2>2, <2>3
<1>5. SumFunction(f) \in Nat /\ SumFunction(g) \in Nat /\ x <= d * n + SumFunction(f)
  BY <1>1, <1>2, <1>4, SumFunctionNat, StoreAssumption DEF Outs
<1>6. ASSUME Still PROVE y <= e * k + SumFunction(g)
  <2>1. \A v \in Workers : Took(o, s, v)' >= Took(o, s, v)
    <3>1. EventsAt(o, s)' = EventsAt(o, s) /\ pc' = pc /\ loc' = loc
      BY <1>6 DEF Still, EventsAt, TasksOf, Recorded
    <3>2. Final(o) => Final(o)'
      BY FinalStays
    <3>3. ASSUME NEW v \in Workers PROVE Took(o, s, v)' >= Took(o, s, v)
      <4>1. loc[v].picks[s] \in Nat /\ Me(v)' = Me(v)
        BY <3>1, Knows, WithTyped DEF Me
      <4>. QED  BY <1>1, <1>3, <3>1, <3>2, <4>1 DEF Took
    <3>. QED  BY <3>3
  <2>2. \A v \in Workers : f[v] <= g[v]
    BY <1>2, <2>1 DEF AllTook
  <2>3. SumFunction(f) <= SumFunction(g)
    <3>1. f \in [Workers -> Int] /\ g \in [Workers -> Int] /\ IsFiniteSet(Workers)
      BY <1>4, StoreAssumption
    <3>. QED  BY <2>2, <3>1, SumFunctionMonotone
  <2>4. x = y /\ d = e /\ n = k
    BY <1>1, <1>2, <1>6 DEF Still, EventsAt, TasksOf, Recorded
  <2>5. d * n \in Nat
    BY <1>3
  <2>. QED  BY <1>3, <1>5, <2>3, <2>4, <2>5
<1>7. ASSUME NEW w \in Workers, Acts(w) PROVE y <= e * k + SumFunction(g)
  <2>1. \A v \in Workers : v # w => f[v] <= g[v]
    <3>1. ASSUME NEW v \in Workers, v # w PROVE Took(o, s, v) <= Took(o, s, v)'
      BY <1>7, <3>1, OthersWait, TookKept
    <3>. QED  BY <1>2, <3>1 DEF AllTook
  <2>2. /\ f[w] = Took(o, s, w) /\ g[w] = Took(o, s, w)'
        /\ f[w] \in Nat /\ g[w] \in Nat /\ f[w] <= d
    BY <1>2, <1>4, <1>7 DEF AllTook
  <2>3. SumFunction(f) <= SumFunction(g) - g[w] + f[w]
    <3>1. f \in [Workers -> Int] /\ g \in [Workers -> Int] /\ IsFiniteSet(Workers)
      BY <1>4, StoreAssumption
    <3>. QED  BY <1>7, <2>1, <3>1, SumFunctionLower
  <2>4. d <= e
    BY <1>1, <1>7, EventsGrow
  <2>5. d * n <= e * n /\ e * n \in Nat /\ e * k \in Nat /\ d * n \in Nat
    BY <1>3, <2>4, Product2
  <2>6. \/ f[w] <= g[w] /\ y = x /\ k = n
        \/ g[w] = f[w] + (y - x) /\ k = n
        \/ y = x /\ (k = n + 1 \/ x = 0)
    BY <1>1, <1>2, <1>7, <2>2, TookMoves
  <2>7. CASE (f[w] <= g[w] /\ y = x /\ k = n) \/ (g[w] = f[w] + (y - x) /\ k = n)
    <3>1. e * k = e * n
      BY <2>7
    <3>. QED  BY <1>3, <1>5, <2>2, <2>3, <2>5, <2>7, <3>1
  <2>8. CASE y = x /\ k = n + 1
    <3>1. e * k = e * n + e
      BY <1>3, <2>8
    <3>. QED  BY <1>3, <1>5, <2>2, <2>3, <2>4, <2>5, <2>8, <3>1
  <2>9. CASE y = x /\ x = 0
    BY <1>3, <1>5, <2>5, <2>9
  <2>. QED  BY <2>6, <2>7, <2>8, <2>9
<1>8. y <= e * k + SumFunction(g)
  BY <1>6, <1>7, StepIs
<1>. QED  BY <1>1, <1>2, <1>8

(* However Ships of one order race, stop half way and are sent again, and  *)
(* whatever is picked meanwhile: no row is taken out more often than once  *)
(* for every Ship that stopped half way and once for every worker, because *)
(* a Ship starts only while the order is being picked and each takes a row *)
(* out at most once.                                                       *)
THEOREM OutboundsAreBounded == Spec => []OutboundsBounded
<1>1. Init => LInv /\ TInv /\ Rows /\ Outs
  <2>. SUFFICES ASSUME Init PROVE Rows /\ Outs
    BY LInvInit, TInvInit
  <2>1. TInv /\ \A w \in Workers : pc[w] = "idle"
    BY TInvInit DEF Init
  <2>2. "idle" \notin TakeOutLabels
    BY DEF TakeOutLabels, ShipLabels
  <2>3. Rows
    BY <2>1, <2>2 DEF Init, Rows
  <2>4. ASSUME NEW o \in Orders, NEW s \in Slots
        PROVE  shipped[o][s] <= EventsAt(o, s) * halted[o] + SumFunction(AllTook(o, s))
    <3>1. \A v \in Workers : Took(o, s, v) \in Nat
      BY <2>1, <2>3, TookTyped
    <3>2. PICK f : f = AllTook(o, s)
      OBVIOUS
    <3>6. f \in [Workers -> Nat]
      BY <3>1, <3>2 DEF AllTook
    <3>3. SumFunction(f) \in Nat
      BY <3>6, SumFunctionNat, StoreAssumption
    <3>4. EventsAt(o, s) * halted[o] = 0
      <4>1. EventsAt(o, s) \in Nat
        BY <2>1, EventSums DEF TInv, TypeOK
      <4>2. halted[o] = 0
        BY DEF Init
      <4>. QED  BY <4>1, <4>2
    <3>5. shipped[o][s] = 0
      BY DEF Init
    <3>. QED  BY <3>2, <3>3, <3>4, <3>5
  <2>. QED  BY <2>3, <2>4 DEF Outs
<1>2. LInv /\ TInv /\ Rows /\ Outs /\ [Next]_vars => (LInv /\ TInv /\ Rows /\ Outs)'
  BY LInvNext, TInvNext, RowsNext, OutsNext DEF Kept
<1>3. TInv /\ Rows /\ Outs => OutboundsBounded
  <2>. SUFFICES ASSUME TInv, Rows, Outs, NEW o \in Orders, NEW s \in Slots
                PROVE  shipped[o][s] <= EventsAt(o, s) * (halted[o] + Cardinality(Workers))
    BY DEF OutboundsBounded
  <2>1. PICK e, n, c, f : /\ e = EventsAt(o, s) /\ n = halted[o] /\ c = Cardinality(Workers)
                          /\ f = AllTook(o, s)
    OBVIOUS
  <2>2. e \in Nat /\ n \in Nat /\ c \in Nat
    BY <2>1, EventSums, StoreAssumption, FS_CardinalityType DEF TInv, TypeOK, Rows
  <2>3. f \in [Workers -> Int] /\ \A v \in Workers : f[v] <= e
    BY <2>1, TookTyped DEF AllTook
  <2>4. SumFunction(f) <= c * e /\ SumFunction(f) \in Int
    BY <2>1, <2>2, <2>3, SumFunctionBound, SumFunctionType, StoreAssumption
  <2>5. e * (n + c) = e * n + c * e /\ e * n \in Nat /\ c * e \in Nat
    BY <2>2
  <2>6. shipped[o][s] <= e * n + SumFunction(f) /\ shipped[o][s] \in Nat
    BY <2>1 DEF Outs, TInv, TypeOK
  <2>7. shipped[o][s] <= e * (n + c)
    BY <2>4, <2>5, <2>6
  <2>. QED  BY <2>1, <2>7
<1>. QED  BY <1>1, <1>2, <1>3, PTL DEF Spec

=============================================================================
