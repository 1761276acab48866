------------------------------ MODULE Returns -------------------------------
(***************************************************************************)
(* core/returns: returns (RMA documents) of shipped orders, their items,   *)
(* and what adding an item does to the stock and to the quality-control    *)
(* holds.                                                                  *)
(*                                                                         *)
(* As everywhere in this system a request is a sequence of repository      *)
(* calls, each one atomic, and no transaction spans them.  Receive and     *)
(* Cancel are one filtered update and so one action; creating a return and *)
(* adding an item take several.  Rows of the stock collection are told     *)
(* apart by product only.                                                  *)
(***************************************************************************)
EXTENDS Integers, Sequences, FiniteSetsExt, Functions

CONSTANTS
    Workers,        \* request goroutines
    Orders,         \* orders, not all of them shipped
    Products,
    Lines,          \* Lines[o]: item lines [product, shipped] of order o
    Qtys,           \* quantities clients ask for
    Dispositions,   \* dispositions clients use in this configuration
    MayFail,        \* may a request die, or a repository call fail
    MaxReturns,     \* bound: RMA numbers taken in one behaviour
    MaxItems        \* bound: item requests started in one behaviour

AllDispositions == {"RESTOCK", "DAMAGED", "QC_HOLD"}

ASSUME ReturnsAssumption ==
    /\ IsFiniteSet(Workers)
    /\ Orders # {}
    /\ Products # {}
    /\ Lines \in [Orders -> Seq([product: Products, shipped: Nat])]
    /\ Qtys \subseteq Nat \ {0}
    /\ \E m \in Qtys : \A q \in Qtys : q <= m
    /\ Dispositions \subseteq AllDispositions
    /\ MayFail \in BOOLEAN
    /\ MaxReturns \in Nat
    /\ MaxItems \in Nat

VARIABLES
    isShipped,      \* isShipped[o]: the order's status is SHIPPED
    seq,            \* the counter document rma_<year>
    returns,        \* the returns collection, in order of insertion
    items,          \* the return_items collection, in order of insertion
    restocked,      \* restocked[p]: quantity returns have put back into the stock
    held,           \* held[p]: quantity of the qc_holds documents
    stranded,       \* history: stranded[d][p]: items of disposition d whose
                    \* request died before the effect
    pc,             \* pc[w]: next repository call of goroutine w
    loc             \* loc[w]: locals of goroutine w

vars == <<isShipped, seq, returns, items, restocked, held, stranded, pc, loc>>

ReturnStatuses == {"OPEN", "RECEIVED", "CANCELLED"}

Return == [order: Orders, no: Nat \ {0}, status: ReturnStatuses]

(* late is a history field: the return was closed when the item went in.   *)
ReturnItem == [ret: Nat \ {0}, product: Products, qty: Nat \ {0},
               disp: AllDispositions, late: BOOLEAN]

Labels == {"idle", "nextNo", "insertReturn", "openReturns", "sum",
           "insertItem", "effect"}

Locals == [order: Orders, no: Nat, ret: Nat, product: Products, qty: Nat,
           disp: AllDispositions, ids: SUBSET Nat]

NoLocals == [order |-> CHOOSE o \in Orders : TRUE, no |-> 0, ret |-> 0,
             product |-> CHOOSE p \in Products : TRUE, qty |-> 0,
             disp |-> "DAMAGED", ids |-> {}]

(* Every document has the shape the collections give it, and an item names *)
(* a return that exists.                                                   *)
TypeOK ==
    /\ isShipped \in [Orders -> BOOLEAN]
    /\ seq \in Nat
    /\ returns \in Seq(Return)
    /\ items \in Seq(ReturnItem)
    /\ \A i \in DOMAIN items : items[i].ret \in DOMAIN returns
    /\ restocked \in [Products -> Nat]
    /\ held \in [Products -> Nat]
    /\ stranded \in [AllDispositions -> [Products -> Nat]]
    /\ pc \in [Workers -> Labels]
    /\ loc \in [Workers -> Locals]

Init ==
    /\ isShipped = [o \in Orders |-> FALSE]
    /\ seq = 0
    /\ returns = <<>>
    /\ items = <<>>
    /\ restocked = [p \in Products |-> 0]
    /\ held = [p \in Products |-> 0]
    /\ stranded = [d \in AllDispositions |-> [p \in Products |-> 0]]
    /\ pc = [w \in Workers |-> "idle"]
    /\ loc = [w \in Workers |-> NoLocals]

-----------------------------------------------------------------------------
(* Queries.                                                                *)

(* AddItem looks at the first line of the product.                         *)
ShippedLine(o, p) ==
    LET of == {i \in DOMAIN Lines[o] : Lines[o][i].product = p}
    IN  IF of = {} THEN 0 ELSE Lines[o][Min(of)].shipped

ReturnsOf(o) == {r \in DOMAIN returns : returns[r].order = o}

LiveReturnsFault(o) == {r \in ReturnsOf(o) : returns[r].status = "OPEN"}
LiveReturns(o) == {r \in ReturnsOf(o) : returns[r].status # "CANCELLED"}

ItemsOf(R, p) == {i \in DOMAIN items : items[i].ret \in R /\ items[i].product = p}

QtyOf(I) == SumFunction([i \in I |-> items[i].qty])

SumReturned(R, p) == QtyOf(ItemsOf(R, p))

(* The filter of UpdateStatus.                                             *)
CasMatchesFault(r, from) == r \in DOMAIN returns
CasMatches(r, from) == r \in DOMAIN returns /\ returns[r].status = from

AddableFault(r) == r \in DOMAIN returns
Addable(r) == r \in DOMAIN returns /\ returns[r].status = "OPEN"

(* FindOneAndUpdate with $inc hands out the number it has just written.    *)
NextSeqFault == Len(returns) + 1
NextSeq == seq + 1

NewReturn(o, n) == [order |-> o, no |-> n, status |-> "OPEN"]

(* A damaged item changes nothing but the record.                          *)
HasEffectFault(d) == d = "RESTOCK"
HasEffect(d) == d # "DAMAGED"

-----------------------------------------------------------------------------
(* Requests.                                                               *)

Goto(w, label, l) ==
    /\ pc' = [pc EXCEPT ![w] = label]
    /\ loc' = [loc EXCEPT ![w] = IF label = "idle" THEN NoLocals ELSE l]

Finish(w) == Goto(w, "idle", NoLocals)

ItemRequests == Len(items) + Cardinality({w \in Workers :
                    pc[w] \in {"openReturns", "sum", "insertItem"}})

Numbering == Cardinality({w \in Workers : pc[w] = "nextNo"})

-----------------------------------------------------------------------------
(* The order is shipped by the order service.                              *)
ShipOrder(o) ==
    /\ ~isShipped[o]
    /\ isShipped' = [isShipped EXCEPT ![o] = TRUE]
    /\ UNCHANGED <<seq, returns, items, restocked, held, stranded, pc, loc>>

(* Create: read the order, take a number, insert the document.             *)
CreateRead(w, o) ==
    /\ pc[w] = "idle"
    /\ seq + Numbering < MaxReturns
    /\ isShipped[o]
    /\ Goto(w, "nextNo", [NoLocals EXCEPT !.order = o])
    /\ UNCHANGED <<isShipped, seq, returns, items, restocked, held, stranded>>

CreateNumber(w) ==
    /\ pc[w] = "nextNo"
    /\ seq' = NextSeq
    /\ Goto(w, "insertReturn", [loc[w] EXCEPT !.no = seq'])
    /\ UNCHANGED <<isShipped, returns, items, restocked, held, stranded>>

CreateInsert(w) ==
    /\ pc[w] = "insertReturn"
    /\ returns' = Append(returns, NewReturn(loc[w].order, loc[w].no))
    /\ Finish(w)
    /\ UNCHANGED <<isShipped, seq, items, restocked, held, stranded>>

-----------------------------------------------------------------------------
(* AddItem.  The return's status is looked at here and never again.  The   *)
(* order read next is SHIPPED and no longer changes, so that read is taken *)
(* with this one.                                                          *)
AddItemRead(w, r, p, q, d) ==
    /\ pc[w] = "idle"
    /\ ItemRequests < MaxItems
    /\ Addable(r)
    /\ ShippedLine(returns[r].order, p) # 0
    /\ Goto(w, "openReturns", [NoLocals EXCEPT !.order = returns[r].order, !.ret = r,
                                !.product = p, !.qty = q, !.disp = d])
    /\ UNCHANGED <<isShipped, seq, returns, items, restocked, held, stranded>>

(* SumReturnedQty is two queries: the ids of the order's returns, then the *)
(* sum over their items.                                                   *)
AddItemReturns(w) ==
    /\ pc[w] = "openReturns"
    /\ Goto(w, "sum", [loc[w] EXCEPT !.ids = LiveReturns(loc[w].order)])
    /\ UNCHANGED <<isShipped, seq, returns, items, restocked, held, stranded>>

AddItemSum(w) ==
    /\ pc[w] = "sum"
    /\ IF SumReturned(loc[w].ids, loc[w].product) + loc[w].qty > ShippedLine(loc[w].order, loc[w].product)
       THEN Finish(w)
       ELSE Goto(w, "insertItem", loc[w])
    /\ UNCHANGED <<isShipped, seq, returns, items, restocked, held, stranded>>

AddItemInsert(w) ==
    /\ pc[w] = "insertItem"
    /\ items' = Append(items, [ret |-> loc[w].ret, product |-> loc[w].product,
                    qty |-> loc[w].qty, disp |-> loc[w].disp,
                    late |-> returns[loc[w].ret].status # "OPEN"])
    /\ Goto(w, IF HasEffect(loc[w].disp) THEN "effect" ELSE "idle", loc[w])
    /\ UNCHANGED <<isShipped, seq, returns, restocked, held, stranded>>

(* The side effect of the disposition: AddStock or CreateQCHold.           *)
AddItemEffect(w) ==
    /\ pc[w] = "effect"
    /\ \/ /\ loc[w].disp = "RESTOCK"
          /\ restocked' = [restocked EXCEPT ![loc[w].product] = @ + loc[w].qty]
          /\ UNCHANGED held
       \/ /\ loc[w].disp = "QC_HOLD"
          /\ held' = [held EXCEPT ![loc[w].product] = @ + loc[w].qty]
          /\ UNCHANGED restocked
    /\ Finish(w)
    /\ UNCHANGED <<isShipped, seq, returns, items, stranded>>

-----------------------------------------------------------------------------
(* Receive and Cancel: one filtered update.  Cancelling takes nothing out  *)
(* of the stock again.                                                     *)
UpdateStatus(r, from, to) ==
    /\ CasMatches(r, from)
    /\ returns' = [returns EXCEPT ![r].status = to]
    /\ UNCHANGED <<isShipped, seq, items, restocked, held, stranded, pc, loc>>

Receive(r) == UpdateStatus(r, "OPEN", "RECEIVED")

Cancel(r) == UpdateStatus(r, "OPEN", "CANCELLED")

(* The process dies, or the call the request stands at fails: AddItem and  *)
(* Create return the error and undo nothing.                               *)
Abandon(w) ==
    /\ MayFail
    /\ pc[w] # "idle"
    /\ stranded' = IF pc[w] = "effect"
                   THEN [stranded EXCEPT ![loc[w].disp][loc[w].product] = @ + loc[w].qty]
                   ELSE stranded
    /\ Finish(w)
    /\ UNCHANGED <<isShipped, seq, returns, items, restocked, held>>

WorkerStep(w) ==
    \/ \E o \in Orders : CreateRead(w, o)
    \/ CreateNumber(w)
    \/ CreateInsert(w)
    \/ \E r \in DOMAIN returns, p \in Products, q \in Qtys, d \in Dispositions :
          AddItemRead(w, r, p, q, d)
    \/ AddItemReturns(w)
    \/ AddItemSum(w)
    \/ AddItemInsert(w)
    \/ AddItemEffect(w)
    \/ Abandon(w)

Next ==
    \/ \E o \in Orders : ShipOrder(o)
    \/ \E w \in Workers : WorkerStep(w)
    \/ \E r \in DOMAIN returns : Receive(r)
    \/ \E r \in DOMAIN returns : Cancel(r)

Spec == Init /\ [][Next]_vars

-----------------------------------------------------------------------------
(* Properties.                                                             *)

(* The quantity guard of AddItem reads and inserts in different calls, so  *)
(* concurrent requests can return more than was shipped, but each of the   *)
(* others by its own quantity only, however long the history is and        *)
(* whichever returns are received or opened meanwhile.  With one worker    *)
(* the bound is the shipped quantity itself.                               *)
OverReturnBounded ==
    \A o \in Orders, p \in Products :
        LET live == SumReturned({r \in ReturnsOf(o) : returns[r].status # "CANCELLED"}, p)
        IN  live = 0 \/ live <= ShippedLine(o, p) + (Cardinality(Workers) - 1) * Max(Qtys)

Owed(w, d, p) ==
    IF pc[w] = "effect" /\ loc[w].disp = d /\ loc[w].product = p THEN loc[w].qty ELSE 0

Awaiting(d, p) == SumFunction([w \in Workers |-> Owed(w, d, p)])

ItemsWith(d, p) == {i \in DOMAIN items : items[i].disp = d /\ items[i].product = p}

(* Every restocked item reaches the stock once and every QC item its hold  *)
(* once, except for the requests that still have to and the ones that died *)
(* in between; a cancelled return gives nothing back.                      *)
EffectsAccounted ==
    \A p \in Products :
        /\ QtyOf(ItemsWith("RESTOCK", p)) =
              restocked[p] + Awaiting("RESTOCK", p) + stranded["RESTOCK"][p]
        /\ QtyOf(ItemsWith("QC_HOLD", p)) =
              held[p] + Awaiting("QC_HOLD", p) + stranded["QC_HOLD"][p]

(* "return must be OPEN to add items" holds up to the requests that were   *)
(* under way when the return was closed: no more than one item a worker.   *)
LateItemsBounded ==
    \A r \in DOMAIN returns :
        Cardinality({i \in DOMAIN items : items[i].ret = r /\ items[i].late}) +
        Cardinality({w \in Workers : loc[w].ret = r /\ pc[w] # "effect"
                                     /\ returns[r].status # "OPEN"})
            <= Cardinality(Workers)

(* Receive and Cancel exclude each other: a return that left OPEN keeps    *)
(* its status, and its number and order never change.                      *)
ClosedOnce ==
    [][\A r \in DOMAIN returns :
          /\ r \in DOMAIN returns'
          /\ returns[r].status # "OPEN" => returns'[r] = returns[r]
          /\ [returns'[r] EXCEPT !.status = "OPEN"] = [returns[r] EXCEPT !.status = "OPEN"]]_vars

(* The documents have their types, and two returns never share an RMA      *)
(* number, created concurrently or not.                                    *)
ReturnsWellFormed ==
    /\ TypeOK
    /\ \A r1, r2 \in DOMAIN returns : returns[r1].no = returns[r2].no => r1 = r2

=============================================================================
