---------------------------- MODULE StockLedger ----------------------------
(***************************************************************************)
(* The stock collection and the three record collections that move it:     *)
(* inbounds, outbounds and adjustments (core/stock, core/inbound,          *)
(* core/outbound, core/adjustment).                                        *)
(*                                                                         *)
(* The services use no database transaction.  A request is a sequence of   *)
(* repository calls, each of them atomic in MongoDB, and requests of       *)
(* different HTTP connections interleave between those calls.  A worker    *)
(* is one request goroutine; pc[w] names the next repository call of its   *)
(* request and req[w] holds the local variables the rest of it still uses. *)
(*                                                                         *)
(* A slot is one (product, location, lot) key of the stock collection.     *)
(* The three record collections are kept in one append-only sequence,      *)
(* told apart by kind.  The authorisation of a reversal (own record, 24    *)
(* hours, role) is a nondeterministic early return: it changes no state.   *)
(***************************************************************************)
EXTENDS Integers, Sequences, FiniteSets, Functions

CONSTANTS
    Workers,        \* request goroutines
    Slots,          \* (product, location, lot) keys
    Bin,            \* Bin[s]: the (product, location) pair of slot s
    Qtys,           \* quantities a client may ask for
    Ops,            \* operations clients issue in this configuration
    PairIndex,      \* is the unique index (product_id, location_id) in place
    MayAbandon,     \* may a request die, or a database call fail, half way
    MaxRequests     \* bound: requests started in one behaviour

AllOps == {"inbound", "outbound", "adjust", "forceAdjust", "revIn", "revOut"}

ASSUME LedgerAssumption ==
    /\ IsFiniteSet(Workers) /\ Workers # {}
    /\ Slots # {}
    /\ Qtys \subseteq Nat \ {0}
    /\ Ops \subseteq AllOps
    /\ PairIndex \in BOOLEAN
    /\ MayAbandon \in BOOLEAN
    /\ MaxRequests \in Nat

VARIABLES
    stock,          \* stock[s]: quantity field of slot s, 0 when there is no row
    rows,           \* slots that have a row in the stock collection
    ledger,         \* inbound, outbound and adjustment records, oldest first
    pc,             \* pc[w]: next repository call of worker w
    req,            \* req[w]: locals of worker w's request
    drift,          \* history: stock effect of the half-done requests of each slot
    started         \* requests started, capped by MaxRequests

vars == <<stock, rows, ledger, pc, req, drift, started>>

(* undone is a history field: how often the record's effect on the stock   *)
(* was given back.                                                         *)
Entry == [kind: {"inbound", "outbound", "adjustment"}, slot: Slots, qty: Int,
          status: {"ACTIVE", "REVERSED"}, undone: Nat]

Request == [slot: Slots, qty: Int, doc: Nat]

NoRequest == [slot |-> CHOOSE s \in Slots : TRUE, qty |-> 0, doc |-> 0]

Labels == {"idle", "inApply", "outApply", "outInsert", "adjApply", "adjInsert",
           "revMark", "revApply"}

TypeOK ==
    /\ stock \in [Slots -> Int]
    /\ rows \subseteq Slots
    /\ ledger \in Seq(Entry)
    /\ pc \in [Workers -> Labels]
    /\ req \in [Workers -> Request]
    /\ drift \in [Slots -> Int]
    /\ started \in 0..MaxRequests

Init ==
    /\ stock = [s \in Slots |-> 0]
    /\ rows = {}
    /\ ledger = <<>>
    /\ pc = [w \in Workers |-> "idle"]
    /\ req = [w \in Workers |-> NoRequest]
    /\ drift = [s \in Slots |-> 0]
    /\ started = 0

-----------------------------------------------------------------------------
(* Repository calls.                                                       *)

NewEntry(k, s, q) ==
    [kind |-> k, slot |-> s, qty |-> q, status |-> "ACTIVE", undone |-> 0]

(* The indexes on the collection: the lot-aware one never rejects the      *)
(* upsert of its own key, the older (product, location) one rejects a      *)
(* second lot in the same bin.                                             *)
IndexRejects(s) ==
    PairIndex /\ s \notin rows /\ \E t \in rows : Bin[t] = Bin[s]

UpsertFault(s, d) ==
    /\ stock' = [stock EXCEPT ![s] = d]
    /\ rows' = rows \cup {s}
Upsert(s, d) ==
    /\ stock' = [stock EXCEPT ![s] = @ + d]
    /\ rows' = rows \cup {s}

(* The stock effect a record accounts for while it is active.              *)
Effect(e) ==
    IF e.status = "REVERSED" THEN 0
    ELSE IF e.kind = "outbound" THEN -e.qty ELSE e.qty

(* A reversal gives back the opposite of what the record had moved.        *)
UndoQty(e) == IF e.kind = "inbound" THEN -e.qty ELSE e.qty

(* What worker w's unfinished request has moved in the stock without a     *)
(* record, less what it has recorded without moving it.                    *)
Pending(w) ==
    CASE pc[w] = "inApply"   -> -req[w].qty
      [] pc[w] = "outInsert" -> -req[w].qty
      [] pc[w] = "adjInsert" -> req[w].qty
      [] pc[w] = "revApply"  -> -UndoQty(ledger[req[w].doc])
      [] OTHER               -> 0

Start(w, label, r) ==
    /\ pc[w] = "idle"
    /\ started < MaxRequests
    /\ started' = started + 1
    /\ pc' = [pc EXCEPT ![w] = label]
    /\ req' = [req EXCEPT ![w] = r]

Goto(w, label) ==
    /\ pc' = [pc EXCEPT ![w] = label]
    /\ UNCHANGED <<req, started>>

Finish(w) ==
    /\ pc' = [pc EXCEPT ![w] = "idle"]
    /\ req' = [req EXCEPT ![w] = NoRequest]
    /\ UNCHANGED started

(* A failed write ends the request with an error and undoes nothing: what  *)
(* it leaves behind is added to drift.                                     *)
GiveUp(w) ==
    /\ drift' = [drift EXCEPT ![req[w].slot] = @ + Pending(w)]
    /\ Finish(w)
    /\ UNCHANGED <<stock, rows, ledger>>

-----------------------------------------------------------------------------
(* Inbound: the record first, then the stock.                              *)

InboundInsert(w, s, q) ==
    /\ "inbound" \in Ops
    /\ Start(w, "inApply", [slot |-> s, qty |-> q, doc |-> 0])
    /\ ledger' = Append(ledger, NewEntry("inbound", s, q))
    /\ UNCHANGED <<stock, rows, drift>>

InboundApply(w) ==
    /\ pc[w] = "inApply"
    /\ \/ /\ ~IndexRejects(req[w].slot)
          /\ Upsert(req[w].slot, req[w].qty)
          /\ Finish(w)
          /\ UNCHANGED <<ledger, drift>>
       \/ IndexRejects(req[w].slot) /\ GiveUp(w)

-----------------------------------------------------------------------------
(* Outbound: read the stock, remove from it, then the record.  Nothing     *)
(* ties the removal to the quantity that was read.                         *)

EnoughFault(have, q) == have + 1 >= q
Enough(have, q) == have >= q

OutboundCheck(w, s, q) ==
    /\ "outbound" \in Ops
    /\ s \in rows
    /\ Enough(stock[s], q)
    /\ Start(w, "outApply", [slot |-> s, qty |-> q, doc |-> 0])
    /\ UNCHANGED <<stock, rows, ledger, drift>>

OutboundApply(w) ==
    /\ pc[w] = "outApply"
    /\ Upsert(req[w].slot, -req[w].qty)
    /\ Goto(w, "outInsert")
    /\ UNCHANGED <<ledger, drift>>

OutboundInsert(w) ==
    /\ pc[w] = "outInsert"
    /\ ledger' = Append(ledger, NewEntry("outbound", req[w].slot, req[w].qty))
    /\ Finish(w)
    /\ UNCHANGED <<stock, rows, drift>>

-----------------------------------------------------------------------------
(* Adjustment: a signed correction.  Only a negative one that does not     *)
(* carry allow_negative reads the stock first.                             *)

AdjustCheck(w, s, d) ==
    /\ "adjust" \in Ops
    /\ d < 0 => s \in rows /\ Enough(stock[s], -d)
    /\ Start(w, "adjApply", [slot |-> s, qty |-> d, doc |-> 0])
    /\ UNCHANGED <<stock, rows, ledger, drift>>

AdjustForce(w, s, d) ==
    /\ "forceAdjust" \in Ops
    /\ d < 0
    /\ Start(w, "adjApply", [slot |-> s, qty |-> d, doc |-> 0])
    /\ UNCHANGED <<stock, rows, ledger, drift>>

AdjustApply(w) ==
    /\ pc[w] = "adjApply"
    /\ \/ /\ ~IndexRejects(req[w].slot)
          /\ Upsert(req[w].slot, req[w].qty)
          /\ Goto(w, "adjInsert")
          /\ UNCHANGED <<ledger, drift>>
       \/ IndexRejects(req[w].slot) /\ GiveUp(w)

AdjustInsert(w) ==
    /\ pc[w] = "adjInsert"
    /\ ledger' = Append(ledger, NewEntry("adjustment", req[w].slot, req[w].qty))
    /\ Finish(w)
    /\ UNCHANGED <<stock, rows, drift>>

-----------------------------------------------------------------------------
(* Reversal of an inbound or an outbound record: read it, mark it with a   *)
(* filter on ACTIVE, then move the stock back without looking at it.       *)

ReverseRead(w, d) ==
    /\ ledger[d].status = "ACTIVE"
    /\ \/ ledger[d].kind = "inbound" /\ "revIn" \in Ops
       \/ ledger[d].kind = "outbound" /\ "revOut" \in Ops
    /\ Start(w, "revMark", [slot |-> ledger[d].slot, qty |-> ledger[d].qty, doc |-> d])
    /\ UNCHANGED <<stock, rows, ledger, drift>>

MarkMatchesFault(d) == TRUE
MarkMatches(d) == ledger[d].status = "ACTIVE"

Marked(e) == [e EXCEPT !.status = "REVERSED"]

ReverseMark(w) ==
    /\ pc[w] = "revMark"
    /\ \/ /\ MarkMatches(req[w].doc)
          /\ ledger' = [ledger EXCEPT ![req[w].doc] = Marked(@)]
          /\ Goto(w, "revApply")
       \/ /\ ~MarkMatches(req[w].doc)
          /\ Finish(w)
          /\ UNCHANGED ledger
    /\ UNCHANGED <<stock, rows, drift>>

ReverseApplyFault(w) ==
    /\ pc[w] = "revApply"
    /\ \/ /\ stock[req[w].slot] > 0
          /\ Upsert(req[w].slot, UndoQty(ledger[req[w].doc]))
          /\ ledger' = [ledger EXCEPT ![req[w].doc].undone = @ + 1]
          /\ Finish(w)
          /\ UNCHANGED drift
       \/ stock[req[w].slot] <= 0 /\ GiveUp(w)
ReverseApply(w) ==
    /\ pc[w] = "revApply"
    /\ \/ /\ ~IndexRejects(req[w].slot)
          /\ Upsert(req[w].slot, UndoQty(ledger[req[w].doc]))
          /\ ledger' = [ledger EXCEPT ![req[w].doc].undone = @ + 1]
          /\ Finish(w)
          /\ UNCHANGED drift
       \/ IndexRejects(req[w].slot) /\ GiveUp(w)

-----------------------------------------------------------------------------
(* The process dies, or a database call fails, before the request ends.    *)
Abandon(w) ==
    /\ MayAbandon
    /\ pc[w] # "idle"
    /\ GiveUp(w)

Begin(w) ==
    \/ \E s \in Slots, q \in Qtys :
          \/ InboundInsert(w, s, q)
          \/ OutboundCheck(w, s, q)
          \/ AdjustCheck(w, s, q)
          \/ AdjustCheck(w, s, -q)
          \/ AdjustForce(w, s, -q)
    \/ \E d \in DOMAIN ledger : ReverseRead(w, d)

Continue(w) ==
    \/ InboundApply(w)
    \/ OutboundApply(w)
    \/ OutboundInsert(w)
    \/ AdjustApply(w)
    \/ AdjustInsert(w)
    \/ ReverseMark(w)
    \/ ReverseApply(w)

(* The bound is used up and every request has ended.                       *)
Drained ==
    /\ started = MaxRequests
    /\ \A w \in Workers : pc[w] = "idle"
    /\ UNCHANGED vars

Next ==
    \/ \E w \in Workers : Begin(w) \/ Continue(w) \/ Abandon(w)
    \/ Drained

Spec == Init /\ [][Next]_vars

(* A goroutine that was started runs: net/http handlers are scheduled by   *)
(* the Go runtime whatever the other requests do.                          *)
FairSpec == Spec /\ \A w \in Workers : WF_vars(Continue(w))

-----------------------------------------------------------------------------
(* Properties.                                                             *)

EffectOn(s, e) == IF e.slot = s THEN Effect(e) ELSE 0

Booked(s) == SumFunction([i \in DOMAIN ledger |-> EffectOn(s, ledger[i])])

PendingOn(s, w) == IF req[w].slot = s THEN Pending(w) ELSE 0

InFlight(s) == SumFunction([w \in Workers |-> PendingOn(s, w)])

(* Whatever the interleaving, the crashes and the rejected upserts, the    *)
(* stock quantity of a slot is what its active records add up to, plus the *)
(* half of the requests in flight that is ahead of its other half, plus    *)
(* what abandoned requests left behind.  No request moves stock or writes  *)
(* a record twice.                                                         *)
LedgerBalance == \A s \in Slots : stock[s] = Booked(s) + InFlight(s) + drift[s]

(* outbound/repository.go MarkReversed and its inbound twin: of all the    *)
(* requests that reverse one record, at most one is past the mark, and the *)
(* record's effect on the stock is given back at most once, and never      *)
(* before the record says REVERSED.                                        *)
ReversedOnce ==
    /\ \A d \in DOMAIN ledger :
          /\ ledger[d].undone <= 1
          /\ ledger[d].undone = 1 => ledger[d].status = "REVERSED"
    /\ \A w \in Workers : pc[w] = "revApply" =>
          /\ ledger[req[w].doc].status = "REVERSED"
          /\ ledger[req[w].doc].undone = 0
    /\ \A v, w \in Workers :
          v # w /\ pc[v] = "revApply" /\ pc[w] = "revApply" => req[v].doc # req[w].doc

(* Records are history: none disappears, none changes its slot, kind or    *)
(* quantity, and a REVERSED one never becomes ACTIVE again.                *)
RecordsKept ==
    [][ \A d \in DOMAIN ledger :
          /\ d \in DOMAIN ledger'
          /\ ledger'[d].kind = ledger[d].kind
          /\ ledger'[d].slot = ledger[d].slot
          /\ ledger'[d].qty = ledger[d].qty
          /\ ledger[d].status = "REVERSED" => ledger'[d].status = "REVERSED" ]_vars

(* What reversals of inbounds have taken out of slot s again.              *)
TakenBackOn(s, e) == IF e.slot = s /\ e.kind = "inbound" /\ e.undone > 0 THEN e.qty ELSE 0

TakenBack(s) == SumFunction([i \in DOMAIN ledger |-> TakenBackOn(s, ledger[i])])

(* ACCEPTANCE.md "Outbound rejects if quantity > available stock": stock   *)
(* that outbounds and guarded adjustments drain is never negative when     *)
(* they come one at a time.  Nothing ties the removal to the quantity that *)
(* was read, so concurrent requests can overdraw a slot, but all of them   *)
(* together by no more than what all but one of them may ask for; beyond   *)
(* that only the reversal of an inbound, which does not look at the stock  *)
(* at all, takes out what is not there.                                    *)
OverdraftBounded ==
    \A s \in Slots, q \in Qtys :
        (\A r \in Qtys : r <= q)
            => stock[s] + TakenBack(s) + (Cardinality(Workers) - 1) * q >= 0

(* A reversed record's stock is eventually moved back.                     *)
ReversalCompletes ==
    \A d \in 1..MaxRequests :
        (d \in DOMAIN ledger /\ ledger[d].status = "REVERSED")
            ~> (d \in DOMAIN ledger /\ ledger[d].undone = 1)

=============================================================================
