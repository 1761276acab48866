------------------------------ MODULE Ordering ------------------------------
(***************************************************************************)
(* core/order: the order document and its way from DRAFT to SHIPPED or     *)
(* CANCELLED.  Who is calling only matters for an early return of Cancel,  *)
(* so it is a free choice.                                                 *)
(***************************************************************************)
EXTENDS OrderStore

-----------------------------------------------------------------------------
(* Create and Update.                                                      *)

NewItems(c) ==
    [k \in DOMAIN c |->
        [product |-> c[k].product, req |-> c[k].req, reserved |-> 0, shipped |-> 0]]

Create(o, c) ==
    /\ status[o] = "NONE"
    /\ status' = [status EXCEPT ![o] = "DRAFT"]
    /\ items' = [items EXCEPT ![o] = NewItems(c)]
    /\ UNCHANGED <<stock, resv, tasks, shipped, halted, peak, pc, loc, started>>

(* A request without items keeps the ones that were read.                  *)
UpdateRead(w, o) ==
    /\ "update" \in Ops
    /\ status[o] = "DRAFT"
    /\ \E its \in {items[o]} \cup {NewItems(c) : c \in Carts} :
          Start(w, "replace", [Reading(o) EXCEPT !.items = its])
    /\ UNCHANGED <<status, items, stock, resv, tasks, shipped, halted, peak>>

(* ReplaceOne does not look at its match count.                            *)
Replace(w) ==
    /\ At(w, "replace")
    /\ items' = IF CasMatches(Me(w), "DRAFT")
                THEN [items EXCEPT ![Me(w)] = loc[w].items] ELSE items
    /\ Finish(w)
    /\ UNCHANGED <<status, stock, resv, tasks, shipped, halted, peak>>

-----------------------------------------------------------------------------
(* Confirm: one reservation per item, then DRAFT -> CONFIRMED.             *)

ConfirmRead(w, o) ==
    /\ "confirm" \in Ops
    /\ status[o] = "DRAFT"
    /\ Start(w, "physical", Reading(o))
    /\ UNCHANGED <<status, items, stock, resv, tasks, shipped, halted, peak>>

ConfirmCommit(w) ==
    /\ At(w, "confirm")
    /\ \/ /\ CasMatches(Me(w), "DRAFT")
          /\ status' = [status EXCEPT ![Me(w)] = "CONFIRMED"]
          /\ items' = [items EXCEPT ![Me(w)] = loc[w].items]
          /\ Finish(w)
       \/ /\ ~CasMatches(Me(w), "DRAFT")
          /\ Rollback(w)
          /\ UNCHANGED <<status, items>>
    /\ UNCHANGED <<stock, resv, tasks, shipped, halted, peak>>

-----------------------------------------------------------------------------
(* Cancel.                                                                 *)

CancelRead(w, o) ==
    /\ "cancel" \in Ops
    /\ status[o] \in {"DRAFT", "CONFIRMED", "PICKING"}
    /\ Start(w, "cancel", [NoLocals EXCEPT !.order = o, !.from = status[o]])
    /\ UNCHANGED <<status, items, stock, resv, tasks, shipped, halted, peak>>

(* What is left to do depends on the status that was read.                 *)
AfterCancelFault(from) ==
    CASE from = "PICKING" -> "cancelTasks"
      [] OTHER            -> "idle"
AfterCancel(from) ==
    CASE from = "PICKING"   -> "cancelTasks"
      [] from = "CONFIRMED" -> "release"
      [] OTHER              -> "idle"

CancelCommit(w) ==
    /\ At(w, "cancel")
    /\ \/ /\ CasMatches(Me(w), loc[w].from)
          /\ status' = [status EXCEPT ![Me(w)] = "CANCELLED"]
          /\ Goto(w, AfterCancel(loc[w].from), loc[w])
       \/ /\ ~CasMatches(Me(w), loc[w].from)
          /\ Finish(w)
          /\ UNCHANGED status
    /\ UNCHANGED <<items, stock, resv, tasks, shipped, halted, peak>>

-----------------------------------------------------------------------------
(* StartPick: CONFIRMED -> PICKING around the pick plan.                   *)

PickRead(w, o) ==
    /\ "pick" \in Ops
    /\ status[o] = "CONFIRMED"
    /\ Start(w, "shortage", Reading(o))
    /\ UNCHANGED <<status, items, stock, resv, tasks, shipped, halted, peak>>

PickCommit(w) ==
    /\ At(w, "startPick")
    /\ IF CasMatches(Me(w), "CONFIRMED")
       THEN /\ status' = [status EXCEPT ![Me(w)] = "PICKING"]
            /\ tasks' = [t \in DOMAIN tasks |->
                            IF tasks[t].order = Me(w) THEN [tasks[t] EXCEPT !.timely = TRUE]
                            ELSE tasks[t]]
       ELSE UNCHANGED <<status, tasks>>
    /\ Finish(w)
    /\ UNCHANGED <<items, stock, resv, shipped, halted, peak>>

-----------------------------------------------------------------------------
(* Ship: check the tasks, take the picked stock out, then SHIPPED.         *)

ShipRead(w, o) ==
    /\ "ship" \in Ops
    /\ status[o] = "PICKING"
    /\ Start(w, "countOpen", Reading(o))
    /\ UNCHANGED <<status, items, stock, resv, tasks, shipped, halted, peak>>

(* Every line of a product gets the product's total.                       *)
WithShipped(its, picks) ==
    LET total(p) == SumFunctionOnSet(picks, RowsOf(p)) IN
    [k \in DOMAIN its |->
        IF total(its[k].product) > 0
        THEN [its[k] EXCEPT !.shipped = total(its[k].product)] ELSE its[k]]

NextRowFault(picks) == "shipRelease"
NextRow(picks) == IF \E s \in Slots : picks[s] > 0 THEN "removeCheck" ELSE "shipRelease"

AggregatedFault(o) ==
    [s \in Slots |-> SumFunctionOnSet([t \in DOMAIN tasks |-> tasks[t].planned],
                                      {t \in TasksOf(o) : tasks[t].slot = s})]
Aggregated(o) == [s \in Slots |-> EventsAt(o, s)]

ReadEvents(w) ==
    /\ At(w, "events")
    /\ LET picks == Aggregated(Me(w)) IN
       Goto(w, NextRow(picks), [loc[w] EXCEPT !.picks = picks,
                                              !.items = WithShipped(@, picks)])
    /\ UNCHANGED <<status, items, stock, resv, tasks, shipped, halted, peak>>

(* The keys of a Go map come in any order.                                 *)
RemoveCheck(w) ==
    /\ At(w, "removeCheck")
    /\ \E s \in Slots :
          /\ loc[w].picks[s] > 0
          /\ IF stock[s] < loc[w].picks[s] THEN Finish(w) /\ Halts(w)
             ELSE Goto(w, "remove", [loc[w] EXCEPT !.slot = s]) /\ UNCHANGED halted
    /\ UNCHANGED <<status, items, stock, resv, tasks, shipped, peak>>

TakeOut(w) ==
    /\ At(w, "remove")
    /\ stock' = [stock EXCEPT ![loc[w].slot] = @ - loc[w].picks[loc[w].slot]]
    /\ Goto(w, "outbound", loc[w])
    /\ UNCHANGED <<status, items, resv, tasks, shipped, halted, peak>>

Outbound(w) ==
    /\ At(w, "outbound")
    /\ LET s == loc[w].slot
           l == [loc[w] EXCEPT !.picks[s] = 0]
       IN  /\ shipped' = [shipped EXCEPT ![Me(w)][s] = @ + loc[w].picks[s]]
           /\ Goto(w, NextRow(l.picks), l)
    /\ UNCHANGED <<status, items, stock, resv, tasks, halted, peak>>

ShipRelease(w) ==
    /\ At(w, "shipRelease")
    /\ ReleaseByOrder(Me(w))
    /\ Goto(w, "ship", loc[w])
    /\ UNCHANGED <<status, items, stock, tasks, shipped, halted, peak>>

ShipCommit(w) ==
    /\ At(w, "ship")
    /\ IF CasMatches(Me(w), "PICKING")
       THEN /\ status' = [status EXCEPT ![Me(w)] = "SHIPPED"]
            /\ items' = [items EXCEPT ![Me(w)] = loc[w].items]
       ELSE UNCHANGED <<status, items>>
    /\ Finish(w)
    /\ UNCHANGED <<stock, resv, tasks, shipped, halted, peak>>

=============================================================================
