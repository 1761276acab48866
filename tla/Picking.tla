------------------------------ MODULE Picking -------------------------------
(***************************************************************************)
(* core/picking: the pick plan of an order, its tasks, and the scans that  *)
(* fill them.                                                              *)
(***************************************************************************)
EXTENDS OrderStore

-----------------------------------------------------------------------------
(* GeneratePlan: shortage check, plan, tasks.                              *)

NewTask(o, p) ==
    [order |-> o, slot |-> p.slot, planned |-> p.planned, picked |-> 0,
     state |-> "OPEN", events |-> 0, lost |-> 0, timely |-> FALSE]

(* n counts the shortages.                                                 *)
ShortageCheck(w) ==
    /\ At(w, "shortage")
    /\ LET short == loc[w].n + (IF Positive(TheItem(w).product) < TheItem(w).req THEN 1 ELSE 0)
       IN  CASE ~LastItem(w) -> Goto(w, "shortage", [loc[w] EXCEPT !.n = short, !.i = @ + 1])
             [] LastItem(w) /\ short = 0 -> Goto(w, "plan", [loc[w] EXCEPT !.i = 1])
             [] OTHER -> Finish(w)
    /\ UNCHANGED <<status, items, stock, resv, tasks, shipped, halted, peak>>

(* A failed stock read leaves the item without tasks, a failed lot read    *)
(* leaves that lot without an expiry; neither ends the request.            *)
SeenExpiry ==
    IF MayFail THEN {e \in [Slots -> {Expiry[s] : s \in Slots} \cup {NoExpiry}] :
                        \A s \in Slots : e[s] \in {Expiry[s], NoExpiry}}
    ELSE {Expiry}

ItemPlans(it) ==
    (UNION {Plans(RowsOf(it.product), it.req, stock, e) : e \in SeenExpiry})
        \cup (IF MayFail THEN {<<>>} ELSE {})

PlanItem(w) ==
    /\ At(w, "plan")
    /\ \E p \in ItemPlans(TheItem(w)) :
          LET l == [loc[w] EXCEPT !.plan = @ \o p] IN
          CASE ~LastItem(w) -> Goto(w, "plan", [l EXCEPT !.i = @ + 1])
            [] LastItem(w) /\ l.plan # <<>> -> Goto(w, "insertTasks", l)
            [] OTHER -> Finish(w)
    /\ UNCHANGED <<status, items, stock, resv, tasks, shipped, halted, peak>>

(* InsertMany writes its documents one after the other.                    *)
InsertTask(w) ==
    /\ At(w, "insertTasks")
    /\ tasks' = Append(tasks, NewTask(Me(w), Head(loc[w].plan)))
    /\ Goto(w, IF Len(loc[w].plan) = 1 THEN "startPick" ELSE "insertTasks",
            [loc[w] EXCEPT !.plan = Tail(@)])
    /\ UNCHANGED <<status, items, stock, resv, shipped, halted, peak>>

-----------------------------------------------------------------------------
(* CancelByOrder and AllDoneForOrder.                                      *)

CancelTasks(w) ==
    /\ At(w, "cancelTasks")
    /\ tasks' = [t \in DOMAIN tasks |->
                    IF tasks[t].order = Me(w) /\ Pickable(t)
                    THEN [tasks[t] EXCEPT !.state = "CANCELLED"] ELSE tasks[t]]
    /\ Goto(w, "release", loc[w])
    /\ UNCHANGED <<status, items, stock, resv, shipped, halted, peak>>

CountOpen(w) ==
    /\ At(w, "countOpen")
    /\ Goto(w, "countAll", [loc[w] EXCEPT !.n = NotDone(Me(w))])
    /\ UNCHANGED <<status, items, stock, resv, tasks, shipped, halted, peak>>

CountAll(w) ==
    /\ At(w, "countAll")
    /\ IF TasksOf(Me(w)) # {} /\ loc[w].n = 0 THEN Goto(w, "events", loc[w]) ELSE Finish(w)
    /\ UNCHANGED <<status, items, stock, resv, tasks, shipped, halted, peak>>

-----------------------------------------------------------------------------
(* Scan: add to the task under a filter, then write the event.             *)

ScanRead(w, t, q) ==
    /\ "scan" \in Ops
    /\ AddMatches(t, q)
    /\ Start(w, "addPicked", [NoLocals EXCEPT !.order = tasks[t].order, !.i = t, !.n = q])
    /\ UNCHANGED <<status, items, stock, resv, tasks, shipped, halted, peak>>

AddPicked(w) ==
    /\ At(w, "addPicked")
    /\ LET t == loc[w].i
           sum == tasks[t].picked + loc[w].n
       IN  \/ /\ AddMatches(t, loc[w].n)
              /\ tasks' = [tasks EXCEPT ![t].picked = sum,
                     ![t].state = IF sum = tasks[t].planned THEN "DONE" ELSE "IN_PROGRESS"]
              /\ Goto(w, "event", loc[w])
           \/ /\ ~AddMatches(t, loc[w].n)
              /\ Finish(w)
              /\ UNCHANGED tasks
    /\ UNCHANGED <<status, items, stock, resv, shipped, halted, peak>>

InsertEvent(w) ==
    /\ At(w, "event")
    /\ tasks' = [tasks EXCEPT ![loc[w].i].events = @ + loc[w].n]
    /\ Finish(w)
    /\ UNCHANGED <<status, items, stock, resv, shipped, halted, peak>>

=============================================================================
