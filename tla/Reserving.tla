----------------------------- MODULE Reserving ------------------------------
(***************************************************************************)
(* core/reservation: Reserve for the current item of a Confirm, the release*)
(* of an order's reservations, and the release of one of them by hand.     *)
(***************************************************************************)
EXTENDS OrderStore

ReservePhysical(w) ==
    /\ At(w, "physical")
    /\ Goto(w, "sumActive", [loc[w] EXCEPT !.n = Physical(TheItem(w).product)])
    /\ UNCHANGED <<status, items, stock, resv, tasks, shipped, halted, peak>>

AvailableFault(physical, reserved) == physical
Available(physical, reserved) == physical - reserved

ReserveSum(w) ==
    /\ At(w, "sumActive")
    /\ IF Available(loc[w].n, Active(TheItem(w).product)) < TheItem(w).req
       THEN Rollback(w)
       ELSE Goto(w, "reserve", loc[w])
    /\ UNCHANGED <<status, items, stock, resv, tasks, shipped, halted, peak>>

ReserveInsert(w) ==
    /\ At(w, "reserve")
    /\ resv' = Append(resv, [order |-> Me(w), product |-> TheItem(w).product,
                             qty |-> TheItem(w).req, active |-> TRUE, byHand |-> FALSE])
    /\ LET l == [loc[w] EXCEPT !.items[loc[w].i].reserved = TheItem(w).req] IN
       IF LastItem(w) THEN Goto(w, "confirm", l)
       ELSE Goto(w, "physical", [l EXCEPT !.i = @ + 1])
    /\ UNCHANGED <<status, items, stock, tasks, shipped, halted, peak>>

(* The rollback of Confirm and the last step of Cancel.                    *)
ReleaseAll(w) ==
    /\ At(w, "release")
    /\ ReleaseByOrder(Me(w))
    /\ Finish(w)
    /\ UNCHANGED <<status, items, stock, tasks, shipped, halted, peak>>

ReleaseOne(w, r) ==
    /\ "release" \in Ops
    /\ resv[r].active
    /\ Release({r}, TRUE)
    /\ Once(w)
    /\ UNCHANGED <<status, items, stock, tasks, shipped, halted, peak>>

=============================================================================
