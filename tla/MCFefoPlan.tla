----------------------------- MODULE MCFefoPlan -----------------------------
(***************************************************************************)
(* Every stock situation of three rows with small quantities, negative     *)
(* ones included: one step computes a plan, the properties compare it with *)
(* what a first-expired-first-out plan has to be.                          *)
(***************************************************************************)
EXTENDS FefoPlan

CONSTANTS r1, r2, r3, MaxQty, MaxExpiry

VARIABLES qty, exp, want, plan

Rows == {r1, r2, r3}

NoPlan == <<[slot |-> r1, planned |-> 0]>>

Init ==
    /\ qty \in [Rows -> -1..MaxQty]
    /\ exp \in [Rows -> (1..MaxExpiry) \cup {NoExpiry}]
    /\ want \in 1..(2 * MaxQty)
    /\ plan = NoPlan

Compute ==
    /\ plan = NoPlan
    /\ plan' \in Plans(Rows, want, qty, exp)
    /\ UNCHANGED <<qty, exp, want>>

Computed ==
    /\ plan # NoPlan
    /\ UNCHANGED <<qty, exp, want, plan>>

Next == Compute \/ Computed

Spec == Init /\ [][Next]_<<qty, exp, want, plan>>

(* GeneratePlan's plans are what IsCorrect asks of a first-expired-first-out*)
(* plan ("FEFO - pick from lots with earliest expDate first",              *)
(* core/picking/service.go): nothing more is taken from a row than it      *)
(* holds, the requested quantity is covered whenever the positive stock    *)
(* covers it, and whatever a plan takes, no row that expires earlier, or   *)
(* that expires at all when the taken one does not, keeps stock; among     *)
(* equal expiries the fuller row is emptied first.                         *)
PlanIsCorrect == plan # NoPlan => IsCorrect(plan, Rows, want, qty, exp)

=============================================================================
