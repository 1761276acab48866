------------------------------ MODULE FefoPlan ------------------------------
(***************************************************************************)
(* The pick plan of one order line (core/picking/service.go GeneratePlan): *)
(* the stock rows of the product are sorted first-expired-first-out and    *)
(* emptied greedily until the requested quantity is covered.               *)
(*                                                                         *)
(* qty[s] is the quantity and exp[s] the expiry of stock row s.  The sort  *)
(* is not stable, so rows that compare equal come in any order: a plan is  *)
(* a member of a set of plans.                                             *)
(***************************************************************************)
EXTENDS Integers, Sequences, SequencesExt

CONSTANT NoExpiry       \* the expiry of a lot without an expiry date (nil)

ASSUME NoExpiryAssumption == NoExpiry \notin Nat

(* The less function of the sort: earliest expiry first, no expiry last,   *)
(* equal expiries by falling quantity.                                     *)
ComesFirstFault(a, b, qty, exp) ==
    \/ exp[a] = exp[b] /\ qty[a] > qty[b]
    \/ exp[a] = NoExpiry /\ exp[b] # NoExpiry
    \/ exp[a] # NoExpiry /\ exp[b] # NoExpiry /\ exp[a] < exp[b]
ComesFirst(a, b, qty, exp) ==
    \/ exp[a] = exp[b] /\ qty[a] > qty[b]
    \/ exp[a] # NoExpiry /\ exp[b] = NoExpiry
    \/ exp[a] # NoExpiry /\ exp[b] # NoExpiry /\ exp[a] < exp[b]

(* Rows without positive stock are skipped.                                *)
Stocked(S, qty) == {s \in S : qty[s] > 0}

Sorted(S, qty, exp) ==
    {p \in SetToSeqs(S) :
        \A i, j \in DOMAIN p : i < j => ~ComesFirst(p[j], p[i], qty, exp)}

(* What the loop still has to find after the first i rows of p.            *)
Remaining(p, want, qty) ==
    LET r[i \in 0..Len(p)] ==
            IF i = 0 THEN want
            ELSE r[i-1] - (IF r[i-1] > qty[p[i]] THEN qty[p[i]] ELSE r[i-1])
    IN  r

(* The tasks the loop appends: one per visited row, until nothing remains. *)
Greedy(p, want, qty) ==
    LET r == Remaining(p, want, qty)
        visited == {i \in DOMAIN p : r[i-1] > 0}
    IN  [i \in visited |-> [slot |-> p[i], planned |-> r[i-1] - r[i]]]

Plans(S, want, qty, exp) ==
    {Greedy(p, want, qty) : p \in Sorted(Stocked(S, qty), qty, exp)}

-----------------------------------------------------------------------------
(* What a first-expired-first-out plan has to be.                          *)

Amounts(plan) == [i \in DOMAIN plan |-> plan[i].planned]

Taken(plan, s) == SumFunctionOnSet(Amounts(plan), {i \in DOMAIN plan : plan[i].slot = s})

Least(a, b) == IF a < b THEN a ELSE b

(* b expires later than a or never, or is the smaller of equal ones.       *)
Precedes(a, b, qty, exp) ==
    \/ exp[b] = NoExpiry /\ exp[a] # NoExpiry
    \/ exp[a] = exp[b] /\ qty[a] > qty[b]
    \/ exp[a] \in Nat /\ exp[b] \in Nat /\ exp[a] < exp[b]

(* It takes from no row more than it holds or nothing at all, visits no row*)
(* twice, covers the requested quantity whenever the positive stock does,  *)
(* and takes from a row only what no row before it can give.               *)
IsCorrect(plan, S, want, qty, exp) ==
    /\ \A i \in DOMAIN plan : plan[i].slot \in S /\ plan[i].planned \in 1..qty[plan[i].slot]
    /\ \A i, j \in DOMAIN plan : i # j => plan[i].slot # plan[j].slot
    /\ SumFunction(Amounts(plan)) = Least(want, SumFunctionOnSet(qty, Stocked(S, qty)))
    /\ \A a, b \in S : qty[a] > 0 /\ Precedes(a, b, qty, exp) /\ Taken(plan, b) > 0
                        => Taken(plan, a) = qty[a]

=============================================================================
