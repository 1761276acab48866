----------------------------- MODULE MCTenancy ------------------------------
(* Small instances of Tenancy for TLC.                                    *)
EXTENDS Tenancy, TLC

CONSTANTS w1, w2, i1, i2

TwoWorkers == {w1, w2}
OneInstance == {i1}
TwoInstances == {i1, i2}
OneAtATime == {1}

TwoPlans == {"FREE", "PRO"}

SmallQuota == [p \in Plans |-> IF p = "FREE" THEN 1 ELSE 2]

Symmetry == Permutations(Workers) \cup Permutations(Instances)

=============================================================================
